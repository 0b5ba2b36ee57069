---------------------------- MODULE CooperativeReplay ----------------------------
(***************************************************************************)
(* How the MLB daily lock replays a past slate without disturbing today's. *)
(*                                                                         *)
(* Callers ask the Lambda to replay a historical slate.  Such a call never *)
(* takes the execution lease: it reads and conditionally writes the one    *)
(* coordination row (queued, claimed, completed, acknowledged, or waiting  *)
(* for review).  Every minute EventBridge starts an invocation; the one    *)
(* that takes the execution lease first serves the current slate and then, *)
(* if it has time left, claims the request, settles or verifies one game,  *)
(* checkpoints and gives the claim back.  If the current slate took too    *)
(* long it leaves a proof on the row, and the next owner may start from    *)
(* the proof instead of serving the current slate again.                   *)
(*                                                                         *)
(* A step is one access to a table, or minutes of work.  Time is kept in   *)
(* timers that Tick runs down, so that it has no horizon.  An invocation   *)
(* dies by Crash or when its Lambda timeout is up, and nobody has its      *)
(* request id again: rows it leaves behind then belong to NoWorker.        *)
(***************************************************************************)
EXTENDS Integers, Sequences

CONSTANTS
    Workers,      \* Lambda invocations on the schedule or by hand
    Callers,      \* callers of the replay route
    Slates,       \* historical slate dates
    Incident,     \* the slate whose review may be lifted once
    Games,        \* number of games of a slate
    Timeout,      \* Lambda timeout
    Margin,       \* what leases add to it
    MinRemaining, \* COOPERATIVE_REPLAY_MIN_REMAINING_SECONDS
    ProofMaxAge,  \* COOPERATIVE_CURRENT_SLATE_PROOF_MAX_AGE_SECONDS
    MaxRequests,  \* bound on the requests
    NoWorker, NoSlate

\* The numbers of the deployment (900, 60, 660 and 180 seconds).
ASSUME TimesAssumption ==
    /\ Timeout \in Nat /\ Margin \in Nat \ {0} /\ ProofMaxAge \in Nat
    /\ MinRemaining \in 1..Timeout
    /\ ProofMaxAge < MinRemaining + Margin
ASSUME GamesAssumption == Games \in Nat \ {0} /\ MaxRequests \in Nat
ASSUME NoneAssumption == NoWorker \notin Workers /\ NoSlate \notin Slates

VARIABLES
    lease,     \* the execution lease: its owner and the time it has left
    row,       \* the coordination row
    outcome,   \* the terminal outcome of each game of each slate
    worker,    \* the invocations
    caller,    \* the calls of the replay route
    unspent,   \* a current slate was served since the last claim
    receipts,  \* the receipts ever stored
    acked,     \* the requests ever acknowledged
    told,      \* the requests some caller was told are acknowledged
    lifted     \* how often a review was lifted

history == <<unspent, receipts, acked, told, lifted>>

vars == <<lease, row, outcome, worker, caller, history>>

LeaseTerm == Timeout + Margin

NoLease == [owner |-> NoWorker, left |-> 0]

\* found: the outcomes of the games processed so far; verified: how many of
\* them were compared with the table again.
Start0 == [found |-> <<>>, verified |-> 0]

\* An age beyond the maximum stands for a stale proof and for none.
Stale == ProofMaxAge + 1

\* req counts the requests; marked: the one lifted review is used up; past: the
\* row carries the compact history of the incident's completed retry.
NoRow == [state |-> "NONE", slate |-> NoSlate, req |-> 0, progress |-> Start0,
          owner |-> NoWorker, left |-> 0, proof |-> Stale, marked |-> FALSE,
          past |-> FALSE]

\* left: until the Lambda timeout; req: the request it read; was, now: the
\* checkpoint it claimed and the one it will write; value: the outcome to write.
Idle == [pc |-> "idle", left |-> 0, req |-> 0, carried |-> FALSE,
         was |-> Start0, next |-> Start0, value |-> "none"]

Quiet == [pc |-> "idle", slate |-> NoSlate, req |-> 0]

Init ==
    /\ lease = NoLease
    /\ row = NoRow
    /\ outcome \in [Slates -> [1..Games -> {"none", "CANONICAL"}]]
    /\ worker = [w \in Workers |-> Idle]
    /\ caller = [c \in Callers |-> Quiet]
    /\ unspent = FALSE /\ receipts = {} /\ acked = {} /\ told = {} /\ lifted = 0

(***************************************************************************)
(* The replay route.  A conditional write may commit and its answer be     *)
(* lost, or fail for another reason; a strong read then decides.           *)
(***************************************************************************)

Calling(c, place) == caller[c].pc = place

Hangs(c) == caller' = [caller EXCEPT ![c] = Quiet]

GoesOn(c, place, slate, req) ==
    caller' = [caller EXCEPT ![c] = [pc |-> place, slate |-> slate, req |-> req]]

\* The completed retry of the incident answers for its slate from then on.
AnsweredFromHistory(slate) == row.past /\ slate = Incident

\* Plausible bugs: a completed request gives way before anybody has seen its
\* receipt, or any request does.
Replaceable_Completed == row.state \in {"ACKNOWLEDGED", "COMPLETED"}

Replaceable == row.state = "ACKNOWLEDGED"

\* _enqueue_or_read_cooperative_replay, the first read.
AskReplay(c) ==
    /\ Calling(c, "idle")
    /\ \E s \in Slates :
          \/ /\ row.state = "NONE"
             /\ GoesOn(c, "put", s, 0)
          \/ /\ row.state # "NONE" /\ ~AnsweredFromHistory(s)
             /\ IF row.slate = s
                THEN row.state = "COMPLETED" /\ GoesOn(c, "acknowledge", s, row.req)
                ELSE Replaceable /\ GoesOn(c, "put", s, row.req)
    /\ UNCHANGED <<lease, row, outcome, worker, history>>

\* _acknowledge_cooperative_replay, the first read.
AskAcknowledge(c) ==
    /\ Calling(c, "idle")
    /\ row.state = "COMPLETED"
    /\ GoesOn(c, "acknowledge", row.slate, row.req)
    /\ UNCHANGED <<lease, row, outcome, worker, history>>

\* A plausible bug: the next request forgets the incident's retry.
Carried_Dropped == FALSE

\* _source_pull_rebind_history_for_replacement
Carried == row.past \/ row.marked

QueuedRow(s) ==
    [NoRow EXCEPT !.state = "QUEUED", !.slate = s, !.req = row.req + 1, !.past = Carried]

MayPut(c) ==
    IF caller[c].req = 0 THEN row.state = "NONE"
    ELSE row.req = caller[c].req /\ Replaceable

PutRequest(c) ==
    /\ Calling(c, "put")
    /\ \/ /\ MayPut(c) /\ row.req < MaxRequests
          /\ row' = QueuedRow(caller[c].slate)
          /\ Hangs(c) \/ GoesOn(c, "recheck", caller[c].slate, row.req + 1)
       \/ Hangs(c) /\ UNCHANGED row
    /\ UNCHANGED <<lease, outcome, worker, history>>

\* After a lost answer only the caller's own request is accepted, and its
\* receipt, if it is complete already, acknowledged.
RecheckRequest(c) ==
    /\ Calling(c, "recheck")
    /\ IF row.req = caller[c].req /\ row.state = "COMPLETED"
       THEN GoesOn(c, "acknowledge", caller[c].slate, caller[c].req) ELSE Hangs(c)
    /\ UNCHANGED <<lease, row, outcome, worker, history>>

Acknowledge(c) ==
    /\ Calling(c, "acknowledge")
    /\ \/ /\ row.req = caller[c].req /\ row.state = "COMPLETED"
          /\ row' = [row EXCEPT !.state = "ACKNOWLEDGED"]
          /\ acked' = acked \cup {row.req}
          /\ \/ Hangs(c) /\ told' = told \cup {row.req}
             \/ GoesOn(c, "confirm", caller[c].slate, caller[c].req) /\ UNCHANGED told
       \/ /\ GoesOn(c, "confirm", caller[c].slate, caller[c].req)
          /\ UNCHANGED <<row, acked, told>>
    /\ UNCHANGED <<lease, outcome, worker, unspent, receipts, lifted>>

\* A plausible bug: the request is recognised, its state is not looked at.
Confirmed_AnyState(c) ==
    row.slate = caller[c].slate => row.req = caller[c].req

\* Another slate in the row proves that this request was acknowledged first.
Confirmed(c) ==
    row.slate = caller[c].slate => row.state = "ACKNOWLEDGED" /\ row.req = caller[c].req

Confirm(c) ==
    /\ Calling(c, "confirm")
    /\ told' = IF Confirmed(c) THEN told \cup {caller[c].req} ELSE told
    /\ Hangs(c)
    /\ UNCHANGED <<lease, row, outcome, worker, unspent, receipts, acked, lifted>>

\* _requeue_source_pull_proof_review_after_rebind: one incident, one retry.  Its
\* read and its conditional write see the same review, which nothing else ends.
LiftReview ==
    /\ row.state = "REVIEW_REQUIRED" /\ row.slate = Incident
    /\ ~row.marked /\ ~row.past
    /\ row' = [row EXCEPT !.state = "QUEUED", !.marked = TRUE]
    /\ lifted' = lifted + 1
    /\ UNCHANGED <<lease, outcome, worker, caller, unspent, receipts, acked, told>>

CallerStep(c) ==
    \/ AskReplay(c) \/ AskAcknowledge(c) \/ PutRequest(c) \/ RecheckRequest(c)
    \/ Acknowledge(c) \/ Confirm(c)

(***************************************************************************)
(* lambda_handler on the schedule: lease, current slate, claim.            *)
(***************************************************************************)

At(w, place) == worker[w].pc = place

Goes(w, place) == worker' = [worker EXCEPT ![w] = [@ EXCEPT !.pc = place]]

\* A plausible bug: the lease is rounded down below the Lambda timeout.
Granted_Short == Timeout

Granted == LeaseTerm

\* _acquire_execution_lease; an invocation that meets a live lease skips.  One
\* started by hand serves the current slate and never claims.
StartOwner(w) ==
    /\ At(w, "idle")
    /\ lease.left = 0
    /\ lease' = [owner |-> w, left |-> Granted]
    /\ \E place \in {"early", "manual"} :
          worker' = [worker EXCEPT ![w] = [Idle EXCEPT !.pc = place, !.left = Timeout]]
    /\ UNCHANGED <<row, outcome, caller, history>>

Pending == row.state = "QUEUED" \/ (row.state = "CLAIMED" /\ row.left = 0)

HasTime(w) == worker[w].left >= MinRemaining

\* The first claim needs a fresh proof of this request.
LookEarly(w) ==
    /\ At(w, "early")
    /\ IF HasTime(w) /\ Pending /\ row.proof <= ProofMaxAge
       THEN worker' = [worker EXCEPT ![w] =
               [@ EXCEPT !.pc = "claim", !.req = row.req, !.carried = TRUE]]
       ELSE Goes(w, "current")
    /\ UNCHANGED <<lease, row, outcome, caller, history>>

\* The current slate, or an exception out of it.
ServeCurrent(w) ==
    /\ At(w, "current")
    /\ \/ Goes(w, "late") /\ unspent' = TRUE
       \/ Goes(w, "release") /\ UNCHANGED unspent
    /\ UNCHANGED <<lease, row, outcome, caller, receipts, acked, told, lifted>>

ServeManually(w) ==
    /\ At(w, "manual")
    /\ Goes(w, "release")
    /\ UNCHANGED <<lease, row, outcome, caller, history>>

LookLate(w) ==
    /\ At(w, "late")
    /\ worker' = [worker EXCEPT ![w] =
          [@ EXCEPT !.req = row.req, !.carried = FALSE,
                    !.pc = IF ~Pending THEN "release"
                           ELSE IF HasTime(w) THEN "claim" ELSE "prove"]]
    /\ UNCHANGED <<lease, row, outcome, caller, history>>

\* _persist_current_slate_success_proof
PersistProof(w) ==
    /\ At(w, "prove")
    /\ row' = IF row.req = worker[w].req /\ Pending THEN [row EXCEPT !.proof = 0] ELSE row
    /\ Goes(w, "release")
    /\ UNCHANGED <<lease, outcome, caller, history>>

\* The claim lives as long as the Lambda and the margin.  When its answer is
\* lost nobody works on it until it expires.
Claim(w) ==
    /\ At(w, "claim")
    /\ IF row.req = worker[w].req /\ Pending
       THEN /\ row' = [row EXCEPT !.state = "CLAIMED", !.owner = w,
                                  !.left = worker[w].left + Margin]
            /\ unspent' = FALSE
            /\ \/ worker' = [worker EXCEPT ![w] =
                     [@ EXCEPT !.pc = "chunk", !.was = row.progress, !.next = row.progress]]
               \/ Goes(w, "release")
       ELSE /\ Goes(w, IF worker[w].carried THEN "current" ELSE "release")
            /\ UNCHANGED <<row, unspent>>
    /\ UNCHANGED <<lease, outcome, caller, receipts, acked, told, lifted>>

(***************************************************************************)
(* run_cooperative_terminal_chunk: one game.                               *)
(***************************************************************************)

OfSlate(g) == outcome[row.slate][g]

Processed(p) == Len(p.found) = Games

Advance(w, progress) ==
    worker' = [worker EXCEPT ![w] = [@ EXCEPT !.pc = "save", !.next = progress, !.value = "none"]]

\* Time, the writer lease or a transient error: nothing changes.
ChunkDeferred(w) ==
    /\ At(w, "chunk") \/ At(w, "write")
    /\ Goes(w, "requeue")
    /\ UNCHANGED <<lease, row, outcome, caller, history>>

\* Evidence that can never be processed.
ChunkRefused(w) ==
    /\ At(w, "chunk")
    /\ ~Processed(worker[w].was)
    /\ Goes(w, "review")
    /\ UNCHANGED <<lease, row, outcome, caller, history>>

\* A plausible bug: an outcome that is there is not seen.
Absent_Ignored(slate, game) == TRUE

Absent(slate, game) == outcome[slate][game] = "none"

\* PROCESS: a durable outcome is adopted; otherwise the absence of a pick, or
\* of more than a quarantined one, is proven and written.
ProcessGame(w) ==
    /\ At(w, "chunk")
    /\ ~Processed(worker[w].was)
    /\ LET was == worker[w].was
           game == Len(was.found) + 1
       IN  IF Absent(row.slate, game)
           THEN \E v \in {"NO_PREDICTION", "QUARANTINE"} :
                   worker' = [worker EXCEPT ![w] = [@ EXCEPT !.pc = "write", !.value = v]]
           ELSE Advance(w, [was EXCEPT !.found = Append(was.found, OfSlate(game))])
    /\ UNCHANGED <<lease, row, outcome, caller, history>>

\* Write once, then read back: a different outcome is an error.
WriteOutcome(w) ==
    /\ At(w, "write")
    /\ LET was == worker[w].was
           game == Len(was.found) + 1
       IN  IF Absent(row.slate, game)
           THEN /\ outcome' = [outcome EXCEPT ![row.slate][game] = worker[w].value]
                /\ Advance(w, [was EXCEPT !.found = Append(was.found, worker[w].value)])
           ELSE Goes(w, "requeue") /\ UNCHANGED outcome
    /\ UNCHANGED <<lease, row, caller, history>>

\* VERIFY: the table still says what the checkpoint says.
VerifyGame(w) ==
    /\ At(w, "chunk")
    /\ Processed(worker[w].was) /\ worker[w].was.verified < Games
    /\ LET was == worker[w].was
           game == was.verified + 1
       IN  IF OfSlate(game) = was.found[game]
           THEN Advance(w, [was EXCEPT !.verified = game]) ELSE Goes(w, "review")
    /\ UNCHANGED <<lease, row, outcome, caller, history>>

Complete(p) == Processed(p) /\ p.verified = Games

\* ATOMIC_COMPLETION_PROOF
ProveComplete(w) ==
    /\ At(w, "chunk")
    /\ Complete(worker[w].was)
    /\ Goes(w, IF \A g \in 1..Games : OfSlate(g) = worker[w].was.found[g]
               THEN "complete" ELSE "review")
    /\ UNCHANGED <<lease, row, outcome, caller, history>>

(***************************************************************************)
(* The end of a claim.                                                     *)
(***************************************************************************)

Owns(w) == row.state = "CLAIMED" /\ row.req = worker[w].req /\ row.owner = w

\* Plausible bugs: the proof or the expiry of the claim is left behind.
Given_ProofKept(state) ==
    [row EXCEPT !.state = state, !.owner = NoWorker, !.left = 0]

Given_ExpiryKept(state) ==
    [row EXCEPT !.state = state, !.owner = NoWorker, !.proof = Stale]

Given(state) ==
    [row EXCEPT !.state = state, !.owner = NoWorker, !.left = 0, !.proof = Stale]

\* _checkpoint_cooperative_replay.  A lost answer is recognised by a strong
\* read; any other failure ends in a requeue.
SaveCheckpoint(w) ==
    /\ At(w, "save")
    /\ \/ /\ Owns(w) /\ row.progress = worker[w].was
          /\ row' = [Given("QUEUED") EXCEPT !.progress = worker[w].next]
          /\ Goes(w, "release")
       \/ Goes(w, "requeue") /\ UNCHANGED row
    /\ UNCHANGED <<lease, outcome, caller, history>>

SaveReview(w) ==
    /\ At(w, "review")
    /\ \/ /\ Owns(w) /\ row.progress = worker[w].was
          /\ row' = Given("REVIEW_REQUIRED")
          /\ Goes(w, "release")
       \/ Goes(w, "requeue") /\ UNCHANGED row
    /\ UNCHANGED <<lease, outcome, caller, history>>

\* _complete_cooperative_replay
SaveComplete(w) ==
    /\ At(w, "complete")
    /\ \/ /\ Owns(w) /\ row.progress = worker[w].was
          /\ row' = Given("COMPLETED")
          /\ receipts' = receipts \cup {[slate |-> row.slate, found |-> row.progress.found]}
          /\ Goes(w, "release")
       \/ Goes(w, "requeue") /\ UNCHANGED <<row, receipts>>
    /\ UNCHANGED <<lease, outcome, caller, unspent, acked, told, lifted>>

\* _requeue_cooperative_replay, the best effort of a failing invocation.
Requeue(w) ==
    /\ At(w, "requeue")
    /\ row' = IF Owns(w) THEN Given("QUEUED") ELSE row
    /\ Goes(w, "release")
    /\ UNCHANGED <<lease, outcome, caller, history>>

\* An invocation that is gone owns nothing by name any more.
Forgotten(item, w) == IF item.owner = w THEN [item EXCEPT !.owner = NoWorker] ELSE item

\* _release_execution_lease
Release(w) ==
    /\ At(w, "release")
    /\ lease' = IF lease.owner = w THEN NoLease ELSE lease
    /\ row' = Forgotten(row, w)
    /\ worker' = [worker EXCEPT ![w] = Idle]
    /\ UNCHANGED <<outcome, caller, history>>

\* A crash, an exception out of a read or a failed release: what is left waits
\* for its timer.
Crash(w) ==
    /\ ~At(w, "idle")
    /\ lease' = Forgotten(lease, w)
    /\ row' = Forgotten(row, w)
    /\ worker' = [worker EXCEPT ![w] = Idle]
    /\ UNCHANGED <<outcome, caller, history>>

(***************************************************************************)
(* Time: timers run down, proofs age, and AWS kills whoever is out of time. *)
(***************************************************************************)

Less(left) == IF left = 0 THEN 0 ELSE left - 1

Killed == {w \in Workers : ~At(w, "idle") /\ worker[w].left = 0}

Orphaned(item) == IF item.owner \in Killed THEN [item EXCEPT !.owner = NoWorker] ELSE item

Tick ==
    /\ lease' = [Orphaned(lease) EXCEPT !.left = Less(lease.left)]
    /\ row' = [Orphaned(row) EXCEPT !.left = Less(row.left),
                                    !.proof = IF @ < Stale THEN @ + 1 ELSE @]
    /\ worker' = [w \in Workers |->
                    IF w \in Killed THEN Idle
                    ELSE [worker[w] EXCEPT !.left = Less(worker[w].left)]]
    /\ UNCHANGED <<outcome, caller, history>>

WorkerStep(w) ==
    \/ StartOwner(w) \/ LookEarly(w) \/ ServeCurrent(w) \/ ServeManually(w)
    \/ LookLate(w) \/ PersistProof(w) \/ Claim(w)
    \/ ChunkDeferred(w) \/ ChunkRefused(w) \/ ProcessGame(w) \/ WriteOutcome(w)
    \/ VerifyGame(w) \/ ProveComplete(w)
    \/ SaveCheckpoint(w) \/ SaveReview(w) \/ SaveComplete(w) \/ Requeue(w)
    \/ Release(w)

Next ==
    \/ Tick
    \/ \E c \in Callers : CallerStep(c)
    \/ LiftReview
    \/ \E w \in Workers : WorkerStep(w) \/ Crash(w)

Spec == Init /\ [][Next]_vars

(***************************************************************************)
(* Properties                                                              *)
(***************************************************************************)

Working == {"chunk", "write", "save", "review", "complete", "requeue"}

Places == Working \cup {"idle", "early", "manual", "current", "late", "prove",
                        "claim", "release"}

Terminals == {"CANONICAL", "NO_PREDICTION", "QUARANTINE"}

Found == UNION {[1..n -> Terminals] : n \in 0..Games}

Progress == [found : Found, verified : 0..Games]

LeaseType == [owner : Workers \cup {NoWorker}, left : Nat]

RowType ==
    [state : {"NONE", "QUEUED", "CLAIMED", "COMPLETED", "ACKNOWLEDGED", "REVIEW_REQUIRED"},
     slate : Slates \cup {NoSlate}, req : Nat, progress : Progress,
     owner : Workers \cup {NoWorker}, left : Nat, proof : 0..Stale,
     marked : BOOLEAN, past : BOOLEAN]

WorkerType ==
    [pc : Places, left : Nat, req : Nat, carried : BOOLEAN,
     was : Progress, next : Progress, value : Terminals \cup {"none"}]

CallerType ==
    [pc : {"idle", "put", "recheck", "acknowledge", "confirm"},
     slate : Slates \cup {NoSlate}, req : Nat]

\* Every variable has its type, a row without a claim has no owner and no
\* expiry, and no game counts as verified before all are processed.
TypeOK ==
    /\ lease \in LeaseType /\ row \in RowType
    /\ row.state # "NONE" => row.slate \in Slates /\ row.req > 0
    /\ row.state # "CLAIMED" => row.owner = NoWorker /\ row.left = 0
    /\ row.progress.verified > 0 => Processed(row.progress)
    /\ outcome \in [Slates -> [1..Games -> Terminals \cup {"none"}]]
    /\ worker \in [Workers -> WorkerType] /\ caller \in [Callers -> CallerType]
    /\ unspent \in BOOLEAN /\ acked \subseteq Nat /\ told \subseteq Nat /\ lifted \in Nat
    /\ receipts \subseteq [slate : Slates, found : Found]

\* The lease and the claims expire only after their owner is dead, so at most
\* one invocation works on the replay and the row is its own.
OneReplayAtATime ==
    \A w \in Workers : worker[w].pc \in Working =>
        /\ lease.owner = w
        /\ \A v \in Workers : worker[v].pc \in Working => v = w
        /\ row.req = worker[w].req /\ row.state = "CLAIMED" => row.owner = w

\* The single slot is given to another request only after the one in it was
\* acknowledged: no accepted replay is lost, whatever answers are.
NoRequestLost == \A r \in 1..(row.req - 1) : r \in acked

\* Who is told that a completion is acknowledged is told the truth, also when
\* the answer was lost and the slot has moved on ("a valid replacement
\* therefore proves this acknowledgement committed").
AcknowledgementsAreTrue == told \subseteq acked

\* A receipt is stored only for work done, and stays true: each game it names
\* has that durable outcome, after every crash, retry and later replay.
ReceiptsStayTrue ==
    \A x \in receipts : \A g \in 1..Games :
        g \in DOMAIN x.found /\ outcome[x.slate][g] = x.found[g]

\* Today comes first: between two claims the current slate was served, so a
\* proof carries one success across exactly one handoff.
CurrentSlateFirst ==
    [][\A w \in Workers :
         row'.owner = w /\ row.owner # w => unspent]_vars

\* The incident's review is lifted once, whatever is requested after it.
ReviewLiftedOnce == lifted <= 1
=================================================================================
