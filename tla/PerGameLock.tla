------------------------------ MODULE PerGameLock ------------------------------
(***************************************************************************)
(* How the MLB lock decides each game at its own T-45.                     *)
(*                                                                         *)
(* The predictor keeps writing predictions of a game; each acknowledged    *)
(* one is followed by an immutable snapshot, which may land late or never. *)
(* Pulls of the odds provider arrive and are stored on their own, possibly *)
(* after the cutoff they precede.  Every minute (or by hand) a lock run    *)
(* takes the execution lease and, for each game whose cutoff has passed    *)
(* and which has not started, promotes the last snapshot: a stage, then    *)
(* the canonical row, each written once.  A game without any snapshot gets *)
(* the outcome NO_PREDICTION.  When every game of the manifest is          *)
(* canonical, one daily card indexes them; after the last start a marker   *)
(* records the terminal counts.  The repair of missed games runs after the *)
(* lease was given back, possibly beside the next run.                     *)
(*                                                                         *)
(* A step is one read or one conditional write; a run may stall between    *)
(* any two.  The execution lease outlives the Lambda (960 against 900      *)
(* seconds), so a run that is gone is the only one to lose it.             *)
(*                                                                         *)
(* The deployed handler holds a lease of its own around the whole call     *)
(* (CooperativeReplay has it).  It is not assumed here: this is what       *)
(* run_lock guarantees to any caller.                                      *)
(***************************************************************************)
EXTENDS Integers, Sequences, FiniteSets, FiniteSetsExt

CONSTANTS
    Runs,           \* invocations of run_lock
    Games,          \* numbers of the games, in the order of the manifest
    Cutoff, Start,  \* T-45 and first pitch of each game
    Opens,          \* when the scheduled lifecycle begins
    Rosters,        \* the full slates the provider may report
    MaxTries,       \* attempts to close the source window of a game
    MaxTime, MaxPulls, MaxPredictions, MaxFeed, MaxBegins, MaxFaults, \* bounds
    NoRun

ASSUME GamesAssumption ==
    /\ Games \subseteq Nat \ {0} /\ IsFiniteSet(Games)
    /\ Cutoff \in [Games -> Nat] /\ Start \in [Games -> Nat]
    /\ \A g \in Games : Cutoff[g] < Start[g]
ASSUME RostersAssumption ==
    /\ Rosters \subseteq (SUBSET Games) \ {{}}
    /\ \A R, S \in Rosters : R \subseteq S \/ S \subseteq R
ASSUME BoundsAssumption ==
    Opens \in Nat /\ MaxTries \in Nat \ {0}
    /\ MaxTime \in Nat /\ MaxPulls \in Nat \ {0, 1} /\ MaxPredictions \in Nat
    /\ MaxFeed \in Nat /\ MaxBegins \in Nat /\ MaxFaults \in Nat
ASSUME NoRunAssumption == NoRun \notin Runs

VARIABLES
    now,
    pulls,       \* the provider's answers: when, which roster, whether stored
    predictions, \* acknowledged predictions, in that order, and their snapshots
    stage,       \* the immutable stage of each game
    canonical,   \* the prediction in its canonical row
    outcome,     \* whether it has the outcome NO_PREDICTION
    card,        \* the daily card
    markers,     \* the post-window reconciliation markers
    lease,       \* who holds the execution lease
    run,         \* the runs
    begun,       \* how many have begun
    faults       \* how often a write failed, or its answer was lost, or a run died

vars == <<now, pulls, predictions, stage, canonical, outcome, card, markers, lease, run,
          begun, faults>>

NoStage == [prediction |-> 0, window |-> {}, manifest |-> {}]

\* The prediction of each game.
NoCard == [g \in {} |-> 0]

\* protected: the forced and scheduled reconciliation; view: the pulls it has read;
\* todo: the games it still has to process, the one in hand included; item: the
\* stage generated for it; left: the attempts it has left; missed: its answer
\* reports games the repair may take up.
Idle == [pc |-> "idle", protected |-> FALSE, view |-> {}, todo |-> {}, game |-> 0,
         item |-> NoStage, left |-> 1, failed |-> FALSE, missed |-> FALSE]

Reply(R, kept) == [at |-> now, roster |-> R, stored |-> kept, late |-> {}]

\* The slate begins with its first stored pull: without one a run returns at once.
\* An earlier answer may still be on its way.
Init ==
    /\ now = 0
    /\ \E R, S \in Rosters :
          pulls \in {<<Reply(R, TRUE)>>, <<Reply(R, FALSE), Reply(S, TRUE)>>}
    /\ predictions = <<>>
    /\ stage = [g \in Games |-> NoStage]
    /\ canonical = [g \in Games |-> 0]
    /\ outcome = [g \in Games |-> FALSE]
    /\ card = NoCard
    /\ markers = {}
    /\ lease = NoRun
    /\ run = [r \in Runs |-> Idle]
    /\ begun = 0 /\ faults = 0

rows == <<stage, canonical, outcome, card, markers>>
feeds == <<pulls, predictions>>
counts == <<begun, faults>>

Fault == faults < MaxFaults /\ faults' = faults + 1 /\ UNCHANGED begun

(***************************************************************************)
(* The feeds.                                                              *)
(***************************************************************************)

Tick ==
    /\ now < MaxTime
    /\ now' = now + 1
    /\ UNCHANGED <<feeds, rows, lease, run, counts>>

\* The games whose cutoff has come.
Passed == {g \in Games : now >= Cutoff[g]}

\* A bound: pulls and predictions together, and none begun after the last cutoff.
FeedIsOpen == Len(pulls) + Len(predictions) < MaxFeed /\ Passed # Games

\* A pull is dated when the provider answers, and stored later: late for some games.
Respond ==
    /\ Len(pulls) < MaxPulls /\ FeedIsOpen
    /\ \E R \in Rosters : pulls' = Append(pulls, Reply(R, FALSE))
    /\ UNCHANGED <<now, predictions, rows, lease, run, counts>>

StorePull ==
    /\ \E p \in DOMAIN pulls :
          /\ ~pulls[p].stored
          /\ pulls' = [pulls EXCEPT ![p] = [@ EXCEPT !.stored = TRUE, !.late = Passed]]
    /\ UNCHANGED <<now, predictions, rows, lease, run, counts>>

StoredPulls == {p \in DOMAIN pulls : pulls[p].stored}

\* _scoring_pulls: those with the game, up to its cutoff, in the order of the answers.
Window(view, g) == {p \in view : g \in pulls[p].roster /\ pulls[p].at <= Cutoff[g]}

\* _store_prediction: the write of the live row is acknowledged before the
\* cutoff, else no snapshot is written.  Its source is the newest pull of the game
\* that was stored when the predictor read, which may be a while ago: any stored
\* one is allowed here.  Some snapshots fail validation.
Predict ==
    /\ Len(predictions) < MaxPredictions /\ FeedIsOpen
    /\ \E g \in Games \ Passed, sound \in BOOLEAN :
          \E source \in Window(StoredPulls, g) :
             predictions' = Append(predictions,
                [game |-> g, source |-> source, sound |-> sound, landed |-> "no"])
    /\ UNCHANGED <<now, pulls, rows, lease, run, counts>>

LandSnapshot ==
    /\ \E i \in DOMAIN predictions :
          /\ predictions[i].landed = "no"
          /\ predictions' = [predictions EXCEPT ![i].landed =
                IF predictions[i].game \in Passed THEN "late" ELSE "in time"]
    /\ UNCHANGED <<now, pulls, rows, lease, run, counts>>

(***************************************************************************)
(* What a run reads.                                                       *)
(***************************************************************************)

\* The largest roster proven before its first start; anomalies never erase it.
Manifest(view) ==
    UNION {R \in Rosters : \E p \in view :
              pulls[p].roster = R /\ \A g \in R : pulls[p].at < Start[g]}

\* A plausible bug: the snapshots of another game of the slate are taken in.
Snapshots_OfSlate(g) == {i \in DOMAIN predictions : predictions[i].landed # "no"}

Snapshots(g) ==
    {i \in DOMAIN predictions : predictions[i].game = g /\ predictions[i].landed # "no"}

\* A snapshot is worth nothing to a run that has not read its source pull.
Sound(g, view) ==
    {i \in Snapshots(g) : predictions[i].sound /\ predictions[i].source \in Window(view, g)}

\* _last_prelock_candidate: 0 when there is none, or none that is valid.
LastSound(g, view) ==
    LET sound == Sound(g, view)
    IN  IF sound = {} THEN 0 ELSE CHOOSE i \in sound : \A j \in sound : j <= i

\* _source_pull_for_candidate: the window ends with the source of the prediction.
BoundWindow(g, view, i) == {p \in Window(view, g) : p <= predictions[i].source}

\* _is_no_prediction_candidate_failure: a snapshot that fails validation is not none.
ProvenAbsent(g) == Snapshots(g) = {}

\* _progress
State(g, view, at) ==
    IF stage[g] # NoStage
    THEN IF stage[g].manifest # Manifest(view) THEN "INVALID_STAGE"
         ELSE IF canonical[g] # 0 THEN "LOCKED" ELSE "CANONICAL_BLOCKED"
    ELSE IF outcome[g] THEN "NO_PREDICTION"
    ELSE IF at >= Start[g] THEN "MISSED"
    ELSE IF at >= Cutoff[g] THEN "DUE" ELSE "PENDING"

InState(view, states) == {g \in Manifest(view) : State(g, view, now) \in states}

Terminal == {"LOCKED", "NO_PREDICTION"}

\* A plausible bug: a stage is taken for a lock.
CardReady_Staged(view) == \A g \in Manifest(view) : stage[g] # NoStage

CardReady(view) == InState(view, {"LOCKED"}) = Manifest(view)

\* _daily_authority_errors
CardStands(view) == DOMAIN card = Manifest(view) /\ CardReady(view)

(***************************************************************************)
(* run_lock: the lease, the window, the observation.                       *)
(***************************************************************************)

At(r, place) == run[r].pc = place

Goes(r, place) == run' = [run EXCEPT ![r].pc = place]

Answers(r, missed) ==
    run' = [run EXCEPT ![r] = [Idle EXCEPT !.pc = "release", !.missed = missed]]

\* A plausible bug: the lease lapses under a live run.
LeaseFree_Always == TRUE

\* _acquire_lock_execution_lease.  A run that meets the lease skips.
LeaseFree == lease = NoRun

\* The daily card and the markers are written under the lease alone, so nobody
\* changes them between these reads.
Begin(r) ==
    /\ At(r, "idle")
    /\ LeaseFree /\ begun < MaxBegins
    /\ lease' = r /\ begun' = begun + 1
    /\ \/ run' = [run EXCEPT ![r] = [Idle EXCEPT !.pc = "scheduled", !.view = StoredPulls]]
       \/ \E protected \in BOOLEAN :
             run' = [run EXCEPT ![r] = [Idle EXCEPT !.pc = "forced", !.view = StoredPulls,
                                                    !.protected = protected]]
    /\ UNCHANGED <<now, feeds, rows, faults>>

\* _scheduled_lifecycle_timing: the envelope closes after the last start.
Closed(view) == \A g \in Manifest(view) : now > Start[g]

\* Nothing is predicted after the envelope: the terminal states are recorded once
\* per manifest.  lock_outcome_count is the rest of its games.
AfterWindow(r) ==
    /\ At(r, "scheduled")
    /\ Closed(run[r].view)
    /\ LET view == run[r].view
           games == Manifest(view)
           known == {m \in markers : m.games = games}
           marker == [games |-> games, locked |-> InState(view, {"LOCKED"}),
                      missed |-> InState(view, {"MISSED"})]
       IN  IF known # {}
           THEN Answers(r, \E m \in known : m.missed # {}) /\ UNCHANGED markers
           ELSE IF InState(view, Terminal \cup {"MISSED"}) = games
                     /\ (card # NoCard => CardStands(view))
           THEN Answers(r, marker.missed # {}) /\ markers' = markers \cup {marker}
           ELSE Answers(r, FALSE) /\ UNCHANGED markers
    /\ UNCHANGED <<now, feeds, stage, canonical, outcome, card, lease, counts>>

\* The next game, in the order of the manifest, or the end.
TakeUp(r, rec, todo) ==
    LET healing == {g \in todo : stage[g] # NoStage}
        g == Min(IF healing # {} THEN healing ELSE todo)
    IN  run' = [run EXCEPT ![r] =
            IF todo = {} THEN [rec EXCEPT !.pc = "final", !.todo = {}, !.game = 0]
            ELSE [rec EXCEPT !.pc = IF healing # {} THEN "canonical" ELSE "generate",
                             !.todo = todo, !.game = g,
                             !.left = IF healing # {} THEN 1 ELSE MaxTries]]

\* It is done with the game in hand; what it noted of it is forgotten.
DoneAs(r, rec, failed) ==
    TakeUp(r, [rec EXCEPT !.item = NoStage, !.left = 1, !.failed = @ \/ failed],
           rec.todo \ {rec.game})

Done(r, failed) == DoneAs(r, run[r], failed)

\* A scheduled run has nothing to do before the envelope, and when every game is
\* terminal but not all are canonical, or when nothing is due.
NothingDue(view) ==
    \/ now < Opens
    \/ IF InState(view, Terminal) = Manifest(view) THEN ~CardReady(view)
       ELSE InState(view, {"CANONICAL_BLOCKED", "DUE", "INVALID_STAGE", "MISSED"}) = {}

\* The early returns of _run_lock_once, or the games to work on: stages without
\* their canonical row first, then the games that are due.
Observe(r) ==
    /\ At(r, "forced") \/ (At(r, "scheduled") /\ ~Closed(run[r].view))
    /\ LET view == run[r].view
       IN  IF card # NoCard \/ (At(r, "scheduled") /\ NothingDue(view))
           THEN Answers(r, FALSE)
           ELSE TakeUp(r, run[r], InState(view, {"CANONICAL_BLOCKED", "DUE"}))
    /\ UNCHANGED <<now, feeds, rows, lease, counts>>

(***************************************************************************)
(* One game: generate, close the source window, stage, store.              *)
(***************************************************************************)

StageOf(g, view) ==
    [prediction |-> LastSound(g, view),
     window |-> BoundWindow(g, view, LastSound(g, view)), manifest |-> Manifest(view)]

\* _generate_stage.  A game that has started meanwhile is left for Final to report.
Generate(r) ==
    /\ At(r, "generate")
    /\ LET g == run[r].game
       IN  IF now >= Start[g] THEN Done(r, FALSE)
           ELSE IF ProvenAbsent(g) THEN Goes(r, "absent")
           ELSE IF LastSound(g, run[r].view) = 0 THEN Done(r, TRUE)
           ELSE run' = [run EXCEPT ![r] =
                   [@ EXCEPT !.pc = "close", !.item = StageOf(g, run[r].view)]]
    /\ UNCHANGED <<now, feeds, rows, lease, counts>>

\* A plausible bug: the re-read is not compared with the window in hand.
SameWindow_Assumed(view, reread, g) == TRUE

\* _source_window_entries
SameWindow(view, reread, g) == Window(view, g) = Window(reread, g)

MayRetry(r) == run[r].left > 1

\* The pulls are read again before the write; a pull of the game that appeared, also
\* after the source in hand, means another attempt, another roster means failure.
CloseWindow(r) ==
    /\ At(r, "close")
    /\ LET view == run[r].view
           g == run[r].game
           fresh == [run[r] EXCEPT !.view = StoredPulls]
       IN  IF Manifest(StoredPulls) # Manifest(view) THEN Done(r, TRUE)
           ELSE IF ~SameWindow(view, StoredPulls, g)
           THEN IF MayRetry(r)
                THEN run' = [run EXCEPT ![r] =
                        [fresh EXCEPT !.pc = "generate", !.left = @ - 1]]
                ELSE DoneAs(r, fresh, TRUE)
           ELSE IF now >= Start[g] THEN DoneAs(r, fresh, TRUE)
           ELSE run' = [run EXCEPT ![r] = [fresh EXCEPT !.pc = "stage"]]
    /\ UNCHANGED <<now, feeds, rows, lease, counts>>

StageWritten(r) ==
    IF stage[run[r].game] = NoStage
    THEN stage' = [stage EXCEPT ![run[r].game] = run[r].item] ELSE UNCHANGED stage

\* _put_stage.  The write may fail, or commit and its answer be lost.
PutStage(r) ==
    /\ At(r, "stage")
    /\ \/ /\ StageWritten(r) /\ UNCHANGED counts
          /\ run' = [run EXCEPT ![r] = [@ EXCEPT !.pc = "canonical", !.left = 2]]
       \/ /\ Fault /\ (StageWritten(r) \/ UNCHANGED stage)
          /\ Done(r, TRUE)
    /\ UNCHANGED <<now, feeds, canonical, outcome, card, markers, lease>>

\* _canonical_store_before_game_start, up to its write.  After the start a second
\* attempt fails as the first did; of an old stage the failure is not reported.
CheckCanonical(r) ==
    /\ At(r, "canonical")
    /\ IF canonical[run[r].game] # 0 THEN Done(r, FALSE)
       ELSE IF now < Start[run[r].game] THEN Goes(r, "store")
       ELSE Done(r, MayRetry(r))
    /\ UNCHANGED <<now, feeds, rows, lease, counts>>

CanonicalWritten(r) ==
    LET g == run[r].game
    IN  IF canonical[g] = 0
        THEN canonical' = [canonical EXCEPT ![g] = stage[g].prediction]
        ELSE UNCHANGED canonical

\* One retry after a new stage and none for an old one.  The failure is reported
\* although the retry may succeed.
StoreCanonical(r) ==
    /\ At(r, "store")
    /\ \/ CanonicalWritten(r) /\ Done(r, FALSE) /\ UNCHANGED counts
       \/ /\ Fault /\ (CanonicalWritten(r) \/ UNCHANGED canonical)
          /\ IF MayRetry(r)
             THEN run' = [run EXCEPT ![r] =
                     [run[r] EXCEPT !.pc = "canonical", !.left = @ - 1, !.failed = TRUE]]
             ELSE Done(r, FALSE)
    /\ UNCHANGED <<now, feeds, stage, outcome, card, markers, lease>>

OutcomeWritten(r) == outcome' = [outcome EXCEPT ![run[r].game] = TRUE]

\* _put_no_prediction_outcome, which looks at the outcome and never at the stage.
PutOutcome(r) ==
    /\ At(r, "absent")
    /\ \/ OutcomeWritten(r) /\ Done(r, FALSE) /\ UNCHANGED counts
       \/ Fault /\ (OutcomeWritten(r) \/ UNCHANGED outcome) /\ Done(r, TRUE)
    /\ UNCHANGED <<now, feeds, stage, canonical, card, markers, lease>>

(***************************************************************************)
(* The daily card, and the end of the lease.                               *)
(***************************************************************************)

\* Pulls and progress are read once more.  Only the protected reconciliation
\* lets the repair take up what was missed.
Final(r) ==
    /\ At(r, "final")
    /\ IF InState(StoredPulls, {"MISSED"}) # {} THEN Answers(r, run[r].protected)
       ELSE IF run[r].failed \/ ~CardReady(StoredPulls) THEN Answers(r, FALSE)
       ELSE run' = [run EXCEPT ![r] = [@ EXCEPT !.pc = "recheck", !.view = StoredPulls]]
    /\ UNCHANGED <<now, feeds, rows, lease, counts>>

RecheckPulls(r) ==
    /\ At(r, "recheck")
    /\ IF StoredPulls # run[r].view THEN Answers(r, FALSE)
       ELSE Goes(r, "card")
    /\ UNCHANGED <<now, feeds, rows, lease, counts>>

\* _daily_item
PutCard(r) ==
    /\ At(r, "card")
    /\ \/ Fault /\ UNCHANGED card
       \/ /\ UNCHANGED counts
          /\ card' = IF card = NoCard
                     THEN [g \in Manifest(run[r].view) |-> stage[g].prediction] ELSE card
    /\ Answers(r, FALSE)
    /\ UNCHANGED <<now, feeds, stage, canonical, outcome, markers, lease>>

\* _release_lock_execution_lease
Release(r) ==
    /\ At(r, "release")
    /\ lease' = IF lease = r THEN NoRun ELSE lease
    /\ run' = [run EXCEPT ![r] = IF @.missed THEN [Idle EXCEPT !.pc = "repair"] ELSE Idle]
    /\ UNCHANGED <<now, feeds, rows, counts>>

\* An exception, a failed release or the death of the Lambda.  A lease that is
\* left expires; how long that takes is not counted.
Crash(r) ==
    /\ ~At(r, "idle") /\ Fault
    /\ lease' = IF lease = r THEN NoRun ELSE lease
    /\ run' = [run EXCEPT ![r] = Idle]
    /\ UNCHANGED <<now, feeds, rows>>

(***************************************************************************)
(* _repair_proven_no_prediction_misses, outside the lease.                 *)
(***************************************************************************)

RepairGames(r, rec, todo) ==
    run' = [run EXCEPT ![r] =
        IF todo = {} THEN Idle
        ELSE [rec EXCEPT !.pc = "unstaged", !.todo = todo, !.game = Min(todo)]]

RepairNext(r) == RepairGames(r, run[r], run[r].todo \ {run[r].game})

RepairRead(r) ==
    /\ At(r, "repair")
    /\ RepairGames(r, run[r], InState(StoredPulls, {"MISSED"}))
    /\ UNCHANGED <<now, feeds, rows, lease, counts>>

RepairRecheck(r) ==
    /\ At(r, "unstaged")
    /\ IF stage[run[r].game] # NoStage \/ outcome[run[r].game]
       THEN RepairNext(r) ELSE Goes(r, "lookup")
    /\ UNCHANGED <<now, feeds, rows, lease, counts>>

\* A plausible bug: a missed game is taken for one without a prediction.
ProvenAbsence_Assumed(g) == TRUE

ProvenAbsence(g) == ProvenAbsent(g)

RepairLookup(r) ==
    /\ At(r, "lookup")
    /\ IF ProvenAbsence(run[r].game)
       THEN Goes(r, "reconcile") ELSE RepairNext(r)
    /\ UNCHANGED <<now, feeds, rows, lease, counts>>

\* Any failure ends the repair.
RepairPut(r) ==
    /\ At(r, "reconcile")
    /\ \/ OutcomeWritten(r) /\ RepairNext(r) /\ UNCHANGED counts
       \/ Fault /\ (OutcomeWritten(r) \/ UNCHANGED outcome) /\ RepairGames(r, run[r], {})
    /\ UNCHANGED <<now, feeds, stage, canonical, card, markers, lease>>

Step(r) ==
    \/ Begin(r) \/ AfterWindow(r) \/ Observe(r)
    \/ Generate(r) \/ CloseWindow(r) \/ PutStage(r)
    \/ CheckCanonical(r) \/ StoreCanonical(r) \/ PutOutcome(r)
    \/ Final(r) \/ RecheckPulls(r) \/ PutCard(r) \/ Release(r) \/ Crash(r)
    \/ RepairRead(r) \/ RepairRecheck(r) \/ RepairLookup(r) \/ RepairPut(r)

Next ==
    \/ Tick \/ Respond \/ StorePull \/ Predict \/ LandSnapshot
    \/ \E r \in Runs : Step(r)

Spec == Init /\ [][Next]_vars

(***************************************************************************)
(* Properties.                                                             *)
(***************************************************************************)

Places == {"idle", "scheduled", "forced", "generate", "close", "stage", "canonical",
           "store", "absent", "final", "recheck", "card", "release", "repair",
           "unstaged", "lookup", "reconcile"}

StageType ==
    [prediction : 1..MaxPredictions,
     window : SUBSET (1..MaxPulls), manifest : SUBSET Games] \cup {NoStage}

RunType ==
    [pc : Places, protected : BOOLEAN,
     view : SUBSET (1..MaxPulls), todo : SUBSET Games, game : Games \cup {0},
     item : StageType, left : 1..(MaxTries + 1),
     failed : BOOLEAN, missed : BOOLEAN]

\* Every row has its shape, and a stage holds a prediction of its own game.
TypeOK ==
    /\ now \in 0..MaxTime
    /\ pulls \in Seq([at : 0..MaxTime, roster : Rosters,
                    stored : BOOLEAN, late : SUBSET Games])
    /\ Len(pulls) \in 1..MaxPulls
    /\ predictions \in Seq([game : Games, source : 1..MaxPulls, sound : BOOLEAN,
                          landed : {"no", "in time", "late"}])
    /\ Len(predictions) <= MaxPredictions
    /\ stage \in [Games -> StageType]
    /\ \A g \in Games : stage[g] # NoStage => predictions[stage[g].prediction].game = g
    /\ canonical \in [Games -> 0..MaxPredictions]
    /\ outcome \in [Games -> BOOLEAN]
    /\ \A m \in markers : m.games \subseteq Games
                         /\ m.locked \cup m.missed \subseteq m.games
    /\ lease \in Runs \cup {NoRun}
    /\ run \in [Runs -> RunType]
    /\ begun \in 0..MaxBegins /\ faults \in 0..MaxFaults

\* A game ends one way: a promoted prediction and NO_PREDICTION exclude each
\* other, and the canonical row is the stage's.  The repair writes outside the
\* lease, beside a run that may have stalled before its stage since before the
\* start, unless the caller prevents it (mlb_prospective_row_repair.py:4757,
\* mlb_daily_per_game_lock_patch.py:8744).
OneTerminal ==
    \A g \in Games :
        /\ ~(stage[g] # NoStage /\ outcome[g])
        /\ canonical[g] # 0 => canonical[g] = stage[g].prediction

\* What was in the table at the cutoff decides the game, although a run may have
\* read the table before and stalled: its stage promotes no older prediction than
\* the last valid snapshot that had landed, and is bound to the source pull of that
\* prediction and to every earlier pull of the window that was stored by then;
\* NO_PREDICTION says that no snapshot had landed, valid or not.
NothingOverlooked ==
    \A g \in Games :
        /\ stage[g] # NoStage =>
              LET source == predictions[stage[g].prediction].source
              IN  /\ \A i \in Snapshots(g) :
                         predictions[i].sound /\ predictions[i].landed = "in time"
                            => i <= stage[g].prediction
                  /\ source \in stage[g].window
                  /\ \A p \in Window(StoredPulls, g) :
                         p < source /\ g \notin pulls[p].late => p \in stage[g].window
        /\ outcome[g] => \A i \in Snapshots(g) : predictions[i].landed = "late"

\* The daily card indexes a whole slate of canonical rows: no roster stored before
\* the cutoffs of its games was larger, although pulls arrive between its reads.
\* What sees to it is the roster in each stage, which State compares.
DailyCardIsWhole ==
    card # NoCard =>
        /\ \A g \in DOMAIN card : canonical[g] # 0 /\ canonical[g] = card[g]
        /\ Manifest({p \in StoredPulls : pulls[p].late \cap DOMAIN card = {}})
              \subseteq DOMAIN card

\* Nothing is promoted behind a marker, although later runs answer from it without
\* looking: its locked games are all that will ever be, and no game it calls missed
\* gets a stage.  (The repair may still declare such a game NO_PREDICTION.)
MarkersStayTrue ==
    \A m \in markers :
        /\ {g \in m.games : canonical[g] # 0} = m.locked
        /\ \A g \in m.missed : stage[g] = NoStage

=============================================================================
