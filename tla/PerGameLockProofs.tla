--------------------------- MODULE PerGameLockProofs ---------------------------
(***************************************************************************)
(* Proofs about PerGameLock, for any runs, games, cutoffs and rosters: the *)
(* types, that a game ends one way and from all that was stored at its     *)
(* cutoff, and that the daily card and the markers stay true.              *)
(*                                                                         *)
(* The argument: the places in which a run may write stages, canonical     *)
(* rows, the card and the markers are under the lease, which one run has.  *)
(* The repair writes without it, but only for games that have started and  *)
(* of which it has seen no snapshot: no run can then hold a stage for such *)
(* a game, as a stage rests on a snapshot, and none can generate another.  *)
(***************************************************************************)
EXTENDS PerGameLock, WellFoundedInduction, TLAPS

(***************************************************************************)
(* The inductive invariant, in layers.                                     *)
(***************************************************************************)

\* The places that are reached with a game in hand, under the lease and without.
Working == {"generate", "close", "absent", "stage", "canonical", "store"}
Repairing == {"unstaged", "lookup", "reconcile"}
Leased == Working \cup {"scheduled", "forced", "final", "recheck", "card", "release"}
Holding == {"close", "stage"}
Unstaged == {"generate", "absent", "close", "stage"}

RunOK(z) ==
    /\ z \in RunType
    /\ z.pc \in Working \cup Repairing => z.game \in z.todo
    /\ z.pc \in Holding => z.item # NoStage

PullType == [at : 0..MaxTime, roster : Rosters, stored : BOOLEAN, late : SUBSET Games]
PredictionType ==
    [game : Games, source : 1..MaxPulls, sound : BOOLEAN, landed : {"no", "in time", "late"}]

\* The types, apart from the game of a stage's prediction.
TypeInv ==
    /\ now \in 0..MaxTime
    /\ pulls \in Seq(PullType) /\ Len(pulls) \in 1..MaxPulls
    /\ predictions \in Seq(PredictionType) /\ Len(predictions) <= MaxPredictions
    /\ stage \in [Games -> StageType]
    /\ canonical \in [Games -> 0..MaxPredictions]
    /\ outcome \in [Games -> BOOLEAN]
    /\ \A m \in markers : m.games \subseteq Games
                         /\ m.locked \cup m.missed \subseteq m.games
    /\ lease \in Runs \cup {NoRun}
    /\ run \in [Runs -> RunType] /\ \A r \in Runs : RunOK(run[r])
    /\ begun \in 0..MaxBegins /\ faults \in 0..MaxFaults

\* The source of a prediction was stored before it.
SourcesInv ==
    \A i \in DOMAIN predictions :
        predictions[i].source \in Window(StoredPulls, predictions[i].game)

\* A run reads only pulls that are stored, and works only with the lease.
RunsInv ==
    /\ SourcesInv
    /\ \A r \in Runs :
          /\ run[r].view \subseteq StoredPulls
          /\ run[r].pc \in Leased => lease = r

\* What a stage of g rests on, stored or in hand.
Promotes(g, s) == s.prediction \in Snapshots(g)

\* What it is when its window is yet to be closed: the last valid snapshot whose
\* source has been read, and what was read up to that source.
Generated(g, s, view) ==
    /\ s.window = BoundWindow(g, view, s.prediction)
    /\ predictions[s.prediction].source \in s.window
    /\ \A i \in Sound(g, view) : predictions[i].landed = "in time" => i <= s.prediction

\* What it is from then on, of all that was stored at the cutoff.
Complete(g, s) ==
    LET source == predictions[s.prediction].source
    IN  /\ \A i \in Snapshots(g) :
               predictions[i].sound /\ predictions[i].landed = "in time"
                  => i <= s.prediction
        /\ source \in s.window
        /\ \A p \in Window(StoredPulls, g) :
               p < source /\ g \notin pulls[p].late => p \in s.window

AllLate(g) == \A i \in Snapshots(g) : predictions[i].landed = "late"

\* The rows of a game.
GameInv(g) ==
    /\ stage[g] # NoStage =>
          now >= Cutoff[g] /\ ~outcome[g] /\ Promotes(g, stage[g])
          /\ Complete(g, stage[g])
    /\ canonical[g] # 0 => stage[g] # NoStage /\ canonical[g] = stage[g].prediction
    /\ outcome[g] => now >= Cutoff[g] /\ AllLate(g)

\* The game a run is to take up.
Due(h) ==
    stage[h] = NoStage => now >= Cutoff[h] /\ (now < Start[h] => ~outcome[h])

\* What a run, or its record, knows of its games.
WorkInv(z) ==
    /\ z.pc \in Working => \A h \in z.todo : Due(h)
    /\ z.pc \in Unstaged => stage[z.game] = NoStage
    /\ z.pc \in {"canonical", "store"} => stage[z.game] # NoStage
    /\ z.pc \in Holding => ~outcome[z.game] /\ Promotes(z.game, z.item)
    /\ z.pc = "close" => Generated(z.game, z.item, z.view)
    /\ z.pc = "stage" => Complete(z.game, z.item)
    /\ z.pc = "absent" => AllLate(z.game)

RepairInv(z) ==
    /\ z.pc \in Repairing => \A h \in z.todo : now >= Start[h]
    /\ z.pc = "reconcile" => stage[z.game] = NoStage /\ AllLate(z.game)

\* No run has a stage in hand for a game the repair is about to close.
ApartInv ==
    \A r, q \in Runs :
        run[r].pc = "reconcile" /\ run[q].pc \in Holding => run[q].game # run[r].game

CoreInv ==
    /\ \A g \in Games : GameInv(g)
    /\ \A r \in Runs : WorkInv(run[r]) /\ RepairInv(run[r])
    /\ ApartInv

\* The card, and the run that is about to write it.
Ready(games) == \A g \in games : stage[g] # NoStage /\ canonical[g] # 0

\* The games of a marker have started, and no run promotes any of them any more.
MarkerInv ==
    \A m \in markers :
        /\ \A g \in m.games : now >= Start[g]
        /\ \A r \in Runs : run[r].pc \in Holding \cup {"store"} => run[r].game \notin m.games
        /\ m.locked = {g \in m.games : canonical[g] # 0}
        /\ \A g \in m.missed : stage[g] = NoStage

(***************************************************************************)
(* Types.                                                                  *)
(***************************************************************************)

\* A set of numbers that is not empty has a least one.
LEMMA LeastNat ==
  ASSUME NEW S \in SUBSET Nat, S # {}
  PROVE  \E x \in S : \A y \in S : x <= y
<1> DEFINE less == {p \in Nat \X Nat : p[1] < p[2]}
<1>1. less = OpToRel(<, Nat)
  BY Zenon DEF OpToRel
<1>2. IsWellFoundedOn(less, Nat)
  BY <1>1, NatLessThanWellFounded, Zenon
<1> HIDE DEF less
<1>3. PICK x \in S : \A y \in S : ~(<<y, x>> \in less)
  BY <1>2, WFMin
<1>4. \A y \in S : ~(y < x)
  BY <1>3 DEF less
<1> QED
  BY <1>4

\* A set of games that is not empty has a first game.
LEMMA MinGame ==
  ASSUME NEW S \in SUBSET Games, S # {}
  PROVE  Min(S) \in S
<1>1. S \subseteq Nat
  BY GamesAssumption
<1>2. \E x \in S : \A y \in S : x <= y
  BY <1>1, LeastNat
<1> QED
  BY <1>2, Zenon DEF Min

\* No stage is none.
LEMMA NoStageType == NoStage \in StageType /\ NoStage.prediction = 0
  BY DEF StageType, NoStage

\* The initial state has every type.
LEMMA InitType == Init => TypeInv
<1> SUFFICES ASSUME Init PROVE TypeInv
  OBVIOUS
<1>1. Idle \in RunType /\ RunOK(Idle)
  BY NoStageType, BoundsAssumption
  DEF Idle, RunType, RunOK, Places, Working, Repairing, Holding
<1>2. pulls \in Seq(PullType) /\ Len(pulls) \in {1, 2}
  <2>1. \A R \in Rosters, kept \in BOOLEAN : Reply(R, kept) \in PullType
    BY BoundsAssumption DEF Init, Reply, PullType
  <2>2. PICK R \in Rosters, S \in Rosters :
           pulls \in {<<Reply(R, TRUE)>>, <<Reply(R, FALSE), Reply(S, TRUE)>>}
    BY DEF Init
  <2>3. PICK a \in PullType, b \in PullType, c \in PullType : pulls \in {<<a>>, <<b, c>>}
    BY <2>1, <2>2
  <2>4. <<a>> \in Seq(PullType) /\ Len(<<a>>) = 1
    OBVIOUS
  <2>5. <<b, c>> \in Seq(PullType) /\ Len(<<b, c>>) = 2
    OBVIOUS
  <2> QED
    BY <2>3, <2>4, <2>5
<1>3. predictions \in Seq(PredictionType) /\ Len(predictions) = 0
  BY DEF Init
<1>4. stage \in [Games -> StageType] /\ canonical \in [Games -> 0..MaxPredictions]
      /\ outcome \in [Games -> BOOLEAN]
  BY NoStageType, BoundsAssumption DEF Init
<1>5. run \in [Runs -> RunType] /\ \A r \in Runs : RunOK(run[r])
  BY <1>1 DEF Init
<1>6. now = 0 /\ markers = {} /\ lease = NoRun /\ begun = 0 /\ faults = 0
  BY DEF Init
<1>7. Len(pulls) \in 1..MaxPulls
  <2>1. MaxPulls \in Nat /\ 2 <= MaxPulls
    BY BoundsAssumption
  <2>2. 1 \in 1..MaxPulls /\ 2 \in 1..MaxPulls
    BY <2>1
  <2> QED
    BY <1>2, <2>2
<1> QED
  BY <1>2, <1>3, <1>4, <1>5, <1>6, <1>7, BoundsAssumption DEF TypeInv

\* What TypeInv says of a run.
LEMMA RunOf ==
  ASSUME TypeInv, NEW r \in Runs
  PROVE  run[r] \in RunType /\ RunOK(run[r])
  BY DEF TypeInv

\* The fresh record has its type.
LEMMA IdleType == Idle \in RunType /\ Idle.pc = "idle" /\ Idle.todo = {}
  BY NoStageType, BoundsAssumption DEF Idle, RunType, Places

\* The run has taken up the next of its games, or has none left.
Onward(z, todo) ==
    /\ z.todo = todo
    /\ \/ z.pc = "final" /\ todo = {}
       \/ z.pc = "canonical" /\ z.game \in todo /\ stage[z.game] # NoStage
       \/ z.pc = "generate" /\ z.game \in todo /\ stage[z.game] = NoStage

\* Such a record has its type.
LEMMA OnwardOK ==
  ASSUME NEW z \in RunType, NEW todo, Onward(z, todo)
  PROVE  RunOK(z)
  BY DEF Onward, RunOK, Working, Repairing, Holding

\* Taking up a game: what becomes of the run.
LEMMA TakeUpEffect ==
  ASSUME NEW r \in Runs, NEW rec \in RunType, NEW todo \in SUBSET Games,
         TakeUp(r, rec, todo)
  PROVE  \E z \in RunType :
            /\ run' = [run EXCEPT ![r] = z]
            /\ z.view = rec.view /\ Onward(z, todo)
<1> DEFINE healing == {g \in todo : stage[g] # NoStage}
           g == Min(IF healing # {} THEN healing ELSE todo)
           place == IF healing # {} THEN "canonical" ELSE "generate"
           left == IF healing # {} THEN 1 ELSE MaxTries
           last == [rec EXCEPT !.pc = "final", !.todo = {}, !.game = 0]
           next == [rec EXCEPT !.pc = place, !.todo = todo, !.game = g, !.left = left]
<1>1. run' = [run EXCEPT ![r] = IF todo = {} THEN last ELSE next]
  BY Zenon DEF TakeUp
<1>2. CASE todo = {}
  <2>1. last \in RunType /\ last.view = rec.view /\ last.todo = todo
        /\ last.pc = "final"
    BY <1>2 DEF RunType, Places
  <2>2. run' = [run EXCEPT ![r] = last]
    BY <1>1, <1>2, Zenon
  <2> HIDE DEF last
  <2> QED
    BY <1>2, <2>1, <2>2 DEF Onward
<1>3. CASE todo # {}
  <2>1. g \in todo /\ (healing # {} => stage[g] # NoStage)
        /\ (healing = {} => stage[g] = NoStage)
    BY <1>3, MinGame
  <2>2. place \in {"canonical", "generate"} /\ (place = "canonical" <=> healing # {})
    OBVIOUS
  <2>3. left \in 1..(MaxTries + 1)
    BY BoundsAssumption
  <2>4. run' = [run EXCEPT ![r] = next]
    BY <1>1, <1>3, Zenon
  <2> HIDE DEF place, left, g, healing
  <2>5. next \in RunType /\ next.view = rec.view /\ next.todo = todo
        /\ next.pc = place /\ next.game = g
    BY <2>1, <2>2, <2>3 DEF RunType, Places
  <2> HIDE DEF next
  <2> QED
    BY <2>1, <2>2, <2>4, <2>5 DEF Onward
<1> QED
  BY <1>2, <1>3

\* The next game after the one in hand.
LEMMA DoneEffect ==
  ASSUME NEW r \in Runs, NEW rec \in RunType, NEW failed \in BOOLEAN,
         DoneAs(r, rec, failed)
  PROVE  \E z \in RunType :
            /\ run' = [run EXCEPT ![r] = z]
            /\ z.view = rec.view /\ Onward(z, rec.todo \ {rec.game})
<1>1. (rec.failed \/ failed) \in BOOLEAN
  BY Zenon
<1>2. PICK f \in BOOLEAN : f = (rec.failed \/ failed)
  BY <1>1, Zenon
<1> DEFINE done == [rec EXCEPT !.item = NoStage, !.left = 1, !.failed = f]
<1>3. TakeUp(r, done, rec.todo \ {rec.game})
  BY <1>2, Zenon DEF DoneAs
<1>4. NoStage \in StageType /\ 1 \in 1..(MaxTries + 1)
  BY NoStageType, BoundsAssumption
<1>5. done \in RunType /\ done.view = rec.view
  BY <1>4 DEF RunType
<1>6. rec.todo \ {rec.game} \in SUBSET Games
  BY DEF RunType
<1> HIDE DEF done
<1> QED
  BY <1>3, <1>5, <1>6, TakeUpEffect

\* The repair's next game.
LEMMA RepairEffect ==
  ASSUME NEW r \in Runs, NEW rec \in RunType, NEW todo \in SUBSET Games,
         RepairGames(r, rec, todo)
  PROVE  \E z \in RunType :
            /\ run' = [run EXCEPT ![r] = z]
            /\ \/ z = Idle
               \/ z.pc = "unstaged" /\ z.view = rec.view /\ z.todo = todo /\ z.game \in todo
<1> DEFINE z == [rec EXCEPT !.pc = "unstaged", !.todo = todo, !.game = Min(todo)]
<1>1. CASE todo = {}
  BY <1>1, IdleType DEF RepairGames
<1>2. CASE todo # {}
  <2>1. Min(todo) \in todo
    BY <1>2, MinGame
  <2>2. z \in RunType /\ z.view = rec.view /\ z.todo = todo /\ z.game = Min(todo)
        /\ z.pc = "unstaged"
    BY <2>1 DEF RunType, Places
  <2>3. run' = [run EXCEPT ![r] = z]
    BY <1>2 DEF RepairGames
  <2> HIDE DEF z
  <2> QED
    BY <2>1, <2>2, <2>3
<1> QED
  BY <1>1, <1>2

FeedsOK ==
    /\ now \in 0..MaxTime
    /\ pulls \in Seq(PullType) /\ Len(pulls) \in 1..MaxPulls
    /\ predictions \in Seq(PredictionType) /\ Len(predictions) <= MaxPredictions

\* How the clock and the feeds move: nothing that is stored changes, and what is
\* stored or lands after the cutoff of a game is marked so.
Landing(g) == IF now >= Cutoff[g] THEN "late" ELSE "in time"

PredictionsGrow ==
    /\ DOMAIN predictions \subseteq DOMAIN predictions'
    /\ \A i \in DOMAIN predictions :
          /\ predictions'[i].game = predictions[i].game
          /\ predictions'[i].source = predictions[i].source
          /\ predictions'[i].sound = predictions[i].sound
          /\ \/ predictions'[i].landed = predictions[i].landed
             \/ /\ predictions[i].landed = "no"
                /\ predictions'[i].landed = Landing(predictions[i].game)
    /\ \A i \in DOMAIN predictions' \ DOMAIN predictions :
          /\ predictions'[i].landed = "no"
          /\ predictions'[i].source \in Window(StoredPulls, predictions'[i].game)

PullsGrow ==
    /\ DOMAIN pulls \subseteq DOMAIN pulls'
    /\ \A p \in DOMAIN pulls :
          /\ pulls'[p].at = pulls[p].at
          /\ pulls'[p].roster = pulls[p].roster
          /\ \/ pulls'[p].stored = pulls[p].stored /\ pulls'[p].late = pulls[p].late
             \/ ~pulls[p].stored /\ pulls'[p].late = Passed
    /\ \A p \in DOMAIN pulls' \ DOMAIN pulls : ~pulls'[p].stored

Grow == now <= now' /\ PredictionsGrow /\ PullsGrow

\* Feeds that do not move grow.
LEMMA PredictionsRest ==
  ASSUME predictions' = predictions PROVE PredictionsGrow
  BY DEF PredictionsGrow

\* Pulls that do not move grow.
LEMMA PullsRest ==
  ASSUME pulls' = pulls PROVE PullsGrow
  BY DEF PullsGrow

\* Nor does the clock have to move.
LEMMA FeedsRest ==
  ASSUME TypeInv, UNCHANGED <<now, feeds>>
  PROVE  FeedsOK' /\ Grow
<1>1. now' = now /\ pulls' = pulls /\ predictions' = predictions
  BY DEF feeds
<1> QED
  BY <1>1, PredictionsRest, PullsRest DEF TypeInv, FeedsOK, Grow

\* The clock advances and the feeds stay.
LEMMA TickFeeds ==
  ASSUME TypeInv, Tick
  PROVE  FeedsOK' /\ Grow
<1>1. now' = now + 1 /\ now < MaxTime /\ pulls' = pulls /\ predictions' = predictions
  BY DEF Tick, feeds
<1> QED
  BY <1>1, PredictionsRest, PullsRest, BoundsAssumption DEF TypeInv, FeedsOK, Grow

\* A new pull is not stored yet.
LEMMA RespondFeeds ==
  ASSUME TypeInv, Respond
  PROVE  FeedsOK' /\ Grow
<1>1. PICK R \in Rosters :
        pulls' = Append(pulls, [at |-> now, roster |-> R, stored |-> FALSE, late |-> {}])
  BY DEF Respond, Reply
<1>2. now' = now /\ predictions' = predictions /\ Len(pulls) < MaxPulls
  BY DEF Respond
<1> DEFINE p == [at |-> now, roster |-> R, stored |-> FALSE, late |-> {}]
<1>3. p \in PullType /\ p.stored = FALSE
  BY DEF TypeInv, PullType
<1>4. pulls' = Append(pulls, p)
  BY <1>1
<1> HIDE DEF p
<1>5. pulls \in Seq(PullType) /\ Len(pulls) \in Nat
  BY DEF TypeInv
<1>6. /\ pulls' \in Seq(PullType) /\ Len(pulls') = Len(pulls) + 1
      /\ DOMAIN pulls = 1..Len(pulls) /\ DOMAIN pulls' = 1..(Len(pulls) + 1)
      /\ \A k \in 1..Len(pulls) : pulls'[k] = pulls[k]
      /\ pulls'[Len(pulls) + 1] = p
  BY <1>3, <1>4, <1>5
<1>7. FeedsOK'
  BY <1>2, <1>6, BoundsAssumption DEF TypeInv, FeedsOK
<1>8. PullsGrow
  BY <1>3, <1>5, <1>6 DEF PullsGrow
<1> QED
  BY <1>2, <1>7, <1>8, PredictionsRest DEF Grow, TypeInv

\* A pull that is stored is late for the games whose cutoff has passed.
LEMMA StorePullFeeds ==
  ASSUME TypeInv, StorePull
  PROVE  FeedsOK' /\ Grow
<1>1. PICK p \in DOMAIN pulls :
        /\ ~pulls[p].stored
        /\ pulls' = [pulls EXCEPT ![p] = [@ EXCEPT !.stored = TRUE, !.late = Passed]]
  BY DEF StorePull
<1>2. now' = now /\ predictions' = predictions
  BY DEF StorePull
<1> DEFINE q == [pulls[p] EXCEPT !.stored = TRUE, !.late = Passed]
<1>3. pulls \in Seq(PullType) /\ Len(pulls) \in Nat /\ DOMAIN pulls = 1..Len(pulls)
  BY DEF TypeInv
<1>4. pulls[p] \in PullType /\ Passed \in SUBSET Games
  BY <1>3 DEF Passed
<1>5. q \in PullType /\ q.at = pulls[p].at /\ q.roster = pulls[p].roster /\ q.late = Passed
  BY <1>4 DEF PullType
<1>6. pulls' = [pulls EXCEPT ![p] = q]
  BY <1>1
<1> HIDE DEF q
<1>7. pulls' \in Seq(PullType) /\ Len(pulls') = Len(pulls) /\ DOMAIN pulls' = DOMAIN pulls
  BY <1>3, <1>5, <1>6
<1>8. FeedsOK'
  BY <1>2, <1>7 DEF TypeInv, FeedsOK
<1>9. PullsGrow
  BY <1>1, <1>3, <1>5, <1>6, <1>7 DEF PullsGrow
<1> QED
  BY <1>2, <1>8, <1>9, PredictionsRest DEF Grow, TypeInv

\* A new prediction has no snapshot yet.
LEMMA PredictFeeds ==
  ASSUME TypeInv, Predict
  PROVE  FeedsOK' /\ Grow
<1>1. PICK g \in Games, sound \in BOOLEAN : \E source \in Window(StoredPulls, g) :
        predictions' = Append(predictions,
           [game |-> g, source |-> source, sound |-> sound, landed |-> "no"])
  BY DEF Predict
<1>12. PICK source \in Window(StoredPulls, g) :
        predictions' = Append(predictions,
           [game |-> g, source |-> source, sound |-> sound, landed |-> "no"])
  BY <1>1
<1>2. now' = now /\ pulls' = pulls /\ Len(predictions) < MaxPredictions
  BY DEF Predict
<1> DEFINE p == [game |-> g, source |-> source, sound |-> sound, landed |-> "no"]
<1>11. source \in 1..MaxPulls
  BY BoundsAssumption DEF TypeInv, Window, StoredPulls
<1>3. p \in PredictionType /\ p.landed = "no" /\ p.source \in Window(StoredPulls, p.game)
  BY <1>11 DEF PredictionType
<1>4. predictions' = Append(predictions, p)
  BY <1>12
<1> HIDE DEF p
<1>5. predictions \in Seq(PredictionType) /\ Len(predictions) \in Nat
  BY DEF TypeInv
<1>6. /\ predictions' \in Seq(PredictionType) /\ Len(predictions') = Len(predictions) + 1
      /\ DOMAIN predictions = 1..Len(predictions)
      /\ DOMAIN predictions' = 1..(Len(predictions) + 1)
      /\ \A k \in 1..Len(predictions) : predictions'[k] = predictions[k]
      /\ predictions'[Len(predictions) + 1] = p
  BY <1>3, <1>4, <1>5
<1>7. FeedsOK'
  BY <1>2, <1>6, BoundsAssumption DEF TypeInv, FeedsOK
<1>9. \A i \in DOMAIN predictions : predictions'[i] = predictions[i] /\ i \in DOMAIN predictions'
  BY <1>5, <1>6
<1>10. \A i \in DOMAIN predictions' \ DOMAIN predictions : predictions'[i] = p
  BY <1>5, <1>6
<1>8. PredictionsGrow
  BY <1>3, <1>9, <1>10, Zenon DEF PredictionsGrow
<1> QED
  BY <1>2, <1>7, <1>8, PullsRest DEF Grow, TypeInv

\* A snapshot that lands is late after the cutoff of its game.
LEMMA LandSnapshotFeeds ==
  ASSUME TypeInv, LandSnapshot
  PROVE  FeedsOK' /\ Grow
<1>1. PICK i \in DOMAIN predictions :
        /\ predictions[i].landed = "no"
        /\ predictions' = [predictions EXCEPT ![i].landed =
              IF predictions[i].game \in Passed THEN "late" ELSE "in time"]
  BY DEF LandSnapshot
<1>2. now' = now /\ pulls' = pulls
  BY DEF LandSnapshot
<1>3. /\ predictions \in Seq(PredictionType) /\ Len(predictions) \in Nat
      /\ DOMAIN predictions = 1..Len(predictions)
  BY DEF TypeInv
<1>4. predictions[i] \in PredictionType
  BY <1>3
<1> DEFINE l == IF now >= Cutoff[predictions[i].game] THEN "late" ELSE "in time"
           q == [predictions[i] EXCEPT !.landed = l]
<1>5. l \in {"late", "in time"}
  OBVIOUS
<1>6. predictions[i].game \in Games
  BY <1>4 DEF PredictionType
<1>7. predictions' = [predictions EXCEPT ![i] = q]
  BY <1>1, <1>6 DEF Passed
<1>8. l = IF now >= Cutoff[predictions[i].game] THEN "late" ELSE "in time"
  OBVIOUS
<1> HIDE DEF l
<1>9. q \in PredictionType /\ q.game = predictions[i].game /\ q.sound = predictions[i].sound
      /\ q.source = predictions[i].source /\ q.landed = l
  BY <1>4, <1>5 DEF PredictionType
<1> HIDE DEF q
<1>10. predictions' \in Seq(PredictionType) /\ Len(predictions') = Len(predictions)
       /\ DOMAIN predictions' = DOMAIN predictions
  BY <1>3, <1>7, <1>9
<1>11. FeedsOK'
  BY <1>2, <1>10 DEF TypeInv, FeedsOK
<1>12. \A j \in DOMAIN predictions : j # i => predictions'[j] = predictions[j]
  BY <1>3, <1>7
<1>13. predictions'[i] = q
  BY <1>3, <1>7
<1>14. PredictionsGrow
  BY <1>1, <1>8, <1>9, <1>10, <1>12, <1>13 DEF PredictionsGrow, Landing
<1> QED
  BY <1>2, <1>11, <1>14, PullsRest DEF Grow, TypeInv

(***************************************************************************)
(* What stays true while the feeds grow.                                   *)
(***************************************************************************)

\* A bounded set of numbers that is not empty has a last one.
LEMMA LastNat ==
  ASSUME NEW n \in Nat, NEW S \in SUBSET (1..n), S # {}
  PROVE  \E x \in S : \A y \in S : y <= x
<1> DEFINE bounds == {m \in Nat : \A y \in S : y <= m}
<1>1. n \in bounds /\ bounds \in SUBSET Nat
  OBVIOUS
<1>2. PICK m \in bounds : \A k \in bounds : m <= k
  BY <1>1, LeastNat
<1>3. CASE m \in S
  BY <1>3
<1>4. CASE m \notin S
  <2>1. \A y \in S : y < m /\ y >= 1
    BY <1>4
  <2>4. PICK y \in S : y < m /\ y >= 1
    BY <2>1
  <2>2. m \in Nat /\ m >= 1
    BY <2>4
  <2>3. m - 1 \in bounds
    BY <2>1, <2>2
  <2> QED
    BY <1>2, <2>2, <2>3
<1> QED
  BY <1>3, <1>4

\* What the feeds of a state look like.
FeedsShape ==
    /\ DOMAIN predictions = 1..Len(predictions) /\ Len(predictions) \in Nat
    /\ Len(predictions) <= MaxPredictions
    /\ \A i \in DOMAIN predictions : predictions[i] \in PredictionType
    /\ DOMAIN pulls = 1..Len(pulls) /\ DOMAIN pulls \subseteq 1..MaxPulls
    /\ \A p \in DOMAIN pulls : pulls[p] \in PullType
    /\ now \in Nat /\ StoredPulls \subseteq DOMAIN pulls
    /\ Passed \subseteq Games

\* TypeInv gives them this shape.
LEMMA FeedsAre == TypeInv => FeedsShape
  BY BoundsAssumption DEF TypeInv, StoredPulls, Passed, FeedsShape

\* And so in the next state.
LEMMA FeedsAreNext == TypeInv' => FeedsShape'
  BY BoundsAssumption DEF TypeInv, StoredPulls, Passed, FeedsShape

\* The last valid snapshot whose source is in the view.
LEMMA LastSoundIs ==
  ASSUME TypeInv, NEW g \in Games, NEW view
  PROVE  \/ LastSound(g, view) = 0 /\ Sound(g, view) = {}
         \/ /\ LastSound(g, view) \in Sound(g, view) /\ LastSound(g, view) \in 1..MaxPredictions
            /\ \A j \in Sound(g, view) : j <= LastSound(g, view)
<1> DEFINE sound == Sound(g, view)
<1>1. sound \subseteq 1..Len(predictions) /\ Len(predictions) \in Nat
  BY FeedsAre DEF FeedsShape, Sound, Snapshots
<1>2. CASE sound = {}
  BY <1>2 DEF LastSound
<1>3. CASE sound # {}
  <2>1. \E i \in sound : \A j \in sound : j <= i
    BY <1>1, <1>3, LastNat
  <2>2. LastSound(g, view) \in sound /\ \A j \in sound : j <= LastSound(g, view)
    BY <1>3, <2>1, Zenon DEF LastSound
  <2> QED
    BY <1>1, <2>2, FeedsAre, BoundsAssumption DEF FeedsShape
<1> QED
  BY <1>2, <1>3

\* Predictions that agree in every field are the same.
LEMMA SamePrediction ==
  ASSUME NEW a \in PredictionType, NEW b \in PredictionType,
         a.game = b.game, a.source = b.source, a.sound = b.sound, a.landed = b.landed
  PROVE  a = b
<1>1. a = [game |-> a.game, source |-> a.source, sound |-> a.sound, landed |-> a.landed]
  BY DEF PredictionType
<1>2. b = [game |-> b.game, source |-> b.source, sound |-> b.sound, landed |-> b.landed]
  BY DEF PredictionType
<1> QED
  BY <1>1, <1>2, Zenon

\* Snapshots stay; one that lands after the cutoff of its game is late.
LEMMA SnapshotsStay ==
  ASSUME TypeInv, TypeInv', Grow, NEW g \in Games
  PROVE  /\ Snapshots(g) \subseteq Snapshots(g)'
         /\ \A i \in Snapshots(g) : predictions'[i] = predictions[i]
         /\ \A i \in Snapshots(g)' :
               \/ i \in Snapshots(g) /\ predictions'[i] = predictions[i]
               \/ now >= Cutoff[g] => predictions'[i].landed = "late"
<1>1. \A i \in DOMAIN predictions :
         predictions[i] \in PredictionType /\ predictions'[i] \in PredictionType
  BY FeedsAre, FeedsAreNext DEF Grow, PredictionsGrow, FeedsShape
<1>2. ASSUME NEW i \in DOMAIN predictions, predictions[i].landed # "no"
      PROVE  predictions'[i] = predictions[i]
  <2>1. /\ predictions'[i].game = predictions[i].game
        /\ predictions'[i].source = predictions[i].source
        /\ predictions'[i].sound = predictions[i].sound
        /\ predictions'[i].landed = predictions[i].landed
    BY <1>2 DEF Grow, PredictionsGrow
  <2>2. predictions[i] \in PredictionType /\ predictions'[i] \in PredictionType
    BY <1>1
  <2> QED
    BY <2>1, <2>2, SamePrediction
<1>3. /\ Snapshots(g) \subseteq Snapshots(g)'
      /\ \A i \in Snapshots(g) : predictions'[i] = predictions[i]
  BY <1>2 DEF Grow, PredictionsGrow, Snapshots
<1>4. ASSUME NEW i \in Snapshots(g)', ~(i \in Snapshots(g) /\ predictions'[i] = predictions[i]),
             now >= Cutoff[g]
      PROVE  predictions'[i].landed = "late"
  <2>1. i \in DOMAIN predictions' /\ predictions'[i].game = g /\ predictions'[i].landed # "no"
    BY <1>4 DEF Snapshots
  <2>2. i \in DOMAIN predictions /\ predictions[i].game = g
    BY <2>1 DEF Grow, PredictionsGrow
  <2>3. predictions[i].landed = "no"
    BY <1>2, <1>4, <2>2 DEF Snapshots
  <2> QED
    BY <1>4, <2>1, <2>2, <2>3 DEF Grow, PredictionsGrow, Landing
<1> QED
  BY <1>3, <1>4

\* The snapshot a stage promotes stays.
LEMMA PromotesStays ==
  ASSUME TypeInv, TypeInv', Grow, NEW g \in Games, NEW s, Promotes(g, s)
  PROVE  Promotes(g, s)' /\ predictions'[s.prediction] = predictions[s.prediction]
  BY SnapshotsStay DEF Promotes

\* After the cutoff new snapshots are late.
LEMMA AllLateStays ==
  ASSUME TypeInv, TypeInv', Grow, NEW g \in Games, now >= Cutoff[g], AllLate(g)
  PROVE  AllLate(g)'
  BY SnapshotsStay DEF AllLate

\* Stored pulls stay as they are.
LEMMA PullsStay ==
  ASSUME TypeInv, TypeInv', Grow
  PROVE  /\ StoredPulls \subseteq StoredPulls'
         /\ \A p \in StoredPulls : pulls'[p] = pulls[p]
         /\ \A p \in StoredPulls' \ StoredPulls : pulls'[p].late = Passed
<1>1. \A p \in DOMAIN pulls : pulls[p] \in PullType /\ pulls'[p] \in PullType
  BY FeedsAre, FeedsAreNext DEF Grow, PullsGrow, FeedsShape
<1>2. ASSUME NEW p \in DOMAIN pulls, pulls[p].stored
      PROVE  pulls'[p] = pulls[p]
  <2>1. /\ pulls'[p].at = pulls[p].at
        /\ pulls'[p].roster = pulls[p].roster
        /\ pulls'[p].stored = pulls[p].stored
        /\ pulls'[p].late = pulls[p].late
    BY <1>2 DEF Grow, PullsGrow
  <2> QED
    BY <1>1, <2>1 DEF PullType
<1> QED
  BY <1>2 DEF Grow, PullsGrow, StoredPulls

\* What a run has read does not change under it.
LEMMA ViewStays ==
  ASSUME TypeInv, TypeInv', Grow, NEW view, view \subseteq StoredPulls
  PROVE  /\ \A g \in Games : Window(view, g)' = Window(view, g)
         /\ Manifest(view)' = Manifest(view)
  BY PullsStay DEF Window, Manifest

\* After the cutoff new snapshots and new pulls are late, and a stage goes on
\* being complete.
LEMMA CompleteStays ==
  ASSUME TypeInv, TypeInv', Grow, NEW g \in Games, now >= Cutoff[g], NEW s,
         Promotes(g, s), Complete(g, s)
  PROVE  Complete(g, s)'
<1>1. g \in Passed
  BY DEF Passed
<1>2. predictions'[s.prediction] = predictions[s.prediction]
  BY PromotesStays
<1>3. PICK source : source = predictions[s.prediction].source
  OBVIOUS
<1>4. /\ \A i \in Snapshots(g) :
           predictions[i].sound /\ predictions[i].landed = "in time" => i <= s.prediction
      /\ source \in s.window
      /\ \A p \in Window(StoredPulls, g) :
           p < source /\ g \notin pulls[p].late => p \in s.window
  BY <1>3 DEF Complete
<1>5. \A i \in Snapshots(g)' :
         predictions'[i].sound /\ predictions'[i].landed = "in time" => i <= s.prediction
  BY <1>4, SnapshotsStay
<1>6. \A p \in Window(StoredPulls, g)' :
         p < source /\ g \notin pulls'[p].late => p \in s.window
  BY <1>1, <1>4, PullsStay DEF Window
<1>7. predictions'[s.prediction].source = source
  BY <1>2, <1>3
<1> QED
  BY <1>4, <1>5, <1>6, <1>7 DEF Complete

\* And one in hand goes on being what was generated from the view.
LEMMA GeneratedStays ==
  ASSUME TypeInv, TypeInv', Grow, NEW g \in Games, now >= Cutoff[g], NEW s, NEW view,
         view \subseteq StoredPulls, Promotes(g, s), Generated(g, s, view)
  PROVE  Generated(g, s, view)'
<1>1. predictions'[s.prediction] = predictions[s.prediction]
  BY PromotesStays
<1>2. Window(view, g)' = Window(view, g)
  BY ViewStays
<1>3. BoundWindow(g, view, s.prediction)' = BoundWindow(g, view, s.prediction)
  BY <1>1, <1>2 DEF BoundWindow
<1>4. \A i \in Sound(g, view)' : predictions'[i].landed = "in time" => i <= s.prediction
  <2> SUFFICES ASSUME NEW i \in Sound(g, view)', predictions'[i].landed = "in time"
               PROVE  i <= s.prediction
    OBVIOUS
  <2>1. /\ i \in Snapshots(g)' /\ predictions'[i].sound
        /\ predictions'[i].source \in Window(view, g)'
    BY DEF Sound
  <2>2. i \in Snapshots(g) /\ predictions'[i] = predictions[i]
    BY <2>1, SnapshotsStay
  <2>3. i \in Sound(g, view) /\ predictions[i].landed = "in time"
    BY <1>2, <2>1, <2>2 DEF Sound
  <2> QED
    BY <2>3 DEF Generated
<1> QED
  BY <1>1, <1>3, <1>4 DEF Generated

(***************************************************************************)
(* What each step makes of its run.                                        *)
(***************************************************************************)

\* The record of r becomes z.
Becomes(r, z) == RunOK(z) /\ run' = [run EXCEPT ![r] = z]

\* The record of r keeps its games, its view and its stage.
Keeps(r, z) ==
    z.game = run[r].game /\ z.todo = run[r].todo /\ z.view = run[r].view
    /\ z.item = run[r].item

\* Moving on to another place.
LEMMA GoesEffect ==
  ASSUME TypeInv, NEW r \in Runs, NEW place \in Places, Goes(r, place),
         place \in Working \cup Repairing => run[r].pc \in Working \cup Repairing,
         place \in Holding => run[r].pc \in Holding
  PROVE  \E z : Becomes(r, z) /\ z.pc = place /\ Keeps(r, z)
<1> DEFINE z == [run[r] EXCEPT !.pc = place]
<1>1. z \in RunType /\ z.pc = place /\ Keeps(r, z)
  BY RunOf DEF RunType, Keeps
<1>2. run' = [run EXCEPT ![r] = z]
  BY DEF Goes
<1> HIDE DEF z
<1>3. RunOK(z)
  BY <1>1, RunOf DEF RunOK, Keeps
<1> QED
  BY <1>1, <1>2, <1>3 DEF Becomes

\* Answering: the view is forgotten.
LEMMA AnswersEffect ==
  ASSUME NEW r \in Runs, NEW missed \in BOOLEAN, Answers(r, missed)
  PROVE  \E z : Becomes(r, z) /\ z.pc = "release" /\ z.view = {}
<1> DEFINE z == [Idle EXCEPT !.pc = "release", !.missed = missed]
<1>1. z \in RunType /\ z.pc = "release" /\ z.view = {}
  BY IdleType DEF RunType, Places, Idle
<1>2. run' = [run EXCEPT ![r] = z]
  BY DEF Answers
<1> HIDE DEF z
<1>3. RunOK(z)
  BY <1>1 DEF RunOK, Working, Repairing, Holding
<1> QED
  BY <1>1, <1>2, <1>3 DEF Becomes

\* Being done with the game in hand, with the record it has.
LEMMA DoneBecomes ==
  ASSUME TypeInv, NEW r \in Runs, NEW failed \in BOOLEAN, Done(r, failed)
  PROVE  \E z : Becomes(r, z) /\ z.view = run[r].view
                /\ Onward(z, run[r].todo \ {run[r].game})
<1>1. DoneAs(r, run[r], failed) /\ run[r] \in RunType
  BY RunOf DEF Done
<1>2. PICK z \in RunType :
         /\ run' = [run EXCEPT ![r] = z]
         /\ z.view = run[r].view /\ Onward(z, run[r].todo \ {run[r].game})
  BY <1>1, DoneEffect
<1> QED
  BY <1>2, OnwardOK DEF Becomes

\* The repair's next game, or its end.
LEMMA RepairBecomes ==
  ASSUME TypeInv, NEW r \in Runs, NEW todo \in SUBSET Games,
         RepairGames(r, run[r], todo)
  PROVE  \E z : Becomes(r, z)
                /\ \/ z = Idle
                   \/ z.pc = "unstaged" /\ z.todo = todo /\ z.view = run[r].view
<1>1. run[r] \in RunType
  BY RunOf
<1>2. PICK z \in RunType :
         /\ run' = [run EXCEPT ![r] = z]
         /\ \/ z = Idle
            \/ z.pc = "unstaged" /\ z.view = run[r].view /\ z.todo = todo /\ z.game \in todo
  BY <1>1, RepairEffect
<1>3. RunOK(z)
  BY <1>2, IdleType DEF RunOK, Working, Repairing, Holding
<1> QED
  BY <1>2, <1>3 DEF Becomes

\* The stored pulls are pulls, and every manifest is a set of games.
LEMMA ViewType ==
  ASSUME TypeInv
  PROVE  /\ StoredPulls \in SUBSET (1..MaxPulls)
         /\ \A view : Manifest(view) \in SUBSET Games
         /\ \A view, g : Window(view, g) \subseteq view
<1>1. StoredPulls \in SUBSET (1..MaxPulls)
  BY FeedsAre DEF FeedsShape
<1>2. ASSUME NEW view PROVE Manifest(view) \in SUBSET Games
  BY RostersAssumption DEF Manifest
<1>3. ASSUME NEW view, NEW g PROVE Window(view, g) \subseteq view
  BY DEF Window
<1> QED
  BY <1>1, <1>2, <1>3

\* A run begins with the lease, which was free, and with all stored pulls.
LEMMA BeginEffect ==
  ASSUME TypeInv, NEW r \in Runs, Begin(r)
  PROVE  /\ \E z : Becomes(r, z) /\ z.pc \in {"scheduled", "forced"} /\ z.view = StoredPulls
         /\ lease = NoRun /\ lease' = r /\ begun < MaxBegins /\ begun' = begun + 1
         /\ UNCHANGED <<now, feeds, rows, faults>>
<1> DEFINE y == [Idle EXCEPT !.pc = "scheduled", !.view = StoredPulls]
           w(b) == [Idle EXCEPT !.pc = "forced", !.view = StoredPulls, !.protected = b]
<1>1. y \in RunType /\ y.pc = "scheduled" /\ y.view = StoredPulls
  BY IdleType, ViewType DEF RunType, Places
<1>2. \A b \in BOOLEAN : w(b) \in RunType /\ w(b).pc = "forced" /\ w(b).view = StoredPulls
  BY IdleType, ViewType DEF RunType, Places
<1>3. run' = [run EXCEPT ![r] = y] \/ \E b \in BOOLEAN : run' = [run EXCEPT ![r] = w(b)]
  BY DEF Begin
<1> HIDE DEF y, w
<1>4. \E z \in RunType : run' = [run EXCEPT ![r] = z] /\ z.pc \in {"scheduled", "forced"}
                         /\ z.view = StoredPulls
  BY <1>1, <1>2, <1>3
<1>5. \E z : Becomes(r, z) /\ z.pc \in {"scheduled", "forced"} /\ z.view = StoredPulls
  BY <1>4 DEF Becomes, RunOK, Working, Repairing, Holding
<1> QED
  BY <1>5 DEF Begin, LeaseFree

\* After the window a run only answers, and adds one marker at most.
LEMMA AfterWindowEffect ==
  ASSUME TypeInv, NEW r \in Runs, AfterWindow(r)
  PROVE  /\ \E z : Becomes(r, z) /\ z.pc = "release" /\ z.view = {}
         /\ run[r].pc = "scheduled" /\ Closed(run[r].view)
         /\ UNCHANGED <<now, feeds, stage, canonical, outcome, card, lease, counts>>
         /\ \/ UNCHANGED markers
            \/ LET games == Manifest(run[r].view)
               IN  /\ InState(run[r].view, Terminal \cup {"MISSED"}) = games
                   /\ markers' = markers \cup {[games |-> games,
                         locked |-> InState(run[r].view, {"LOCKED"}),
                         missed |-> InState(run[r].view, {"MISSED"})]}
<1>1. \E missed \in BOOLEAN : Answers(r, missed)
  BY Zenon DEF AfterWindow
<1> QED
  BY <1>1, AnswersEffect, Zenon DEF AfterWindow, At

\* The observation ends the run, or takes up the first game of its state.
LEMMA ObserveEffect ==
  ASSUME TypeInv, NEW r \in Runs, Observe(r)
  PROVE  /\ \E z : Becomes(r, z) /\
              \/ z.pc = "release" /\ z.view = {}
              \/ z.view = run[r].view
                 /\ Onward(z, InState(run[r].view, {"CANONICAL_BLOCKED", "DUE"}))
         /\ run[r].pc \in {"scheduled", "forced"}
         /\ UNCHANGED <<now, feeds, rows, lease, counts>>
<1> DEFINE todo == InState(run[r].view, {"CANONICAL_BLOCKED", "DUE"})
<1>1. Answers(r, FALSE) \/ TakeUp(r, run[r], todo)
  BY Zenon DEF Observe
<1>2. todo \in SUBSET Games /\ run[r] \in RunType
  BY ViewType, RunOf DEF InState
<1>3. CASE Answers(r, FALSE)
  BY <1>3, AnswersEffect, Zenon DEF Observe, At
<1>4. CASE TakeUp(r, run[r], todo)
  <2>1. PICK z \in RunType : run' = [run EXCEPT ![r] = z] /\ z.view = run[r].view
                             /\ Onward(z, todo)
    BY <1>2, <1>4, TakeUpEffect
  <2>2. Becomes(r, z)
    BY <2>1, OnwardOK DEF Becomes
  <2> QED
    BY <2>1, <2>2, Zenon DEF Observe, At
<1> QED
  BY <1>1, <1>3, <1>4

\* A generated stage is of the game in hand, which has a snapshot and not started.
LEMMA GenerateEffect ==
  ASSUME TypeInv, NEW r \in Runs, Generate(r)
  PROVE  /\ \E z : Becomes(r, z) /\ z.view = run[r].view /\
              \/ Onward(z, run[r].todo \ {run[r].game})
              \/ z.pc = "absent" /\ Keeps(r, z) /\ Snapshots(z.game) = {}
              \/ /\ z.pc = "close" /\ z.game = run[r].game /\ z.todo = run[r].todo
                 /\ now < Start[z.game] /\ Sound(z.game, z.view) # {}
                 /\ z.item.prediction = LastSound(z.game, z.view)
                 /\ z.item.window = BoundWindow(z.game, z.view, z.item.prediction)
         /\ run[r].pc = "generate"
         /\ UNCHANGED <<now, feeds, rows, lease, counts>>
<1>0. run[r].pc = "generate" /\ UNCHANGED <<now, feeds, rows, lease, counts>>
  BY DEF Generate, At
<1> DEFINE g == run[r].game
           s == StageOf(g, run[r].view)
           z == [run[r] EXCEPT !.pc = "close", !.item = s]
<1>1. \/ Done(r, FALSE) \/ Done(r, TRUE)
      \/ ProvenAbsent(g) /\ Goes(r, "absent")
      \/ /\ ~(now >= Start[g]) /\ LastSound(g, run[r].view) # 0
         /\ run' = [run EXCEPT ![r] = z]
  BY Zenon DEF Generate
<1>2. CASE Done(r, FALSE) \/ Done(r, TRUE)
  BY <1>0, <1>2, DoneBecomes
<1>3. CASE ProvenAbsent(g) /\ Goes(r, "absent")
  <2>1. \E y : Becomes(r, y) /\ y.pc = "absent" /\ Keeps(r, y)
    BY <1>0, <1>3, GoesEffect DEF Places, Working, Holding
  <2> QED
    BY <1>0, <1>3, <2>1 DEF Keeps, ProvenAbsent
<1>4. CASE /\ ~(now >= Start[g]) /\ LastSound(g, run[r].view) # 0
           /\ run' = [run EXCEPT ![r] = z]
  <2>1. g \in Games /\ g \in run[r].todo /\ run[r] \in RunType
    BY <1>0, RunOf DEF RunOK, RunType, Working
  <2>2. /\ Sound(g, run[r].view) # {} /\ LastSound(g, run[r].view) \in 1..MaxPredictions
        /\ LastSound(g, run[r].view) # 0
    BY <1>4, <2>1, LastSoundIs
  <2>3. /\ s.prediction = LastSound(g, run[r].view)
        /\ s.window = BoundWindow(g, run[r].view, s.prediction)
    BY DEF StageOf
  <2>4. s \in StageType
    <3>1. run[r].view \in SUBSET (1..MaxPulls)
      BY <2>1 DEF RunType
    <3>2. /\ BoundWindow(g, run[r].view, LastSound(g, run[r].view)) \in SUBSET (1..MaxPulls)
          /\ Manifest(run[r].view) \in SUBSET Games
      BY <3>1, ViewType DEF BoundWindow
    <3> QED
      BY <2>2, <3>2 DEF StageOf, StageType
  <2>5. s # NoStage
    BY <2>2, <2>3, NoStageType
  <2>6. now < Start[g]
    BY <1>4, <2>1, FeedsAre, GamesAssumption DEF FeedsShape
  <2>7. run' = [run EXCEPT ![r] = z]
    BY <1>4
  <2> HIDE DEF s
  <2>8. z \in RunType /\ z.pc = "close" /\ z.item = s /\ z.view = run[r].view
        /\ z.game = g /\ z.todo = run[r].todo
    BY <2>1, <2>4 DEF RunType, Places
  <2> HIDE DEF z, g
  <2>9. RunOK(z)
    BY <2>1, <2>5, <2>8 DEF RunOK
  <2> QED
    BY <1>0, <2>2, <2>3, <2>6, <2>7, <2>8, <2>9 DEF Becomes, g
<1> QED
  BY <1>1, <1>2, <1>3, <1>4

\* A window that closes covers the pulls that are stored.
LEMMA CloseWindowEffect ==
  ASSUME TypeInv, NEW r \in Runs, CloseWindow(r)
  PROVE  /\ \E z : Becomes(r, z) /\ z.view \in {run[r].view, StoredPulls} /\
              \/ Onward(z, run[r].todo \ {run[r].game})
              \/ z.pc = "generate" /\ z.game = run[r].game /\ z.todo = run[r].todo
              \/ /\ z.pc = "stage" /\ z.game = run[r].game /\ z.todo = run[r].todo
                 /\ z.item = run[r].item
                 /\ Window(run[r].view, z.game) = Window(StoredPulls, z.game)
         /\ run[r].pc = "close"
         /\ UNCHANGED <<now, feeds, rows, lease, counts>>
<1>0. run[r].pc = "close" /\ UNCHANGED <<now, feeds, rows, lease, counts>>
  BY DEF CloseWindow, At
<1> DEFINE g == run[r].game
           fresh == [run[r] EXCEPT !.view = StoredPulls]
           again == [fresh EXCEPT !.pc = "generate", !.left = @ - 1]
           ready == [fresh EXCEPT !.pc = "stage"]
<1>1. \/ Done(r, TRUE) \/ DoneAs(r, fresh, TRUE)
      \/ MayRetry(r) /\ run' = [run EXCEPT ![r] = again]
      \/ SameWindow(run[r].view, StoredPulls, g) /\ run' = [run EXCEPT ![r] = ready]
  BY Zenon DEF CloseWindow
<1>2. /\ g \in Games /\ g \in run[r].todo /\ run[r] \in RunType /\ RunOK(run[r])
      /\ run[r].item # NoStage /\ StoredPulls \in SUBSET (1..MaxPulls)
  BY <1>0, RunOf, ViewType DEF RunOK, RunType, Working, Holding
<1>3. /\ fresh \in RunType /\ fresh.view = StoredPulls /\ fresh.todo = run[r].todo
      /\ fresh.game = g /\ fresh.item = run[r].item /\ fresh.left = run[r].left
  BY <1>2 DEF RunType
<1> HIDE DEF fresh, g
<1>4. CASE Done(r, TRUE)
  BY <1>0, <1>4, DoneBecomes DEF g
<1>5. CASE DoneAs(r, fresh, TRUE)
  <2>1. PICK z \in RunType : run' = [run EXCEPT ![r] = z] /\ z.view = fresh.view
                             /\ Onward(z, fresh.todo \ {fresh.game})
    BY <1>3, <1>5, DoneEffect
  <2>2. Becomes(r, z)
    BY <2>1, OnwardOK DEF Becomes
  <2> QED
    BY <1>0, <1>3, <2>1, <2>2 DEF g
<1>6. CASE MayRetry(r) /\ run' = [run EXCEPT ![r] = again]
  <2>1. fresh.left - 1 \in 1..(MaxTries + 1)
    BY <1>2, <1>3, <1>6, BoundsAssumption DEF MayRetry, RunType
  <2>2. again \in RunType /\ again.pc = "generate" /\ again.view = fresh.view
        /\ again.game = fresh.game /\ again.todo = fresh.todo
    BY <1>3, <2>1 DEF RunType, Places
  <2>3. run' = [run EXCEPT ![r] = again]
    BY <1>6
  <2> HIDE DEF again
  <2>4. RunOK(again)
    BY <1>2, <1>3, <2>2 DEF RunOK, Working, Repairing, Holding
  <2> QED
    BY <1>0, <1>3, <2>2, <2>3, <2>4 DEF Becomes, g
<1>7. CASE SameWindow(run[r].view, StoredPulls, g) /\ run' = [run EXCEPT ![r] = ready]
  <2>1. ready \in RunType /\ ready.pc = "stage" /\ ready.view = fresh.view
        /\ ready.game = fresh.game /\ ready.todo = fresh.todo /\ ready.item = fresh.item
    BY <1>3 DEF RunType, Places
  <2>2. run' = [run EXCEPT ![r] = ready]
    BY <1>7
  <2> HIDE DEF ready
  <2>3. RunOK(ready)
    BY <1>2, <1>3, <2>1 DEF RunOK, Working, Repairing, Holding
  <2> QED
    BY <1>0, <1>3, <1>7, <2>1, <2>2, <2>3 DEF Becomes, g, SameWindow
<1> QED
  BY <1>1, <1>4, <1>5, <1>6, <1>7

\* A stage is written where none was, or not at all.
LEMMA PutStageEffect ==
  ASSUME TypeInv, NEW r \in Runs, PutStage(r)
  PROVE  /\ \E z : Becomes(r, z) /\ z.view = run[r].view /\
              \/ Onward(z, run[r].todo \ {run[r].game})
              \/ /\ z.pc = "canonical" /\ z.game = run[r].game /\ z.todo = run[r].todo
                 /\ StageWritten(r)
         /\ run[r].pc = "stage" /\ (StageWritten(r) \/ UNCHANGED stage)
         /\ UNCHANGED <<now, feeds, canonical, outcome, card, markers, lease, begun>>
         /\ UNCHANGED faults \/ (faults < MaxFaults /\ faults' = faults + 1)
<1>0. /\ run[r].pc = "stage" /\ (StageWritten(r) \/ UNCHANGED stage)
      /\ UNCHANGED <<now, feeds, canonical, outcome, card, markers, lease, begun>>
      /\ UNCHANGED faults \/ (faults < MaxFaults /\ faults' = faults + 1)
  BY DEF PutStage, At, Fault, counts
<1> DEFINE z == [run[r] EXCEPT !.pc = "canonical", !.left = 2]
<1>1. Done(r, TRUE) \/ (StageWritten(r) /\ run' = [run EXCEPT ![r] = z])
  BY Zenon DEF PutStage
<1>2. CASE Done(r, TRUE)
  BY <1>0, <1>2, DoneBecomes
<1>3. CASE StageWritten(r) /\ run' = [run EXCEPT ![r] = z]
  <2>1. run[r] \in RunType /\ RunOK(run[r]) /\ 2 \in 1..(MaxTries + 1)
    BY RunOf, BoundsAssumption
  <2>2. z \in RunType /\ z.pc = "canonical" /\ z.view = run[r].view
        /\ z.game = run[r].game /\ z.todo = run[r].todo
    BY <2>1 DEF RunType, Places
  <2>3. run' = [run EXCEPT ![r] = z]
    BY <1>3
  <2> HIDE DEF z
  <2>4. RunOK(z)
    BY <1>0, <2>1, <2>2 DEF RunOK, Working, Repairing, Holding
  <2> QED
    BY <1>0, <1>3, <2>2, <2>3, <2>4 DEF Becomes
<1> QED
  BY <1>1, <1>2, <1>3

\* A canonical row is to be written only where the game has not started.
LEMMA CheckCanonicalEffect ==
  ASSUME TypeInv, NEW r \in Runs, CheckCanonical(r)
  PROVE  /\ \E z : Becomes(r, z) /\ z.view = run[r].view /\
              \/ Onward(z, run[r].todo \ {run[r].game})
              \/ z.pc = "store" /\ Keeps(r, z) /\ now < Start[z.game]
         /\ run[r].pc = "canonical"
         /\ UNCHANGED <<now, feeds, rows, lease, counts>>
<1>0. run[r].pc = "canonical" /\ UNCHANGED <<now, feeds, rows, lease, counts>>
  BY DEF CheckCanonical, At
<1>1. MayRetry(r) \in BOOLEAN
  BY DEF MayRetry
<1>2. \/ Done(r, FALSE) \/ Done(r, MayRetry(r))
      \/ now < Start[run[r].game] /\ Goes(r, "store")
  BY Zenon DEF CheckCanonical
<1>3. CASE Done(r, FALSE) \/ Done(r, MayRetry(r))
  BY <1>0, <1>1, <1>3, DoneBecomes
<1>4. CASE now < Start[run[r].game] /\ Goes(r, "store")
  <2>1. \E z : Becomes(r, z) /\ z.pc = "store" /\ Keeps(r, z)
    BY <1>0, <1>4, GoesEffect DEF Places, Working, Holding
  <2> QED
    BY <1>0, <1>4, <2>1 DEF Keeps
<1> QED
  BY <1>2, <1>3, <1>4

\* A canonical row is written where none was, or not at all.
LEMMA StoreCanonicalEffect ==
  ASSUME TypeInv, NEW r \in Runs, StoreCanonical(r)
  PROVE  /\ \E z : Becomes(r, z) /\ z.view = run[r].view /\
              \/ Onward(z, run[r].todo \ {run[r].game})
              \/ z.pc = "canonical" /\ z.game = run[r].game /\ z.todo = run[r].todo
         /\ run[r].pc = "store" /\ (CanonicalWritten(r) \/ UNCHANGED canonical)
         /\ UNCHANGED <<now, feeds, stage, outcome, card, markers, lease, begun>>
         /\ UNCHANGED faults \/ (faults < MaxFaults /\ faults' = faults + 1)
<1>0. /\ run[r].pc = "store" /\ (CanonicalWritten(r) \/ UNCHANGED canonical)
      /\ UNCHANGED <<now, feeds, stage, outcome, card, markers, lease, begun>>
      /\ UNCHANGED faults \/ (faults < MaxFaults /\ faults' = faults + 1)
  BY DEF StoreCanonical, At, Fault, counts
<1> DEFINE z == [run[r] EXCEPT !.pc = "canonical", !.left = @ - 1, !.failed = TRUE]
<1>1. Done(r, FALSE) \/ (MayRetry(r) /\ run' = [run EXCEPT ![r] = z])
  BY Zenon DEF StoreCanonical
<1>2. CASE Done(r, FALSE)
  BY <1>0, <1>2, DoneBecomes
<1>3. CASE MayRetry(r) /\ run' = [run EXCEPT ![r] = z]
  <2>1. run[r] \in RunType /\ RunOK(run[r])
    BY RunOf
  <2>2. run[r].left - 1 \in 1..(MaxTries + 1)
    BY <1>3, <2>1, BoundsAssumption DEF MayRetry, RunType
  <2>3. z \in RunType /\ z.pc = "canonical" /\ z.view = run[r].view
        /\ z.game = run[r].game /\ z.todo = run[r].todo
    BY <2>1, <2>2 DEF RunType, Places
  <2>4. run' = [run EXCEPT ![r] = z]
    BY <1>3
  <2> HIDE DEF z
  <2>5. RunOK(z)
    BY <1>0, <2>1, <2>3 DEF RunOK, Working, Repairing, Holding
  <2> QED
    BY <1>0, <2>3, <2>4, <2>5 DEF Becomes
<1> QED
  BY <1>1, <1>2, <1>3

\* The outcome of the game in hand is written, or not, and the next game taken up.
LEMMA PutOutcomeEffect ==
  ASSUME TypeInv, NEW r \in Runs, PutOutcome(r)
  PROVE  /\ \E z : Becomes(r, z) /\ z.view = run[r].view
                   /\ Onward(z, run[r].todo \ {run[r].game})
         /\ run[r].pc = "absent" /\ (OutcomeWritten(r) \/ UNCHANGED outcome)
         /\ UNCHANGED <<now, feeds, stage, canonical, card, markers, lease, begun>>
         /\ UNCHANGED faults \/ (faults < MaxFaults /\ faults' = faults + 1)
<1>0. /\ run[r].pc = "absent" /\ (OutcomeWritten(r) \/ UNCHANGED outcome)
      /\ UNCHANGED <<now, feeds, stage, canonical, card, markers, lease, begun>>
      /\ UNCHANGED faults \/ (faults < MaxFaults /\ faults' = faults + 1)
  BY DEF PutOutcome, At, Fault, counts
<1>1. Done(r, FALSE) \/ Done(r, TRUE)
  BY DEF PutOutcome
<1> QED
  BY <1>0, <1>1, DoneBecomes

\* Only a whole slate of canonical rows leads on to the card.
LEMMA FinalEffect ==
  ASSUME TypeInv, NEW r \in Runs, Final(r)
  PROVE  /\ \E z : Becomes(r, z) /\
              \/ z.pc = "release" /\ z.view = {}
              \/ z.pc = "recheck" /\ z.view = StoredPulls /\ CardReady(StoredPulls)
         /\ run[r].pc = "final"
         /\ UNCHANGED <<now, feeds, rows, lease, counts>>
<1>0. run[r].pc = "final" /\ UNCHANGED <<now, feeds, rows, lease, counts>>
  BY DEF Final, At
<1> DEFINE z == [run[r] EXCEPT !.pc = "recheck", !.view = StoredPulls]
<1>1. \/ Answers(r, run[r].protected) \/ Answers(r, FALSE)
      \/ CardReady(StoredPulls) /\ run' = [run EXCEPT ![r] = z]
  BY Zenon DEF Final
<1>2. run[r] \in RunType
  BY RunOf
<1>3. CASE Answers(r, run[r].protected) \/ Answers(r, FALSE)
  <2>1. run[r].protected \in BOOLEAN
    BY <1>2 DEF RunType
  <2> QED
    BY <1>0, <1>3, <2>1, AnswersEffect
<1>4. CASE CardReady(StoredPulls) /\ run' = [run EXCEPT ![r] = z]
  <2>1. z \in RunType /\ z.pc = "recheck" /\ z.view = StoredPulls
    BY <1>2, ViewType DEF RunType, Places
  <2>2. run' = [run EXCEPT ![r] = z]
    BY <1>4
  <2> HIDE DEF z
  <2> QED
    BY <1>0, <1>4, <2>1, <2>2 DEF Becomes, RunOK, Working, Repairing, Holding
<1> QED
  BY <1>1, <1>3, <1>4

\* The pulls are the same just before the card.
LEMMA RecheckPullsEffect ==
  ASSUME TypeInv, NEW r \in Runs, RecheckPulls(r)
  PROVE  /\ \E z : Becomes(r, z) /\
              \/ z.pc = "release" /\ z.view = {}
              \/ z.pc = "card" /\ z.view = run[r].view /\ StoredPulls = z.view
         /\ run[r].pc = "recheck"
         /\ UNCHANGED <<now, feeds, rows, lease, counts>>
<1>0. run[r].pc = "recheck" /\ UNCHANGED <<now, feeds, rows, lease, counts>>
  BY DEF RecheckPulls, At
<1>1. Answers(r, FALSE) \/ (StoredPulls = run[r].view /\ Goes(r, "card"))
  BY Zenon DEF RecheckPulls
<1>2. CASE Answers(r, FALSE)
  BY <1>0, <1>2, AnswersEffect
<1>3. CASE StoredPulls = run[r].view /\ Goes(r, "card")
  <2>1. \E z : Becomes(r, z) /\ z.pc = "card" /\ Keeps(r, z)
    BY <1>3, GoesEffect DEF Places, Working, Repairing, Holding
  <2> QED
    BY <1>0, <1>3, <2>1 DEF Keeps
<1> QED
  BY <1>1, <1>2, <1>3

\* The card is written once.
LEMMA PutCardEffect ==
  ASSUME TypeInv, NEW r \in Runs, PutCard(r)
  PROVE  /\ \E z : Becomes(r, z) /\ z.pc = "release" /\ z.view = {}
         /\ run[r].pc = "card"
         /\ \/ UNCHANGED card
            \/ card' = [g \in Manifest(run[r].view) |-> stage[g].prediction]
         /\ UNCHANGED <<now, feeds, stage, canonical, outcome, markers, lease, begun>>
         /\ UNCHANGED faults \/ (faults < MaxFaults /\ faults' = faults + 1)
<1>1. Answers(r, FALSE)
  BY DEF PutCard
<1>2. \E z : Becomes(r, z) /\ z.pc = "release" /\ z.view = {}
  BY <1>1, AnswersEffect
<1>3. \/ UNCHANGED card
      \/ card' = [g \in Manifest(run[r].view) |-> stage[g].prediction]
  BY Zenon DEF PutCard
<1> QED
  BY <1>2, <1>3 DEF PutCard, At, Fault, counts

\* A lease that is given back.
LEMMA ReleaseEffect ==
  ASSUME TypeInv, NEW r \in Runs, Release(r)
  PROVE  /\ \E z : Becomes(r, z) /\ z.pc \in {"idle", "repair"} /\ z.view = {}
         /\ lease' = IF lease = r THEN NoRun ELSE lease
         /\ UNCHANGED <<now, feeds, rows, counts>>
<1> DEFINE y == [Idle EXCEPT !.pc = "repair"]
<1>1. y \in RunType /\ y.pc = "repair" /\ y.view = {}
  BY IdleType DEF RunType, Places, Idle
<1>2. Idle.view = {}
  BY DEF Idle
<1>3. run' = [run EXCEPT ![r] = y] \/ run' = [run EXCEPT ![r] = Idle]
  BY Zenon DEF Release
<1> HIDE DEF y
<1>4. \E z \in RunType : run' = [run EXCEPT ![r] = z] /\ z.pc \in {"idle", "repair"}
                         /\ z.view = {}
  BY <1>1, <1>2, <1>3, IdleType
<1> QED
  BY <1>4 DEF Release, Becomes, RunOK, Working, Repairing, Holding

\* A run that dies, and its lease.
LEMMA CrashEffect ==
  ASSUME TypeInv, NEW r \in Runs, Crash(r)
  PROVE  /\ \E z : Becomes(r, z) /\ z.pc \in {"idle", "repair"} /\ z.view = {}
         /\ lease' = IF lease = r THEN NoRun ELSE lease
         /\ UNCHANGED <<now, feeds, rows, begun>>
         /\ faults < MaxFaults /\ faults' = faults + 1
<1>1. RunOK(Idle) /\ Idle.view = {}
  BY IdleType DEF RunOK, Working, Repairing, Holding, Idle
<1> QED
  BY <1>1, IdleType DEF Crash, Fault, Becomes

\* The steps of the repair up to its write.
LEMMA RepairReadEffect ==
  ASSUME TypeInv, NEW r \in Runs, RepairRead(r)
  PROVE  /\ \E z : Becomes(r, z) /\
              \/ z = Idle
              \/ z.pc = "unstaged" /\ z.view = run[r].view
                 /\ z.todo = InState(StoredPulls, {"MISSED"})
         /\ run[r].pc = "repair"
         /\ UNCHANGED <<now, feeds, rows, lease, counts>>
<1>1. InState(StoredPulls, {"MISSED"}) \in SUBSET Games
  BY ViewType DEF InState
<1>2. RepairGames(r, run[r], InState(StoredPulls, {"MISSED"}))
  BY DEF RepairRead
<1>3. \E z : Becomes(r, z) /\
              \/ z = Idle
              \/ z.pc = "unstaged" /\ z.view = run[r].view
                 /\ z.todo = InState(StoredPulls, {"MISSED"})
  BY <1>1, <1>2, RepairBecomes
<1> QED
  BY <1>3 DEF RepairRead, At

\* The repair's next game is one of those it had.
LEMMA RepairNextEffect ==
  ASSUME TypeInv, NEW r \in Runs, RepairNext(r)
  PROVE  \E z : Becomes(r, z) /\
              \/ z = Idle
              \/ z.pc = "unstaged" /\ z.view = run[r].view
                 /\ z.todo = run[r].todo \ {run[r].game}
<1>1. run[r].todo \ {run[r].game} \in SUBSET Games
  BY RunOf DEF RunType
<1> QED
  BY <1>1, RepairBecomes DEF RepairNext

\* It goes on to look for snapshots.
LEMMA RepairRecheckEffect ==
  ASSUME TypeInv, NEW r \in Runs, RepairRecheck(r)
  PROVE  /\ \E z : Becomes(r, z) /\
              \/ z = Idle
              \/ z.pc = "unstaged" /\ z.view = run[r].view
                 /\ z.todo = run[r].todo \ {run[r].game}
              \/ z.pc = "lookup" /\ Keeps(r, z)
         /\ run[r].pc = "unstaged"
         /\ UNCHANGED <<now, feeds, rows, lease, counts>>
<1>0. run[r].pc = "unstaged" /\ UNCHANGED <<now, feeds, rows, lease, counts>>
  BY DEF RepairRecheck, At
<1>1. RepairNext(r) \/ Goes(r, "lookup")
  BY DEF RepairRecheck
<1>2. CASE RepairNext(r)
  BY <1>0, <1>2, RepairNextEffect
<1>3. CASE Goes(r, "lookup")
  BY <1>0, <1>3, GoesEffect DEF Places, Repairing, Holding
<1> QED
  BY <1>1, <1>2, <1>3

\* It goes on to its write only when there is none.
LEMMA RepairLookupEffect ==
  ASSUME TypeInv, NEW r \in Runs, RepairLookup(r)
  PROVE  /\ \E z : Becomes(r, z) /\
              \/ z = Idle
              \/ z.pc = "unstaged" /\ z.view = run[r].view
                 /\ z.todo = run[r].todo \ {run[r].game}
              \/ z.pc = "reconcile" /\ Keeps(r, z) /\ Snapshots(z.game) = {}
         /\ run[r].pc = "lookup"
         /\ UNCHANGED <<now, feeds, rows, lease, counts>>
<1>0. run[r].pc = "lookup" /\ UNCHANGED <<now, feeds, rows, lease, counts>>
  BY DEF RepairLookup, At
<1>1. RepairNext(r) \/ (Snapshots(run[r].game) = {} /\ Goes(r, "reconcile"))
  BY DEF RepairLookup, ProvenAbsence, ProvenAbsent
<1>2. CASE RepairNext(r)
  BY <1>0, <1>2, RepairNextEffect
<1>3. CASE Snapshots(run[r].game) = {} /\ Goes(r, "reconcile")
  <2>1. \E z : Becomes(r, z) /\ z.pc = "reconcile" /\ Keeps(r, z)
    BY <1>0, <1>3, GoesEffect DEF Places, Repairing, Working, Holding
  <2> QED
    BY <1>0, <1>3, <2>1 DEF Keeps
<1> QED
  BY <1>1, <1>2, <1>3

\* The repair's write.
LEMMA RepairPutEffect ==
  ASSUME TypeInv, NEW r \in Runs, RepairPut(r)
  PROVE  /\ \E z : Becomes(r, z) /\
              \/ z = Idle
              \/ z.pc = "unstaged" /\ z.view = run[r].view
                 /\ z.todo = run[r].todo \ {run[r].game}
         /\ run[r].pc = "reconcile" /\ (OutcomeWritten(r) \/ UNCHANGED outcome)
         /\ UNCHANGED <<now, feeds, stage, canonical, card, markers, lease, begun>>
         /\ UNCHANGED faults \/ (faults < MaxFaults /\ faults' = faults + 1)
<1>0. /\ run[r].pc = "reconcile" /\ (OutcomeWritten(r) \/ UNCHANGED outcome)
      /\ UNCHANGED <<now, feeds, stage, canonical, card, markers, lease, begun>>
      /\ UNCHANGED faults \/ (faults < MaxFaults /\ faults' = faults + 1)
  BY DEF RepairPut, At, Fault, counts
<1>1. RepairNext(r) \/ RepairGames(r, run[r], {})
  BY DEF RepairPut
<1>2. CASE RepairNext(r)
  BY <1>0, <1>2, RepairNextEffect
<1>3. CASE RepairGames(r, run[r], {})
  <2>1. run' = [run EXCEPT ![r] = Idle] /\ RunOK(Idle)
    BY <1>3, IdleType DEF RepairGames, RunOK, Working, Repairing, Holding
  <2> QED
    BY <1>0, <2>1 DEF Becomes
<1> QED
  BY <1>1, <1>2, <1>3

(***************************************************************************)
(* Type correctness.                                                       *)
(***************************************************************************)

RowsOK ==
    /\ stage \in [Games -> StageType]
    /\ canonical \in [Games -> 0..MaxPredictions]
    /\ outcome \in [Games -> BOOLEAN]
    /\ \A m \in markers : m.games \subseteq Games
                         /\ m.locked \cup m.missed \subseteq m.games

RestOK ==
    /\ lease \in Runs \cup {NoRun}
    /\ run \in [Runs -> RunType] /\ \A r \in Runs : RunOK(run[r])
    /\ begun \in 0..MaxBegins /\ faults \in 0..MaxFaults

\* TypeInv is these three.
LEMMA TypeParts == TypeInv <=> FeedsOK /\ RowsOK /\ RestOK
  BY DEF TypeInv, FeedsOK, RowsOK, RestOK

\* A step of one run, and of the counts, keeps the rest of the types.
LEMMA RestNext ==
  ASSUME TypeInv, NEW r \in Runs, NEW z, Becomes(r, z),
         lease' \in {lease, r, NoRun},
         UNCHANGED begun \/ (begun < MaxBegins /\ begun' = begun + 1),
         UNCHANGED faults \/ (faults < MaxFaults /\ faults' = faults + 1)
  PROVE  RestOK'
<1>1. run' \in [Runs -> RunType] /\ \A q \in Runs : RunOK(run'[q])
  BY DEF TypeInv, Becomes, RunOK
<1>2. begun' \in 0..MaxBegins /\ faults' \in 0..MaxFaults
  BY BoundsAssumption DEF TypeInv
<1>3. lease' \in Runs \cup {NoRun}
  BY DEF TypeInv
<1> QED
  BY <1>1, <1>2, <1>3 DEF RestOK

\* The game in hand is a game, and its stage a stage.
LEMMA GameOf ==
  ASSUME TypeInv, NEW r \in Runs, run[r].pc \in Working \cup Repairing
  PROVE  /\ run[r].game \in Games /\ run[r].game \in run[r].todo
         /\ run[r].todo \subseteq Games /\ run[r].item \in StageType
  BY RunOf DEF RunOK, RunType

\* Every step of a run keeps the types.
LEMMA StepType ==
  ASSUME TypeInv, NEW r \in Runs, Step(r)
  PROVE  TypeInv'
<1> USE DEF rows, counts
<1>0. FeedsOK' /\ RowsOK' /\ RestOK' => TypeInv'
  BY TypeParts, PTL
<1>1. CASE Begin(r)
  BY <1>0, <1>1, BeginEffect, FeedsRest, RestNext DEF TypeInv, RowsOK
<1>2. CASE AfterWindow(r)
  <2>1. /\ UNCHANGED <<now, feeds, stage, canonical, outcome, card, lease, counts>>
        /\ \E z : Becomes(r, z)
    BY <1>2, AfterWindowEffect
  <2>2. FeedsOK' /\ RestOK'
    BY <2>1, FeedsRest, RestNext
  <2>3. RowsOK'
    <3> DEFINE view == run[r].view
               m == [games |-> Manifest(view), locked |-> InState(view, {"LOCKED"}),
                     missed |-> InState(view, {"MISSED"})]
    <3>1. UNCHANGED markers \/ markers' = markers \cup {m}
      BY <1>2, AfterWindowEffect
    <3>2. Manifest(view) \subseteq Games /\ InState(view, {"LOCKED"}) \subseteq Manifest(view)
          /\ InState(view, {"MISSED"}) \subseteq Manifest(view)
      BY ViewType DEF InState
    <3>3. m.games \subseteq Games /\ m.locked \cup m.missed \subseteq m.games
      BY <3>2
    <3> HIDE DEF m
    <3> QED
      BY <2>1, <3>1, <3>3 DEF TypeInv, RowsOK
  <2> QED
    BY <1>0, <2>2, <2>3
<1>3. CASE Observe(r)
  BY <1>0, <1>3, ObserveEffect, FeedsRest, RestNext DEF TypeInv, RowsOK
<1>4. CASE Generate(r)
  BY <1>0, <1>4, GenerateEffect, FeedsRest, RestNext DEF TypeInv, RowsOK
<1>5. CASE CloseWindow(r)
  BY <1>0, <1>5, CloseWindowEffect, FeedsRest, RestNext DEF TypeInv, RowsOK
<1>6. CASE PutStage(r)
  <2>1. run[r].game \in Games /\ run[r].item \in StageType
    BY <1>6, PutStageEffect, GameOf DEF Working
  <2>2. RowsOK'
    BY <1>6, <2>1, PutStageEffect DEF TypeInv, RowsOK, StageWritten
  <2> QED
    BY <1>0, <1>6, <2>2, PutStageEffect, FeedsRest, RestNext
<1>7. CASE CheckCanonical(r)
  BY <1>0, <1>7, CheckCanonicalEffect, FeedsRest, RestNext DEF TypeInv, RowsOK
<1>8. CASE StoreCanonical(r)
  <2>1. run[r].game \in Games
    BY <1>8, StoreCanonicalEffect, GameOf DEF Working
  <2>2. stage[run[r].game] \in StageType
    BY <2>1 DEF TypeInv
  <2>3. stage[run[r].game].prediction \in 0..MaxPredictions
    BY <2>2, BoundsAssumption DEF StageType, NoStage
  <2>4. RowsOK'
    BY <1>8, <2>1, <2>3, StoreCanonicalEffect DEF TypeInv, RowsOK, CanonicalWritten
  <2> QED
    BY <1>0, <1>8, <2>4, StoreCanonicalEffect, FeedsRest, RestNext
<1>9. CASE PutOutcome(r)
  <2>1. RowsOK'
    BY <1>9, PutOutcomeEffect DEF TypeInv, RowsOK, OutcomeWritten
  <2> QED
    BY <1>0, <1>9, <2>1, PutOutcomeEffect, FeedsRest, RestNext
<1>10. CASE Final(r)
  BY <1>0, <1>10, FinalEffect, FeedsRest, RestNext DEF TypeInv, RowsOK
<1>11. CASE RecheckPulls(r)
  BY <1>0, <1>11, RecheckPullsEffect, FeedsRest, RestNext DEF TypeInv, RowsOK
<1>12. CASE PutCard(r)
  BY <1>0, <1>12, PutCardEffect, FeedsRest, RestNext DEF TypeInv, RowsOK
<1>13. CASE Release(r)
  BY <1>0, <1>13, ReleaseEffect, FeedsRest, RestNext DEF TypeInv, RowsOK
<1>14. CASE Crash(r)
  BY <1>0, <1>14, CrashEffect, FeedsRest, RestNext DEF TypeInv, RowsOK
<1>15. CASE RepairRead(r)
  BY <1>0, <1>15, RepairReadEffect, FeedsRest, RestNext DEF TypeInv, RowsOK
<1>16. CASE RepairRecheck(r)
  BY <1>0, <1>16, RepairRecheckEffect, FeedsRest, RestNext DEF TypeInv, RowsOK
<1>17. CASE RepairLookup(r)
  BY <1>0, <1>17, RepairLookupEffect, FeedsRest, RestNext DEF TypeInv, RowsOK
<1>18. CASE RepairPut(r)
  <2>1. RowsOK'
    BY <1>18, RepairPutEffect DEF TypeInv, RowsOK, OutcomeWritten
  <2> QED
    BY <1>0, <1>18, <2>1, RepairPutEffect, FeedsRest, RestNext
<1> QED
  BY <1>1, <1>2, <1>3, <1>4, <1>5, <1>6, <1>7, <1>8, <1>9, <1>10, <1>11, <1>12, <1>13,
     <1>14, <1>15, <1>16, <1>17, <1>18 DEF Step

\* The clock and the feeds.
FeedStep == Tick \/ Respond \/ StorePull \/ Predict \/ LandSnapshot

\* They move as described, and nothing else does.
LEMMA FeedStepEffect ==
  ASSUME TypeInv, FeedStep
  PROVE  FeedsOK' /\ Grow /\ UNCHANGED <<rows, lease, run, counts>>
  BY TickFeeds, RespondFeeds, StorePullFeeds, PredictFeeds, LandSnapshotFeeds
  DEF FeedStep, Tick, Respond, StorePull, Predict, LandSnapshot

\* They keep the types.
LEMMA FeedStepType ==
  ASSUME TypeInv, FeedStep
  PROVE  TypeInv'
<1>1. FeedsOK' /\ RowsOK' /\ RestOK'
  BY FeedStepEffect, TypeParts DEF RowsOK, RestOK, rows, counts
<1> QED
  BY <1>1, TypeParts, PTL

\* A step that changes nothing.
LEMMA StutterGrow ==
  ASSUME TypeInv, UNCHANGED vars
  PROVE  TypeInv' /\ Grow /\ UNCHANGED <<rows, lease, run, counts>>
<1>1. UNCHANGED <<now, feeds>> /\ UNCHANGED <<rows, lease, run, counts>>
  BY DEF vars, feeds, rows, counts
<1>2. FeedsOK' /\ RowsOK' /\ RestOK'
  BY <1>1, FeedsRest, TypeParts DEF RowsOK, RestOK, rows, counts
<1> QED
  BY <1>1, <1>2, FeedsRest, TypeParts, PTL

(***************************************************************************)
(* Views and the lease.                                                    *)
(***************************************************************************)

\* The records that a step may leave to its run, as to view and lease.
InLease(r, z) ==
    /\ z.view \in {run[r].view, StoredPulls, {}}
    /\ z.pc \in Leased =>
          \/ run[r].pc \in Leased /\ lease' = lease
          \/ lease = NoRun /\ lease' = r
    /\ lease' = lease \/ lease \in {r, NoRun}

\* Every step leaves such a record.
LEMMA StepInLease ==
  ASSUME TypeInv, NEW r \in Runs, Step(r)
  PROVE  UNCHANGED <<now, feeds>> /\ \E z : Becomes(r, z) /\ InLease(r, z)
<1> USE DEF InLease, Leased, Working
<1>1. CASE Begin(r)
  BY <1>1, BeginEffect
<1>2. CASE AfterWindow(r)
  BY <1>2, AfterWindowEffect
<1>3. CASE Observe(r)
  BY <1>3, ObserveEffect DEF Onward
<1>4. CASE Generate(r)
  BY <1>4, GenerateEffect DEF Onward
<1>5. CASE CloseWindow(r)
  BY <1>5, CloseWindowEffect DEF Onward
<1>6. CASE PutStage(r)
  BY <1>6, PutStageEffect DEF Onward
<1>7. CASE CheckCanonical(r)
  BY <1>7, CheckCanonicalEffect DEF Onward
<1>8. CASE StoreCanonical(r)
  BY <1>8, StoreCanonicalEffect DEF Onward
<1>9. CASE PutOutcome(r)
  BY <1>9, PutOutcomeEffect DEF Onward
<1>10. CASE Final(r)
  BY <1>10, FinalEffect
<1>11. CASE RecheckPulls(r)
  BY <1>11, RecheckPullsEffect
<1>12. CASE PutCard(r)
  BY <1>12, PutCardEffect
<1>13. CASE Release(r)
  BY <1>13, ReleaseEffect
<1>14. CASE Crash(r)
  BY <1>14, CrashEffect
<1>15. CASE RepairRead(r)
  BY <1>15, RepairReadEffect DEF Idle
<1>16. CASE RepairRecheck(r)
  BY <1>16, RepairRecheckEffect DEF Idle, Keeps
<1>17. CASE RepairLookup(r)
  BY <1>17, RepairLookupEffect DEF Idle, Keeps
<1>18. CASE RepairPut(r)
  BY <1>18, RepairPutEffect DEF Idle
<1> QED
  BY <1>1, <1>2, <1>3, <1>4, <1>5, <1>6, <1>7, <1>8, <1>9, <1>10, <1>11, <1>12, <1>13,
     <1>14, <1>15, <1>16, <1>17, <1>18 DEF Step

\* So the lease is with one run.
LEMMA StepRuns ==
  ASSUME TypeInv, RunsInv, NEW r \in Runs, Step(r)
  PROVE  RunsInv'
<1>1. PICK z : Becomes(r, z) /\ InLease(r, z)
  BY StepInLease
<1>2. StoredPulls' = StoredPulls
  BY StepInLease DEF feeds, StoredPulls
<1>3. /\ run'[r] = z /\ \A q \in Runs \ {r} : run'[q] = run[q]
  BY <1>1 DEF TypeInv, Becomes
<1>4. \A q \in Runs : run'[q].view \subseteq StoredPulls
  BY <1>1, <1>3 DEF RunsInv, InLease
<1>5. ASSUME NEW q \in Runs, run'[q].pc \in Leased
      PROVE  lease' = q
  BY <1>1, <1>3, <1>5, NoRunAssumption DEF RunsInv, InLease
<1>6. SourcesInv'
  BY StepInLease DEF RunsInv, SourcesInv, Window, StoredPulls, feeds
<1> QED
  BY <1>2, <1>4, <1>5, <1>6 DEF RunsInv

\* Views only gain by the feeds.
LEMMA GrowRuns ==
  ASSUME TypeInv, TypeInv', RunsInv, Grow, UNCHANGED <<rows, lease, run, counts>>
  PROVE  RunsInv'
<1>1. \A g : Window(StoredPulls, g) \subseteq Window(StoredPulls, g)'
  BY PullsStay DEF Window
<1>2. \A i \in DOMAIN predictions' :
         predictions'[i].source \in Window(StoredPulls, predictions'[i].game)
  BY DEF Grow, PredictionsGrow, RunsInv, SourcesInv
<1>3. SourcesInv'
  <2> SUFFICES ASSUME NEW i \in DOMAIN predictions'
               PROVE  (predictions[i].source \in Window(StoredPulls, predictions[i].game))'
    BY DEF SourcesInv
  <2>1. PICK g : g = predictions'[i].game
    OBVIOUS
  <2>2. predictions'[i].source \in Window(StoredPulls, g)'
    BY <1>1, <1>2, <2>1
  <2> QED
    BY <2>1, <2>2 DEF Window
<1> QED
  BY <1>3, PullsStay DEF RunsInv

(***************************************************************************)
(* One end for each game, from all that was stored.                        *)
(***************************************************************************)

\* It holds at first.
LEMMA InitCore == Init => RunsInv /\ CoreInv
<1> SUFFICES ASSUME Init PROVE RunsInv /\ CoreInv
  OBVIOUS
<1>1. \A r \in Runs : run[r] = Idle
  BY DEF Init
<1>2. \A g \in Games : stage[g] = NoStage /\ canonical[g] = 0 /\ outcome[g] = FALSE
  BY DEF Init
<1>3. Idle.pc = "idle" /\ Idle.view = {}
  BY DEF Idle
<1>4. RunsInv
  BY <1>1, <1>3 DEF RunsInv, SourcesInv, Init, Leased, Working
<1>5. \A r \in Runs : WorkInv(run[r]) /\ RepairInv(run[r])
  BY <1>1, <1>3 DEF WorkInv, RepairInv, Working, Unstaged, Holding, Repairing
<1> QED
  BY <1>1, <1>2, <1>3, <1>4, <1>5 DEF CoreInv, GameInv, ApartInv, Holding

\* The feeds disturb no game that is decided, and no run's work on one.
LEMMA GrowCore ==
  ASSUME TypeInv, TypeInv', RunsInv, CoreInv, Grow, UNCHANGED <<rows, lease, run, counts>>
  PROVE  CoreInv'
<1>0. /\ stage' = stage /\ canonical' = canonical /\ outcome' = outcome /\ run' = run
      /\ now <= now' /\ now \in Nat /\ now' \in Nat
  BY FeedsAre, FeedsAreNext DEF rows, Grow, FeedsShape
<1>1. \A g \in Games : Cutoff[g] \in Nat /\ Start[g] \in Nat
  BY GamesAssumption
<1>2. ASSUME NEW g \in Games PROVE GameInv(g)'
  <2>1. GameInv(g)
    BY DEF CoreInv
  <2>2. PICK s : s = stage[g]
    OBVIOUS
  <2>5. s # NoStage => Promotes(g, s)' /\ Complete(g, s)'
    <3>1. s # NoStage => now >= Cutoff[g] /\ Promotes(g, s) /\ Complete(g, s)
      BY <2>1, <2>2 DEF GameInv
    <3> QED
      BY <3>1, PromotesStays, CompleteStays
  <2>3. outcome[g] => AllLate(g)'
    BY <2>1, AllLateStays DEF GameInv
  <2>4. now >= Cutoff[g] => now' >= Cutoff[g]
    BY <1>0, <1>1
  <2>6. stage'[g] = s /\ canonical'[g] = canonical[g] /\ outcome'[g] = outcome[g]
    BY <1>0, <2>2
  <2> QED
    BY <2>1, <2>2, <2>3, <2>4, <2>5, <2>6 DEF GameInv, Promotes, Complete
<1>3. ASSUME NEW h \in Games, Due(h) PROVE Due(h)'
  BY <1>0, <1>1, <1>3 DEF Due
<1>4. ASSUME NEW r \in Runs PROVE WorkInv(run[r])' /\ RepairInv(run[r])'
  <2>0. PICK z : z = run[r]
    OBVIOUS
  <2>1. WorkInv(z) /\ RepairInv(z)
    BY <2>0 DEF CoreInv
  <2>2. z.pc \in Working \cup Repairing => z.game \in z.todo
    BY <2>0, RunOf DEF RunOK
  <2>15. z.todo \subseteq Games /\ z.view \subseteq StoredPulls
    BY <2>0, RunOf DEF RunType, RunsInv
  <2>3. z.pc \in Unstaged => z.game \in Games /\ now >= Cutoff[z.game]
    BY <2>1, <2>2, <2>15 DEF WorkInv, Due, Working, Unstaged
  <2>4. z.pc \in Holding => Promotes(z.game, z.item)'
    BY <2>1, <2>3, PromotesStays DEF WorkInv, Holding, Unstaged
  <2>5. z.pc = "close" => Generated(z.game, z.item, z.view)'
    BY <2>1, <2>3, <2>15, GeneratedStays DEF WorkInv, Unstaged, Holding
  <2>6. z.pc = "stage" => Complete(z.game, z.item)'
    BY <2>1, <2>3, CompleteStays DEF WorkInv, Unstaged, Holding
  <2>7. z.pc = "absent" => AllLate(z.game)'
    BY <2>1, <2>3, AllLateStays DEF WorkInv, Unstaged
  <2>8. z.pc \in Repairing => z.game \in Games /\ now >= Start[z.game]
    BY <2>1, <2>2, <2>15 DEF RepairInv
  <2>9. z.pc = "reconcile" => AllLate(z.game)'
    <3>1. \A g \in Games : now >= Start[g] => now >= Cutoff[g]
      BY <1>0, GamesAssumption
    <3>2. z.pc = "reconcile" => z.game \in Games /\ now >= Cutoff[z.game]
      BY <2>8, <3>1 DEF Repairing
    <3> QED
      BY <2>1, <3>2, AllLateStays DEF RepairInv
  <2>10. z.pc \in Working => \A h \in z.todo : Due(h)'
    BY <1>3, <2>1, <2>15 DEF WorkInv
  <2>11. z.pc \in Repairing => \A h \in z.todo : now' >= Start[h]
    BY <1>0, <1>1, <2>1, <2>15 DEF RepairInv
  <2>12. run'[r] = z
    BY <1>0, <2>0
  <2>13. WorkInv(z)'
    BY <1>0, <2>1, <2>4, <2>5, <2>6, <2>7, <2>10 DEF WorkInv
  <2>14. RepairInv(z)'
    BY <1>0, <2>1, <2>9, <2>11 DEF RepairInv
  <2> QED
    BY <2>12, <2>13, <2>14 DEF WorkInv, RepairInv
<1>5. ApartInv'
  BY <1>0 DEF CoreInv, ApartInv
<1> QED
  BY <1>2, <1>4, <1>5 DEF CoreInv

\* What is known of a stage depends on the feeds alone.
LEMMA FactsSame ==
  ASSUME UNCHANGED feeds, NEW h, NEW s, NEW view
  PROVE  /\ Promotes(h, s)' <=> Promotes(h, s)
         /\ Complete(h, s)' <=> Complete(h, s)
         /\ Generated(h, s, view)' <=> Generated(h, s, view)
         /\ AllLate(h)' <=> AllLate(h)
<1>1. pulls' = pulls /\ predictions' = predictions
  BY DEF feeds
<1>2. /\ Snapshots(h)' = Snapshots(h) /\ StoredPulls' = StoredPulls
      /\ \A V : Window(V, h)' = Window(V, h)
  BY <1>1 DEF Snapshots, StoredPulls, Window
<1>3. Window(StoredPulls, h)' = Window(StoredPulls, h)
  BY <1>1 DEF Window, StoredPulls
<1>4. /\ Sound(h, view)' = Sound(h, view)
      /\ BoundWindow(h, view, s.prediction)' = BoundWindow(h, view, s.prediction)
  BY <1>1, <1>2 DEF Sound, BoundWindow
<1>5. Complete(h, s)' <=> Complete(h, s)
  BY <1>1, <1>2, <1>3 DEF Complete
<1>6. Generated(h, s, view)' <=> Generated(h, s, view)
  BY <1>1, <1>4 DEF Generated
<1> QED
  BY <1>1, <1>2, <1>5, <1>6 DEF Promotes, AllLate

\* What is known of a record depends on the clock, the feeds, stages and outcomes.
LEMMA WorkSame ==
  ASSUME NEW z, UNCHANGED <<now, feeds, stage, outcome>>, WorkInv(z), RepairInv(z)
  PROVE  WorkInv(z)' /\ RepairInv(z)'
<1>1. /\ now' = now /\ pulls' = pulls /\ predictions' = predictions
      /\ stage' = stage /\ outcome' = outcome
  BY DEF feeds
<1>2. \A h : Due(h) => Due(h)'
  BY <1>1 DEF Due
<1>3. \A h, s : (Promotes(h, s)' <=> Promotes(h, s)) /\ (Complete(h, s)' <=> Complete(h, s))
  BY <1>1, FactsSame DEF feeds
<1>4. \A h, s, view : Generated(h, s, view)' <=> Generated(h, s, view)
  BY <1>1, FactsSame DEF feeds
<1>5. \A h : AllLate(h)' <=> AllLate(h)
  BY <1>1 DEF AllLate, Snapshots
<1>6. WorkInv(z)'
  BY <1>1, <1>2, <1>3, <1>4, <1>5 DEF WorkInv
<1> QED
  BY <1>1, <1>5, <1>6 DEF RepairInv

\* The rows of a game that are not written.
LEMMA GameSame ==
  ASSUME NEW g, GameInv(g), UNCHANGED <<now, feeds>>,
         stage'[g] = stage[g], canonical'[g] = canonical[g], outcome'[g] = outcome[g]
  PROVE  GameInv(g)'
<1>1. now' = now /\ pulls' = pulls /\ predictions' = predictions
  BY DEF feeds
<1>2. PICK s : s = stage[g]
  OBVIOUS
<1>3. (Promotes(g, s)' <=> Promotes(g, s)) /\ (Complete(g, s)' <=> Complete(g, s))
  BY FactsSame
<1>5. AllLate(g)' <=> AllLate(g)
  BY FactsSame
<1>6. stage'[g] # NoStage => Promotes(g, s)' /\ Complete(g, s)'
  BY <1>2, <1>3 DEF GameInv
<1> QED
  BY <1>1, <1>2, <1>5, <1>6 DEF GameInv, Promotes, Complete

\* A step that writes nothing of a game keeps the invariant if it does so for
\* the record it leaves.
LEMMA RecordCore ==
  ASSUME TypeInv, CoreInv, NEW r \in Runs, NEW z, Becomes(r, z),
         UNCHANGED <<now, feeds, stage, canonical, outcome>>,
         WorkInv(z), RepairInv(z),
         z.pc = "reconcile" => \A q \in Runs \ {r} :
            run[q].pc \in Holding => run[q].game # z.game,
         z.pc \in Holding => \A q \in Runs \ {r} :
            run[q].pc = "reconcile" => run[q].game # z.game
  PROVE  CoreInv'
<1>1. run'[r] = z /\ \A q \in Runs \ {r} : run'[q] = run[q]
  BY DEF TypeInv, Becomes
<1>2. \A g \in Games : GameInv(g)'
  BY GameSame DEF CoreInv
<1>3. ASSUME NEW q \in Runs PROVE WorkInv(run[q])' /\ RepairInv(run[q])'
  <2>1. PICK y : y = run'[q]
    OBVIOUS
  <2>2. WorkInv(y) /\ RepairInv(y)
    BY <1>1, <2>1 DEF CoreInv
  <2>3. WorkInv(y)' /\ RepairInv(y)'
    BY <2>2, WorkSame
  <2> QED
    BY <2>1, <2>3 DEF WorkInv, RepairInv
<1>4. ApartInv'
  BY <1>1 DEF CoreInv, ApartInv, Holding
<1> QED
  BY <1>2, <1>3, <1>4 DEF CoreInv

\* A record that works on nothing knows nothing.
LEMMA RestingCore ==
  ASSUME TypeInv, CoreInv, NEW r \in Runs, NEW z, Becomes(r, z),
         UNCHANGED <<now, feeds, stage, canonical, outcome>>,
         z.pc \notin Working \cup Repairing
  PROVE  CoreInv'
<1>1. WorkInv(z) /\ RepairInv(z)
  BY DEF WorkInv, RepairInv, Working, Repairing, Unstaged, Holding
<1> QED
  BY <1>1, RecordCore DEF Working, Repairing, Holding

\* The next game of a run at work is due as the others are.
LEMMA OnwardWork ==
  ASSUME CoreInv, NEW r \in Runs, run[r].pc \in Working, NEW todo \in SUBSET run[r].todo,
         NEW z, Onward(z, todo)
  PROVE  WorkInv(z) /\ RepairInv(z) /\ z.pc \notin Holding \cup Repairing
<1>1. \A h \in todo : Due(h)
  BY DEF CoreInv, WorkInv
<1> QED
  BY <1>1 DEF Onward, WorkInv, RepairInv, Unstaged, Holding, Repairing, Working

\* So a run that goes on to it keeps the invariant.
LEMMA OnwardCore ==
  ASSUME TypeInv, CoreInv, NEW r \in Runs, run[r].pc \in Working,
         NEW todo \in SUBSET run[r].todo,
         NEW z, Becomes(r, z), Onward(z, todo),
         UNCHANGED <<now, feeds, stage, canonical, outcome>>
  PROVE  CoreInv'
  BY OnwardWork, RecordCore DEF Repairing

\* The next game of the repair has started as the others have.
LEMMA RepairCore ==
  ASSUME TypeInv, CoreInv, NEW r \in Runs, run[r].pc \in Repairing,
         NEW z, Becomes(r, z), z.pc \in {"unstaged", "lookup"},
         z.todo \subseteq run[r].todo,
         UNCHANGED <<now, feeds, stage, canonical, outcome>>
  PROVE  CoreInv'
<1>1. RepairInv(z)
  BY DEF CoreInv, RepairInv
<1>2. WorkInv(z)
  BY DEF WorkInv, Working, Unstaged, Holding
<1> QED
  BY <1>1, <1>2, RecordCore DEF Holding

\* A game that is observed due has passed its cutoff and has no end.
LEMMA ObserveCore ==
  ASSUME TypeInv, RunsInv, CoreInv, NEW r \in Runs, Observe(r)
  PROVE  CoreInv'
<1> DEFINE todo == InState(run[r].view, {"CANONICAL_BLOCKED", "DUE"})
<1>1. UNCHANGED <<now, feeds, stage, canonical, outcome>>
  BY ObserveEffect DEF rows
<1>2. PICK z : Becomes(r, z) /\ (z.pc = "release" \/ Onward(z, todo))
  BY ObserveEffect
<1>3. CASE z.pc = "release"
  BY <1>1, <1>2, <1>3, RestingCore DEF Working, Repairing
<1>4. CASE Onward(z, todo)
  <2>1. \A h \in todo : Due(h)
    <3> SUFFICES ASSUME NEW h \in todo PROVE Due(h)
      OBVIOUS
    <3>1. h \in Games /\ State(h, run[r].view, now) \in {"CANONICAL_BLOCKED", "DUE"}
      BY ViewType DEF InState
    <3> QED
      BY <3>1 DEF State, Due
  <2>2. WorkInv(z) /\ RepairInv(z) /\ z.pc \notin Holding \cup Repairing
    BY <1>4, <2>1 DEF Onward, WorkInv, RepairInv, Unstaged, Holding, Repairing, Working
  <2> QED
    BY <1>1, <1>2, <2>2, RecordCore DEF Repairing
<1> QED
  BY <1>2, <1>3, <1>4

\* A stage is generated from a snapshot, of a game the repair cannot have taken up.
LEMMA GenerateCore ==
  ASSUME TypeInv, RunsInv, CoreInv, NEW r \in Runs, Generate(r)
  PROVE  CoreInv'
<1>1. run[r].pc = "generate" /\ UNCHANGED <<now, feeds, stage, canonical, outcome>>
  BY GenerateEffect DEF rows
<1>2. PICK z : Becomes(r, z) /\ z.view = run[r].view /\
         \/ Onward(z, run[r].todo \ {run[r].game})
         \/ z.pc = "absent" /\ Keeps(r, z) /\ Snapshots(z.game) = {}
         \/ /\ z.pc = "close" /\ z.game = run[r].game /\ z.todo = run[r].todo
            /\ now < Start[z.game] /\ Sound(z.game, z.view) # {}
            /\ z.item.prediction = LastSound(z.game, z.view)
            /\ z.item.window = BoundWindow(z.game, z.view, z.item.prediction)
  BY GenerateEffect
<1>3. run[r].game \in Games /\ run[r].game \in run[r].todo /\ WorkInv(run[r])
  BY <1>1, GameOf DEF Working, CoreInv
<1>4. CASE Onward(z, run[r].todo \ {run[r].game})
  BY <1>1, <1>2, <1>4, OnwardCore DEF Working
<1>5. CASE z.pc = "absent" /\ Keeps(r, z) /\ Snapshots(z.game) = {}
  <2>1. WorkInv(z)
    BY <1>1, <1>3, <1>5 DEF WorkInv, Working, Unstaged, Holding, Keeps, AllLate
  <2>2. RepairInv(z)
    BY <1>5 DEF RepairInv, Repairing
  <2> QED
    BY <1>1, <1>2, <1>5, <2>1, <2>2, RecordCore DEF Holding
<1>6. CASE /\ z.pc = "close" /\ z.game = run[r].game /\ z.todo = run[r].todo
           /\ now < Start[z.game] /\ Sound(z.game, z.view) # {}
           /\ z.item.prediction = LastSound(z.game, z.view)
           /\ z.item.window = BoundWindow(z.game, z.view, z.item.prediction)
  <2>1. z.game \in Games /\ Due(z.game) /\ stage[z.game] = NoStage
    BY <1>1, <1>3, <1>6 DEF WorkInv, Working, Unstaged
  <2>2. ~outcome[z.game]
    BY <1>6, <2>1 DEF Due
  <2>3. Promotes(z.game, z.item) /\ Generated(z.game, z.item, z.view)
    <3>1. PICK i : i = z.item.prediction
      OBVIOUS
    <3>2. i \in Sound(z.game, z.view) /\ \A j \in Sound(z.game, z.view) : j <= i
      BY <1>6, <2>1, <3>1, LastSoundIs
    <3>3. i \in Snapshots(z.game) /\ predictions[i].source \in Window(z.view, z.game)
      BY <3>2 DEF Sound
    <3>4. predictions[i].source \in BoundWindow(z.game, z.view, i)
      <4>1. i \in DOMAIN predictions
        BY <3>3 DEF Snapshots
      <4>2. predictions[i].source \in 1..MaxPulls
        BY <4>1, FeedsAre DEF FeedsShape, PredictionType
      <4> QED
        BY <3>3, <4>2, BoundsAssumption DEF BoundWindow
    <3> QED
      BY <1>6, <3>1, <3>2, <3>3, <3>4 DEF Promotes, Generated
  <2>4. WorkInv(z)
    BY <1>1, <1>3, <1>6, <2>1, <2>2, <2>3 DEF WorkInv, Working, Unstaged, Holding
  <2>5. RepairInv(z)
    BY <1>6 DEF RepairInv, Repairing
  <2>6. ASSUME NEW q \in Runs \ {r}, run[q].pc = "reconcile" PROVE run[q].game # z.game
    <3>1. run[q].game \in run[q].todo /\ RepairInv(run[q])
      BY <2>6, GameOf DEF Repairing, CoreInv
    <3>2. now >= Start[run[q].game]
      BY <2>6, <3>1 DEF RepairInv, Repairing
    <3>3. now \in Nat /\ Start[z.game] \in Nat
      BY <2>1, FeedsAre, GamesAssumption DEF FeedsShape
    <3>4. ~(now >= Start[z.game])
      BY <1>6, <3>3
    <3> QED
      BY <3>2, <3>4
  <2> QED
    BY <1>1, <1>2, <1>6, <2>4, <2>5, <2>6, RecordCore
<1> QED
  BY <1>2, <1>4, <1>5, <1>6

\* When the window is still what was read of it, every source has been read, and the
\* stage in hand is complete.
LEMMA CompleteOnceClosed ==
  ASSUME TypeInv, SourcesInv, NEW g, NEW s, NEW view,
         Promotes(g, s), Generated(g, s, view), Window(view, g) = Window(StoredPulls, g)
  PROVE  Complete(g, s)
<1>1. PICK i : i = s.prediction
  OBVIOUS
<1>2. \A j \in Snapshots(g) : predictions[j].source \in Window(StoredPulls, g)
  BY DEF SourcesInv, Snapshots
<1>3. \A j \in Snapshots(g) : predictions[j].sound => j \in Sound(g, view)
  BY <1>2 DEF Sound
<1>4. \A j \in Snapshots(g) : predictions[j].sound /\ predictions[j].landed = "in time" => j <= i
  BY <1>1, <1>3 DEF Generated
<1>5. s.window = {p \in Window(StoredPulls, g) : p <= predictions[i].source}
  BY <1>1 DEF Generated, BoundWindow
<1>6. predictions[i].source \in Int /\ Window(StoredPulls, g) \subseteq Int
  <2>1. i \in DOMAIN predictions
    BY <1>1 DEF Promotes, Snapshots
  <2>2. predictions[i] \in PredictionType /\ StoredPulls \subseteq 1..MaxPulls
    BY <2>1, FeedsAre DEF FeedsShape
  <2>3. Window(StoredPulls, g) \subseteq StoredPulls
    BY DEF Window
  <2>4. predictions[i].source \in 1..MaxPulls
    BY <2>2 DEF PredictionType
  <2>5. 1..MaxPulls \subseteq Int
    OBVIOUS
  <2> QED
    BY <2>2, <2>3, <2>4, <2>5
<1>7. \A p \in Window(StoredPulls, g) : p < predictions[i].source => p \in s.window
  BY <1>5, <1>6
<1> QED
  BY <1>1, <1>4, <1>7 DEF Complete, Generated

\* A window that closes covers what was stored before the cutoff.
LEMMA CloseWindowCore ==
  ASSUME TypeInv, RunsInv, CoreInv, NEW r \in Runs, CloseWindow(r)
  PROVE  CoreInv'
<1>1. run[r].pc = "close" /\ UNCHANGED <<now, feeds, stage, canonical, outcome>>
  BY CloseWindowEffect DEF rows
<1>2. PICK z : Becomes(r, z) /\
         \/ Onward(z, run[r].todo \ {run[r].game})
         \/ z.pc = "generate" /\ z.game = run[r].game /\ z.todo = run[r].todo
         \/ /\ z.pc = "stage" /\ z.game = run[r].game /\ z.todo = run[r].todo
            /\ z.item = run[r].item
            /\ Window(run[r].view, z.game) = Window(StoredPulls, z.game)
  BY CloseWindowEffect
<1>3. WorkInv(run[r])
  BY DEF CoreInv
<1>4. CASE Onward(z, run[r].todo \ {run[r].game})
  BY <1>1, <1>2, <1>4, OnwardCore DEF Working
<1>5. CASE z.pc = "generate" /\ z.game = run[r].game /\ z.todo = run[r].todo
  <2>1. WorkInv(z) /\ RepairInv(z)
    BY <1>1, <1>3, <1>5 DEF WorkInv, RepairInv, Working, Repairing, Unstaged, Holding
  <2> QED
    BY <1>1, <1>2, <1>5, <2>1, RecordCore DEF Holding
<1>6. CASE /\ z.pc = "stage" /\ z.game = run[r].game /\ z.todo = run[r].todo
           /\ z.item = run[r].item
           /\ Window(run[r].view, z.game) = Window(StoredPulls, z.game)
  <2>3. Promotes(run[r].game, run[r].item) /\ ~outcome[run[r].game]
    BY <1>1, <1>3 DEF WorkInv, Holding
  <2>1. Generated(z.game, z.item, run[r].view)
    BY <1>1, <1>3, <1>6 DEF WorkInv
  <2>6. run[r].view \subseteq StoredPulls /\ SourcesInv
    BY DEF RunsInv
  <2>2. Complete(z.game, z.item)
    BY <1>6, <2>1, <2>3, <2>6, CompleteOnceClosed
  <2>4. WorkInv(z) /\ RepairInv(z)
    BY <1>1, <1>3, <1>6, <2>2, <2>3
    DEF WorkInv, RepairInv, Working, Repairing, Unstaged, Holding
  <2>5. \A q \in Runs \ {r} : run[q].pc = "reconcile" => run[q].game # z.game
    BY <1>1, <1>6 DEF CoreInv, ApartInv, Holding
  <2> QED
    BY <1>1, <1>2, <1>6, <2>4, <2>5, RecordCore
<1> QED
  BY <1>2, <1>4, <1>5, <1>6

\* A canonical row that is looked at.
LEMMA CheckCanonicalCore ==
  ASSUME TypeInv, RunsInv, CoreInv, NEW r \in Runs, CheckCanonical(r)
  PROVE  CoreInv'
<1>1. run[r].pc = "canonical" /\ UNCHANGED <<now, feeds, stage, canonical, outcome>>
  BY CheckCanonicalEffect DEF rows
<1>2. PICK z : Becomes(r, z) /\
         \/ Onward(z, run[r].todo \ {run[r].game})
         \/ z.pc = "store" /\ Keeps(r, z)
  BY CheckCanonicalEffect
<1>3. CASE Onward(z, run[r].todo \ {run[r].game})
  BY <1>1, <1>2, <1>3, OnwardCore DEF Working
<1>4. CASE z.pc = "store" /\ Keeps(r, z)
  <2>1. WorkInv(z) /\ RepairInv(z)
    BY <1>1, <1>4 DEF CoreInv, WorkInv, RepairInv, Working, Repairing, Unstaged, Holding, Keeps
  <2> QED
    BY <1>1, <1>2, <1>4, <2>1, RecordCore DEF Holding
<1> QED
  BY <1>2, <1>3, <1>4

\* The repair closes only games of which there is no snapshot, and so no stage.
LEMMA RepairStepsCore ==
  ASSUME TypeInv, RunsInv, CoreInv, NEW r \in Runs,
         RepairRead(r) \/ RepairRecheck(r) \/ RepairLookup(r)
  PROVE  CoreInv'
<1>0. UNCHANGED <<now, feeds, stage, canonical, outcome>>
  BY RepairReadEffect, RepairRecheckEffect, RepairLookupEffect DEF rows
<1>1. CASE RepairRead(r)
  <2>1. PICK z : Becomes(r, z) /\
           \/ z = Idle
           \/ z.pc = "unstaged" /\ z.todo = InState(StoredPulls, {"MISSED"})
    BY <1>1, RepairReadEffect
  <2>2. \A h \in InState(StoredPulls, {"MISSED"}) : now >= Start[h]
    BY DEF InState, State
  <2>3. CASE z = Idle
    BY <1>0, <2>1, <2>3, IdleType, RestingCore DEF Working, Repairing
  <2>4. CASE z.pc = "unstaged" /\ z.todo = InState(StoredPulls, {"MISSED"})
    <3>1. WorkInv(z) /\ RepairInv(z)
      BY <2>2, <2>4 DEF WorkInv, RepairInv, Working, Unstaged, Holding
    <3> QED
      BY <1>0, <2>1, <2>4, <3>1, RecordCore DEF Holding
  <2> QED
    BY <2>1, <2>3, <2>4
<1>2. CASE RepairRecheck(r)
  <2>1. PICK z : Becomes(r, z) /\
           \/ z = Idle
           \/ z.pc = "unstaged" /\ z.todo = run[r].todo \ {run[r].game}
           \/ z.pc = "lookup" /\ Keeps(r, z)
    BY <1>2, RepairRecheckEffect
  <2>2. run[r].pc = "unstaged"
    BY <1>2, RepairRecheckEffect
  <2>3. CASE z = Idle
    BY <1>0, <2>1, <2>3, IdleType, RestingCore DEF Working, Repairing
  <2>4. CASE z.pc \in {"unstaged", "lookup"} /\ z.todo \subseteq run[r].todo
    BY <1>0, <2>1, <2>2, <2>4, RepairCore DEF Repairing
  <2> QED
    BY <2>1, <2>3, <2>4 DEF Keeps
<1>3. CASE RepairLookup(r)
  <2>1. PICK z : Becomes(r, z) /\
           \/ z = Idle
           \/ z.pc = "unstaged" /\ z.todo = run[r].todo \ {run[r].game}
           \/ z.pc = "reconcile" /\ Keeps(r, z) /\ Snapshots(z.game) = {}
    BY <1>3, RepairLookupEffect
  <2>2. run[r].pc = "lookup"
    BY <1>3, RepairLookupEffect
  <2>3. CASE z = Idle
    BY <1>0, <2>1, <2>3, IdleType, RestingCore DEF Working, Repairing
  <2>4. CASE z.pc = "unstaged" /\ z.todo = run[r].todo \ {run[r].game}
    BY <1>0, <2>1, <2>2, <2>4, RepairCore DEF Repairing
  <2>5. CASE z.pc = "reconcile" /\ Keeps(r, z) /\ Snapshots(z.game) = {}
    <3>1. z.game \in Games
      BY <2>2, <2>5, GameOf DEF Keeps, Repairing
    <3>2. stage[z.game] = NoStage /\ AllLate(z.game)
      BY <2>5, <3>1 DEF CoreInv, GameInv, Promotes, AllLate
    <3>3. WorkInv(z)
      BY <2>5 DEF WorkInv, Working, Unstaged, Holding
    <3>4. RepairInv(z)
      BY <2>2, <2>5, <3>2 DEF CoreInv, RepairInv, Repairing, Keeps
    <3>5. ASSUME NEW q \in Runs \ {r}, run[q].pc \in Holding PROVE run[q].game # z.game
      <4>1. Promotes(run[q].game, run[q].item)
        BY <3>5 DEF CoreInv, WorkInv
      <4> QED
        BY <2>5, <4>1 DEF Promotes
    <3> QED
      BY <1>0, <2>1, <2>5, <3>3, <3>4, <3>5, RecordCore DEF Holding
  <2> QED
    BY <2>1, <2>3, <2>4, <2>5
<1> QED
  BY <1>1, <1>2, <1>3

\* The stage in hand becomes the game's: nothing else is known of the game.
LEMMA PutStageCore ==
  ASSUME TypeInv, RunsInv, CoreInv, NEW r \in Runs, PutStage(r)
  PROVE  CoreInv'
<1>1. /\ run[r].pc = "stage" /\ (StageWritten(r) \/ UNCHANGED stage)
      /\ UNCHANGED <<now, feeds, canonical, outcome>>
  BY PutStageEffect
<1>2. PICK z : Becomes(r, z) /\
         \/ Onward(z, run[r].todo \ {run[r].game})
         \/ /\ z.pc = "canonical" /\ z.game = run[r].game /\ z.todo = run[r].todo
            /\ StageWritten(r)
  BY PutStageEffect
<1>3. PICK g \in Games, s \in StageType : g = run[r].game /\ s = run[r].item
  BY <1>1, GameOf DEF Working
<1>4. /\ WorkInv(run[r]) /\ g \in run[r].todo /\ run[r].todo \subseteq Games /\ s # NoStage
      /\ run[r].pc \in Leased /\ Due(g) /\ stage[g] = NoStage /\ Promotes(g, s)
      /\ Complete(g, s) /\ ~outcome[g]
  BY <1>1, <1>3, GameOf, RunOf
  DEF CoreInv, WorkInv, RunOK, Working, Unstaged, Holding, Leased
<1>5. /\ \A h \in Games \ {g} : stage'[h] = stage[h]
      /\ stage'[g] = s \/ stage' = stage
      /\ StageWritten(r) => stage'[g] = s
  BY <1>1, <1>3, <1>4 DEF StageWritten, TypeInv
<1>6. run'[r] = z /\ \A q \in Runs \ {r} : run'[q] = run[q]
  BY <1>2 DEF TypeInv, Becomes
<1>7. now' = now /\ pulls' = pulls /\ predictions' = predictions
      /\ canonical' = canonical /\ outcome' = outcome
  BY <1>1 DEF feeds
<1>8. ASSUME NEW h \in Games PROVE GameInv(h)'
  <2>1. GameInv(h)
    BY DEF CoreInv
  <2>2. CASE h # g \/ stage' = stage
    BY <1>1, <1>5, <1>7, <2>1, <2>2, GameSame
  <2>3. CASE h = g /\ stage'[g] = s
    <3>1. Promotes(g, s)' /\ Complete(g, s)'
      BY <1>4, <1>7, FactsSame DEF feeds
    <3>2. canonical[g] = 0 /\ now >= Cutoff[g]
      BY <1>4, <2>1, <2>3 DEF GameInv, Due
    <3> QED
      BY <1>4, <1>7, <2>3, <3>1, <3>2 DEF GameInv, Promotes, Complete
  <2> QED
    BY <1>5, <2>2, <2>3
<1>9. ASSUME NEW q \in Runs \ {r} PROVE WorkInv(run[q])' /\ RepairInv(run[q])'
  <2>1. PICK y : y = run[q]
    OBVIOUS
  <2>2. WorkInv(y) /\ RepairInv(y) /\ y.pc \notin Leased
    BY <1>4, <2>1 DEF CoreInv, RunsInv
  <2>3. WorkInv(y)'
    BY <2>2 DEF WorkInv, Leased, Working, Unstaged, Holding
  <2>4. y.pc = "reconcile" => y.game \in Games \ {g}
    BY <1>1, <1>3, <2>1, GameOf DEF CoreInv, ApartInv, Holding, Repairing
  <2>5. AllLate(y.game)' <=> AllLate(y.game)
    BY <1>7 DEF AllLate, Snapshots
  <2>6. RepairInv(y)'
    BY <1>5, <1>7, <2>2, <2>4, <2>5 DEF RepairInv
  <2>7. y = run'[q]
    BY <1>6, <2>1
  <2> QED
    BY <2>3, <2>6, <2>7 DEF WorkInv, RepairInv
<1>10. z.pc \notin Holding \cup Repairing
  BY <1>2 DEF Onward, Holding, Repairing
<1>11. WorkInv(z)' /\ RepairInv(z)'
  <2>1. RepairInv(z)'
    BY <1>10 DEF RepairInv, Repairing
  <2>2. \A h \in run[r].todo : Due(h)
    BY <1>1, <1>4 DEF WorkInv, Working
  <2>3. \A h \in run[r].todo \ {g} : Due(h)'
    BY <1>4, <1>5, <1>7, <2>2 DEF Due
  <2>4. CASE Onward(z, run[r].todo \ {run[r].game})
    <3>1. /\ z.pc = "canonical" => stage'[z.game] # NoStage
          /\ z.pc = "generate" => stage'[z.game] = NoStage
      BY <1>3, <1>4, <1>5, <2>4 DEF Onward
    <3> QED
      BY <1>3, <2>1, <2>3, <2>4, <3>1 DEF WorkInv, Onward, Working, Unstaged, Holding
  <2>5. CASE /\ z.pc = "canonical" /\ z.game = run[r].game /\ z.todo = run[r].todo
             /\ StageWritten(r)
    <3>1. stage'[g] = s /\ Due(g)'
      BY <1>4, <1>5, <2>5 DEF Due
    <3>2. \A h \in z.todo : Due(h)'
      BY <1>4, <2>3, <2>5, <3>1
    <3> QED
      BY <1>3, <1>4, <2>1, <2>5, <3>1, <3>2 DEF WorkInv, Working, Unstaged, Holding
  <2> QED
    BY <1>2, <2>4, <2>5
<1>12. WorkInv(run[r])' /\ RepairInv(run[r])'
  BY <1>6, <1>11 DEF WorkInv, RepairInv
<1>13. ApartInv'
  BY <1>6, <1>10 DEF CoreInv, ApartInv, Holding, Repairing
<1> QED
  BY <1>8, <1>9, <1>12, <1>13 DEF CoreInv

\* A canonical row is the stage's.
LEMMA StoreCanonicalCore ==
  ASSUME TypeInv, RunsInv, CoreInv, NEW r \in Runs, StoreCanonical(r)
  PROVE  CoreInv'
<1>1. /\ run[r].pc = "store" /\ (CanonicalWritten(r) \/ UNCHANGED canonical)
      /\ UNCHANGED <<now, feeds, stage, outcome>>
  BY StoreCanonicalEffect
<1>2. PICK z : Becomes(r, z) /\
         \/ Onward(z, run[r].todo \ {run[r].game})
         \/ z.pc = "canonical" /\ z.game = run[r].game /\ z.todo = run[r].todo
  BY StoreCanonicalEffect
<1>3. PICK g \in Games : g = run[r].game
  BY <1>1, GameOf DEF Working
<1>4. stage[g] # NoStage /\ WorkInv(run[r])
  BY <1>1, <1>3 DEF CoreInv, WorkInv
<1>5. /\ \A h \in Games \ {g} : canonical'[h] = canonical[h]
      /\ canonical'[g] \in {canonical[g], stage[g].prediction}
  BY <1>1, <1>3 DEF CanonicalWritten, TypeInv
<1>6. run'[r] = z /\ \A q \in Runs \ {r} : run'[q] = run[q]
  BY <1>2 DEF TypeInv, Becomes
<1>7. now' = now /\ pulls' = pulls /\ predictions' = predictions
      /\ stage' = stage /\ outcome' = outcome
  BY <1>1 DEF feeds
<1>8. ASSUME NEW h \in Games PROVE GameInv(h)'
  <2>1. GameInv(h)
    BY DEF CoreInv
  <2>2. CASE canonical'[h] = canonical[h]
    BY <1>1, <1>7, <2>1, <2>2, GameSame
  <2>3. CASE h = g /\ canonical'[h] = stage[h].prediction
    <3>1. PICK s : s = stage[g]
      OBVIOUS
    <3>2. Promotes(g, s)' /\ Complete(g, s)' /\ (AllLate(g)' <=> AllLate(g))
      BY <1>4, <1>7, <2>1, <2>3, <3>1, FactsSame DEF GameInv, feeds
    <3> QED
      BY <1>4, <1>7, <2>1, <2>3, <3>1, <3>2 DEF GameInv, Promotes, Complete
  <2> QED
    BY <1>5, <2>2, <2>3
<1>9. z.pc \notin Holding \cup Repairing /\ WorkInv(z) /\ RepairInv(z)
  <2>1. CASE Onward(z, run[r].todo \ {run[r].game})
    BY <1>1, <2>1, OnwardWork DEF Working
  <2>2. CASE z.pc = "canonical" /\ z.game = run[r].game /\ z.todo = run[r].todo
    BY <1>1, <1>4, <2>2 DEF WorkInv, RepairInv, Working, Repairing, Unstaged, Holding
  <2> QED
    BY <1>2, <2>1, <2>2
<1>10. ASSUME NEW q \in Runs PROVE WorkInv(run[q])' /\ RepairInv(run[q])'
  <2>1. PICK y : y = run'[q]
    OBVIOUS
  <2>2. WorkInv(y) /\ RepairInv(y)
    BY <1>6, <1>9, <2>1 DEF CoreInv
  <2>3. WorkInv(y)' /\ RepairInv(y)'
    BY <1>1, <2>2, WorkSame
  <2> QED
    BY <2>1, <2>3 DEF WorkInv, RepairInv
<1>11. ApartInv'
  BY <1>6, <1>9 DEF CoreInv, ApartInv, Holding, Repairing
<1> QED
  BY <1>8, <1>10, <1>11 DEF CoreInv

\* An outcome that is written closes a game without a stage, of which no run holds
\* one.
LEMMA OutcomeCore ==
  ASSUME TypeInv, CoreInv, NEW r \in Runs, NEW g \in Games, NEW z, Becomes(r, z),
         UNCHANGED <<now, feeds, stage, canonical>>,
         \A h \in Games \ {g} : outcome'[h] = outcome[h],
         stage[g] = NoStage, AllLate(g), now >= Cutoff[g],
         z.pc \notin Holding \cup {"reconcile"}, WorkInv(z)', RepairInv(z),
         \A q \in Runs \ {r} : run[q].pc \in Working =>
            now >= Start[g] /\ (run[q].pc \in Holding => run[q].game # g)
  PROVE  CoreInv'
<1>1. now' = now /\ pulls' = pulls /\ predictions' = predictions
      /\ stage' = stage /\ canonical' = canonical
  BY DEF feeds
<1>2. run'[r] = z /\ \A q \in Runs \ {r} : run'[q] = run[q]
  BY DEF TypeInv, Becomes
<1>3. ASSUME NEW h \in Games PROVE GameInv(h)'
  <2>1. GameInv(h)
    BY DEF CoreInv
  <2>2. CASE h # g
    BY <1>1, <2>1, <2>2, GameSame
  <2>3. CASE h = g
    <3>1. AllLate(g)'
      BY <1>1 DEF AllLate, Snapshots
    <3> QED
      BY <1>1, <2>1, <2>3, <3>1 DEF GameInv
  <2> QED
    BY <2>2, <2>3
<1>4. ASSUME NEW y, RepairInv(y) PROVE RepairInv(y)'
  <2>1. AllLate(y.game)' <=> AllLate(y.game)
    BY <1>1 DEF AllLate, Snapshots
  <2> QED
    BY <1>1, <1>4, <2>1 DEF RepairInv
<1>5. ASSUME NEW q \in Runs \ {r} PROVE WorkInv(run[q])' /\ RepairInv(run[q])'
  <2>1. PICK y : y = run[q]
    OBVIOUS
  <2>2. WorkInv(y) /\ RepairInv(y) /\ RunOK(y)
    BY <2>1, RunOf DEF CoreInv
  <2>3. WorkInv(y)'
    <3>1. CASE y.pc \notin Working
      BY <3>1 DEF WorkInv, Working, Unstaged, Holding
    <3>2. CASE y.pc \in Working
      <4>1. now >= Start[g] /\ (y.pc \in Holding => y.game # g)
        BY <2>1, <3>2
      <4>2. y.todo \subseteq Games /\ y.game \in y.todo
        BY <2>2, <3>2 DEF RunOK, RunType
      <4>3. ASSUME NEW h \in y.todo PROVE Due(h)'
        <5>1. Due(h) /\ h \in Games
          BY <2>2, <3>2, <4>2 DEF WorkInv
        <5>2. CASE h = g
          <6>1. ~(now < Start[g])
            BY <4>1, FeedsAre, GamesAssumption DEF FeedsShape
          <6> QED
            BY <1>1, <5>2, <6>1 DEF Due
        <5>3. CASE h # g
          BY <1>1, <5>1, <5>3 DEF Due
        <5> QED
          BY <5>2, <5>3
      <4>4. \A h, s : (Promotes(h, s)' <=> Promotes(h, s)) /\ (Complete(h, s)' <=> Complete(h, s))
        BY <1>1, FactsSame DEF feeds
      <4>5. \A h, s, view : Generated(h, s, view)' <=> Generated(h, s, view)
        BY <1>1, FactsSame DEF feeds
      <4>6. \A h : AllLate(h)' <=> AllLate(h)
        BY <1>1 DEF AllLate, Snapshots
      <4>7. y.pc \in Holding => ~outcome'[y.game]
        BY <2>2, <4>1, <4>2 DEF WorkInv
      <4> QED
        BY <1>1, <2>2, <4>3, <4>4, <4>5, <4>6, <4>7 DEF WorkInv
    <3> QED
      BY <3>1, <3>2
  <2>4. RepairInv(y)'
    BY <1>4, <2>2
  <2>5. y = run'[q]
    BY <1>2, <2>1
  <2> QED
    BY <2>3, <2>4, <2>5 DEF WorkInv, RepairInv
<1>6. WorkInv(run[r])' /\ RepairInv(run[r])'
  BY <1>2, <1>4 DEF WorkInv, RepairInv
<1>7. ApartInv'
  BY <1>2 DEF CoreInv, ApartInv
<1> QED
  BY <1>3, <1>5, <1>6, <1>7 DEF CoreInv

\* A run closes its game itself, under the lease.
LEMMA PutOutcomeCore ==
  ASSUME TypeInv, RunsInv, CoreInv, NEW r \in Runs, PutOutcome(r)
  PROVE  CoreInv'
<1>1. /\ run[r].pc = "absent" /\ (OutcomeWritten(r) \/ UNCHANGED outcome)
      /\ UNCHANGED <<now, feeds, stage, canonical>>
  BY PutOutcomeEffect
<1>2. PICK z : Becomes(r, z) /\ Onward(z, run[r].todo \ {run[r].game})
  BY PutOutcomeEffect
<1>3. PICK g \in Games : g = run[r].game
  BY <1>1, GameOf DEF Working
<1>4. /\ stage[g] = NoStage /\ AllLate(g) /\ now >= Cutoff[g] /\ run[r].pc \in Leased
      /\ run[r].todo \subseteq Games
  BY <1>1, <1>3, GameOf DEF CoreInv, WorkInv, Due, Working, Unstaged, Leased
<1>5. \A h \in Games \ {g} : outcome'[h] = outcome[h]
  BY <1>1, <1>3 DEF OutcomeWritten, TypeInv
<1>6. WorkInv(z) /\ RepairInv(z) /\ z.pc \notin Holding \cup Repairing
  BY <1>1, <1>2, OnwardWork DEF Working
<1>7. WorkInv(z)'
  <2>1. \A h \in z.todo : h \in Games \ {g}
    BY <1>2, <1>3, <1>4 DEF Onward
  <2>2. z.pc \in Working => \A h \in z.todo : Due(h)'
    BY <1>1, <1>5, <1>6, <2>1 DEF WorkInv, Due
  <2>3. z.pc # "absent"
    BY <1>2 DEF Onward
  <2> QED
    BY <1>1, <1>6, <2>2, <2>3 DEF WorkInv, Holding
<1>8. \A q \in Runs \ {r} : run[q].pc \notin Working
  BY <1>4 DEF RunsInv, Leased
<1> QED
  BY <1>1, <1>2, <1>4, <1>5, <1>6, <1>7, <1>8, OutcomeCore DEF Repairing

\* The repair closes a game beside a run at work.
LEMMA RepairPutCore ==
  ASSUME TypeInv, RunsInv, CoreInv, NEW r \in Runs, RepairPut(r)
  PROVE  CoreInv'
<1>1. /\ run[r].pc = "reconcile" /\ (OutcomeWritten(r) \/ UNCHANGED outcome)
      /\ UNCHANGED <<now, feeds, stage, canonical>>
  BY RepairPutEffect
<1>2. PICK z : Becomes(r, z) /\
         \/ z = Idle
         \/ z.pc = "unstaged" /\ z.todo = run[r].todo \ {run[r].game}
  BY RepairPutEffect
<1>3. PICK g \in Games : g = run[r].game
  BY <1>1, GameOf DEF Repairing
<1>4. g \in run[r].todo /\ RepairInv(run[r])
  BY <1>1, <1>3, GameOf DEF CoreInv, Repairing
<1>5. stage[g] = NoStage /\ AllLate(g) /\ now >= Start[g]
  BY <1>1, <1>3, <1>4 DEF RepairInv, Repairing
<1>6. now >= Cutoff[g]
  BY <1>5, FeedsAre, GamesAssumption DEF FeedsShape
<1>7. \A h \in Games \ {g} : outcome'[h] = outcome[h]
  BY <1>1, <1>3 DEF OutcomeWritten, TypeInv
<1>8. z.pc \in {"idle", "unstaged"}
  BY <1>2, IdleType
<1>9. WorkInv(z)'
  BY <1>8 DEF WorkInv, Working, Unstaged, Holding
<1>10. RepairInv(z)
  BY <1>1, <1>2, <1>4, IdleType DEF RepairInv, Repairing
<1>11. \A q \in Runs \ {r} : run[q].pc \in Holding => run[q].game # g
  BY <1>1, <1>3 DEF CoreInv, ApartInv
<1> QED
  BY <1>1, <1>2, <1>5, <1>6, <1>7, <1>8, <1>9, <1>10, <1>11, OutcomeCore DEF Holding

\* Every step of a run keeps the games' ends apart.
LEMMA StepCore ==
  ASSUME TypeInv, RunsInv, CoreInv, NEW r \in Runs, Step(r)
  PROVE  CoreInv'
<1> USE DEF rows
<1>1. CASE Begin(r)
  BY <1>1, BeginEffect, RestingCore DEF Working, Repairing
<1>2. CASE AfterWindow(r)
  BY <1>2, AfterWindowEffect, RestingCore DEF Working, Repairing
<1>3. CASE Final(r)
  BY <1>3, FinalEffect, RestingCore DEF Working, Repairing
<1>4. CASE RecheckPulls(r)
  BY <1>4, RecheckPullsEffect, RestingCore DEF Working, Repairing
<1>5. CASE PutCard(r)
  BY <1>5, PutCardEffect, RestingCore DEF Working, Repairing
<1>6. CASE Release(r)
  BY <1>6, ReleaseEffect, RestingCore DEF Working, Repairing
<1>7. CASE Crash(r)
  BY <1>7, CrashEffect, RestingCore DEF Working, Repairing
<1> QED
  BY <1>1, <1>2, <1>3, <1>4, <1>5, <1>6, <1>7, ObserveCore, GenerateCore, CloseWindowCore,
     PutStageCore, CheckCanonicalCore, StoreCanonicalCore, PutOutcomeCore,
     RepairStepsCore, RepairPutCore DEF Step

(***************************************************************************)
(* The theorems on the games.                                              *)
(***************************************************************************)

GamesInv == TypeInv /\ RunsInv /\ CoreInv

\* The invariant of types, leases and games is inductive.
LEMMA GamesInvStep ==
  ASSUME GamesInv, [Next]_vars
  PROVE  GamesInv'
<1> USE DEF GamesInv
<1>1. CASE FeedStep
  BY <1>1, FeedStepEffect, FeedStepType, GrowRuns, GrowCore
<1>2. ASSUME NEW r \in Runs, Step(r) PROVE GamesInv'
  BY <1>2, StepType, StepRuns, StepCore
<1>3. CASE UNCHANGED vars
  BY <1>3, StutterGrow, GrowRuns, GrowCore
<1> QED
  BY <1>1, <1>2, <1>3 DEF Next, FeedStep

\* So it holds in every state.
THEOREM GamesInvariant == Spec => []GamesInv
<1>1. Init => GamesInv
  BY InitType, InitCore DEF GamesInv
<1>2. GamesInv /\ [Next]_vars => GamesInv'
  BY GamesInvStep
<1> QED
  BY <1>1, <1>2, PTL DEF Spec

\* Every row has its shape, whatever the runs and the feeds do, and the prediction
\* a stage promotes is of its own game.
THEOREM TypeCorrect == Spec => []TypeOK
<1>1. GamesInv => TypeOK
  <2> SUFFICES ASSUME GamesInv PROVE TypeOK
    OBVIOUS
  <2>1. TypeInv
    BY DEF GamesInv
  <2>2. \A g \in Games : stage[g] # NoStage => predictions[stage[g].prediction].game = g
    BY DEF GamesInv, CoreInv, GameInv, Promotes, Snapshots
  <2> QED
    BY <2>1, <2>2 DEF TypeInv, TypeOK, PullType, PredictionType
<1> QED
  BY <1>1, GamesInvariant, PTL

\* A promoted prediction and NO_PREDICTION exclude each other, and the canonical
\* row is the stage's, although the repair writes beside the run with the lease.
THEOREM OneTerminalHolds == Spec => []OneTerminal
<1>1. GamesInv => OneTerminal
  BY DEF GamesInv, CoreInv, GameInv, OneTerminal
<1> QED
  BY <1>1, GamesInvariant, PTL

\* What was in the table at the cutoff decides the game, although a run may have
\* read the table before and stalled: the last valid snapshot that had landed, with
\* its source pull and the earlier pulls of the window, or that there was none.
THEOREM NothingIsOverlooked == Spec => []NothingOverlooked
<1>1. GamesInv => NothingOverlooked
  BY DEF GamesInv, CoreInv, GameInv, Complete, AllLate, NothingOverlooked
<1> QED
  BY <1>1, GamesInvariant, PTL

(***************************************************************************)
(* The daily card and the markers.                                         *)
(***************************************************************************)

\* Stages and canonical rows are written once.
RowsStay ==
    \A g \in Games :
        /\ stage[g] # NoStage => stage'[g] = stage[g]
        /\ canonical[g] # 0 => canonical'[g] = canonical[g]

\* No step of a run rewrites one.
LEMMA StepRowsStay ==
  ASSUME GamesInv, NEW r \in Runs, Step(r)
  PROVE  RowsStay
<1>1. TypeInv
  BY DEF GamesInv
<1>2. StageWritten(r) \/ UNCHANGED stage
  BY <1>1, BeginEffect, AfterWindowEffect, ObserveEffect, GenerateEffect, CloseWindowEffect,
     PutStageEffect, CheckCanonicalEffect, StoreCanonicalEffect, PutOutcomeEffect, FinalEffect,
     RecheckPullsEffect, PutCardEffect, ReleaseEffect, CrashEffect, RepairReadEffect,
     RepairRecheckEffect, RepairLookupEffect, RepairPutEffect, Zenon DEF Step, rows
<1>3. CanonicalWritten(r) \/ UNCHANGED canonical
  BY <1>1, BeginEffect, AfterWindowEffect, ObserveEffect, GenerateEffect, CloseWindowEffect,
     PutStageEffect, CheckCanonicalEffect, StoreCanonicalEffect, PutOutcomeEffect, FinalEffect,
     RecheckPullsEffect, PutCardEffect, ReleaseEffect, CrashEffect, RepairReadEffect,
     RepairRecheckEffect, RepairLookupEffect, RepairPutEffect, Zenon DEF Step, rows
<1> QED
  BY <1>1, <1>2, <1>3 DEF RowsStay, StageWritten, CanonicalWritten, TypeInv

\* More pulls show a larger manifest.
LEMMA ManifestGrows ==
  ASSUME NEW V, NEW W, V \subseteq W
  PROVE  Manifest(V) \subseteq Manifest(W)
  BY DEF Manifest

\* The pulls whose rosters the card must cover.
CardPulls == {p \in StoredPulls : pulls[p].late \cap DOMAIN card = {}}

\* Its rows and manifest are those of the card while nothing of it is written.
LEMMA CardStays ==
  ASSUME TypeInv, TypeInv', Grow, RowsStay, UNCHANGED card,
         DOMAIN card \subseteq Games, CardPulls' \subseteq CardPulls,
         DailyCardIsWhole
  PROVE  DailyCardIsWhole'
<1> SUFFICES ASSUME card # NoCard PROVE DailyCardIsWhole'
  BY DEF DailyCardIsWhole, NoCard
<1>1. /\ \A g \in DOMAIN card : canonical[g] # 0 /\ canonical[g] = card[g]
      /\ Manifest(CardPulls) \subseteq DOMAIN card
  BY DEF DailyCardIsWhole, CardPulls
<1>2. \A g \in DOMAIN card : canonical'[g] # 0 /\ canonical'[g] = card'[g]
  BY <1>1 DEF RowsStay
<1>3. PICK V, W : V = CardPulls /\ W = CardPulls'
  OBVIOUS
<1>4. V \subseteq StoredPulls
  BY <1>3 DEF CardPulls
<1>5. Manifest(V)' = Manifest(V)
  BY <1>4, ViewStays
<1>6. Manifest(W)' \subseteq Manifest(V)'
  BY <1>3 DEF Manifest
<1>7. Manifest(W)' \subseteq DOMAIN card
  BY <1>1, <1>3, <1>5, <1>6 DEF Manifest
<1>8. Manifest(CardPulls)' \subseteq DOMAIN card'
  BY <1>3, <1>7 DEF Manifest
<1> QED
  BY <1>2, <1>8 DEF DailyCardIsWhole, CardPulls

\* A manifest that was ready stays ready.
LEMMA ReadyStays ==
  ASSUME RowsStay, NEW R \in SUBSET Games, Ready(R)
  PROVE  Ready(R)'
  BY DEF RowsStay, Ready

\* What a run that is about to write the card knows.
CardRun(z) ==
    /\ z.pc \in {"recheck", "card"} => Ready(Manifest(z.view))
    /\ z.pc = "card" => \A p \in StoredPulls \ z.view : Manifest(z.view) \subseteq pulls[p].late

\* It goes on knowing it while the feeds grow: games that are ready have passed
\* their cutoff, so that a new pull is late for all of them.
LEMMA CardRunStays ==
  ASSUME GamesInv, GamesInv', Grow, RowsStay, NEW z, z.view \subseteq StoredPulls, CardRun(z)
  PROVE  CardRun(z)'
<1>1. TypeInv /\ TypeInv' /\ Manifest(z.view)' = Manifest(z.view)
      /\ Manifest(z.view) \in SUBSET Games
  BY ViewStays, ViewType DEF GamesInv
<1>2. PICK R \in SUBSET Games : R = Manifest(z.view)
  BY <1>1
<1>3. z.pc \in {"recheck", "card"} => Ready(R) /\ Ready(R)'
  BY <1>2, ReadyStays DEF CardRun
<1>4. Ready(R) => R \subseteq Passed
  BY DEF Ready, Passed, GamesInv, CoreInv, GameInv
<1>5. z.pc = "card" => \A p \in StoredPulls' \ z.view : R \subseteq pulls'[p].late
  BY <1>1, <1>2, <1>3, <1>4, PullsStay DEF CardRun
<1>6. Manifest(z.view)' = R
  BY <1>1, <1>2
<1> QED
  BY <1>3, <1>5, <1>6 DEF CardRun, Ready

\* The card is a whole slate; the run about to write it knows that it will be.
CardIsWhole ==
    /\ card = [g \in DOMAIN card |-> card[g]] /\ DOMAIN card \subseteq Games
    /\ \A r \in Runs : CardRun(run[r])
    /\ DailyCardIsWhole

\* The feeds take no game out of a card, and add none that it should have.
LEMMA GrowCard ==
  ASSUME GamesInv, GamesInv', CardIsWhole, Grow, UNCHANGED <<rows, lease, run, counts>>
  PROVE  CardIsWhole'
<1>1. TypeInv /\ TypeInv' /\ card' = card /\ run' = run /\ RowsStay
  BY DEF GamesInv, rows, RowsStay
<1>2. ASSUME NEW r \in Runs PROVE CardRun(run[r])'
  <2>1. PICK z : z = run[r]
    OBVIOUS
  <2>2. z.view \subseteq StoredPulls /\ CardRun(z)
    BY <2>1 DEF GamesInv, RunsInv, CardIsWhole
  <2>3. CardRun(z)'
    BY <1>1, <2>2, CardRunStays
  <2> QED
    BY <1>1, <2>1, <2>3 DEF CardRun
<1>3. CASE card = NoCard
  BY <1>1, <1>2, <1>3 DEF CardIsWhole, DailyCardIsWhole, NoCard
<1>4. CASE card # NoCard
  <2>1. DOMAIN card # {}
    BY <1>4, Zenon DEF CardIsWhole, NoCard
  <2>2. PICK g \in DOMAIN card : g \in Games /\ canonical[g] # 0
    BY <1>4, <2>1 DEF CardIsWhole, DailyCardIsWhole
  <2>3. g \in Passed
    BY <2>2 DEF GamesInv, CoreInv, GameInv, Passed
  <2>4. CardPulls' \subseteq CardPulls
    BY <1>1, <2>2, <2>3, PullsStay DEF CardPulls
  <2>5. DailyCardIsWhole'
    BY <1>1, <2>4, CardStays DEF CardIsWhole
  <2> QED
    BY <1>1, <1>2, <2>5 DEF CardIsWhole
<1> QED
  BY <1>3, <1>4

\* A step that leaves the card alone, and a record that knows what it must.
LEMMA RecordCard ==
  ASSUME GamesInv, GamesInv', CardIsWhole, RowsStay, NEW r \in Runs, NEW z, Becomes(r, z),
         UNCHANGED <<now, feeds, card>>, z.view \subseteq StoredPulls, CardRun(z)
  PROVE  CardIsWhole'
<1>1. TypeInv /\ TypeInv' /\ Grow /\ StoredPulls' = StoredPulls
  BY FeedsRest DEF GamesInv, StoredPulls, feeds
<1>2. run'[r] = z /\ \A q \in Runs \ {r} : run'[q] = run[q]
  BY <1>1 DEF TypeInv, Becomes
<1>3. ASSUME NEW q \in Runs PROVE CardRun(run[q])'
  <2>1. PICK y : y = run'[q]
    OBVIOUS
  <2>2. y.view \subseteq StoredPulls /\ CardRun(y)
    BY <1>2, <2>1 DEF GamesInv, RunsInv, CardIsWhole
  <2>3. CardRun(y)'
    BY <1>1, <2>2, CardRunStays
  <2> QED
    BY <2>1, <2>3 DEF CardRun
<1>4. CardPulls' \subseteq CardPulls
  BY <1>1, PullsStay DEF CardPulls
<1>5. DailyCardIsWhole'
  BY <1>1, <1>4, CardStays DEF CardIsWhole
<1> QED
  BY <1>3, <1>5 DEF CardIsWhole

\* The card that is written is the whole slate the run has read twice.
LEMMA PutCardWhole ==
  ASSUME GamesInv, GamesInv', CardIsWhole, NEW r \in Runs, PutCard(r)
  PROVE  CardIsWhole'
<1>1. TypeInv /\ TypeInv'
  BY DEF GamesInv
<1>2. /\ run[r].pc = "card"
      /\ UNCHANGED <<now, feeds, stage, canonical>>
      /\ \/ UNCHANGED card
         \/ card' = [g \in Manifest(run[r].view) |-> stage[g].prediction]
  BY <1>1, PutCardEffect
<1>3. PICK z : Becomes(r, z) /\ z.pc = "release" /\ z.view = {}
  BY <1>1, PutCardEffect
<1>4. CardRun(z) /\ RowsStay
  BY <1>2, <1>3 DEF CardRun, RowsStay
<1>5. CASE UNCHANGED card
  BY <1>2, <1>3, <1>4, <1>5, RecordCard
<1>6. CASE card' = [g \in Manifest(run[r].view) |-> stage[g].prediction]
  <2>0. PICK V : V = run[r].view
    OBVIOUS
  <2>1. PICK R \in SUBSET Games : R = Manifest(V) /\ V = run[r].view
    BY <1>1, <2>0, ViewType
  <2>2. DOMAIN card' = R /\ card' = [g \in R |-> stage[g].prediction]
    BY <1>6, <2>1
  <2>3. /\ V \subseteq StoredPulls /\ Ready(R)
        /\ \A p \in StoredPulls \ V : R \subseteq pulls[p].late
    BY <1>2, <2>1 DEF GamesInv, RunsInv, CardIsWhole, CardRun
  <2>4. now' = now /\ pulls' = pulls /\ stage' = stage /\ canonical' = canonical
    BY <1>2 DEF feeds
  <2>5. \A q \in Runs \ {r} : run'[q] = run[q]
    BY <1>1, <1>3 DEF TypeInv, Becomes
  <2>6. run'[r] = z
    BY <1>1, <1>3 DEF TypeInv, Becomes
  <2>7. \A q \in Runs : CardRun(run[q])'
    BY <1>3, <2>4, <2>5, <2>6 DEF CardIsWhole, CardRun, Ready, Manifest, StoredPulls
  <2>8. \A g \in R : canonical[g] # 0 /\ canonical[g] = stage[g].prediction
    BY <2>3 DEF Ready, GamesInv, CoreInv, GameInv
  <2>9. R # {} => CardPulls' \subseteq V
    BY <2>2, <2>3, <2>4 DEF CardPulls, StoredPulls
  <2>10. R # {} => Manifest(CardPulls)' \subseteq R
    <3>1. PICK W : W = CardPulls'
      OBVIOUS
    <3>2. Manifest(W)' = Manifest(W)
      BY <2>4 DEF Manifest
    <3>3. R # {} => Manifest(W) \subseteq R
      BY <2>1, <2>9, <3>1, ManifestGrows
    <3> QED
      BY <3>1, <3>2, <3>3 DEF Manifest
  <2>11. R = {} => card' = NoCard
    BY <2>2, Zenon DEF NoCard
  <2>12. CASE R = {}
    <3>1. DailyCardIsWhole'
      BY <2>11, <2>12 DEF DailyCardIsWhole, NoCard
    <3>2. card' = [g \in DOMAIN card' |-> card'[g]]
      BY <2>2
    <3> QED
      BY <2>2, <2>7, <3>1, <3>2 DEF CardIsWhole
  <2>13. CASE R # {}
    <3>1. DailyCardIsWhole'
      BY <2>2, <2>4, <2>8, <2>10, <2>13 DEF DailyCardIsWhole, CardPulls
    <3>2. card' = [g \in DOMAIN card' |-> card'[g]]
      BY <2>2
    <3> QED
      BY <2>2, <2>7, <3>1, <3>2 DEF CardIsWhole
  <2> QED
    BY <2>12, <2>13
<1> QED
  BY <1>2, <1>5, <1>6

\* Every other step leaves a record that knows what it must.
LEMMA StepCard ==
  ASSUME GamesInv, GamesInv', CardIsWhole, NEW r \in Runs, Step(r)
  PROVE  CardIsWhole'
<1>1. TypeInv /\ RowsStay
  BY StepRowsStay DEF GamesInv
<1>2. ASSUME NEW z, Becomes(r, z), InLease(r, z), z.pc \notin {"recheck", "card"},
             UNCHANGED <<now, feeds, card>>
      PROVE  CardIsWhole'
  <2>1. CardRun(z) /\ z.view \subseteq StoredPulls
    BY <1>2 DEF CardRun, InLease, GamesInv, RunsInv
  <2> QED
    BY <1>1, <1>2, <2>1, RecordCard
<1>3. CASE Final(r)
  <2>1. UNCHANGED <<now, feeds, card>>
    BY <1>1, <1>3, FinalEffect DEF rows
  <2>2. PICK z : Becomes(r, z) /\
           \/ z.pc = "release" /\ z.view = {}
           \/ z.pc = "recheck" /\ z.view = StoredPulls /\ CardReady(StoredPulls)
    BY <1>1, <1>3, FinalEffect
  <2>3. CardReady(StoredPulls) => Ready(Manifest(StoredPulls))
    BY DEF CardReady, InState, State, Ready
  <2>4. CardRun(z) /\ z.view \subseteq StoredPulls
    BY <2>2, <2>3 DEF CardRun
  <2> QED
    BY <1>1, <2>1, <2>2, <2>4, RecordCard
<1>4. CASE RecheckPulls(r)
  <2>1. UNCHANGED <<now, feeds, card>> /\ run[r].pc = "recheck"
    BY <1>1, <1>4, RecheckPullsEffect DEF rows
  <2>2. PICK z : Becomes(r, z) /\
           \/ z.pc = "release" /\ z.view = {}
           \/ z.pc = "card" /\ z.view = run[r].view /\ StoredPulls = z.view
    BY <1>1, <1>4, RecheckPullsEffect
  <2>3. CardRun(run[r])
    BY DEF CardIsWhole
  <2>4. CardRun(z) /\ z.view \subseteq StoredPulls
    BY <2>1, <2>2, <2>3 DEF CardRun
  <2> QED
    BY <1>1, <2>1, <2>2, <2>4, RecordCard
<1>5. CASE PutCard(r)
  BY <1>5, PutCardWhole
<1>6. ASSUME ~Final(r), ~RecheckPulls(r), ~PutCard(r)
      PROVE  /\ UNCHANGED <<now, feeds, card>>
             /\ \E z : Becomes(r, z) /\ z.pc \notin {"recheck", "card"}
  <2> USE DEF rows, Onward
  <2>1. CASE Begin(r) \/ AfterWindow(r) \/ Observe(r)
    BY <1>1, <2>1, BeginEffect, AfterWindowEffect, ObserveEffect
  <2>2. CASE Generate(r) \/ CloseWindow(r) \/ PutStage(r)
    BY <1>1, <2>2, GenerateEffect, CloseWindowEffect, PutStageEffect
  <2>3. CASE CheckCanonical(r) \/ StoreCanonical(r) \/ PutOutcome(r)
    BY <1>1, <2>3, CheckCanonicalEffect, StoreCanonicalEffect, PutOutcomeEffect
  <2>4. CASE Release(r) \/ Crash(r) \/ RepairRead(r)
    BY <1>1, <2>4, ReleaseEffect, CrashEffect, RepairReadEffect, IdleType
  <2>5. CASE RepairRecheck(r) \/ RepairLookup(r) \/ RepairPut(r)
    BY <1>1, <2>5, RepairRecheckEffect, RepairLookupEffect, RepairPutEffect, IdleType
  <2> QED
    BY <1>6, <2>1, <2>2, <2>3, <2>4, <2>5, Zenon DEF Step
<1>7. CASE ~Final(r) /\ ~RecheckPulls(r) /\ ~PutCard(r)
  <2>1. PICK z : Becomes(r, z) /\ InLease(r, z)
    BY <1>1, StepInLease
  <2>2. PICK y : Becomes(r, y) /\ y.pc \notin {"recheck", "card"}
    BY <1>6, <1>7
  <2>3. z = y
    BY <1>1, <2>1, <2>2 DEF Becomes, TypeInv
  <2> QED
    BY <1>2, <1>6, <1>7, <2>1, <2>2, <2>3
<1> QED
  BY <1>3, <1>4, <1>5, <1>7

CardInv == GamesInv /\ CardIsWhole

\* The daily card indexes a whole slate of canonical rows, although pulls arrive
\* between its reads: no roster stored before its games' cutoffs was larger.
THEOREM DailyCardWhole == Spec => []DailyCardIsWhole
<1>1. Init => CardInv
  <2> SUFFICES ASSUME Init PROVE CardInv
    OBVIOUS
  <2>1. GamesInv
    BY InitType, InitCore DEF GamesInv
  <2>2. card = NoCard /\ \A r \in Runs : run[r].pc = "idle"
    BY DEF Init, Idle
  <2>3. NoCard = [g \in DOMAIN NoCard |-> NoCard[g]] /\ DOMAIN NoCard = {}
    BY DEF NoCard
  <2> QED
    BY <2>1, <2>2, <2>3 DEF CardInv, CardIsWhole, CardRun, DailyCardIsWhole
<1>2. CardInv /\ [Next]_vars => CardInv'
  <2> SUFFICES ASSUME CardInv, [Next]_vars PROVE CardInv'
    OBVIOUS
  <2>1. GamesInv /\ GamesInv' /\ CardIsWhole /\ TypeInv
    BY GamesInvStep DEF CardInv, GamesInv
  <2>2. CASE FeedStep
    BY <2>1, <2>2, FeedStepEffect, GrowCard DEF CardInv
  <2>3. ASSUME NEW r \in Runs, Step(r) PROVE CardInv'
    BY <2>1, <2>3, StepCard DEF CardInv
  <2>4. CASE UNCHANGED vars
    BY <2>1, <2>4, StutterGrow, GrowCard DEF CardInv
  <2> QED
    BY <2>2, <2>3, <2>4 DEF Next, FeedStep
<1>3. CardInv => DailyCardIsWhole
  BY DEF CardInv, CardIsWhole
<1> QED
  BY <1>1, <1>2, <1>3, PTL DEF Spec

\* A run with this record writes behind no marker.
Before(z) ==
    z.pc \in Holding \cup {"store"} => \A m \in markers : z.game \notin m.games

\* A step that adds no marker and writes nothing of a marked game.
LEMMA RecordMarkers ==
  ASSUME GamesInv, MarkerInv, NEW r \in Runs, NEW z, Becomes(r, z), Before(z),
         UNCHANGED <<now, feeds, markers>>,
         \A m \in markers : \A g \in m.games :
            stage'[g] = stage[g] /\ canonical'[g] = canonical[g]
  PROVE  MarkerInv'
<1>1. run'[r] = z /\ \A q \in Runs \ {r} : run'[q] = run[q]
  BY DEF GamesInv, TypeInv, Becomes
<1>2. \A m \in markers : m.missed \subseteq m.games
  BY DEF GamesInv, TypeInv
<1>3. now' = now /\ markers' = markers
  OBVIOUS
<1>4. ASSUME NEW m \in markers PROVE
         /\ \A q \in Runs : run'[q].pc \in Holding \cup {"store"} => run'[q].game \notin m.games
         /\ \A g \in m.games : now' >= Start[g]
         /\ m.locked = {g \in m.games : canonical'[g] # 0}
         /\ \A g \in m.missed : stage'[g] = NoStage
  BY <1>1, <1>2, <1>3 DEF MarkerInv, Before
<1> QED
  BY <1>3, <1>4 DEF MarkerInv

\* A game that has not started is behind no marker.
LEMMA NotStarted ==
  ASSUME GamesInv, MarkerInv, NEW g \in Games, now < Start[g]
  PROVE  \A m \in markers : g \notin m.games
<1>1. ~(now >= Start[g])
  BY FeedsAre, GamesAssumption DEF GamesInv, FeedsShape
<1> QED
  BY <1>1 DEF MarkerInv

\* The marker that is added counts what is over: every game has started, and the
\* run that has the lease is at no game.
LEMMA AfterWindowMarkers ==
  ASSUME GamesInv, MarkerInv, NEW r \in Runs, AfterWindow(r)
  PROVE  MarkerInv'
<1> DEFINE view == run[r].view
<1>1. TypeInv /\ RunsInv /\ CoreInv
  BY DEF GamesInv
<1>2. PICK z : Becomes(r, z) /\ z.pc = "release" /\ z.view = {}
  BY <1>1, AfterWindowEffect
<1>3. /\ run[r].pc = "scheduled" /\ Closed(view)
      /\ UNCHANGED <<now, feeds, stage, canonical, outcome>>
  BY <1>1, AfterWindowEffect
<1>4. Before(z)
  BY <1>2 DEF Before, Holding
<1>5. CASE UNCHANGED markers
  BY <1>2, <1>3, <1>4, <1>5, RecordMarkers
<1>6. PICK m : m = [games |-> Manifest(view), locked |-> InState(view, {"LOCKED"}),
                    missed |-> InState(view, {"MISSED"})]
  OBVIOUS
<1>7. CASE /\ InState(view, Terminal \cup {"MISSED"}) = Manifest(view)
           /\ markers' = markers \cup {m}
  <2>1. m.games = Manifest(view) /\ m.locked = InState(view, {"LOCKED"})
        /\ m.missed = InState(view, {"MISSED"})
    BY <1>6
  <2>2. m.games \subseteq Games
    BY <1>1, <2>1, ViewType
  <2>3. \A g \in m.games : now >= Start[g]
    <3>1. \A g \in m.games : now > Start[g] /\ Start[g] \in Nat
      BY <1>3, <2>1, <2>2, GamesAssumption DEF Closed
    <3>2. now \in Nat
      BY <1>1, FeedsAre DEF FeedsShape
    <3> QED
      BY <3>1, <3>2
  <2>4. m.locked = {g \in m.games : canonical[g] # 0}
    <3>1. ASSUME NEW g \in m.games, canonical[g] # 0 PROVE g \in m.locked
      <4>1. stage[g] # NoStage
        BY <1>1, <2>2, <3>1 DEF CoreInv, GameInv
      <4>2. State(g, view, now) \in Terminal \cup {"MISSED"}
        BY <1>7, <2>1, <3>1 DEF InState
      <4>3. State(g, view, now) = "LOCKED"
        BY <4>1, <4>2 DEF State, Terminal
      <4> QED
        BY <2>1, <3>1, <4>3 DEF InState
    <3>2. ASSUME NEW g \in m.locked PROVE g \in m.games /\ canonical[g] # 0
      BY <2>1, <3>2 DEF InState, State
    <3> QED
      BY <3>1, <3>2
  <2>5. \A g \in m.missed : stage[g] = NoStage
    BY <2>1 DEF InState, State
  <2>6. run'[r] = z /\ \A q \in Runs \ {r} : run'[q] = run[q]
    BY <1>1, <1>2 DEF TypeInv, Becomes
  <2>7. \A q \in Runs \ {r} : run[q].pc \notin Leased
    BY <1>1, <1>3 DEF RunsInv, Leased
  <2>8. \A q \in Runs : run'[q].pc \notin Holding \cup {"store"}
    BY <1>2, <2>6, <2>7 DEF Leased, Working, Holding
  <2>9. now' = now /\ stage' = stage /\ canonical' = canonical
    BY <1>3
  <2> QED
    BY <1>7, <2>3, <2>4, <2>5, <2>8, <2>9 DEF MarkerInv
<1> QED
  BY <1>1, <1>5, <1>6, <1>7, AfterWindowEffect

\* No other step comes behind one.
LEMMA StepMarkers ==
  ASSUME GamesInv, MarkerInv, NEW r \in Runs, Step(r)
  PROVE  MarkerInv'
<1>1. TypeInv /\ CoreInv
  BY DEF GamesInv
<1>2. CASE AfterWindow(r)
  BY <1>2, AfterWindowMarkers
<1>3. CASE Generate(r)
  <2>1. PICK z : Becomes(r, z) /\
           \/ z.pc \notin Holding \cup {"store"}
           \/ z.game \in Games /\ now < Start[z.game]
    <3>1. run[r].pc = "generate"
      BY <1>1, <1>3, GenerateEffect
    <3>2. run[r].game \in Games
      BY <1>1, <3>1, GameOf DEF Working
    <3> QED
      BY <1>1, <1>3, <3>2, GenerateEffect DEF Onward, Holding
  <2>2. Before(z)
    BY <2>1, NotStarted DEF Before
  <2> QED
    BY <1>1, <1>3, <2>1, <2>2, GenerateEffect, RecordMarkers DEF rows
<1>4. CASE CloseWindow(r)
  <2>1. PICK z : Becomes(r, z) /\
           \/ z.pc \notin Holding \cup {"store"}
           \/ z.game = run[r].game /\ run[r].pc \in Holding
    BY <1>1, <1>4, CloseWindowEffect DEF Onward, Holding
  <2>2. Before(z)
    BY <2>1 DEF Before, MarkerInv
  <2> QED
    BY <1>1, <1>4, <2>1, <2>2, CloseWindowEffect, RecordMarkers DEF rows
<1>5. CASE PutStage(r)
  <2>1. PICK z : Becomes(r, z) /\ z.pc \notin Holding \cup {"store"}
    BY <1>1, <1>5, PutStageEffect DEF Onward, Holding
  <2>2. Before(z)
    BY <2>1 DEF Before
  <2>3. /\ run[r].pc = "stage" /\ (StageWritten(r) \/ UNCHANGED stage)
        /\ UNCHANGED <<now, feeds, canonical, markers>>
    BY <1>1, <1>5, PutStageEffect
  <2>4. \A m \in markers : m.games \subseteq Games /\ run[r].game \notin m.games
    BY <1>1, <2>3 DEF MarkerInv, Holding, TypeInv
  <2>5. \A m \in markers : \A g \in m.games : stage'[g] = stage[g]
    BY <1>1, <2>3, <2>4 DEF StageWritten, TypeInv
  <2> QED
    BY <2>1, <2>2, <2>3, <2>5, RecordMarkers
<1>6. CASE CheckCanonical(r)
  <2>1. PICK z : Becomes(r, z) /\
           \/ z.pc \notin Holding \cup {"store"}
           \/ z.game \in Games /\ now < Start[z.game]
    <3>1. run[r].pc = "canonical"
      BY <1>1, <1>6, CheckCanonicalEffect
    <3>2. run[r].game \in Games
      BY <1>1, <3>1, GameOf DEF Working
    <3> QED
      BY <1>1, <1>6, <3>2, CheckCanonicalEffect DEF Onward, Holding, Keeps
  <2>2. Before(z)
    BY <2>1, NotStarted DEF Before
  <2> QED
    BY <1>1, <1>6, <2>1, <2>2, CheckCanonicalEffect, RecordMarkers DEF rows
<1>7. CASE StoreCanonical(r)
  <2>1. PICK z : Becomes(r, z) /\ z.pc \notin Holding \cup {"store"}
    BY <1>1, <1>7, StoreCanonicalEffect DEF Onward, Holding
  <2>2. Before(z)
    BY <2>1 DEF Before
  <2>3. /\ run[r].pc = "store" /\ (CanonicalWritten(r) \/ UNCHANGED canonical)
        /\ UNCHANGED <<now, feeds, stage, markers>>
    BY <1>1, <1>7, StoreCanonicalEffect
  <2>4. \A m \in markers : m.games \subseteq Games /\ run[r].game \notin m.games
    BY <1>1, <2>3 DEF MarkerInv, TypeInv
  <2>5. \A m \in markers : \A g \in m.games : canonical'[g] = canonical[g]
    BY <1>1, <2>3, <2>4 DEF CanonicalWritten, TypeInv
  <2> QED
    BY <2>1, <2>2, <2>3, <2>5, RecordMarkers
<1>8. ASSUME NEW z, Becomes(r, z), z.pc \notin Holding \cup {"store"},
             UNCHANGED <<now, feeds, stage, canonical, markers>>
      PROVE  MarkerInv'
  <2>1. Before(z)
    BY <1>8 DEF Before
  <2> QED
    BY <1>8, <2>1, RecordMarkers
<1> USE DEF rows, Onward, Holding
<1>9. CASE Begin(r) \/ Observe(r)
  BY <1>1, <1>8, <1>9, BeginEffect, ObserveEffect
<1>10. CASE PutOutcome(r) \/ Final(r) \/ RecheckPulls(r)
  BY <1>1, <1>8, <1>10, PutOutcomeEffect, FinalEffect, RecheckPullsEffect
<1>11. CASE PutCard(r) \/ Release(r) \/ Crash(r)
  BY <1>1, <1>8, <1>11, PutCardEffect, ReleaseEffect, CrashEffect
<1>12. CASE RepairRead(r) \/ RepairRecheck(r)
  BY <1>1, <1>8, <1>12, RepairReadEffect, RepairRecheckEffect, IdleType
<1>13. CASE RepairLookup(r) \/ RepairPut(r)
  BY <1>1, <1>8, <1>13, RepairLookupEffect, RepairPutEffect, IdleType
<1> QED
  BY <1>2, <1>3, <1>4, <1>5, <1>6, <1>7, <1>9, <1>10, <1>11, <1>12, <1>13, Zenon DEF Step

\* The markers while the feeds grow.
LEMMA GrowMarkers ==
  ASSUME GamesInv, GamesInv', MarkerInv, Grow, UNCHANGED <<rows, lease, run, counts>>
  PROVE  MarkerInv'
<1>1. /\ stage' = stage /\ canonical' = canonical /\ markers' = markers /\ run' = run
      /\ now <= now' /\ now \in Nat /\ now' \in Nat
  BY FeedsAre, FeedsAreNext DEF rows, Grow, GamesInv, FeedsShape
<1>2. \A m \in markers : \A g \in m.games : now' >= Start[g]
  <2> SUFFICES ASSUME NEW m \in markers, NEW g \in m.games PROVE now' >= Start[g]
    OBVIOUS
  <2>1. now >= Start[g] /\ g \in Games
    BY DEF MarkerInv, GamesInv, TypeInv
  <2>2. Start[g] \in Nat
    BY <2>1, GamesAssumption
  <2> QED
    BY <1>1, <2>1, <2>2
<1> QED
  BY <1>1, <1>2 DEF MarkerInv

MarkersInv == GamesInv /\ MarkerInv

\* Nothing is promoted behind a marker, although later runs answer from it without
\* looking.
THEOREM MarkersAreFinal == Spec => []MarkersStayTrue
<1>1. Init => MarkersInv
  BY InitType, InitCore DEF Init, MarkersInv, GamesInv, MarkerInv
<1>2. MarkersInv /\ [Next]_vars => MarkersInv'
  <2> SUFFICES ASSUME MarkersInv, [Next]_vars PROVE MarkersInv'
    OBVIOUS
  <2>1. GamesInv /\ GamesInv' /\ MarkerInv /\ TypeInv
    BY GamesInvStep DEF MarkersInv, GamesInv
  <2>2. CASE FeedStep
    BY <2>1, <2>2, FeedStepEffect, GrowMarkers DEF MarkersInv
  <2>3. ASSUME NEW r \in Runs, Step(r) PROVE MarkersInv'
    BY <2>1, <2>3, StepMarkers DEF MarkersInv
  <2>4. CASE UNCHANGED vars
    BY <2>1, <2>4, StutterGrow, GrowMarkers DEF MarkersInv
  <2> QED
    BY <2>2, <2>3, <2>4 DEF Next, FeedStep
<1>3. MarkersInv => MarkersStayTrue
  BY DEF MarkersInv, MarkerInv, MarkersStayTrue
<1> QED
  BY <1>1, <1>2, <1>3, PTL DEF Spec

=============================================================================
