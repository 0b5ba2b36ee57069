------------------------- MODULE PublicPredictionProofs -------------------------
(***************************************************************************)
(* Proofs about PublicPrediction: the types, the immutability of the       *)
(* evidence, the agreement of binding and prediction, that a pick was made *)
(* within its times and under an authority that only moves forward, and    *)
(* that the program implements PublicDecision, for any invocations, models *)
(* and schedules.                                                          *)
EXTENDS PublicPrediction, TLAPS

(***************************************************************************)
(* Types.                                                                  *)
(***************************************************************************)

LockType == [by : Authors, at : Nat, eligible : BOOLEAN]

BindingType == [model : Models \cup {NoModel}, at : Nat, meta : Nat, auth : Nat,
                by : Authors]

ControllerType == [pc : {"idle", "persist"}, at : Nat]

\* The places in which an invocation has a model in hand.
InHand == {"begin", "event", "authority", "stamp", "write", "judge"}

FreezeOK(z) ==
    /\ z \in FreezeType
    /\ z.pc # "idle" => z.seen \in Revisions
    /\ z.pc \in InHand => z.model \in Models

\* The types, and that an invocation at work on a model has one in hand.
TypeInv == TypeOK /\ \A f \in Freezes : FreezeOK(freeze[f])

\* The initial state has every type.
LEMMA InitType == Init => TypeInv
<1> USE RevisionsAssumption, TimesAssumption
<1> SUFFICES ASSUME Init PROVE TypeInv
  OBVIOUS
<1>1. IdleFreeze \in FreezeType /\ IdleFreeze.pc = "idle"
  BY DEF IdleFreeze, FreezeType, Places, Answers
<1>2. FreezeOK(IdleFreeze)
  BY <1>1 DEF FreezeOK, InHand
<1>3. NoLock \in LockType
  BY DEF NoLock, LockType, Authors
<1>4. NoBinding \in BindingType
  BY DEF NoBinding, BindingType, Authors
<1>5. NoRow \in RowType
  BY DEF NoRow, RowType, Authors
<1>6. [pc |-> "idle", at |-> 0] \in ControllerType
  BY DEF ControllerType
<1>7. now \in Nat /\ champion \in Models /\ shadows \in SUBSET Models
  BY DEF Init
<1>8. event \in [rev : Revisions, meta : Nat, completed : BOOLEAN]
  BY DEF Init
<1>9. auth \in [ok : BOOLEAN, at : Nat]
  BY DEF Init
<1>10. freeze \in [Freezes -> FreezeType] /\ \A f \in Freezes : freeze[f] = IdleFreeze
  BY <1>1 DEF Init
<1>11. lock \in [Revisions -> LockType] /\ binding \in [Revisions -> BindingType]
  BY <1>3, <1>4 DEF Init
<1>12. pred \in [Revisions -> [Models -> RowType]]
  BY <1>5 DEF Init
<1>13. controller \in [Controllers -> ControllerType]
  BY <1>6 DEF Init
<1> QED
  BY <1>1, <1>2, <1>7, <1>8, <1>9, <1>10, <1>11, <1>12, <1>13
  DEF TypeInv, TypeOK, LockType, BindingType, ControllerType

\* A step that rewrites one invocation inside its type, and no table, keeps
\* the types.
LEMMA OneFreezeType ==
  ASSUME TypeInv, NEW f \in Freezes, NEW z, FreezeOK(z),
         freeze' = [freeze EXCEPT ![f] = z]
  PROVE  /\ freeze' \in [Freezes -> FreezeType]
         /\ \A g \in Freezes : FreezeOK(freeze'[g])
         /\ \A g \in Freezes : freeze'[g].pc # "idle" => freeze'[g].seen \in Revisions
  BY DEF TypeInv, TypeOK, FreezeOK

\* What a lookup of the invocation in hand yields.
LEMMA FreezeOf ==
  ASSUME TypeInv, NEW f \in Freezes
  PROVE  FreezeOK(freeze[f]) /\ freeze[f] \in FreezeType
  BY DEF TypeInv, TypeOK

\* Moving on to another place keeps the invocation's type.
LEMMA GoesType ==
  ASSUME TypeInv, NEW f \in Freezes, NEW place \in Places, Goes(f, place),
         freeze[f].pc # "idle",
         place \in InHand => freeze[f].pc \in InHand
  PROVE  /\ freeze' \in [Freezes -> FreezeType]
         /\ \A g \in Freezes : FreezeOK(freeze'[g])
         /\ \A g \in Freezes : freeze'[g].pc # "idle" => freeze'[g].seen \in Revisions
<1> DEFINE z == [freeze[f] EXCEPT !.pc = place]
<1>1. z \in FreezeType /\ z.pc = place /\ z.seen = freeze[f].seen /\ z.model = freeze[f].model
  BY FreezeOf DEF FreezeType
<1>2. freeze' = [freeze EXCEPT ![f] = z]
  BY DEF Goes
<1> HIDE DEF z
<1>3. FreezeOK(z)
  BY <1>1, FreezeOf DEF FreezeOK
<1> QED
  BY <1>2, <1>3, OneFreezeType

\* Being done with a model keeps the invocation's type.
LEMMA DropType ==
  ASSUME TypeInv, NEW f \in Freezes, NEW answer \in Answers, Drop(f, answer),
         freeze[f].pc # "idle"
  PROVE  /\ freeze' \in [Freezes -> FreezeType]
         /\ \A g \in Freezes : FreezeOK(freeze'[g])
         /\ \A g \in Freezes : freeze'[g].pc # "idle" => freeze'[g].seen \in Revisions
<1> DEFINE z == [freeze[f] EXCEPT !.pc = "next", !.model = NoModel, !.meta = 0,
                   !.authAt = 0, !.at = 0, !.answer = answer]
<1>1. z \in FreezeType /\ z.pc = "next" /\ z.seen = freeze[f].seen
  BY FreezeOf DEF FreezeType, Places
<1>2. freeze' = [freeze EXCEPT ![f] = z]
  BY DEF Drop
<1> HIDE DEF z
<1>3. FreezeOK(z)
  BY <1>1, FreezeOf DEF FreezeOK, InHand
<1> QED
  BY <1>2, <1>3, OneFreezeType

\* What TypeInv says of the invocations.
FreezesOK ==
    /\ freeze \in [Freezes -> FreezeType]
    /\ \A g \in Freezes : FreezeOK(freeze[g])
    /\ \A g \in Freezes : freeze[g].pc # "idle" => freeze[g].seen \in Revisions

\* A step that leaves the clock, the tables and the controllers alone keeps
\* the types if it keeps those of the invocations.
LEMMA OnlyFreezes ==
  ASSUME TypeInv, FreezesOK', UNCHANGED <<now, tables, controller>>
  PROVE  TypeInv'
  BY DEF TypeInv, TypeOK, FreezesOK, tables

\* The frozen lock is of the right type, whichever invocation stored it.
LEMMA LockStoredType ==
  ASSUME TypeInv, NEW f \in Freezes, At(f, "build"), NEW eligible \in BOOLEAN
  PROVE  LockStored(f, eligible) \in LockType
<1>1. freeze[f] \in FreezeType /\ freeze[f].seen \in Revisions
  BY FreezeOf DEF FreezeOK, At
<1>2. lock \in [Revisions -> LockType]
  BY DEF TypeInv, TypeOK, LockType
<1>3. freeze[f].observed \in Nat /\ f \in Authors
  BY <1>1 DEF FreezeType, Authors
<1>4. [by |-> f, at |-> freeze[f].observed, eligible |-> eligible] \in LockType
  BY <1>3 DEF LockType
<1> QED
  BY <1>1, <1>2, <1>4 DEF LockStored

\* The rows an invocation writes are of the right type.
LEMMA WrittenTypes ==
  ASSUME TypeInv, NEW f \in Freezes, At(f, "write")
  PROVE  /\ freeze[f].seen \in Revisions /\ freeze[f].model \in Models
         /\ RowOf(f, "CHAMPION") \in RowType /\ RowOf(f, "SHADOW") \in RowType
         /\ BindingOf(f) \in BindingType
         /\ ShadowStored(f) \in RowType
<1>1. freeze[f] \in FreezeType /\ freeze[f].seen \in Revisions /\ freeze[f].model \in Models
  BY FreezeOf DEF FreezeOK, At, InHand
<1>2. lock[freeze[f].seen].by \in Authors /\ now \in Nat
  BY <1>1 DEF TypeInv, TypeOK
<1>3. freeze[f].at \in Nat /\ freeze[f].meta \in Nat /\ freeze[f].authAt \in Nat
  BY <1>1 DEF FreezeType
<1>4. RowOf(f, "CHAMPION") \in RowType /\ RowOf(f, "SHADOW") \in RowType
  BY <1>2, <1>3 DEF RowOf, RowType
<1>5. BindingOf(f) \in BindingType
  BY <1>1, <1>2, <1>3 DEF BindingOf, BindingType
<1>6. pred[freeze[f].seen][freeze[f].model] \in RowType
  BY <1>1 DEF TypeInv, TypeOK
<1>7. ShadowStored(f) \in RowType
  BY <1>4, <1>6 DEF ShadowStored
<1> QED
  BY <1>1, <1>4, <1>5, <1>7

\* Every step of an invocation up to its list of models keeps the types.
LEMMA LockStepType ==
  ASSUME TypeInv, NEW f \in Freezes,
         \/ StartFreeze(f) \/ ReadLock(f) \/ CohortMissing(f) \/ BuildLock(f)
         \/ BeginPredict(f) \/ ListModels(f)
  PROVE  TypeInv'
<1>1. CASE StartFreeze(f)
  <2> DEFINE z == [freeze[f] EXCEPT !.pc = "lock", !.observed = now, !.seen = event.rev]
  <2>1. now \in Nat /\ event.rev \in Nat /\ event.rev \in Revisions
    BY RevisionsAssumption DEF TypeInv, TypeOK
  <2>2. z \in FreezeType /\ z.pc = "lock" /\ z.seen = event.rev
    BY <2>1, FreezeOf DEF FreezeType, Places
  <2>3. freeze' = [freeze EXCEPT ![f] = z]
    BY <1>1 DEF StartFreeze, RevisionOf
  <2> HIDE DEF z
  <2>4. FreezeOK(z)
    BY <2>1, <2>2 DEF FreezeOK, InHand
  <2>5. FreezesOK'
    BY <2>3, <2>4, OneFreezeType DEF FreezesOK
  <2> QED
    BY <1>1, <2>5, OnlyFreezes DEF StartFreeze
<1>2. CASE ReadLock(f)
  <2> DEFINE place == IF Locked(freeze[f].seen) THEN "predict"
                      ELSE IF InCaptureWindow(f) THEN "build" ELSE "done"
  <2>1. place \in Places /\ place \notin InHand
    BY DEF Places, InHand
  <2>2. Goes(f, place) /\ freeze[f].pc # "idle"
    BY <1>2 DEF ReadLock, At
  <2> HIDE DEF place
  <2>3. FreezesOK'
    BY <2>1, <2>2, GoesType DEF FreezesOK
  <2> QED
    BY <1>2, <2>3, OnlyFreezes DEF ReadLock
<1>3. CASE CohortMissing(f)
  <2>1. Goes(f, "done") /\ freeze[f].pc # "idle" /\ "done" \in Places /\ "done" \notin InHand
    BY <1>3 DEF CohortMissing, At, Places, InHand
  <2>2. FreezesOK'
    BY <2>1, GoesType DEF FreezesOK
  <2> QED
    BY <1>3, <2>2, OnlyFreezes DEF CohortMissing
<1>4. CASE BuildLock(f)
  <2>1. /\ Goes(f, "predict") /\ freeze[f].pc # "idle"
        /\ "predict" \in Places /\ "predict" \notin InHand
    BY <1>4 DEF BuildLock, At, Places, InHand
  <2>2. FreezesOK'
    BY <2>1, GoesType DEF FreezesOK
  <2>3. PICK eligible \in BOOLEAN :
          lock' = [lock EXCEPT ![freeze[f].seen] = LockStored(f, eligible)]
    BY <1>4 DEF BuildLock
  <2>4. LockStored(f, eligible) \in LockType
    BY <1>4, LockStoredType DEF BuildLock
  <2>5. lock' \in [Revisions -> LockType]
    BY <2>3, <2>4 DEF TypeInv, TypeOK, LockType
  <2> QED
    BY <1>4, <2>2, <2>5 DEF BuildLock, TypeInv, TypeOK, FreezesOK, LockType
<1>5. CASE BeginPredict(f)
  <2> DEFINE place == IF lock[freeze[f].seen].eligible /\ event.rev = freeze[f].seen
                      THEN "list" ELSE "done"
  <2>1. place \in Places /\ place \notin InHand
    BY DEF Places, InHand
  <2>2. Goes(f, place) /\ freeze[f].pc # "idle"
    BY <1>5 DEF BeginPredict, At
  <2> HIDE DEF place
  <2>3. FreezesOK'
    BY <2>1, <2>2, GoesType DEF FreezesOK
  <2> QED
    BY <1>5, <2>3, OnlyFreezes DEF BeginPredict
<1>6. CASE ListModels(f)
  <2> DEFINE listed == {champion} \cup shadows
             z == [freeze[f] EXCEPT !.pc = "next", !.todo = listed, !.champ = champion]
  <2>1. listed \in SUBSET Models /\ champion \in Models
    BY DEF TypeInv, TypeOK
  <2>2. freeze' = [freeze EXCEPT ![f] = z] /\ freeze[f].pc # "idle"
    BY <1>6 DEF ListModels, At
  <2> HIDE DEF listed
  <2>3. z \in FreezeType /\ z.pc = "next" /\ z.seen = freeze[f].seen
    BY <2>1, FreezeOf DEF FreezeType, Places
  <2> HIDE DEF z
  <2>4. FreezeOK(z)
    BY <2>2, <2>3, FreezeOf DEF FreezeOK, InHand
  <2>5. FreezesOK'
    BY <2>2, <2>4, OneFreezeType DEF FreezesOK
  <2> QED
    BY <1>6, <2>5, OnlyFreezes DEF ListModels
<1> QED
  BY <1>1, <1>2, <1>3, <1>4, <1>5, <1>6

\* Every step of an invocation on one model, up to its write, keeps the types.
LEMMA ModelStepType ==
  ASSUME TypeInv, NEW f \in Freezes,
         \/ NextModel(f) \/ BeginModel(f) \/ RereadEvent(f) \/ RereadAuthority(f)
         \/ Stamp(f)
  PROVE  TypeInv'
<1>0. "blocked" \in Answers /\ "failed" \in Answers /\ "none" \in Answers
  BY DEF Answers
<1>1. CASE NextModel(f)
  <2>0. At(f, "next") /\ freeze[f].pc # "idle"
    BY <1>1 DEF NextModel, At
  <2>1. CASE freeze[f].todo = {}
    <3>1. Goes(f, "done") /\ "done" \in Places /\ "done" \notin InHand
      BY <1>1, <2>1 DEF NextModel, Places, InHand
    <3>2. FreezesOK'
      BY <2>0, <3>1, GoesType DEF FreezesOK
    <3> QED
      BY <1>1, <3>2, OnlyFreezes DEF NextModel
  <2>2. CASE freeze[f].todo # {}
    <3>1. PICK m \in freeze[f].todo :
            freeze' = [freeze EXCEPT ![f] =
               [@ EXCEPT !.pc = "begin", !.model = m, !.todo = freeze[f].todo \ {m},
                         !.answer = "none"]]
      BY <1>1, <2>2 DEF NextModel
    <3> DEFINE rest == freeze[f].todo \ {m}
               z == [freeze[f] EXCEPT !.pc = "begin", !.model = m, !.todo = rest,
                                      !.answer = "none"]
    <3>2. m \in Models /\ rest \in SUBSET Models
      BY FreezeOf DEF FreezeType
    <3>3. freeze' = [freeze EXCEPT ![f] = z]
      BY <3>1
    <3> HIDE DEF rest
    <3>4. z \in FreezeType /\ z.seen = freeze[f].seen /\ z.model = m
      BY <1>0, <3>2, FreezeOf DEF FreezeType, Places
    <3> HIDE DEF z
    <3>5. FreezeOK(z)
      BY <2>0, <3>2, <3>4, FreezeOf DEF FreezeOK
    <3>6. FreezesOK'
      BY <3>3, <3>5, OneFreezeType DEF FreezesOK
    <3> QED
      BY <1>1, <3>6, OnlyFreezes DEF NextModel
  <2> QED
    BY <2>1, <2>2
<1>2. CASE BeginModel(f)
  <2>0. freeze[f].pc # "idle" /\ freeze[f].pc \in InHand
    BY <1>2 DEF BeginModel, At, InHand
  <2>1. \/ Goes(f, "event") \/ Goes(f, "stamp")
        \/ Drop(f, "blocked") \/ Drop(f, "failed")
    BY <1>2 DEF BeginModel
  <2>2. "event" \in Places /\ "stamp" \in Places
    BY DEF Places
  <2>3. FreezesOK'
    BY <1>0, <2>0, <2>1, <2>2, GoesType, DropType DEF FreezesOK
  <2> QED
    BY <1>2, <2>3, OnlyFreezes DEF BeginModel
<1>3. CASE RereadEvent(f)
  <2>0. freeze[f].pc # "idle" /\ freeze[f].pc = "event"
    BY <1>3 DEF RereadEvent, At
  <2>1. CASE event.rev = freeze[f].seen
    <3> DEFINE z == [freeze[f] EXCEPT !.pc = "authority", !.meta = event.meta]
    <3>1. event.meta \in Nat
      BY DEF TypeInv, TypeOK
    <3>2. z \in FreezeType /\ z.seen = freeze[f].seen /\ z.model = freeze[f].model
      BY <3>1, FreezeOf DEF FreezeType, Places
    <3>3. freeze' = [freeze EXCEPT ![f] = z]
      BY <1>3, <2>1 DEF RereadEvent
    <3> HIDE DEF z
    <3>4. FreezeOK(z)
      BY <2>0, <3>2, FreezeOf DEF FreezeOK, InHand
    <3>5. FreezesOK'
      BY <3>3, <3>4, OneFreezeType DEF FreezesOK
    <3> QED
      BY <1>3, <3>5, OnlyFreezes DEF RereadEvent
  <2>2. CASE event.rev # freeze[f].seen
    <3>1. FreezesOK'
      BY <1>0, <1>3, <2>0, <2>2, DropType DEF RereadEvent, FreezesOK
    <3> QED
      BY <1>3, <3>1, OnlyFreezes DEF RereadEvent
  <2> QED
    BY <2>1, <2>2
<1>4. CASE RereadAuthority(f)
  <2>0. freeze[f].pc # "idle" /\ freeze[f].pc = "authority"
    BY <1>4 DEF RereadAuthority, At
  <2>1. CASE InTime(f) /\ MayPublish
    <3> DEFINE z == [freeze[f] EXCEPT !.pc = "stamp", !.authAt = auth.at]
    <3>1. auth.at \in Nat
      BY DEF TypeInv, TypeOK
    <3>2. z \in FreezeType /\ z.seen = freeze[f].seen /\ z.model = freeze[f].model
      BY <3>1, FreezeOf DEF FreezeType, Places
    <3>3. freeze' = [freeze EXCEPT ![f] = z]
      BY <1>4, <2>1 DEF RereadAuthority
    <3> HIDE DEF z
    <3>4. FreezeOK(z)
      BY <2>0, <3>2, FreezeOf DEF FreezeOK, InHand
    <3>5. FreezesOK'
      BY <3>3, <3>4, OneFreezeType DEF FreezesOK
    <3> QED
      BY <1>4, <3>5, OnlyFreezes DEF RereadAuthority
  <2>2. CASE ~(InTime(f) /\ MayPublish)
    <3>1. FreezesOK'
      BY <1>0, <1>4, <2>0, <2>2, DropType DEF RereadAuthority, FreezesOK
    <3> QED
      BY <1>4, <3>1, OnlyFreezes DEF RereadAuthority
  <2> QED
    BY <2>1, <2>2
<1>5. CASE Stamp(f)
  <2>0. freeze[f].pc # "idle" /\ freeze[f].pc = "stamp"
    BY <1>5 DEF Stamp, At
  <2>1. CASE InTime(f)
    <3> DEFINE z == [freeze[f] EXCEPT !.pc = "write", !.at = now]
    <3>1. now \in Nat
      BY DEF TypeInv, TypeOK
    <3>2. z \in FreezeType /\ z.seen = freeze[f].seen /\ z.model = freeze[f].model
      BY <3>1, FreezeOf DEF FreezeType, Places
    <3>3. freeze' = [freeze EXCEPT ![f] = z]
      BY <1>5, <2>1 DEF Stamp
    <3> HIDE DEF z
    <3>4. FreezeOK(z)
      BY <2>0, <3>2, FreezeOf DEF FreezeOK, InHand
    <3>5. FreezesOK'
      BY <3>3, <3>4, OneFreezeType DEF FreezesOK
    <3> QED
      BY <1>5, <3>5, OnlyFreezes DEF Stamp
  <2>2. CASE ~InTime(f)
    <3>1. FreezesOK'
      BY <1>0, <1>5, <2>0, <2>2, DropType DEF Stamp, FreezesOK
    <3> QED
      BY <1>5, <3>1, OnlyFreezes DEF Stamp
  <2> QED
    BY <2>1, <2>2
<1> QED
  BY <1>1, <1>2, <1>3, <1>4, <1>5

\* The writes, and the verdict on a refused one, keep the types.
LEMMA WriteStepType ==
  ASSUME TypeInv, NEW f \in Freezes,
         WriteShadow(f) \/ Publish(f) \/ PublishRefused(f) \/ Judge(f)
  PROVE  TypeInv'
<1>0. /\ "shadow" \in Answers /\ "written" \in Answers /\ "failed" \in Answers
      /\ "judge" \in Places
  BY DEF Answers, Places
<1>1. CASE WriteShadow(f)
  <2>1. /\ freeze[f].seen \in Revisions /\ freeze[f].model \in Models
        /\ ShadowStored(f) \in RowType
    BY <1>1, WrittenTypes DEF WriteShadow
  <2>2. pred' \in [Revisions -> [Models -> RowType]]
    BY <1>1, <2>1 DEF WriteShadow, TypeInv, TypeOK
  <2>3. FreezesOK'
    BY <1>0, <1>1, DropType DEF WriteShadow, At, FreezesOK
  <2> QED
    BY <1>1, <2>2, <2>3 DEF WriteShadow, TypeInv, TypeOK, FreezesOK
<1>2. CASE Publish(f)
  <2>1. /\ freeze[f].seen \in Revisions /\ freeze[f].model \in Models
        /\ RowOf(f, "CHAMPION") \in RowType /\ BindingOf(f) \in BindingType
    BY <1>2, WrittenTypes DEF Publish
  <2>2. pred' \in [Revisions -> [Models -> RowType]]
    BY <1>2, <2>1 DEF Publish, TypeInv, TypeOK
  <2>3. binding' \in [Revisions -> BindingType]
    BY <1>2, <2>1 DEF Publish, TypeInv, TypeOK, BindingType
  <2>4. FreezesOK'
    BY <1>0, <1>2, DropType DEF Publish, At, FreezesOK
  <2> QED
    BY <1>2, <2>2, <2>3, <2>4 DEF Publish, TypeInv, TypeOK, FreezesOK, BindingType
<1>3. CASE PublishRefused(f)
  <2>1. FreezesOK'
    BY <1>0, <1>3, GoesType DEF PublishRefused, At, InHand, FreezesOK
  <2> QED
    BY <1>3, <2>1, OnlyFreezes DEF PublishRefused
<1>4. CASE Judge(f)
  <2>1. Verdict(f) \in Answers
    BY DEF Verdict, Answers
  <2>2. FreezesOK'
    BY <1>4, <2>1, DropType DEF Judge, At, FreezesOK
  <2> QED
    BY <1>4, <2>2, OnlyFreezes DEF Judge
<1> QED
  BY <1>1, <1>2, <1>3, <1>4

\* Every step of the specification keeps the types.
LEMMA NextType == TypeInv /\ [Next]_vars => TypeInv'
<1> SUFFICES ASSUME TypeInv, [Next]_vars PROVE TypeInv'
  OBVIOUS
<1> USE RevisionsAssumption, TimesAssumption
<1>1. CASE Tick
  BY <1>1 DEF Tick, TypeInv, TypeOK, tables
<1>2. CASE \E f \in Freezes : FreezeStep(f)
  BY <1>2, LockStepType, ModelStepType, WriteStepType DEF FreezeStep
<1>3. CASE RewriteEvent
  <2>1. event \in [rev : Revisions, meta : Nat, completed : BOOLEAN]
    BY DEF TypeInv, TypeOK
  <2>2. event.meta + 1 \in Nat
    BY <2>1
  <2>3. event' \in [rev : Revisions, meta : Nat, completed : BOOLEAN]
    BY <1>3, <2>1, <2>2 DEF RewriteEvent
  <2> QED
    BY <1>3, <2>3 DEF RewriteEvent, TypeInv, TypeOK
<1>4. CASE CompleteEvent
  <2>1. event \in [rev : Revisions, meta : Nat, completed : BOOLEAN]
    BY DEF TypeInv, TypeOK
  <2>2. event.meta + 1 \in Nat
    BY <2>1
  <2>3. event' \in [rev : Revisions, meta : Nat, completed : BOOLEAN]
    BY <1>4, <2>1, <2>2 DEF CompleteEvent
  <2> QED
    BY <1>4, <2>3 DEF CompleteEvent, TypeInv, TypeOK
<1>5. CASE \E c \in Controllers : StartCycle(c)
  <2>1. PICK c \in Controllers : StartCycle(c)
    BY <1>5
  <2>2. controller' = [controller EXCEPT ![c] = [pc |-> "persist", at |-> now]]
    BY <2>1 DEF StartCycle
  <2>3. [pc |-> "persist", at |-> now] \in ControllerType
    BY DEF ControllerType, TypeInv, TypeOK
  <2>4. controller' \in [Controllers -> ControllerType]
    BY <2>2, <2>3 DEF TypeInv, TypeOK, ControllerType
  <2> QED
    BY <2>1, <2>4 DEF StartCycle, TypeInv, TypeOK, ControllerType, tables
<1>6. CASE \E c \in Controllers : PersistState(c)
  <2>1. PICK c \in Controllers : PersistState(c)
    BY <1>6
  <2>2. controller[c] \in ControllerType
    BY DEF TypeInv, TypeOK, ControllerType
  <2>3. ASSUME NEW ok \in BOOLEAN
        PROVE  [ok |-> ok, at |-> controller[c].at] \in [ok : BOOLEAN, at : Nat]
    BY <2>2 DEF ControllerType
  <2>4. auth' \in [ok : BOOLEAN, at : Nat]
    BY <2>1, <2>3 DEF PersistState, TypeInv, TypeOK
  <2>5. [pc |-> "idle", at |-> 0] \in ControllerType
    BY DEF ControllerType
  <2>6. controller' \in [Controllers -> ControllerType]
    BY <2>1, <2>5 DEF PersistState, TypeInv, TypeOK, ControllerType
  <2> QED
    BY <2>1, <2>4, <2>6 DEF PersistState, TypeInv, TypeOK, ControllerType
<1>7. CASE \E m \in Models : Promote(m) \/ Reject(m)
  BY <1>7 DEF Promote, Reject, TypeInv, TypeOK
<1>8. CASE UNCHANGED vars
  BY <1>8 DEF vars, TypeInv, TypeOK
<1> QED
  BY <1>1, <1>2, <1>3, <1>4, <1>5, <1>6, <1>7, <1>8 DEF Next

\* Every variable keeps its type in every behaviour.
THEOREM TypeInvariance == Spec => []TypeOK
<1>1. TypeInv => TypeOK
  BY DEF TypeInv
<1> QED
  BY <1>1, InitType, NextType, PTL DEF Spec

(***************************************************************************)
(* What a step may do to the evidence.                                     *)
(***************************************************************************)

\* Only BuildLock, WriteShadow and Publish touch a lock, a binding or a
\* prediction.
LEMMA QuietTables ==
  ASSUME [Next]_vars,
         \A f \in Freezes : ~BuildLock(f) /\ ~WriteShadow(f) /\ ~Publish(f)
  PROVE  UNCHANGED <<lock, binding, pred>>
<1>1. CASE \E f \in Freezes : FreezeStep(f)
  BY <1>1 DEF FreezeStep, StartFreeze, ReadLock, CohortMissing, BeginPredict, ListModels,
     NextModel, BeginModel, RereadEvent, RereadAuthority, Stamp, PublishRefused, Judge, tables
<1>2. CASE Tick \/ RewriteEvent \/ CompleteEvent
  BY <1>2 DEF Tick, RewriteEvent, CompleteEvent, tables
<1>3. CASE \E c \in Controllers : StartCycle(c) \/ PersistState(c)
  BY <1>3 DEF StartCycle, PersistState, tables
<1>4. CASE \E m \in Models : Promote(m) \/ Reject(m)
  BY <1>4 DEF Promote, Reject
<1>5. CASE UNCHANGED vars
  BY <1>5 DEF vars
<1> QED
  BY <1>1, <1>2, <1>3, <1>4, <1>5 DEF Next

\* BuildLock changes one lock, and only one that was not there.
LEMMA BuildLockEffect ==
  ASSUME TypeInv, NEW f \in Freezes, BuildLock(f)
  PROVE  /\ UNCHANGED <<binding, pred>>
         /\ \A r \in Revisions : Locked(r) => lock'[r] = lock[r]
         /\ \A r \in Revisions \ {freeze[f].seen} : lock'[r] = lock[r]
         /\ Locked(freeze[f].seen)'
<1>1. freeze[f].seen \in Revisions /\ f # NoFreeze
  BY FreezeOf, NoneAssumption DEF FreezeOK, BuildLock, At
<1>2. PICK eligible \in BOOLEAN :
        lock' = [lock EXCEPT ![freeze[f].seen] = LockStored(f, eligible)]
  BY DEF BuildLock
<1>3. freeze'[f].seen = freeze[f].seen
  <2> DEFINE z == [freeze[f] EXCEPT !.pc = "predict"]
  <2>1. freeze' = [freeze EXCEPT ![f] = z]
    BY DEF BuildLock, Goes
  <2>2. z.seen = freeze[f].seen
    BY FreezeOf DEF FreezeType
  <2> HIDE DEF z
  <2> QED
    BY <2>1, <2>2 DEF TypeInv, TypeOK
<1>4. \A r \in Revisions : lock'[r] = IF r = freeze[f].seen THEN LockStored(f, eligible)
                                       ELSE lock[r]
  BY <1>1, <1>2 DEF TypeInv, TypeOK
<1>5. Locked(freeze[f].seen) => LockStored(f, eligible) = lock[freeze[f].seen]
  BY DEF LockStored
<1>6. LockStored(f, eligible).by # NoFreeze
  BY <1>1 DEF LockStored, Locked
<1> QED
  BY <1>1, <1>3, <1>4, <1>5, <1>6 DEF BuildLock, Locked

\* WriteShadow changes one prediction, and only one that was not there.
LEMMA WriteShadowEffect ==
  ASSUME TypeInv, NEW f \in Freezes, WriteShadow(f)
  PROVE  /\ UNCHANGED <<binding, lock>>
         /\ \A r \in Revisions, m \in Models :
              pred'[r][m] = IF r = freeze[f].seen /\ m = freeze[f].model
                               /\ ~Predicted(r, m)
                            THEN RowOf(f, "SHADOW") ELSE pred[r][m]
<1>1. freeze[f].seen \in Revisions /\ freeze[f].model \in Models
  BY WrittenTypes DEF WriteShadow
<1>2. pred' = [pred EXCEPT ![freeze[f].seen] =
                 [@ EXCEPT ![freeze[f].model] = ShadowStored(f)]]
  BY DEF WriteShadow
<1>3. \A r \in Revisions, m \in Models :
        pred'[r][m] = IF r = freeze[f].seen /\ m = freeze[f].model
                      THEN ShadowStored(f) ELSE pred[r][m]
  BY <1>1, <1>2 DEF TypeInv, TypeOK
<1> QED
  BY <1>3 DEF WriteShadow, ShadowStored

\* Publish adds one binding and its prediction where neither was.
LEMMA PublishEffect ==
  ASSUME TypeInv, NEW f \in Freezes, Publish(f)
  PROVE  /\ freeze[f].seen \in Revisions /\ freeze[f].model \in Models
         /\ ~Bound(freeze[f].seen) /\ ~Predicted(freeze[f].seen, freeze[f].model)
         /\ lock' = lock
         /\ \A r \in Revisions :
              binding'[r] = IF r = freeze[f].seen THEN BindingOf(f) ELSE binding[r]
         /\ \A r \in Revisions, m \in Models :
              pred'[r][m] = IF r = freeze[f].seen /\ m = freeze[f].model
                            THEN RowOf(f, "CHAMPION") ELSE pred[r][m]
<1>1. freeze[f].seen \in Revisions /\ freeze[f].model \in Models
  BY WrittenTypes DEF Publish
<1>2. pred' = [pred EXCEPT ![freeze[f].seen] =
                 [@ EXCEPT ![freeze[f].model] = RowOf(f, "CHAMPION")]]
  BY DEF Publish
<1>3. \A r \in Revisions, m \in Models :
        pred'[r][m] = IF r = freeze[f].seen /\ m = freeze[f].model
                      THEN RowOf(f, "CHAMPION") ELSE pred[r][m]
  BY <1>1, <1>2 DEF TypeInv, TypeOK
<1> QED
  BY <1>1, <1>3 DEF Publish, MayCommit, TypeInv, TypeOK

\* A step never changes evidence that is there.
LEMMA ImmutableStep ==
  ASSUME TypeInv, [Next]_vars
  PROVE  \A r \in Revisions :
           /\ Locked(r) => lock'[r] = lock[r]
           /\ Bound(r) => binding'[r] = binding[r]
           /\ \A m \in Models : Predicted(r, m) => pred'[r][m] = pred[r][m]
<1>1. CASE \E f \in Freezes : BuildLock(f)
  BY <1>1, BuildLockEffect
<1>2. CASE \E f \in Freezes : WriteShadow(f)
  BY <1>2, WriteShadowEffect
<1>3. CASE \E f \in Freezes : Publish(f)
  BY <1>3, PublishEffect
<1>4. CASE \A f \in Freezes : ~BuildLock(f) /\ ~WriteShadow(f) /\ ~Publish(f)
  BY <1>4, QuietTables
<1> QED
  BY <1>1, <1>2, <1>3, <1>4

\* A lock, a binding or a prediction, once there, never changes: put_lock,
\* put_prediction and the transaction of put_public_prediction only ever add.
THEOREM Immutable == Spec => EvidenceIsImmutable
<1>1. TypeInv /\ [Next]_vars =>
        \A r \in Revisions :
           /\ Locked(r) => lock'[r] = lock[r]
           /\ Bound(r) => binding'[r] = binding[r]
           /\ \A m \in Models : Predicted(r, m) => pred'[r][m] = pred[r][m]
  BY ImmutableStep
<1> QED
  BY <1>1, InitType, NextType, PTL DEF Spec, EvidenceIsImmutable

(***************************************************************************)
(* Binding, prediction and lock agree.                                     *)
(***************************************************************************)

\* The places an invocation reaches only with a lock in the table.
AfterLock == {"predict", "list", "next"} \cup InHand

LockedAtWork == \A f \in Freezes : freeze[f].pc \in AfterLock => Locked(freeze[f].seen)

RowsAreLocked == \A r \in Revisions : \A m \in Models : Predicted(r, m) => Locked(r)

WholeInv == TypeInv /\ LockedAtWork /\ RowsAreLocked /\ OneEvidence /\ PicksAreWhole

\* Initially nothing is locked, predicted or bound.
LEMMA WholeInit == Init => WholeInv
<1> SUFFICES ASSUME Init PROVE WholeInv
  OBVIOUS
<1>1. \A r \in Revisions : ~Bound(r) /\ \A m \in Models : pred[r][m].authority = "none"
  BY DEF Init, Bound, NoBinding, NoRow
<1>2. LockedAtWork
  BY DEF Init, LockedAtWork, IdleFreeze, AfterLock, InHand
<1> QED
  BY <1>1, <1>2, InitType DEF WholeInv, RowsAreLocked, OneEvidence, PicksAreWhole, Predicted

\* Moving on changes the place of one invocation only.
LEMMA GoesEffect ==
  ASSUME TypeInv, NEW f \in Freezes, NEW place, Goes(f, place)
  PROVE  /\ freeze'[f].pc = place /\ freeze'[f].seen = freeze[f].seen
         /\ \A g \in Freezes \ {f} : freeze'[g] = freeze[g]
<1> DEFINE z == [freeze[f] EXCEPT !.pc = place]
<1>1. freeze' = [freeze EXCEPT ![f] = z]
  BY DEF Goes
<1>2. z.pc = place /\ z.seen = freeze[f].seen
  BY FreezeOf DEF FreezeType
<1> HIDE DEF z
<1> QED
  BY <1>1, <1>2 DEF TypeInv, TypeOK

\* Dropping a model leaves the invocation on its revision.
LEMMA DropEffect ==
  ASSUME TypeInv, NEW f \in Freezes, NEW answer, Drop(f, answer)
  PROVE  /\ freeze'[f].pc = "next" /\ freeze'[f].seen = freeze[f].seen
         /\ \A g \in Freezes \ {f} : freeze'[g] = freeze[g]
<1> DEFINE z == [freeze[f] EXCEPT !.pc = "next", !.model = NoModel, !.meta = 0,
                   !.authAt = 0, !.at = 0, !.answer = answer]
<1>1. freeze' = [freeze EXCEPT ![f] = z]
  BY DEF Drop
<1>2. z.pc = "next" /\ z.seen = freeze[f].seen
  BY FreezeOf DEF FreezeType
<1> HIDE DEF z
<1> QED
  BY <1>1, <1>2 DEF TypeInv, TypeOK

\* A step of one invocation leaves the others as they are.
LEMMA OthersRest ==
  ASSUME TypeInv, NEW f \in Freezes, FreezeStep(f)
  PROVE  \A g \in Freezes \ {f} : freeze'[g] = freeze[g]
<1>1. freeze \in [Freezes -> FreezeType]
  BY DEF TypeInv, TypeOK
<1>2. \E z : freeze' = [freeze EXCEPT ![f] = z]
  BY DEF FreezeStep, StartFreeze, ReadLock, CohortMissing, BuildLock, BeginPredict,
     ListModels, NextModel, BeginModel, RereadEvent, RereadAuthority, Stamp, WriteShadow,
     Publish, PublishRefused, Judge, Goes, Drop
<1> QED
  BY <1>1, <1>2

\* What a step of one invocation does to the invocations: it gets past the lock
\* only from a place past the lock, by reading a lock or by building one, and
\* it stays on its revision.
LEMMA PlaceEffect ==
  ASSUME TypeInv, NEW f \in Freezes, FreezeStep(f), freeze'[f].pc \in AfterLock
  PROVE  /\ freeze'[f].seen = freeze[f].seen
         /\ \/ freeze[f].pc \in AfterLock
            \/ BuildLock(f)
            \/ freeze[f].pc = "lock" /\ Locked(freeze[f].seen)
<1> USE DEF AfterLock, InHand
<1>1. CASE StartFreeze(f)
  <2> DEFINE z == [freeze[f] EXCEPT !.pc = "lock", !.observed = now, !.seen = event.rev]
  <2>1. freeze' = [freeze EXCEPT ![f] = z]
    BY <1>1 DEF StartFreeze, RevisionOf
  <2>2. z.pc = "lock"
    BY FreezeOf DEF FreezeType
  <2> HIDE DEF z
  <2> QED
    BY <2>1, <2>2 DEF TypeInv, TypeOK
<1>2. CASE ReadLock(f)
  BY <1>2, GoesEffect DEF ReadLock, At
<1>3. CASE CohortMissing(f) \/ PublishRefused(f)
  BY <1>3, GoesEffect DEF CohortMissing, PublishRefused, At
<1>4. CASE BuildLock(f)
  BY <1>4, GoesEffect DEF BuildLock
<1>5. CASE BeginPredict(f)
  BY <1>5, GoesEffect DEF BeginPredict, At
<1>6. CASE ListModels(f)
  <2> DEFINE listed == {champion} \cup shadows
             z == [freeze[f] EXCEPT !.pc = "next", !.todo = listed, !.champ = champion]
  <2>1. freeze' = [freeze EXCEPT ![f] = z] /\ freeze[f].pc = "list"
    BY <1>6 DEF ListModels, At
  <2> HIDE DEF listed
  <2>2. z.seen = freeze[f].seen
    BY FreezeOf DEF FreezeType
  <2> HIDE DEF z
  <2> QED
    BY <2>1, <2>2 DEF TypeInv, TypeOK
<1>7. CASE NextModel(f)
  <2>1. freeze[f].pc = "next"
    BY <1>7 DEF NextModel, At
  <2>2. CASE Goes(f, "done")
    BY <2>1, <2>2, GoesEffect
  <2>3. CASE ~Goes(f, "done")
    <3>1. PICK m \in freeze[f].todo :
            freeze' = [freeze EXCEPT ![f] =
               [@ EXCEPT !.pc = "begin", !.model = m, !.todo = freeze[f].todo \ {m},
                         !.answer = "none"]]
      BY <1>7, <2>3 DEF NextModel
    <3> DEFINE rest == freeze[f].todo \ {m}
               z == [freeze[f] EXCEPT !.pc = "begin", !.model = m, !.todo = rest,
                                      !.answer = "none"]
    <3>2. freeze' = [freeze EXCEPT ![f] = z]
      BY <3>1
    <3> HIDE DEF rest
    <3>3. z.seen = freeze[f].seen
      BY FreezeOf DEF FreezeType
    <3> HIDE DEF z
    <3> QED
      BY <2>1, <3>2, <3>3 DEF TypeInv, TypeOK
  <2> QED
    BY <2>2, <2>3
<1>8. CASE BeginModel(f)
  <2>1. \E place : Goes(f, place) \/ Drop(f, place)
    BY <1>8 DEF BeginModel
  <2> QED
    BY <1>8, <2>1, GoesEffect, DropEffect DEF BeginModel, At
<1>9. CASE RereadEvent(f)
  <2>1. freeze[f].pc = "event"
    BY <1>9 DEF RereadEvent, At
  <2>2. CASE Drop(f, "blocked")
    BY <2>1, <2>2, DropEffect
  <2>3. CASE ~Drop(f, "blocked")
    <3> DEFINE z == [freeze[f] EXCEPT !.pc = "authority", !.meta = event.meta]
    <3>1. freeze' = [freeze EXCEPT ![f] = z]
      BY <1>9, <2>3 DEF RereadEvent
    <3>2. z.seen = freeze[f].seen
      BY FreezeOf DEF FreezeType
    <3> HIDE DEF z
    <3> QED
      BY <2>1, <3>1, <3>2 DEF TypeInv, TypeOK
  <2> QED
    BY <2>2, <2>3
<1>10. CASE RereadAuthority(f)
  <2>1. freeze[f].pc = "authority"
    BY <1>10 DEF RereadAuthority, At
  <2>2. CASE Drop(f, "blocked")
    BY <2>1, <2>2, DropEffect
  <2>3. CASE ~Drop(f, "blocked")
    <3> DEFINE z == [freeze[f] EXCEPT !.pc = "stamp", !.authAt = auth.at]
    <3>1. freeze' = [freeze EXCEPT ![f] = z]
      BY <1>10, <2>3 DEF RereadAuthority
    <3>2. z.seen = freeze[f].seen
      BY FreezeOf DEF FreezeType
    <3> HIDE DEF z
    <3> QED
      BY <2>1, <3>1, <3>2 DEF TypeInv, TypeOK
  <2> QED
    BY <2>2, <2>3
<1>11. CASE Stamp(f)
  <2>1. freeze[f].pc = "stamp"
    BY <1>11 DEF Stamp, At
  <2>2. CASE Drop(f, "blocked")
    BY <2>1, <2>2, DropEffect
  <2>3. CASE ~Drop(f, "blocked")
    <3> DEFINE z == [freeze[f] EXCEPT !.pc = "write", !.at = now]
    <3>1. freeze' = [freeze EXCEPT ![f] = z]
      BY <1>11, <2>3 DEF Stamp
    <3>2. z.seen = freeze[f].seen
      BY FreezeOf DEF FreezeType
    <3> HIDE DEF z
    <3> QED
      BY <2>1, <3>1, <3>2 DEF TypeInv, TypeOK
  <2> QED
    BY <2>2, <2>3
<1>12. CASE WriteShadow(f)
  BY <1>12, DropEffect DEF WriteShadow, At
<1>13. CASE Publish(f)
  BY <1>13, DropEffect DEF Publish, At
<1>14. CASE Judge(f)
  BY <1>14, DropEffect DEF Judge, At
<1> QED
  BY <1>1, <1>2, <1>3, <1>4, <1>5, <1>6, <1>7, <1>8, <1>9, <1>10, <1>11, <1>12, <1>13,
     <1>14 DEF FreezeStep

\* An invocation reaches no place past the lock without a lock in the table.
LEMMA LockedAtWorkStep ==
  ASSUME TypeInv, LockedAtWork, [Next]_vars
  PROVE  LockedAtWork'
<1> SUFFICES ASSUME NEW g \in Freezes, freeze'[g].pc \in AfterLock
             PROVE  lock'[freeze'[g].seen].by # NoFreeze
  BY DEF LockedAtWork, Locked
<1>1. \A r \in Revisions : lock[r].by # NoFreeze => lock'[r].by # NoFreeze
  BY ImmutableStep DEF Locked
<1>2. freeze[g].pc # "idle" => freeze[g].seen \in Revisions
  BY DEF TypeInv, TypeOK
<1>3. freeze[g].pc \in AfterLock =>
        lock'[freeze[g].seen].by # NoFreeze
  BY <1>1, <1>2 DEF LockedAtWork, Locked, AfterLock, InHand
<1>4. CASE \E f \in Freezes : FreezeStep(f) /\ g = f
  <2>1. FreezeStep(g)
    BY <1>4
  <2>2. freeze'[g].seen = freeze[g].seen
    BY <2>1, PlaceEffect
  <2>3. CASE freeze[g].pc \in AfterLock
    BY <1>3, <2>2, <2>3
  <2>4. CASE BuildLock(g)
    BY <2>2, <2>4, BuildLockEffect DEF Locked
  <2>5. CASE freeze[g].pc = "lock" /\ Locked(freeze[g].seen)
    BY <1>1, <1>2, <2>2, <2>5 DEF Locked
  <2> QED
    BY <2>1, <2>3, <2>4, <2>5, PlaceEffect
<1>5. CASE freeze'[g] = freeze[g]
  BY <1>3, <1>5
<1>6. CASE \E f \in Freezes \ {g} : FreezeStep(f)
  <2> SUFFICES freeze'[g] = freeze[g]
    BY <1>5
  <2>1. PICK f \in Freezes \ {g} : FreezeStep(f)
    BY <1>6
  <2> QED
    BY <2>1, OthersRest
<1> QED
  BY <1>4, <1>5, <1>6 DEF Next, vars, Tick, RewriteEvent, CompleteEvent, StartCycle,
     PersistState, Promote, Reject

\* An invocation that is about to write has a lock in the table.
LEMMA WriterIsLocked ==
  ASSUME WholeInv, NEW f \in Freezes, At(f, "write")
  PROVE  Locked(freeze[f].seen)
  BY DEF WholeInv, LockedAtWork, AfterLock, InHand, At

\* A step that builds a lock where none was keeps what is said of the rows:
\* there are none under it.
LEMMA WholeBuildLock ==
  ASSUME WholeInv, NEW f \in Freezes, BuildLock(f)
  PROVE  (RowsAreLocked /\ OneEvidence /\ PicksAreWhole)'
<1>0. TypeInv
  BY DEF WholeInv
<1>1. /\ binding' = binding /\ pred' = pred
      /\ \A r \in Revisions : lock[r].by # NoFreeze => lock'[r] = lock[r]
  BY <1>0, BuildLockEffect DEF Locked
<1>2. \A r \in Revisions, m \in Models :
        pred[r][m].authority # "none" => lock'[r] = lock[r] /\ lock[r].by # NoFreeze
  BY <1>1 DEF WholeInv, RowsAreLocked, Predicted, Locked
<1>3. RowsAreLocked'
  BY <1>1, <1>2 DEF RowsAreLocked, Predicted, Locked
<1>4. OneEvidence'
  BY <1>1, <1>2 DEF WholeInv, OneEvidence, Predicted
<1>5. \A r \in Revisions : binding[r].model # NoModel => lock'[r] = lock[r]
  <2> SUFFICES ASSUME NEW r \in Revisions, binding[r].model # NoModel
               PROVE  lock'[r] = lock[r]
    OBVIOUS
  <2>1. binding[r].model \in Models
    BY <1>0 DEF TypeInv, TypeOK
  <2>2. pred[r][binding[r].model].authority = "CHAMPION"
    BY DEF WholeInv, PicksAreWhole, Bound
  <2> QED
    BY <1>2, <2>1, <2>2
<1>6. PicksAreWhole'
  BY <1>1, <1>5 DEF WholeInv, PicksAreWhole, Bound
<1> QED
  BY <1>3, <1>4, <1>6

\* A shadow row carries the lock's evidence, and takes nobody's place.
LEMMA WholeWriteShadow ==
  ASSUME WholeInv, NEW f \in Freezes, WriteShadow(f)
  PROVE  (RowsAreLocked /\ OneEvidence /\ PicksAreWhole)'
<1> DEFINE s == freeze[f].seen
           n == freeze[f].model
<1>0. TypeInv /\ s \in Revisions /\ n \in Models
  BY WrittenTypes DEF WholeInv, WriteShadow
<1>1. /\ binding' = binding /\ lock' = lock
      /\ \A r \in Revisions, m \in Models :
           pred'[r][m] = IF r = s /\ m = n /\ pred[r][m].authority = "none"
                         THEN RowOf(f, "SHADOW") ELSE pred[r][m]
  BY <1>0, WriteShadowEffect DEF Predicted
<1>2. lock[s].by # NoFreeze
  BY WriterIsLocked DEF WriteShadow, Locked
<1>3. /\ RowOf(f, "SHADOW").authority = "SHADOW"
      /\ RowOf(f, "SHADOW").by = lock[s].by
  BY DEF RowOf
<1> HIDE DEF s, n
<1>4. RowsAreLocked'
  BY <1>1, <1>2 DEF WholeInv, RowsAreLocked, Predicted, Locked
<1>5. OneEvidence'
  BY <1>1, <1>3 DEF WholeInv, OneEvidence, Predicted
<1>6. \A r \in Revisions, m \in Models :
        pred[r][m].authority = "CHAMPION" <=> pred'[r][m].authority = "CHAMPION"
  BY <1>1, <1>3
<1>7. \A r \in Revisions, m \in Models :
        pred[r][m].authority = "CHAMPION" => pred'[r][m] = pred[r][m]
  BY <1>1
<1>8. \A r \in Revisions : binding[r].model # NoModel => binding[r].model \in Models
  BY <1>0 DEF TypeInv, TypeOK
<1>9. PicksAreWhole'
  BY <1>1, <1>6, <1>7, <1>8 DEF WholeInv, PicksAreWhole, Bound
<1> QED
  BY <1>4, <1>5, <1>9

\* The transaction puts binding and prediction together, from one invocation.
LEMMA WholePublish ==
  ASSUME WholeInv, NEW f \in Freezes, Publish(f)
  PROVE  (RowsAreLocked /\ OneEvidence /\ PicksAreWhole)'
<1> DEFINE s == freeze[f].seen
           n == freeze[f].model
           row == RowOf(f, "CHAMPION")
           b == BindingOf(f)
<1>0. TypeInv /\ s \in Revisions /\ n \in Models /\ n # NoModel
  BY WrittenTypes, NoneAssumption DEF WholeInv, Publish
<1>1. /\ lock' = lock
      /\ binding[s].model = NoModel /\ pred[s][n].authority = "none"
      /\ \A r \in Revisions : binding'[r] = IF r = s THEN b ELSE binding[r]
      /\ \A r \in Revisions, m \in Models :
           pred'[r][m] = IF r = s /\ m = n THEN row ELSE pred[r][m]
  BY <1>0, PublishEffect DEF Predicted, Bound
<1>2. lock[s].by # NoFreeze
  BY WriterIsLocked DEF Publish, Locked
<1>3. /\ row.authority = "CHAMPION" /\ b.model = n
      /\ row.at = b.at /\ row.meta = b.meta /\ row.auth = b.auth
      /\ row.by = b.by /\ b.by = lock[s].by
  BY DEF RowOf, BindingOf
<1> HIDE DEF s, n, row, b
<1>4. RowsAreLocked'
  BY <1>1, <1>2 DEF WholeInv, RowsAreLocked, Predicted, Locked
<1>5. OneEvidence'
  BY <1>1, <1>3 DEF WholeInv, OneEvidence, Predicted
<1>6. \A r \in Revisions : binding[r].model # NoModel => binding[r].model \in Models
  BY <1>0 DEF TypeInv, TypeOK
<1>7. \A m \in Models : pred[s][m].authority # "CHAMPION"
  BY <1>0, <1>1, NoneAssumption DEF WholeInv, PicksAreWhole
<1>8. PicksAreWhole'
  BY <1>0, <1>1, <1>3, <1>6, <1>7 DEF WholeInv, PicksAreWhole, Bound
<1> QED
  BY <1>4, <1>5, <1>8

\* Every step keeps the agreement of lock, prediction and binding.
LEMMA WholeStep == WholeInv /\ [Next]_vars => WholeInv'
<1> SUFFICES ASSUME WholeInv, [Next]_vars PROVE WholeInv'
  OBVIOUS
<1>1. TypeInv' /\ LockedAtWork'
  BY NextType, LockedAtWorkStep DEF WholeInv
<1>2. (RowsAreLocked /\ OneEvidence /\ PicksAreWhole)'
  <2>1. CASE \E f \in Freezes : BuildLock(f)
    BY <2>1, WholeBuildLock
  <2>2. CASE \E f \in Freezes : WriteShadow(f)
    BY <2>2, WholeWriteShadow
  <2>3. CASE \E f \in Freezes : Publish(f)
    BY <2>3, WholePublish
  <2>4. CASE \A f \in Freezes : ~BuildLock(f) /\ ~WriteShadow(f) /\ ~Publish(f)
    <3>1. lock' = lock /\ binding' = binding /\ pred' = pred
      BY <2>4, QuietTables
    <3> QED
      BY <3>1 DEF WholeInv, RowsAreLocked, OneEvidence, PicksAreWhole, Predicted, Locked,
                  Bound
  <2> QED
    BY <2>1, <2>2, <2>3, <2>4
<1> QED
  BY <1>1, <1>2 DEF WholeInv

\* A public binding and its champion row come together and agree in what the
\* API compares before it serves them (put_public_prediction, api.py), and both carry
\* the evidence of the revision's one lock.
THEOREM Whole == Spec => []PicksAreWhole
<1>1. WholeInv => PicksAreWhole
  BY DEF WholeInv
<1> QED
  BY <1>1, WholeInit, WholeStep, PTL DEF Spec

\* Champion and challengers of a revision are judged on the same frozen
\* evidence, whichever invocation of freeze_handler wrote their rows.
THEOREM SameEvidence == Spec => []OneEvidence
<1>1. WholeInv => OneEvidence
  BY DEF WholeInv
<1> QED
  BY <1>1, WholeInit, WholeStep, PTL DEF Spec

(***************************************************************************)
(* The program implements PublicDecision.                                  *)
(***************************************************************************)

\* In every revision the decision is the bound model: its row is there.
LEMMA ServedIsBound == WholeInv => \A r \in Revisions : Served(r) = binding[r].model
<1> SUFFICES ASSUME WholeInv, NEW r \in Revisions PROVE Served(r) = binding[r].model
  OBVIOUS
<1>1. binding[r].model = NoModel \/ binding[r].model \in Models
  BY DEF WholeInv, TypeInv, TypeOK
<1> QED
  BY <1>1 DEF WholeInv, PicksAreWhole, Served, Bound, Predicted

\* The same, after a step.
LEMMA ServedIsBoundNext == (WholeInv => \A r \in Revisions : Served(r) = binding[r].model)'
  BY ServedIsBound, PTL

\* The decisions as the API would serve them.
Decisions == [r \in Revisions |-> Served(r)]

\* A step changes the decisions as it changes the bindings.
LEMMA DecisionsFollow ==
  ASSUME WholeInv, WholeInv'
  PROVE  /\ Decisions = [r \in Revisions |-> binding[r].model]
         /\ Decisions' = [r \in Revisions |-> binding'[r].model]
<1>1. Decisions = [r \in Revisions |-> binding[r].model]
  BY ServedIsBound DEF Decisions
<1>2. \A r \in Revisions : Served(r)' = binding'[r].model
  BY ServedIsBoundNext
<1>3. Decisions' = [r \in Revisions |-> binding'[r].model]
  BY <1>2 DEF Decisions
<1> QED
  BY <1>1, <1>3

\* The initial state is one of PublicDecision's.
LEMMA PromiseInit == Init => Promise!Init
<1> SUFFICES ASSUME Init PROVE Promise!Init
  OBVIOUS
<1>1. \A r \in Revisions : Served(r) = NoModel
  BY DEF Init, Served, Bound, NoBinding
<1> QED
  BY <1>1, RevisionsAssumption DEF Init, Promise!Init

\* Publishing is PublicDecision's Decide, of the revision that is current.
LEMMA PublishDecides ==
  ASSUME WholeInv, WholeInv', NEW f \in Freezes, Publish(f)
  PROVE  \E m \in Models : Promise!Decide(m)
<1> DEFINE m == freeze[f].model
<1>0. TypeInv
  BY DEF WholeInv
<1>1. /\ m \in Models /\ freeze[f].seen \in Revisions
      /\ binding[freeze[f].seen].model = NoModel
      /\ \A r \in Revisions :
           binding'[r] = IF r = freeze[f].seen THEN BindingOf(f) ELSE binding[r]
  BY <1>0, PublishEffect DEF Bound
<1>2. /\ auth.ok /\ event.rev = freeze[f].seen /\ ~event.completed
      /\ event' = event /\ auth' = auth
  BY DEF Publish, MayCommit, AuthorityUnchanged, EventUnchanged
<1>3. BindingOf(f).model = m
  BY DEF BindingOf
<1>4. /\ Decisions = [r \in Revisions |-> binding[r].model]
      /\ Decisions' = [r \in Revisions |-> binding'[r].model]
  BY DecisionsFollow
<1> HIDE DEF m
<1>5. Decisions[event.rev] = NoModel
  BY <1>1, <1>2, <1>4
<1>6. Decisions' = [Decisions EXCEPT ![event.rev] = m]
  BY <1>1, <1>2, <1>3, <1>4
<1>7. Promise!Decide(m)
  BY <1>2, <1>5, <1>6 DEF Promise!Decide, Decisions
<1> QED
  BY <1>1, <1>7

\* Every step is one of PublicDecision's or leaves its variables alone.
LEMMA PromiseStep ==
  ASSUME WholeInv, WholeInv', [Next]_vars
  PROVE  [Promise!Next]_(Promise!vars)
<1>0. TypeInv
  BY DEF WholeInv
<1>1. CASE \E f \in Freezes : Publish(f)
  BY <1>1, PublishDecides DEF Promise!Next
<1>2. CASE \A f \in Freezes : ~Publish(f)
  <2>1. binding' = binding
    <3>1. CASE \E f \in Freezes : BuildLock(f)
      BY <3>1, <1>0, BuildLockEffect
    <3>2. CASE \E f \in Freezes : WriteShadow(f)
      BY <3>2, <1>0, WriteShadowEffect
    <3>3. CASE \A f \in Freezes : ~BuildLock(f) /\ ~WriteShadow(f)
      BY <1>2, <3>3, QuietTables
    <3> QED
      BY <3>1, <3>2, <3>3
  <2>2. Decisions' = Decisions
    BY <2>1, DecisionsFollow
  <2>3. CASE event' = event /\ auth' = auth
    BY <2>2, <2>3 DEF Promise!vars, Decisions
  <2>4. CASE RewriteEvent
    <3>1. event.rev \in Revisions /\ event'.rev \in Revisions
      BY DEF WholeInv, TypeInv, TypeOK
    <3>2. event'.completed = event.completed /\ auth' = auth
      BY <1>0, <2>4 DEF RewriteEvent, TypeInv, TypeOK
    <3>3. CASE event'.rev = event.rev
      BY <2>2, <3>2, <3>3 DEF Promise!vars, Decisions
    <3>4. CASE event'.rev # event.rev
      BY <2>2, <3>1, <3>2, <3>4 DEF Promise!Next, Promise!Reschedule, Decisions
    <3> QED
      BY <3>3, <3>4
  <2>5. CASE CompleteEvent
    <3>1. event'.completed = TRUE /\ event'.rev = event.rev /\ auth' = auth
      BY <1>0, <2>5 DEF CompleteEvent, TypeInv, TypeOK
    <3> QED
      BY <2>2, <3>1 DEF Promise!Next, Promise!Complete, Decisions
  <2>6. CASE \E c \in Controllers : PersistState(c)
    <3>1. auth'.ok \in BOOLEAN /\ event' = event
      BY <2>6 DEF PersistState, WholeInv, TypeInv, TypeOK
    <3> QED
      BY <2>2, <3>1 DEF Promise!Next, Promise!SetAuthority, Decisions
  <2>7. CASE UNCHANGED vars
    BY <2>3, <2>7 DEF vars
  <2>8. CASE \E f \in Freezes : FreezeStep(f)
    BY <2>3, <2>8 DEF FreezeStep, StartFreeze, ReadLock, CohortMissing, BuildLock,
       BeginPredict, ListModels, NextModel, BeginModel, RereadEvent, RereadAuthority, Stamp,
       WriteShadow, Publish, PublishRefused, Judge, tables
  <2>9. CASE Tick \/ (\E c \in Controllers : StartCycle(c))
             \/ (\E n \in Models : Promote(n) \/ Reject(n))
    BY <2>3, <2>9 DEF Tick, StartCycle, Promote, Reject, tables
  <2> QED
    BY <2>4, <2>5, <2>6, <2>7, <2>8, <2>9 DEF Next
<1> QED
  BY <1>1, <1>2

\* The whole of freeze_handler, with its overlapping invocations, the inventory,
\* the controller and the trainer around it, implements PublicDecision: one
\* decision at most for each revision, made while the fixture is open, the
\* revision current and the authority given, and never changed.
THEOREM Implements == Spec => KeepsPromise
<1>1. WholeInv /\ WholeInv' /\ [Next]_vars => [Promise!Next]_(Promise!vars)
  BY PromiseStep
<1> QED
  BY <1>1, WholeInit, WholeStep, PromiseInit, PTL DEF Spec, KeepsPromise, Promise!Spec

(***************************************************************************)
(* The times of a pick.  An invocation builds a lock only after it looked  *)
(* at a clock inside the capture window, and the clock it stamps a write   *)
(* with comes later than any lock it found.                                *)
(***************************************************************************)

\* A lock was taken in its window, and not in the future.
LocksInWindow ==
    \A r \in Revisions : Locked(r) =>
        Opens[r] <= lock[r].at /\ lock[r].at <= Deadline[r] /\ lock[r].at <= now

\* What the clock readings of an invocation z are worth at time t.
InSchedule(z, t) ==
    /\ z.pc \in {"lock", "build"} => z.observed <= t
    /\ z.pc = "build" => Opens[z.seen] <= z.observed /\ z.observed <= Deadline[z.seen]
    /\ z.pc = "write" => lock[z.seen].at <= z.at /\ z.at <= Deadline[z.seen]

FreezesInSchedule == \A f \in Freezes : InSchedule(freeze[f], now)

TimesInv == WholeInv /\ LocksInWindow /\ FreezesInSchedule /\ PicksPassTheApi

\* The places a clock reading leads to, and the one reading each rests on.
LEMMA ClockEffect ==
  ASSUME TypeInv, NEW f \in Freezes, FreezeStep(f)
  PROVE  \/ freeze'[f].pc \notin {"lock", "build", "write"}
         \/ freeze'[f].pc = "lock" /\ freeze'[f].observed = now
         \/ /\ freeze'[f].pc = "build" /\ freeze[f].pc = "lock" /\ InCaptureWindow(f)
            /\ freeze'[f].seen = freeze[f].seen /\ freeze'[f].observed = freeze[f].observed
         \/ /\ freeze'[f].pc = "write" /\ freeze[f].pc = "stamp" /\ InTime(f)
            /\ freeze'[f].seen = freeze[f].seen /\ freeze'[f].at = now
<1>0. freeze[f] \in FreezeType /\ freeze \in [Freezes -> FreezeType]
  BY FreezeOf DEF TypeInv, TypeOK
<1>1. CASE StartFreeze(f)
  <2> DEFINE z == [freeze[f] EXCEPT !.pc = "lock", !.observed = now, !.seen = event.rev]
  <2>1. freeze'[f] = z
    BY <1>0, <1>1 DEF StartFreeze, RevisionOf
  <2>2. z.pc = "lock" /\ z.observed = now
    BY <1>0 DEF FreezeType
  <2> HIDE DEF z
  <2> QED
    BY <2>1, <2>2
<1>2. CASE ReadLock(f)
  <2>1. CASE Goes(f, "predict") \/ Goes(f, "done")
    BY <2>1, GoesEffect
  <2>2. CASE ~(Goes(f, "predict") \/ Goes(f, "done"))
    <3> DEFINE z == [freeze[f] EXCEPT !.pc = "build"]
    <3>1. freeze'[f] = z /\ freeze[f].pc = "lock" /\ InCaptureWindow(f)
      BY <1>0, <1>2, <2>2 DEF ReadLock, Goes, At
    <3>2. z.pc = "build" /\ z.seen = freeze[f].seen /\ z.observed = freeze[f].observed
      BY <1>0 DEF FreezeType
    <3> HIDE DEF z
    <3> QED
      BY <3>1, <3>2
  <2> QED
    BY <2>1, <2>2
<1>3. CASE CohortMissing(f) \/ PublishRefused(f) \/ BuildLock(f) \/ BeginPredict(f)
  BY <1>3, GoesEffect DEF CohortMissing, PublishRefused, BuildLock, BeginPredict
<1>4. CASE ListModels(f)
  <2> DEFINE listed == {champion} \cup shadows
             z == [freeze[f] EXCEPT !.pc = "next", !.todo = listed, !.champ = champion]
  <2>1. freeze'[f] = z
    BY <1>0, <1>4 DEF ListModels
  <2> HIDE DEF listed
  <2>2. z.pc = "next"
    BY <1>0 DEF FreezeType
  <2> HIDE DEF z
  <2> QED
    BY <2>1, <2>2
<1>5. CASE NextModel(f)
  <2>1. CASE Goes(f, "done")
    BY <2>1, GoesEffect
  <2>2. CASE ~Goes(f, "done")
    <3>1. PICK m \in freeze[f].todo :
            freeze' = [freeze EXCEPT ![f] =
               [@ EXCEPT !.pc = "begin", !.model = m, !.todo = freeze[f].todo \ {m},
                         !.answer = "none"]]
      BY <1>5, <2>2 DEF NextModel
    <3> DEFINE rest == freeze[f].todo \ {m}
               z == [freeze[f] EXCEPT !.pc = "begin", !.model = m, !.todo = rest,
                                      !.answer = "none"]
    <3>2. freeze'[f] = z
      BY <1>0, <3>1
    <3> HIDE DEF rest
    <3>3. z.pc = "begin"
      BY <1>0 DEF FreezeType
    <3> HIDE DEF z
    <3> QED
      BY <3>2, <3>3
  <2> QED
    BY <2>1, <2>2
<1>6. CASE BeginModel(f)
  <2>1. Goes(f, "event") \/ Goes(f, "stamp") \/ Drop(f, "blocked") \/ Drop(f, "failed")
    BY <1>6 DEF BeginModel
  <2> QED
    BY <2>1, GoesEffect, DropEffect
<1>7. CASE RereadEvent(f)
  <2>1. CASE Drop(f, "blocked")
    BY <2>1, DropEffect
  <2>2. CASE ~Drop(f, "blocked")
    <3> DEFINE z == [freeze[f] EXCEPT !.pc = "authority", !.meta = event.meta]
    <3>1. freeze'[f] = z
      BY <1>0, <1>7, <2>2 DEF RereadEvent
    <3>2. z.pc = "authority"
      BY <1>0 DEF FreezeType
    <3> HIDE DEF z
    <3> QED
      BY <3>1, <3>2
  <2> QED
    BY <2>1, <2>2
<1>8. CASE RereadAuthority(f)
  <2>1. CASE Drop(f, "blocked")
    BY <2>1, DropEffect
  <2>2. CASE ~Drop(f, "blocked")
    <3> DEFINE z == [freeze[f] EXCEPT !.pc = "stamp", !.authAt = auth.at]
    <3>1. freeze'[f] = z
      BY <1>0, <1>8, <2>2 DEF RereadAuthority
    <3>2. z.pc = "stamp"
      BY <1>0 DEF FreezeType
    <3> HIDE DEF z
    <3> QED
      BY <3>1, <3>2
  <2> QED
    BY <2>1, <2>2
<1>9. CASE Stamp(f)
  <2>1. CASE Drop(f, "blocked")
    BY <2>1, DropEffect
  <2>2. CASE ~Drop(f, "blocked")
    <3> DEFINE z == [freeze[f] EXCEPT !.pc = "write", !.at = now]
    <3>1. freeze'[f] = z /\ freeze[f].pc = "stamp" /\ InTime(f)
      BY <1>0, <1>9, <2>2 DEF Stamp, At
    <3>2. z.pc = "write" /\ z.seen = freeze[f].seen /\ z.at = now
      BY <1>0 DEF FreezeType
    <3> HIDE DEF z
    <3> QED
      BY <3>1, <3>2
  <2> QED
    BY <2>1, <2>2
<1>10. CASE WriteShadow(f) \/ Publish(f) \/ Judge(f)
  BY <1>10, DropEffect DEF WriteShadow, Publish, Judge
<1> QED
  BY <1>1, <1>2, <1>3, <1>4, <1>5, <1>6, <1>7, <1>8, <1>9, <1>10 DEF FreezeStep

\* The clock stands still or moves forward, and only without anybody else.
LEMMA ClockStep ==
  ASSUME TypeInv, [Next]_vars
  PROVE  now \in Nat /\ now' \in Nat /\ now <= now'
<1>1. now \in Nat
  BY DEF TypeInv, TypeOK
<1>2. now' = now \/ now' = now + 1
  BY DEF Next, vars, Tick, FreezeStep, StartFreeze, ReadLock, CohortMissing, BuildLock,
     BeginPredict, ListModels, NextModel, BeginModel, RereadEvent, RereadAuthority, Stamp,
     WriteShadow, Publish, PublishRefused, Judge, RewriteEvent, CompleteEvent, StartCycle,
     PersistState, Promote, Reject
<1> QED
  BY <1>1, <1>2

\* A lock that was not there is one an invocation built inside its window.
LEMMA LocksStep ==
  ASSUME TimesInv, [Next]_vars
  PROVE  LocksInWindow'
<1> SUFFICES ASSUME NEW r \in Revisions, lock'[r].by # NoFreeze
             PROVE  /\ Opens[r] <= lock'[r].at /\ lock'[r].at <= Deadline[r]
                    /\ lock'[r].at <= now'
  BY DEF LocksInWindow, Locked
<1>0. TypeInv /\ now \in Nat /\ now' \in Nat /\ now <= now'
  BY ClockStep DEF TimesInv, WholeInv
<1>1. CASE lock'[r] = lock[r]
  <2>1. lock[r].at \in Nat
    BY <1>0 DEF TypeInv, TypeOK
  <2> QED
    BY <1>0, <1>1, <2>1 DEF TimesInv, LocksInWindow, Locked
<1>2. ASSUME NEW f \in Freezes, BuildLock(f)
      PROVE  \/ lock'[r] = lock[r]
             \/ /\ Opens[r] <= lock'[r].at /\ lock'[r].at <= Deadline[r]
                /\ lock'[r].at <= now'
  <2>1. freeze[f].seen \in Revisions /\ freeze[f].pc = "build" /\ freeze[f] \in FreezeType
    BY <1>0, <1>2, FreezeOf DEF FreezeOK, BuildLock, At
  <2>2. PICK eligible \in BOOLEAN :
          lock' = [lock EXCEPT ![freeze[f].seen] = LockStored(f, eligible)]
    BY <1>2 DEF BuildLock
  <2>3. r # freeze[f].seen \/ Locked(r) => lock'[r] = lock[r]
    BY <1>0, <1>2, BuildLockEffect
  <2>4. r = freeze[f].seen /\ ~Locked(r) => lock'[r].at = freeze[f].observed
    BY <1>0, <2>1, <2>2 DEF LockStored, TypeInv, TypeOK
  <2>5. InSchedule(freeze[f], now)
    BY DEF TimesInv, FreezesInSchedule
  <2>6. freeze[f].observed \in Nat
    BY <2>1 DEF FreezeType
  <2> QED
    BY <1>0, <2>1, <2>3, <2>4, <2>5, <2>6 DEF InSchedule
<1>3. CASE \A f \in Freezes : ~BuildLock(f)
  <2>1. lock' = lock
    <3>1. CASE \E f \in Freezes : WriteShadow(f)
      BY <1>0, <3>1, WriteShadowEffect
    <3>2. CASE \E f \in Freezes : Publish(f)
      BY <1>0, <3>2, PublishEffect
    <3> QED
      BY <1>3, <3>1, <3>2, QuietTables
  <2> QED
    BY <1>1, <2>1
<1> QED
  BY <1>1, <1>2, <1>3

\* An invocation keeps its clock readings until it needs them.
LEMMA ScheduleStep ==
  ASSUME TimesInv, [Next]_vars
  PROVE  FreezesInSchedule'
<1> SUFFICES ASSUME NEW g \in Freezes
             PROVE  InSchedule(freeze[g], now)'
  BY DEF FreezesInSchedule
<1>0. TypeInv /\ now \in Nat /\ now' \in Nat /\ now <= now' /\ freeze[g] \in FreezeType
  BY ClockStep, FreezeOf DEF TimesInv, WholeInv
<1>1. freeze[g].observed \in Nat /\ (freeze[g].pc # "idle" => freeze[g].seen \in Revisions)
  BY <1>0 DEF FreezeType, TypeInv, TypeOK
<1>2. /\ InSchedule(freeze[g], now)
      /\ freeze[g].pc \in AfterLock => Locked(freeze[g].seen)
  BY DEF TimesInv, WholeInv, FreezesInSchedule, LockedAtWork
<1>3. Locked(freeze[g].seen) /\ freeze[g].pc # "idle" =>
        lock'[freeze[g].seen] = lock[freeze[g].seen] /\ lock[freeze[g].seen].at <= now
  BY <1>0, <1>1, ImmutableStep DEF TimesInv, LocksInWindow
<1>4. CASE freeze'[g] = freeze[g]
  BY <1>0, <1>1, <1>2, <1>3, <1>4 DEF InSchedule, AfterLock, InHand
<1>5. CASE \E f \in Freezes : FreezeStep(f) /\ g = f
  <2>1. FreezeStep(g)
    BY <1>5
  <2>2. \/ freeze'[g].pc \notin {"lock", "build", "write"}
        \/ freeze'[g].pc = "lock" /\ freeze'[g].observed = now
        \/ /\ freeze'[g].pc = "build" /\ freeze[g].pc = "lock" /\ InCaptureWindow(g)
           /\ freeze'[g].seen = freeze[g].seen /\ freeze'[g].observed = freeze[g].observed
        \/ /\ freeze'[g].pc = "write" /\ freeze[g].pc = "stamp" /\ InTime(g)
           /\ freeze'[g].seen = freeze[g].seen /\ freeze'[g].at = now
    BY <1>0, <2>1, ClockEffect
  <2> QED
    BY <1>0, <1>1, <1>2, <1>3, <2>2
    DEF InSchedule, AfterLock, InHand, InCaptureWindow, InTime
<1>6. CASE \E f \in Freezes \ {g} : FreezeStep(f)
  <2>1. PICK f \in Freezes \ {g} : FreezeStep(f)
    BY <1>6
  <2>2. freeze'[g] = freeze[g]
    BY <1>0, <2>1, OthersRest
  <2> QED
    BY <1>4, <2>2
<1> QED
  BY <1>4, <1>5, <1>6 DEF Next, vars, Tick, RewriteEvent, CompleteEvent, StartCycle,
     PersistState, Promote, Reject

\* A pick is bound at the time its invocation was stamped with.
LEMMA PicksStep ==
  ASSUME TimesInv, [Next]_vars
  PROVE  PicksPassTheApi'
<1> SUFFICES ASSUME NEW r \in Revisions, binding'[r].model # NoModel
             PROVE  /\ Opens[r] <= lock'[r].at /\ lock'[r].at <= binding'[r].at
                    /\ binding'[r].at <= Deadline[r]
  BY DEF PicksPassTheApi, Bound
<1>0. TypeInv
  BY DEF TimesInv, WholeInv
<1>1. CASE Bound(r)
  <2>1. binding'[r] = binding[r]
    BY <1>0, <1>1, ImmutableStep
  <2>2. binding[r].by = lock[r].by /\ Predicted(r, binding[r].model)
    BY <1>1 DEF TimesInv, WholeInv, PicksAreWhole, Predicted
  <2>3. binding[r].model \in Models
    BY <1>0, <1>1 DEF TypeInv, TypeOK, Bound
  <2>4. Locked(r)
    BY <2>2, <2>3 DEF TimesInv, WholeInv, RowsAreLocked
  <2>5. lock'[r] = lock[r]
    BY <1>0, <2>4, ImmutableStep
  <2> QED
    BY <1>1, <2>1, <2>5 DEF TimesInv, PicksPassTheApi
<1>2. CASE ~Bound(r)
  <2>1. PICK f \in Freezes : Publish(f)
    <3>1. CASE \E f \in Freezes : BuildLock(f)
      BY <1>0, <1>2, <3>1, BuildLockEffect DEF Bound
    <3>2. CASE \E f \in Freezes : WriteShadow(f)
      BY <1>0, <1>2, <3>2, WriteShadowEffect DEF Bound
    <3>3. CASE \A f \in Freezes : ~BuildLock(f) /\ ~WriteShadow(f) /\ ~Publish(f)
      BY <1>2, <3>3, QuietTables DEF Bound
    <3> QED
      BY <3>1, <3>2, <3>3
  <2>2. /\ lock' = lock
        /\ binding'[r] = IF r = freeze[f].seen THEN BindingOf(f) ELSE binding[r]
    BY <1>0, <2>1, PublishEffect
  <2>3. r = freeze[f].seen /\ binding'[r].at = freeze[f].at
    BY <1>2, <2>2 DEF Bound, BindingOf
  <2>4. At(f, "write") /\ Locked(r)
    BY <2>1, <2>3, WriterIsLocked DEF Publish, TimesInv
  <2>5. InSchedule(freeze[f], now)
    BY DEF TimesInv, FreezesInSchedule
  <2> QED
    BY <2>2, <2>3, <2>4, <2>5 DEF TimesInv, LocksInWindow, InSchedule, At
<1> QED
  BY <1>1, <1>2

\* Nothing is locked, bound or stamped yet.
LEMMA TimesInit == Init => TimesInv
<1> SUFFICES ASSUME Init PROVE TimesInv
  OBVIOUS
<1>1. \A r \in Revisions : ~Bound(r) /\ ~Locked(r)
  BY DEF Init, Bound, NoBinding, Locked, NoLock
<1>2. IdleFreeze.pc = "idle" /\ \A f \in Freezes : freeze[f] = IdleFreeze
  BY DEF Init, IdleFreeze
<1> QED
  BY <1>1, <1>2, WholeInit
  DEF TimesInv, LocksInWindow, FreezesInSchedule, InSchedule, PicksPassTheApi

\* Whatever invocations overlap and however the fixture is rescheduled, a pick
\* that is bound passes the API's time checks: a lock from its capture window,
\* bound after it and before the commit deadline (inference.py:836).
THEOREM PicksAreServable == Spec => []PicksPassTheApi
<1>1. TimesInv /\ [Next]_vars => TimesInv'
  BY WholeStep, LocksStep, ScheduleStep, PicksStep DEF TimesInv
<1>2. TimesInv => PicksPassTheApi
  BY DEF TimesInv
<1> QED
  BY <1>1, <1>2, TimesInit, PTL DEF Spec

\* Only a newer look at the system's health replaces the authority.
LEMMA AuthorityStep == TypeInv /\ [Next]_vars => (auth' # auth => auth.at < auth'.at)
<1> SUFFICES ASSUME TypeInv, [Next]_vars, auth' # auth PROVE auth.at < auth'.at
  OBVIOUS
<1>1. PICK c \in Controllers : PersistState(c)
  BY DEF Next, vars, Tick, FreezeStep, StartFreeze, ReadLock, CohortMissing, BuildLock,
     BeginPredict, ListModels, NextModel, BeginModel, RereadEvent, RereadAuthority, Stamp,
     WriteShadow, Publish, PublishRefused, Judge, RewriteEvent, CompleteEvent, StartCycle,
     Promote, Reject, tables
<1>2. PICK ok \in BOOLEAN :
        auth' = IF Newer(controller[c].at) THEN [ok |-> ok, at |-> controller[c].at] ELSE auth
  BY <1>1 DEF PersistState
<1> QED
  BY <1>2 DEF Newer

\* For any number of overlapping controller cycles, finishing in any order, the
\* authority only moves to a later look (autonomous_controller.py:194).
THEOREM AuthorityForward == Spec => AuthorityMovesForward
  BY AuthorityStep, InitType, NextType, PTL DEF Spec, AuthorityMovesForward
=================================================================================
