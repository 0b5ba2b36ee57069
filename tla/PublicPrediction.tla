---------------------------- MODULE PublicPrediction ----------------------------
(***************************************************************************)
(* How soccer_auto freezes the evidence of one fixture ten minutes before  *)
(* kickoff and publishes its one public pick.                              *)
(*                                                                         *)
(* freeze_handler runs every minute and may run for five, so invocations   *)
(* overlap.  Each reads the fixture, creates or adopts the immutable T-10  *)
(* lock of the schedule revision it read, and lets every active model      *)
(* predict from it: the champion publishes with one transaction that       *)
(* checks the autonomy state and the fixture row it read and puts the      *)
(* binding and the prediction if both are absent; a challenger's shadow    *)
(* row is a plain put-if-absent.  Meanwhile the inventory rewrites the     *)
(* fixture, settlement completes it, the controller replaces the autonomy  *)
(* state and the trainer promotes or rejects challengers.                  *)
(*                                                                         *)
(* A step is one access to a table or to the clock.  An invocation that    *)
(* dies is one that takes no further step.  The T-45 training lock, other  *)
(* fixtures and the numbers a model computes are left out.                 *)
(***************************************************************************)
EXTENDS Naturals

CONSTANTS
    Freezes,      \* freeze_handler invocations
    Controllers,  \* run_cycle invocations of the autonomous controller
    Models,       \* model digests
    Revisions,    \* schedule revisions of the fixture, 1..n
    Opens,        \* capture_opens_at of each revision
    Deadline,     \* commit_deadline of each revision
    MaxAge,       \* AUTONOMY_STATE_MAX_AGE_MINUTES
    MaxMeta,      \* bound on the fixture's metadata_revision
    MaxTime,      \* bound on the clock
    NoModel, NoFreeze

ASSUME RevisionsAssumption == Revisions \subseteq Nat \ {0} /\ 1 \in Revisions
ASSUME TimesAssumption ==
    /\ Opens \in [Revisions -> Nat] /\ Deadline \in [Revisions -> Nat]
    /\ MaxAge \in Nat /\ MaxMeta \in Nat /\ MaxTime \in Nat
ASSUME NoneAssumption == NoModel \notin Models /\ NoFreeze \notin Freezes

VARIABLES
    now,         \* the clock the Lambdas share
    event,       \* the fixture's METADATA row
    auth,        \* the AUTONOMY / STATE row
    champion,    \* the model of the CHAMPION alias
    shadows,     \* the models in state PROSPECTIVE_SHADOW
    lock,        \* the T-10 lock of each revision
    binding,     \* the public binding of each revision
    pred,        \* the prediction of each revision and model
    freeze,      \* the freeze invocations
    controller   \* the controller invocations

vars == <<now, event, auth, champion, shadows, lock, binding, pred, freeze, controller>>

tables == <<event, auth, champion, shadows, lock, binding, pred>>

\* by is the invocation whose evidence (certificate, features, hash) is frozen.
NoLock == [by |-> NoFreeze, at |-> 0, eligible |-> FALSE]

NoBinding == [model |-> NoModel, at |-> 0, meta |-> 0, auth |-> 0, by |-> NoFreeze]

\* at is created_at.
NoRow == [authority |-> "none", at |-> 0, meta |-> 0, auth |-> 0, by |-> NoFreeze]

\* observed, seen: the clock and the revision the invocation started from;
\* todo, champ: the models still to evaluate and the champion, as listed;
\* model: the one in hand; meta, authAt, at: what its write will be bound to.
IdleFreeze == [pc |-> "idle", observed |-> 0, seen |-> 0, todo |-> {},
               champ |-> NoModel, model |-> NoModel, meta |-> 0, authAt |-> 0,
               at |-> 0, answer |-> "none"]

Init ==
    /\ now = 1
    /\ event = [rev |-> 1, meta |-> 1, completed |-> FALSE]
    /\ auth \in [ok : BOOLEAN, at : {1}]
    /\ champion \in Models
    /\ shadows = Models \ {champion}
    /\ lock = [r \in Revisions |-> NoLock]
    /\ binding = [r \in Revisions |-> NoBinding]
    /\ pred = [r \in Revisions |-> [m \in Models |-> NoRow]]
    /\ freeze = [f \in Freezes |-> IdleFreeze]
    /\ controller = [c \in Controllers |-> [pc |-> "idle", at |-> 0]]

(***************************************************************************)
(* freeze_handler: the lock.                                               *)
(***************************************************************************)

At(f, place) == freeze[f].pc = place

Goes(f, place) == freeze' = [freeze EXCEPT ![f] = [@ EXCEPT !.pc = place]]

\* A plausible bug: the revision the next rewrite will have.
RevisionOf_Next(row) == row.rev + 1

RevisionOf(row) == row.rev

\* The scan returns the fixtures that are not completed.
StartFreeze(f) ==
    /\ At(f, "idle")
    /\ ~event.completed
    /\ freeze' = [freeze EXCEPT ![f] =
          [@ EXCEPT !.pc = "lock", !.observed = now, !.seen = RevisionOf(event)]]
    /\ UNCHANGED <<now, tables, controller>>

InCaptureWindow(f) ==
    /\ Opens[freeze[f].seen] <= freeze[f].observed
    /\ freeze[f].observed <= Deadline[freeze[f].seen]

Locked(r) == lock[r].by # NoFreeze

ReadLock(f) ==
    /\ At(f, "lock")
    /\ Goes(f, IF Locked(freeze[f].seen) THEN "predict"
               ELSE IF InCaptureWindow(f) THEN "build" ELSE "done")
    /\ UNCHANGED <<now, tables, controller>>

\* No certified cohort before the lock: nothing is written.
CohortMissing(f) ==
    /\ At(f, "build")
    /\ Goes(f, "done")
    /\ UNCHANGED <<now, tables, controller>>

\* A plausible bug: the lock is overwritten by the invocation that comes last.
LockStored_Last(f, eligible) ==
    [by |-> f, at |-> freeze[f].observed, eligible |-> eligible]

\* put_lock keeps the lock that is there; the loser reads it and goes on.
LockStored(f, eligible) ==
    IF Locked(freeze[f].seen) THEN lock[freeze[f].seen]
    ELSE [by |-> f, at |-> freeze[f].observed, eligible |-> eligible]

BuildLock(f) ==
    /\ At(f, "build")
    /\ \E eligible \in BOOLEAN :
          lock' = [lock EXCEPT ![freeze[f].seen] = LockStored(f, eligible)]
    /\ Goes(f, "predict")
    /\ UNCHANGED <<now, event, auth, champion, shadows, binding, pred, controller>>

(***************************************************************************)
(* predict_lock: one model at a time, the champion first.                  *)
(***************************************************************************)

BeginPredict(f) ==
    /\ At(f, "predict")
    /\ Goes(f, IF lock[freeze[f].seen].eligible /\ event.rev = freeze[f].seen
               THEN "list" ELSE "done")
    /\ UNCHANGED <<now, tables, controller>>

ListModels(f) ==
    /\ At(f, "list")
    /\ freeze' = [freeze EXCEPT ![f] =
          [@ EXCEPT !.pc = "next", !.todo = {champion} \cup shadows,
                    !.champ = champion]]
    /\ UNCHANGED <<now, tables, controller>>

\* A plausible bug: the headroom before the nominal cutoff is not kept.
InTime_NoHeadroom(f) == now <= Deadline[freeze[f].seen] + 1

\* _deadline_block
InTime(f) == now <= Deadline[freeze[f].seen]

\* _champion_publish_permission
MayPublish == auth.ok /\ now <= auth.at + MaxAge

\* The model in hand is done with, whatever became of it.
Drop(f, answer) ==
    freeze' = [freeze EXCEPT ![f] =
        [@ EXCEPT !.pc = "next", !.model = NoModel, !.meta = 0, !.authAt = 0,
                  !.at = 0, !.answer = answer]]

NextModel(f) ==
    /\ At(f, "next")
    /\ IF freeze[f].todo = {} THEN Goes(f, "done")
       ELSE \E m \in freeze[f].todo :
              /\ freeze[f].champ \in freeze[f].todo => m = freeze[f].champ
              /\ freeze' = [freeze EXCEPT ![f] =
                    [@ EXCEPT !.pc = "begin", !.model = m, !.todo = freeze[f].todo \ {m},
                              !.answer = "none"]]
    /\ UNCHANGED <<now, tables, controller>>

IsChampion(f) == freeze[f].model = freeze[f].champ

\* The first look at the clock and at the authority, then the model is loaded.
BeginModel(f) ==
    /\ At(f, "begin")
    /\ \/ /\ InTime(f)
          /\ IsChampion(f) => MayPublish
          /\ Goes(f, IF IsChampion(f) THEN "event" ELSE "stamp")
       \/ /\ ~InTime(f) \/ (IsChampion(f) /\ ~MayPublish)
          /\ Drop(f, "blocked")
       \/ Drop(f, "failed")
    /\ UNCHANGED <<now, tables, controller>>

RereadEvent(f) ==
    /\ At(f, "event")
    /\ IF event.rev = freeze[f].seen
       THEN freeze' = [freeze EXCEPT ![f] =
               [@ EXCEPT !.pc = "authority", !.meta = event.meta]]
       ELSE Drop(f, "blocked")
    /\ UNCHANGED <<now, tables, controller>>

RereadAuthority(f) ==
    /\ At(f, "authority")
    /\ IF InTime(f) /\ MayPublish
       THEN freeze' = [freeze EXCEPT ![f] =
               [@ EXCEPT !.pc = "stamp", !.authAt = auth.at]]
       ELSE Drop(f, "blocked")
    /\ UNCHANGED <<now, tables, controller>>

\* The last clock read: created_at and bound_at.
Stamp(f) ==
    /\ At(f, "stamp")
    /\ IF InTime(f)
       THEN freeze' = [freeze EXCEPT ![f] = [@ EXCEPT !.pc = "write", !.at = now]]
       ELSE Drop(f, "blocked")
    /\ UNCHANGED <<now, tables, controller>>

(***************************************************************************)
(* The immutable writes.                                                   *)
(***************************************************************************)

RowOf(f, authority) ==
    [authority |-> authority, at |-> freeze[f].at, meta |-> freeze[f].meta,
     auth |-> freeze[f].authAt, by |-> lock[freeze[f].seen].by]

BindingOf(f) ==
    [model |-> freeze[f].model, at |-> freeze[f].at, meta |-> freeze[f].meta,
     auth |-> freeze[f].authAt, by |-> lock[freeze[f].seen].by]

Predicted(r, m) == pred[r][m].authority # "none"

Bound(r) == binding[r].model # NoModel

\* A plausible bug: a shadow row replaces the row that is there.
ShadowStored_Always(f) == RowOf(f, "SHADOW")

\* put_prediction keeps the row that is there.
ShadowStored(f) ==
    IF Predicted(freeze[f].seen, freeze[f].model)
    THEN pred[freeze[f].seen][freeze[f].model] ELSE RowOf(f, "SHADOW")

WriteShadow(f) ==
    /\ At(f, "write")
    /\ ~IsChampion(f)
    /\ pred' = [pred EXCEPT ![freeze[f].seen] =
          [@ EXCEPT ![freeze[f].model] = ShadowStored(f)]]
    /\ Drop(f, "shadow")
    /\ UNCHANGED <<now, event, auth, champion, shadows, lock, binding, controller>>

\* The ConditionChecks of the transaction: the authority and the fixture are
\* the very rows the invocation read.
AuthorityUnchanged(f) == auth.ok /\ auth.at = freeze[f].authAt

EventUnchanged(f) ==
    /\ event.meta = freeze[f].meta
    /\ event.rev = freeze[f].seen
    /\ ~event.completed

\* Plausible bugs: the autonomy state, the fixture row, or the binding that is
\* there is left out of the transaction's conditions.
MayCommit_AnyAuthority(f) ==
    /\ EventUnchanged(f)
    /\ ~Bound(freeze[f].seen) /\ ~Predicted(freeze[f].seen, freeze[f].model)

MayCommit_AnyEvent(f) ==
    /\ AuthorityUnchanged(f)
    /\ ~Bound(freeze[f].seen) /\ ~Predicted(freeze[f].seen, freeze[f].model)

MayCommit_Rebind(f) ==
    /\ AuthorityUnchanged(f) /\ EventUnchanged(f)
    /\ ~Predicted(freeze[f].seen, freeze[f].model)

MayCommit(f) ==
    /\ AuthorityUnchanged(f) /\ EventUnchanged(f)
    /\ ~Bound(freeze[f].seen) /\ ~Predicted(freeze[f].seen, freeze[f].model)

\* put_public_prediction.  The answer to a committed transaction may be lost.
Publish(f) ==
    /\ At(f, "write")
    /\ IsChampion(f)
    /\ MayCommit(f)
    /\ binding' = [binding EXCEPT ![freeze[f].seen] = BindingOf(f)]
    /\ pred' = [pred EXCEPT ![freeze[f].seen] =
          [@ EXCEPT ![freeze[f].model] = RowOf(f, "CHAMPION")]]
    /\ Drop(f, "written") \/ Drop(f, "failed")
    /\ UNCHANGED <<now, event, auth, champion, shadows, lock, controller>>

PublishRefused(f) ==
    /\ At(f, "write")
    /\ IsChampion(f)
    /\ ~MayCommit(f)
    /\ Goes(f, "judge")
    /\ UNCHANGED <<now, tables, controller>>

\* Why the transaction was cancelled, from strong reads after the fact.  The
\* reads change nothing, so they are one step.  The recovery transaction is
\* left out: its case, a matching binding without its row, does not arise
\* (PicksAreWhole).
Verdict(f) ==
    LET b == binding[freeze[f].seen]
        p == pred[freeze[f].seen][freeze[f].model]
    IN  IF b.model # NoModel /\ [b EXCEPT !.model = freeze[f].model] # BindingOf(f)
        THEN "binding_integrity_mismatch"
        ELSE IF b.model \notin {NoModel, freeze[f].model} THEN "binding_mismatch"
        ELSE IF Predicted(freeze[f].seen, freeze[f].model)
                /\ p # RowOf(f, "CHAMPION")
        THEN "row_mismatch"
        ELSE IF Predicted(freeze[f].seen, freeze[f].model) THEN "already_written"
        ELSE IF ~AuthorityUnchanged(f) THEN "autonomy_changed"
        ELSE IF ~EventUnchanged(f) THEN "event_changed"
        ELSE "binding_unavailable"

Judge(f) ==
    /\ At(f, "judge")
    /\ Drop(f, Verdict(f))
    /\ UNCHANGED <<now, tables, controller>>

FreezeStep(f) ==
    \/ StartFreeze(f) \/ ReadLock(f) \/ CohortMissing(f) \/ BuildLock(f)
    \/ BeginPredict(f) \/ ListModels(f) \/ NextModel(f) \/ BeginModel(f)
    \/ RereadEvent(f) \/ RereadAuthority(f) \/ Stamp(f)
    \/ WriteShadow(f) \/ Publish(f) \/ PublishRefused(f) \/ Judge(f)

(***************************************************************************)
(* The others.                                                             *)
(***************************************************************************)

\* put_event with the same schedule, or with another kickoff or other teams.
RewriteEvent ==
    /\ event.meta < MaxMeta
    /\ \/ event' = [event EXCEPT !.meta = event.meta + 1]
       \/ /\ event.rev + 1 \in Revisions
          /\ event' = [event EXCEPT !.meta = event.meta + 1,
                                     !.rev = event.rev + 1]
    /\ UNCHANGED <<now, auth, champion, shadows, lock, binding, pred, freeze, controller>>

\* mark_completed
CompleteEvent ==
    /\ event.meta < MaxMeta
    /\ ~event.completed
    /\ event' = [event EXCEPT !.meta = event.meta + 1, !.completed = TRUE]
    /\ UNCHANGED <<now, auth, champion, shadows, lock, binding, pred, freeze, controller>>

\* run_cycle: the clock first, then minutes of health reads, then the write.
StartCycle(c) ==
    /\ controller[c].pc = "idle"
    /\ controller' = [controller EXCEPT ![c] = [pc |-> "persist", at |-> now]]
    /\ UNCHANGED <<now, tables, freeze>>

\* A plausible bug: a state that is not newer replaces the one that is there.
Newer_Always(at) == TRUE

\* _persist_state_if_newer
Newer(at) == auth.at < at

PersistState(c) ==
    /\ controller[c].pc = "persist"
    /\ \E ok \in BOOLEAN :
          auth' = IF Newer(controller[c].at)
                  THEN [ok |-> ok, at |-> controller[c].at] ELSE auth
    /\ controller' = [controller EXCEPT ![c] = [pc |-> "idle", at |-> 0]]
    /\ UNCHANGED <<now, event, champion, shadows, lock, binding, pred, freeze>>

\* promote_candidate; its statistics are left open.
Promote(m) ==
    /\ m \in shadows
    /\ champion' = m
    /\ shadows' = shadows \ {m}
    /\ UNCHANGED <<now, event, auth, lock, binding, pred, freeze, controller>>

\* A challenger whose prospective record fails is rejected for good.
Reject(m) ==
    /\ m \in shadows
    /\ shadows' = shadows \ {m}
    /\ UNCHANGED <<now, event, auth, champion, lock, binding, pred, freeze, controller>>

Tick ==
    /\ now < MaxTime
    /\ now' = now + 1
    /\ UNCHANGED <<tables, freeze, controller>>

Next ==
    \/ Tick
    \/ \E f \in Freezes : FreezeStep(f)
    \/ RewriteEvent \/ CompleteEvent
    \/ \E c \in Controllers : StartCycle(c) \/ PersistState(c)
    \/ \E m \in Models : Promote(m) \/ Reject(m)

Spec == Init /\ [][Next]_vars

(***************************************************************************)
(* Properties                                                              *)
(***************************************************************************)

Places == {"idle", "lock", "build", "predict", "list", "next", "begin", "event",
           "authority", "stamp", "write", "judge", "done"}

Answers == {"none", "blocked", "failed", "shadow", "written",
            "binding_integrity_mismatch", "binding_mismatch", "row_mismatch",
            "already_written", "autonomy_changed", "event_changed",
            "binding_unavailable"}

FreezeType == [pc : Places, observed : Nat, seen : Nat, todo : SUBSET Models,
               champ : Models \cup {NoModel}, model : Models \cup {NoModel},
               meta : Nat, authAt : Nat, at : Nat, answer : Answers]

Authors == Freezes \cup {NoFreeze}

RowType == [authority : {"none", "SHADOW", "CHAMPION"}, at : Nat, meta : Nat,
            auth : Nat, by : Authors]

\* Every variable keeps its type, and an invocation at work has a revision that
\* the fixture may have.
TypeOK ==
    /\ now \in Nat
    /\ event \in [rev : Revisions, meta : Nat, completed : BOOLEAN]
    /\ auth \in [ok : BOOLEAN, at : Nat]
    /\ champion \in Models /\ shadows \in SUBSET Models
    /\ lock \in [Revisions -> [by : Authors, at : Nat, eligible : BOOLEAN]]
    /\ binding \in [Revisions -> [model : Models \cup {NoModel}, at : Nat, meta : Nat,
                                  auth : Nat, by : Authors]]
    /\ pred \in [Revisions -> [Models -> RowType]]
    /\ freeze \in [Freezes -> FreezeType]
    /\ \A f \in Freezes : freeze[f].pc # "idle" => freeze[f].seen \in Revisions
    /\ controller \in [Controllers -> [pc : {"idle", "persist"}, at : Nat]]

\* The public pick as the API serves it: the row of the bound model.
Served(r) == IF Bound(r) /\ Predicted(r, binding[r].model) THEN binding[r].model ELSE NoModel

\* A binding comes with its prediction and a champion's prediction with its
\* binding, and the two agree in everything the API compares before it serves
\* the pick: author, times, authority and fixture revision, frozen evidence.
PicksAreWhole ==
    \A r \in Revisions :
        /\ Bound(r) =>
              LET b == binding[r]
                  p == pred[r][b.model]
              IN  /\ p.authority = "CHAMPION"
                  /\ p.at = b.at /\ p.meta = b.meta /\ p.auth = b.auth
                  /\ p.by = b.by /\ b.by = lock[r].by
        /\ \A m \in Models : pred[r][m].authority = "CHAMPION" => binding[r].model = m

\* The times of a pick pass the API's own checks, so a pick once bound is never
\* suppressed: the lock was taken in the capture window, the pick after it and
\* before the commit deadline.
PicksPassTheApi ==
    \A r \in Revisions : Bound(r) =>
        /\ Opens[r] <= lock[r].at /\ lock[r].at <= binding[r].at
        /\ binding[r].at <= Deadline[r]

\* Champion and challengers of one revision are judged on the same evidence:
\* every prediction carries the one lock, whichever invocation wrote it.
OneEvidence ==
    \A r \in Revisions : \A m \in Models : Predicted(r, m) => pred[r][m].by = lock[r].by

\* A lock, a binding or a prediction that is there never changes.
EvidenceIsImmutable ==
    [][\A r \in Revisions :
         /\ Locked(r) => lock'[r] = lock[r]
         /\ Bound(r) => binding'[r] = binding[r]
         /\ \A m \in Models : Predicted(r, m) => pred'[r][m] = pred[r][m]]_vars

\* The authority is never replaced by an older look at the system's health,
\* although cycles overlap and finish in any order.
AuthorityMovesForward == [][auth' # auth => auth.at < auth'.at]_vars

\* The program keeps the promise PublicDecision states.
Promise == INSTANCE PublicDecision WITH
    decision <- [r \in Revisions |-> Served(r)],
    revision <- event.rev,
    open <- ~event.completed,
    allowed <- auth.ok

KeepsPromise == Promise!Spec

\* "The first champion evaluated against an event's T-10 final-decision lock is
\* atomically and immutably bound" (docs/SOCCER_AUTO.md): while nothing is bound
\* and neither the authority nor the fixture has moved, a champion's pick is
\* not turned away because of a row that is there already.
FirstChampionIsBound ==
    [][\A f \in Freezes :
         /\ At(f, "judge") /\ freeze'[f].answer = "row_mismatch"
         /\ AuthorityUnchanged(f) /\ EventUnchanged(f)
         => Bound(freeze[f].seen)]_vars
=================================================================================
