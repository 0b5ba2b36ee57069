--------------------- MODULE InventoryAuthorityProofs ---------------------
(***************************************************************************)
(* Proofs about InventoryAuthority for every value of its constants.       *)
(*                                                                         *)
(* The argument.  TypeInvariance: TypeOK is inductive.  Fenced: a run that *)
(* may still write holds the RUNNING generation, because a lease outlives  *)
(* the Lambda that took it; Fence is the inductive form, which remembers   *)
(* what a run that is about to claim has read.  ManifestTruth: under a     *)
(* COMPLETED authority no live run can write, so what a dispatcher scanned *)
(* since the authority took its present revision is still true; Snapshot   *)
(* carries that from the scan to the binding to the manifest.              *)
(***************************************************************************)
EXTENDS InventoryAuthority, TLAPS

\* The operating point of the deployment: 600 s of lease, 300 s of Lambda.
LeaseOutlivesRun == FunctionTimeout < LeaseSeconds

(***************************************************************************)
(* Rows, entries and bindings.                                             *)
(***************************************************************************)

\* Replacing the fields that put_event writes gives a row.
LEMMA RowUpdate ==
    ASSUME NEW row \in Row, NEW identity \in Identities, NEW rev \in Nat,
           NEW at \in Nat, NEW stamped \in Nat
    PROVE  [row EXCEPT !.identity = identity, !.rev = rev, !.seen = at,
               !.success = at, !.omissions = 0, !.stamped = stamped] \in Row
BY DEF Row

\* A row put_event stored has an identity, a positive revision, a new last
\* observation, and a dispatch stamp only of that revision.
LEMMA StoredRow ==
    ASSUME NEW row \in Row, NEW identity \in Identities, NEW at \in Nat
    PROVE  /\ Stored(row, identity, at) \in Row
           /\ Stored(row, identity, at).identity # NoIdentity
           /\ Stored(row, identity, at).rev > 0
           /\ Stored(row, identity, at).seen = at
           /\ Stored(row, identity, at).omissions = 0
           /\ row.stamped \in {0, row.rev} =>
                 Stored(row, identity, at).stamped
                    \in {0, Stored(row, identity, at).rev}
<1> DEFINE changed == row.rev > 0 /\ row.identity # identity
           rev == IF row.rev = 0 \/ changed THEN row.rev + 1 ELSE row.rev
           stamped == IF changed THEN 0 ELSE row.stamped
           result == [row EXCEPT !.identity = identity, !.rev = rev,
                         !.seen = at, !.success = at, !.omissions = 0,
                         !.stamped = stamped]
<1>1. /\ rev \in Nat /\ rev > 0 /\ stamped \in Nat
      /\ row.stamped \in {0, row.rev} => stamped \in {0, rev}
  BY DEF Row
<1>2. Stored(row, identity, at) = result
  BY DEF Stored
<1> HIDE DEF rev, stamped
<1>3. result \in Row
  BY <1>1, RowUpdate
<1>4. /\ result.identity = identity /\ result.rev = rev /\ result.seen = at
      /\ result.omissions = 0 /\ result.stamped = stamped
  BY DEF Row
<1> HIDE DEF result
<1> QED
  BY <1>1, <1>2, <1>3, <1>4, NoneAssumption

\* put_event leaves a row that is whole, and a stamp of its revision only.
LEMMA ObservedRow ==
    ASSUME NEW row \in Row, NEW identity \in Identities, NEW at \in Nat,
           row.rev = 0 <=> row.identity = NoIdentity
    PROVE  LET new == Observed(row, identity, at)
           IN  /\ new \in Row
               /\ new.rev = 0 <=> new.identity = NoIdentity
               /\ new = row \/ new = Stored(row, identity, at)
<1>1. CASE Superseded(row, at)
  BY <1>1 DEF Observed
<1>2. CASE ~Superseded(row, at)
  <2>1. Stored(row, identity, at) \in Row
    BY StoredRow
  <2>2. Stored(row, identity, at).rev > 0
    BY StoredRow
  <2>3. Stored(row, identity, at).identity # NoIdentity
    BY StoredRow
  <2>4. Observed(row, identity, at) = Stored(row, identity, at)
    BY <1>2 DEF Observed
  <2> QED
    BY <2>1, <2>2, <2>3, <2>4
<1> QED
  BY <1>1, <1>2

\* An omission leaves the schedule and the stamp alone
\* (record_event_inventory_omissions).
LEMMA OmittedRow ==
    ASSUME NEW row \in Row, NEW rev \in Nat, NEW at \in Nat
    PROVE  /\ Omitted(row, rev, at) \in Row
           /\ Omitted(row, rev, at).identity = row.identity
           /\ Omitted(row, rev, at).rev = row.rev
           /\ Omitted(row, rev, at).stamped = row.stamped
           /\ Omitted(row, rev, at).omissions > row.omissions =>
                 /\ Omitted(row, rev, at).omissions = row.omissions + 1
                 /\ Omitted(row, rev, at).success > row.success
<1> DEFINE count == row.omissions + 1
           result == [row EXCEPT !.omissions = count, !.success = at]
<1>1. count \in Nat /\ row.omissions \in Nat /\ row.success \in Nat
  BY DEF Row
<1>2. CASE row.rev = rev /\ row.success < at
  <2>1. Omitted(row, rev, at) = result
    BY <1>2 DEF Omitted
  <2> HIDE DEF count
  <2>2. result \in Row
    BY <1>1 DEF Row
  <2>3. /\ result.identity = row.identity /\ result.rev = row.rev
        /\ result.stamped = row.stamped
        /\ result.omissions = count /\ result.success = at
    BY DEF Row
  <2> HIDE DEF result
  <2> QED
    BY <1>1, <1>2, <2>1, <2>2, <2>3 DEF count
<1>3. CASE ~(row.rev = rev /\ row.success < at)
  BY <1>1, <1>3 DEF Omitted
<1> QED
  BY <1>2, <1>3

\* A dispatch stamp leaves the schedule alone and is of its revision
\* (mark_dispatched).
LEMMA MarkDispatchedRow ==
    ASSUME NEW row \in Row, NEW entry \in Entry
    PROVE  /\ MarkDispatched(row, entry) \in Row
           /\ MarkDispatched(row, entry).identity = row.identity
           /\ MarkDispatched(row, entry).rev = row.rev
           /\ MarkDispatched(row, entry).omissions = row.omissions
           /\ MarkDispatched(row, entry).completed = row.completed
           /\ row.stamped \in {0, row.rev} =>
                 MarkDispatched(row, entry).stamped \in {0, row.rev}
BY DEF Row, Entry, MarkDispatched

\* So does settlement's completion mark.
LEMMA CompletedRow ==
    ASSUME NEW row \in Row
    PROVE  /\ Completed(row) \in Row
           /\ Completed(row).identity = row.identity
           /\ Completed(row).rev = row.rev
           /\ Completed(row).omissions = row.omissions
           /\ Completed(row).stamped = row.stamped
           /\ Completed(row).completed = TRUE
BY DEF Row, Completed

\* An observation that reopens a row changes only its completion.
LEMMA ReopenedRow ==
    ASSUME NEW row \in Row
    PROVE  /\ Reopened(row) \in Row
           /\ Reopened(row).identity = row.identity
           /\ Reopened(row).rev = row.rev
           /\ Reopened(row).omissions = row.omissions
           /\ Reopened(row).completed = FALSE
BY DEF Row, Reopened

\* What a dispatcher notes of a row has the type of a note.
LEMMA ViewType ==
    ASSUME NEW row \in Row
    PROVE  View(row) \in Entry
BY DEF Row, Entry, View, NoEntry

\* What a dispatcher binds its manifest to has the type of a binding.
LEMMA BindingType ==
    ASSUME NEW first \in Authority, NEW last \in Authority, NEW at \in Nat
    PROVE  BindingOf(first, last, at) \in Binding
BY DEF Authority, Binding, BindingOf

\* A run that has not started is a run.
LEMMA IdleRunType == IdleRun \in Run
BY DEF IdleRun, Run, RunRecord

\* A dispatch that has not started is a dispatch.
LEMMA IdleDispatchType == IdleDispatch \in Dispatch
<1>1. MissingAuthority \in Authority /\ NoEntry \in Entry /\ NoBinding \in Binding
  BY DEF MissingAuthority, Authority, NoEntry, Entry, NoBinding, Binding
<1> QED
  BY <1>1 DEF IdleDispatch, Dispatch

(***************************************************************************)
(* Type correctness.                                                       *)
(***************************************************************************)

\* The initial state has every type.
LEMMA InitType == Init => TypeOK
<1> SUFFICES ASSUME Init PROVE TypeOK
  OBVIOUS
<1>1. authority \in Authority
  BY DEF Init, MissingAuthority, Authority
<1>2. events \in [Events -> Row]
  BY DEF Init, AbsentRow, Row
<1>3. run \in [Runs -> Run]
  BY IdleRunType DEF Init
<1>4. NoEntry \in Entry /\ NoBinding \in Binding
  BY DEF NoEntry, Entry, NoBinding, Binding
<1>5. dispatch \in [Dispatches -> Dispatch]
  BY IdleDispatchType DEF Init
<1>6. manifest \in [obs : Nat, bind : Binding, rows : [Events -> Entry]]
  BY <1>4 DEF Init
<1> QED
  BY <1>1, <1>2, <1>3, <1>5, <1>6 DEF Init, TypeOK, AbsentRow

\* A step that only replaces one run keeps the types if the new run has its.
LEMMA OneRunType ==
    ASSUME TypeOK, NEW p \in Runs, NEW r \in Run,
           run' = [run EXCEPT ![p] = r],
           UNCHANGED <<now, events, dispatch, manifest>>,
           authority' \in Authority
    PROVE  TypeOK'
BY DEF TypeOK

\* A step that replaces one run and one row.
LEMMA OneRowType ==
    ASSUME TypeOK, NEW p \in Runs, NEW r \in Run, NEW e \in Events,
           NEW row \in Row, row.rev = 0 <=> row.identity = NoIdentity,
           run' = [run EXCEPT ![p] = r],
           events' = [events EXCEPT ![e] = row],
           UNCHANGED <<now, authority, dispatch, manifest>>
    PROVE  TypeOK'
BY DEF TypeOK

\* Every step of an inventory run keeps the types.
LEMMA RunStepType ==
    ASSUME TypeOK, NEW p \in Runs, RunStep(p)
    PROVE  TypeOK'
<1> DEFINE r == run[p]
<1> USE DEF Holding, RunRecord
<1>a. r \in Run /\ authority \in Authority /\ now \in Nat
  BY DEF TypeOK
<1>b. /\ r.started \in Nat /\ r.obs \in Nat /\ r.toOmit \in [Events -> Nat]
      /\ r.todo \subseteq Sports /\ r.ok \in BOOLEAN /\ authority.rev \in Nat
  BY <1>a DEF Run, Authority
<1>1. CASE StartRun(p)
  <2>1. [r EXCEPT !.pc = "begin", !.started = now] \in Run
    BY <1>a DEF Run
  <2> QED
    BY <1>1, <1>a, <2>1, OneRunType DEF StartRun
<1>2. CASE BeginRead(p)
  <2>1. [IdleRun EXCEPT !.pc = "deferred"] \in Run
    BY IdleRunType DEF Run
  <2>2. [r EXCEPT !.pc = "claim", !.readRev = authority.rev] \in Run
    BY <1>a, <1>b DEF Run
  <2> QED
    BY <1>2, <1>a, <2>1, <2>2, OneRunType DEF BeginRead
<1>3. CASE BeginWrite(p)
  <2>1. authority' \in Authority
    BY <1>3, <1>b, TimesAssumption DEF BeginWrite, Authority
  <2>2. [r EXCEPT !.pc = "refresh", !.todo = Sports, !.ok = TRUE] \in Run
    BY <1>a DEF Run
  <2> QED
    BY <1>3, <2>1, <2>2, OneRunType DEF BeginWrite
<1>4. CASE BeginLost(p)
  <2>1. PICK place \in {"begin", "dead"} :
           run' = [run EXCEPT ![p] = [r EXCEPT !.pc = place, !.readRev = 0]]
    BY <1>4 DEF BeginLost
  <2>2. [r EXCEPT !.pc = place, !.readRev = 0] \in Run
    BY <1>a DEF Run
  <2> QED
    BY <1>4, <1>a, <2>1, <2>2, OneRunType DEF BeginLost
<1>5. ASSUME NEW s \in Sports, DiscoverSport(p, s)
      PROVE  TypeOK'
  <2>1. PICK answer \in [Events -> Identities \cup {NoIdentity}] :
           run' = [run EXCEPT ![p] = Answered(r, s, answer, now)]
    BY <1>5 DEF DiscoverSport
  <2> DEFINE left == r.todo \ {s}
             listed == {e \in Events : answer[e] # NoIdentity}
  <2>2. left \in SUBSET Sports /\ listed \in SUBSET Events
    BY <1>b
  <2>3. \A e \in listed : answer[e] \in Identities
    OBVIOUS
  <2> HIDE DEF left, listed
  <2>4. [r EXCEPT !.pc = "store", !.todo = left, !.sport = s, !.obs = now,
                  !.toStore = listed, !.response = answer] \in Run
    BY <1>a, <2>2, <2>3 DEF Run
  <2>5. Answered(r, s, answer, now) \in Run
    BY <2>4 DEF Answered, left, listed
  <2> QED
    BY <1>5, <1>a, <2>1, <2>5, OneRunType DEF DiscoverSport
<1>6. ASSUME NEW e \in Events, PutEvent(p, e)
      PROVE  TypeOK'
  <2> DEFINE row == Observed(events[e], r.response[e], r.obs)
  <2>1. r.response[e] \in Identities
    BY <1>6, <1>a DEF PutEvent, Run
  <2>2. events[e] \in Row /\ (events[e].rev = 0 <=> events[e].identity = NoIdentity)
    BY DEF TypeOK
  <2>3. row \in Row /\ (row.rev = 0 <=> row.identity = NoIdentity)
    BY <1>b, <2>1, <2>2, ObservedRow
  <2>4. AfterPut(r, e) \in Run
    BY <1>a DEF Run, AfterPut
  <2>5. events' = [events EXCEPT ![e] = row]
    BY <1>6 DEF PutEvent
  <2> HIDE DEF row
  <2> QED
    BY <1>6, <2>3, <2>4, <2>5, OneRowType DEF PutEvent
<1>7. ASSUME NEW e \in Events, OmitEvent(p, e)
      PROVE  TypeOK'
  <2> DEFINE row == Omitted(events[e], r.toOmit[e], r.obs)
  <2>1. events[e] \in Row /\ (events[e].rev = 0 <=> events[e].identity = NoIdentity)
    BY DEF TypeOK
  <2>2. r.toOmit[e] \in Nat
    BY <1>b
  <2>3. row \in Row /\ row.identity = events[e].identity /\ row.rev = events[e].rev
    BY <1>b, <2>1, <2>2, OmittedRow
  <2>4. AfterOmit(r, e) \in Run
    BY <1>a, <1>b DEF Run, AfterOmit
  <2>5. events' = [events EXCEPT ![e] = row]
    BY <1>7 DEF OmitEvent
  <2> HIDE DEF row
  <2> QED
    BY <1>7, <2>1, <2>3, <2>4, <2>5, OneRowType DEF OmitEvent
<1>8. CASE QueryOmissions(p)
  <2>1. PICK listed \in SUBSET {e \in EventsOf[r.sport] :
                r.response[e] = NoIdentity /\ events[e].rev > 0} :
           run' = [run EXCEPT ![p] =
              [r EXCEPT !.pc = "omit",
                        !.toOmit = [e \in Events |-> IF e \in listed
                                                     THEN events[e].rev ELSE 0]]]
    BY <1>8 DEF QueryOmissions
  <2> DEFINE listing == [e \in Events |-> IF e \in listed
                                          THEN events[e].rev ELSE 0]
  <2>2. listing \in [Events -> Nat]
    BY DEF TypeOK, Row
  <2> HIDE DEF listing
  <2>3. [r EXCEPT !.pc = "omit", !.toOmit = listing] \in Run
    BY <1>a, <2>2 DEF Run
  <2> QED
    BY <1>8, <1>a, <2>1, <2>3, OneRunType DEF QueryOmissions, listing
<1>9. CASE SportDone(p) \/ SportFails(p)
  <2>1. AfterSport(r, TRUE) \in Run /\ AfterSport(r, FALSE) \in Run
    BY <1>b, IdleRunType DEF AfterSport, Run
  <2>2. AfterSport(r, r.ok) \in Run
    BY <1>b, <2>1
  <2> QED
    BY <1>9, <1>a, <2>1, <2>2, OneRunType DEF SportDone, SportFails
<1>10. CASE HandlerFails(p)
  <2>1. [r EXCEPT !.todo = {}, !.ok = FALSE] \in Run
    BY <1>a DEF Run
  <2> QED
    BY <1>10, <1>a, <2>1, OneRunType DEF HandlerFails
<1>11. CASE FinishRead(p)
  <2>1. [r EXCEPT !.pc = "finish", !.obs = now, !.readRev = authority.rev] \in Run
    BY <1>a, <1>b DEF Run
  <2>2. [IdleRun EXCEPT !.pc = "lost"] \in Run
    BY IdleRunType DEF Run
  <2> QED
    BY <1>11, <1>a, <2>1, <2>2, OneRunType DEF FinishRead
<1>12. CASE FinishWrite(p)
  <2>1. [IdleRun EXCEPT !.pc = "done", !.todo = r.todo, !.ok = r.ok] \in Run
    BY <1>b, IdleRunType DEF Run
  <2>2. authority' \in Authority
    <3>1. authority.rev + 1 \in Nat
      BY <1>b
    <3> QED
      BY <1>12, <1>a, <1>b, <3>1 DEF FinishWrite, Authority
  <2> QED
    BY <1>12, <2>1, <2>2, OneRunType DEF FinishWrite
<1>13. CASE FinishLost(p)
  <2>1. [r EXCEPT !.pc = "refresh"] \in Run
    BY <1>a DEF Run
  <2> QED
    BY <1>13, <1>a, <2>1, OneRunType DEF FinishLost
<1>14. CASE Crash(p)
  <2>1. [IdleRun EXCEPT !.pc = "dead"] \in Run
    BY IdleRunType DEF Run
  <2> QED
    BY <1>14, <1>a, <2>1, OneRunType DEF Crash
<1> QED
  BY <1>1, <1>2, <1>3, <1>4, <1>5, <1>6, <1>7, <1>8, <1>9, <1>10, <1>11,
     <1>12, <1>13, <1>14 DEF RunStep

\* Every step of a dispatcher keeps the types.
LEMMA DispatchStepType ==
    ASSUME TypeOK, NEW d \in Dispatches, DispatchStep(d)
    PROVE  TypeOK'
<1> DEFINE r == dispatch[d]
<1>a. r \in Dispatch /\ authority \in Authority /\ now \in Nat
  BY DEF TypeOK
<1>b. /\ r.left \in SUBSET Events /\ r.rows \in [Events -> Entry]
      /\ r.before \in Authority /\ r.obs \in Nat /\ r.bind \in Binding
  BY <1>a DEF Dispatch
<1>1. ASSUME NEW x \in Dispatch, dispatch' = [dispatch EXCEPT ![d] = x],
             UNCHANGED <<now, authority, events, run, manifest>>
      PROVE  TypeOK'
  BY <1>1 DEF TypeOK
<1>2. CASE DispatchRead(d)
  <2>1. [IdleDispatch EXCEPT !.pc = "scan", !.obs = now, !.before = authority,
                             !.left = Events] \in Dispatch
    BY <1>a, IdleDispatchType DEF Dispatch
  <2> QED
    BY <1>1, <1>2, <2>1 DEF DispatchRead
<1>3. ASSUME NEW e \in Events, ScanRow(d, e)
      PROVE  TypeOK'
  <2>1. View(events[e]) \in Entry
    BY ViewType DEF TypeOK
  <2>2. Scanned(r, e, View(events[e])) \in Dispatch
    BY <1>a, <1>b, <2>1 DEF Dispatch, Scanned
  <2> QED
    BY <1>1, <1>3, <2>2 DEF ScanRow
<1>4. CASE ScanDone(d)
  <2> DEFINE bind == BindingOf(r.before, authority, r.obs)
  <2>1. bind \in Binding
    BY <1>a, <1>b, BindingType
  <2> HIDE DEF bind
  <2>2. [r EXCEPT !.pc = "publish", !.bind = bind] \in Dispatch
    BY <1>a, <2>1 DEF Dispatch
  <2> QED
    BY <1>1, <1>4, <2>2 DEF ScanDone, bind
<1>5. CASE PublishManifest(d)
  <2>1. PICK due \in SUBSET {e \in Events : r.rows[e] # NoEntry} :
           dispatch' = [dispatch EXCEPT ![d] =
              [r EXCEPT !.pc = "stamp",
                        !.left = IF r.bind.valid THEN due ELSE {}]]
    BY <1>5 DEF PublishManifest
  <2> DEFINE left == IF r.bind.valid THEN due ELSE {}
  <2>2. left \in SUBSET Events
    OBVIOUS
  <2> HIDE DEF left
  <2>3. [r EXCEPT !.pc = "stamp", !.left = left] \in Dispatch
    BY <1>a, <2>2 DEF Dispatch
  <2>4. dispatch' \in [Dispatches -> Dispatch]
    BY <2>1, <2>3 DEF TypeOK, left
  <2>5. manifest' \in [obs : Nat, bind : Binding, rows : [Events -> Entry]]
    BY <1>5, <1>b DEF PublishManifest
  <2> QED
    BY <1>5, <2>4, <2>5 DEF TypeOK, PublishManifest
<1>6. CASE StaleDispatch(d)
  <2>1. [r EXCEPT !.pc = "done"] \in Dispatch
    BY <1>a DEF Dispatch
  <2> QED
    BY <1>1, <1>6, <2>1 DEF StaleDispatch
<1>7. ASSUME NEW e \in Events, StampDispatched(d, e)
      PROVE  TypeOK'
  <2> DEFINE row == MarkDispatched(events[e], r.rows[e])
  <2>1. Stamped(r, e) \in Dispatch
    BY <1>a, <1>b DEF Dispatch, Stamped
  <2>2. events[e] \in Row /\ (events[e].rev = 0 <=> events[e].identity = NoIdentity)
    BY DEF TypeOK
  <2>3. row \in Row /\ row.identity = events[e].identity /\ row.rev = events[e].rev
    BY <1>b, <2>2, MarkDispatchedRow
  <2>4. events' = [events EXCEPT ![e] = row]
    BY <1>7 DEF StampDispatched
  <2> HIDE DEF row
  <2>5. events' \in [Events -> Row]
    BY <2>3, <2>4 DEF TypeOK
  <2>6. \A x \in Events : events'[x].rev = 0 <=> events'[x].identity = NoIdentity
    BY <2>2, <2>3, <2>4 DEF TypeOK
  <2>7. dispatch' \in [Dispatches -> Dispatch]
    BY <1>7, <2>1 DEF StampDispatched, TypeOK
  <2> QED
    BY <1>7, <2>5, <2>6, <2>7 DEF StampDispatched, TypeOK
<1> QED
  BY <1>2, <1>3, <1>4, <1>5, <1>6, <1>7 DEF DispatchStep

\* Every variable keeps its type, and no row is half written.
THEOREM TypeInvariance == Spec => []TypeOK
<1>1. ASSUME TypeOK, [Next]_vars
      PROVE  TypeOK'
  <2>1. ASSUME NEW e \in Events, MarkCompleted(e)
        PROVE  TypeOK'
    BY <1>1, <2>1, CompletedRow DEF MarkCompleted, TypeOK
  <2>2. CASE Tick
    BY <1>1, <2>2 DEF Tick, TypeOK
  <2>3. CASE UNCHANGED vars
    BY <1>1, <2>3 DEF vars, TypeOK
  <2> QED
    BY <1>1, <2>1, <2>2, <2>3, RunStepType, DispatchStepType DEF Next
<1> QED
  BY <1>1, InitType, PTL DEF Spec
(***************************************************************************)
(* The fence.                                                              *)
(***************************************************************************)

\* What a run is after a step of its own or of another, as far as the fence
\* looks: its place, its start and the revision it read.
Fence(p) ==
    /\ run[p].started <= now
    /\ run[p].pc = "claim" =>
          /\ run[p].readRev <= authority.rev
          /\ run[p].readRev = authority.rev => ~LeaseHeld(run[p].started)
    /\ run[p].pc \in Holding /\ Alive(p) =>
          /\ OwnsGeneration(p)
          /\ authority.lease = run[p].started + LeaseSeconds

\* The types, and the fence around every run.
FenceInv == TypeOK /\ \A p \in Runs : Fence(p)

\* The other runs keep the fence when the authority does not change.
LEMMA FenceOfOthers ==
    ASSUME TypeOK, NEW p \in Runs, Fence(p),
           run'[p] = run[p], UNCHANGED <<now, authority>>
    PROVE  Fence(p)'
BY DEF Fence, Alive, OwnsGeneration, LeaseHeld

\* A step that stays in the loop of a run keeps its fence.
LEMMA FenceOfLoop ==
    ASSUME TypeOK, NEW p \in Runs, Fence(p), UNCHANGED <<now, authority>>,
           run[p].pc \in Holding, run'[p].pc \in Holding,
           run'[p].started = run[p].started
    PROVE  Fence(p)'
BY DEF Fence, Alive, OwnsGeneration, Holding

\* A run that stopped has no fence to keep.
LEMMA FenceOfStopped ==
    ASSUME TypeOK, NEW p \in Runs, TypeOK', now' = now,
           run'[p].pc \notin Holding \cup {"claim"}, run'[p].started <= now
    PROVE  Fence(p)'
BY DEF Fence, Holding

\* A run's step keeps the fence: only BeginWrite moves the authority to a new
\* owner, and it does so only when the revision it read is still there and its
\* lease has run out.
LEMMA FenceRunStep ==
    ASSUME FenceInv, LeaseOutlivesRun, NEW p \in Runs, RunStep(p), TypeOK'
    PROVE  FenceInv'
<1> USE DEF FenceInv
<1>a. /\ run \in [Runs -> Run] /\ authority.rev \in Nat /\ authority.lease \in Nat
      /\ now \in Nat
      /\ \A q \in Runs : run[q].started \in Nat /\ run[q].readRev \in Nat
  BY DEF TypeOK, Run, RunRecord, Authority
<1>b. IdleRun.started = 0 /\ IdleRun.pc = "idle"
  BY DEF IdleRun
<1>c. now' = now
  BY DEF RunStep, StartRun, BeginRead, BeginWrite, BeginLost, DiscoverSport,
         PutEvent, OmitEvent, QueryOmissions, SportDone, SportFails,
         HandlerFails, FinishRead, FinishWrite, FinishLost, Crash
<1>d. ASSUME UNCHANGED authority, NEW r, run' = [run EXCEPT ![p] = r], Fence(p)'
      PROVE  FenceInv'
  <2>1. \A q \in Runs \ {p} : run'[q] = run[q]
    BY <1>a, <1>d
  <2> QED
    BY <1>c, <1>d, <2>1, FenceOfOthers
<1>1. CASE StartRun(p)
  <2>1. run'[p].pc = "begin" /\ run'[p].started = now
    BY <1>1, <1>a DEF StartRun, Run, RunRecord
  <2>2. Fence(p)'
    BY <1>a, <1>c, <2>1, FenceOfStopped DEF Holding
  <2> QED
    BY <1>1, <1>d, <2>2 DEF StartRun
<1>2. CASE BeginRead(p)
  <2>1. CASE LeaseHeld(run[p].started)
    <3>1. run'[p].pc = "deferred" /\ run'[p].started = 0
      BY <1>2, <1>a, <1>b, <2>1 DEF BeginRead, IdleRun
    <3>2. Fence(p)'
      BY <1>a, <1>c, <3>1, FenceOfStopped DEF Holding
    <3> QED
      BY <1>2, <1>d, <3>2 DEF BeginRead
  <2>2. CASE ~LeaseHeld(run[p].started)
    <3>1. /\ run'[p].pc = "claim" /\ run'[p].started = run[p].started
          /\ run'[p].readRev = authority.rev
      BY <1>2, <1>a, <2>2 DEF BeginRead, Run, RunRecord
    <3>2. Fence(p)'
      BY <1>2, <1>a, <1>c, <2>2, <3>1 DEF Fence, LeaseHeld, BeginRead, Holding
    <3> QED
      BY <1>2, <1>d, <3>2 DEF BeginRead
  <2> QED
    BY <2>1, <2>2
<1>3. CASE BeginWrite(p)
  <2>1. /\ run'[p].pc = "refresh" /\ run'[p].started = run[p].started
        /\ authority'.state = "RUNNING" /\ authority'.gen = p
        /\ authority'.rev = authority.rev + 1
        /\ authority'.lease = run[p].started + LeaseSeconds
    BY <1>3, <1>a DEF BeginWrite, Run, RunRecord
  <2>2. Fence(p)'
    BY <1>a, <1>c, <2>1 DEF Fence, OwnsGeneration, Holding
  <2>3. ASSUME NEW q \in Runs, q # p
        PROVE  Fence(q)'
    <3>1. run'[q] = run[q]
      BY <1>3, <1>a, <2>3 DEF BeginWrite
    <3>2. ~(run[q].pc \in Holding /\ Alive(q))
      \* The lease p found expired was taken by a run that is past its timeout.
      <4> SUFFICES ASSUME run[q].pc \in Holding, Alive(q)
                   PROVE  FALSE
        OBVIOUS
      <4>1. /\ authority.state = "RUNNING"
            /\ authority.lease = run[q].started + LeaseSeconds
        BY DEF Fence, OwnsGeneration
      <4>2. authority.lease <= run[p].started /\ run[p].started <= now
        BY <1>3, <1>a, <4>1 DEF BeginWrite, At, Fence, LeaseHeld
      <4>3. now <= run[q].started + FunctionTimeout
        BY DEF Alive
      <4> QED
        BY <1>a, <4>1, <4>2, <4>3, TimesAssumption DEF LeaseOutlivesRun
    <3> QED
      BY <1>a, <1>c, <2>1, <3>1, <3>2 DEF Fence, Alive, Holding
  <2> QED
    BY <2>2, <2>3
<1>4. CASE BeginLost(p)
  <2>1. PICK place \in {"begin", "dead"} : run' =
           [run EXCEPT ![p] = [@ EXCEPT !.pc = place, !.readRev = 0]]
    BY <1>4 DEF BeginLost
  <2>2. run'[p].pc = place /\ run'[p].started = run[p].started
    BY <1>a, <2>1 DEF Run, RunRecord
  <2>3. Fence(p)'
    BY <1>c, <2>2, FenceOfStopped DEF Fence, Holding
  <2> QED
    BY <1>4, <1>d, <2>1, <2>3 DEF BeginLost
<1>5. ASSUME NEW s \in Sports, DiscoverSport(p, s)
      PROVE  FenceInv'
  <2>1. PICK answer \in [Events -> Identities \cup {NoIdentity}] :
           run' = [run EXCEPT ![p] = Answered(@, s, answer, now)]
    BY <1>5 DEF DiscoverSport
  <2>2. run'[p].pc = "store" /\ run'[p].started = run[p].started
    BY <1>a, <2>1 DEF Answered, Run, RunRecord
  <2>3. Fence(p)'
    BY <1>5, <2>2, FenceOfLoop DEF DiscoverSport, At, Holding
  <2> QED
    BY <1>5, <1>d, <2>1, <2>3 DEF DiscoverSport
<1>6. ASSUME NEW e \in Events, PutEvent(p, e) \/ OmitEvent(p, e)
      PROVE  FenceInv'
  <2>1. run'[p].pc = run[p].pc /\ run'[p].started = run[p].started
    BY <1>6, <1>a DEF PutEvent, OmitEvent, AfterPut, AfterOmit, Run, RunRecord
  <2>2. Fence(p)'
    BY <1>6, <2>1, FenceOfLoop DEF PutEvent, OmitEvent, At, Holding
  <2> QED
    BY <1>6, <1>d, <2>2 DEF PutEvent, OmitEvent
<1>7. CASE QueryOmissions(p)
  <2>1. run'[p].pc = "omit" /\ run'[p].started = run[p].started
    BY <1>7, <1>a DEF QueryOmissions, Run, RunRecord
  <2>2. Fence(p)'
    BY <1>7, <2>1, FenceOfLoop DEF QueryOmissions, At, Holding
  <2> QED
    BY <1>7, <1>d, <2>2 DEF QueryOmissions
<1>8. CASE SportDone(p) \/ SportFails(p)
  <2>1. run'[p].pc = "refresh" /\ run'[p].started = run[p].started
    BY <1>8, <1>a DEF SportDone, SportFails, AfterSport, IdleRun
  <2>2. Fence(p)'
    BY <1>8, <2>1, FenceOfLoop DEF SportDone, SportFails, At, Holding
  <2> QED
    BY <1>8, <1>d, <2>2 DEF SportDone, SportFails
<1>9. CASE HandlerFails(p)
  <2>1. run'[p].pc = run[p].pc /\ run'[p].started = run[p].started
    BY <1>9, <1>a DEF HandlerFails, Run, RunRecord
  <2>2. Fence(p)'
    BY <1>9, <2>1, FenceOfLoop DEF HandlerFails, At, Holding
  <2> QED
    BY <1>9, <1>d, <2>2 DEF HandlerFails
<1>10. CASE FinishRead(p)
  <2>1. CASE OwnsGeneration(p)
    <3>1. run'[p].pc = "finish" /\ run'[p].started = run[p].started
      BY <1>10, <1>a, <2>1 DEF FinishRead, Run, RunRecord
    <3>2. Fence(p)'
      BY <1>10, <3>1, FenceOfLoop DEF FinishRead, At, Holding
    <3> QED
      BY <1>10, <1>d, <3>2 DEF FinishRead
  <2>2. CASE ~OwnsGeneration(p)
    <3>1. run'[p].pc = "lost" /\ run'[p].started = 0
      BY <1>10, <1>a, <2>2 DEF FinishRead, IdleRun
    <3>2. Fence(p)'
      BY <1>a, <1>c, <3>1, FenceOfStopped DEF Holding
    <3> QED
      BY <1>10, <1>d, <3>2 DEF FinishRead
  <2> QED
    BY <2>1, <2>2
<1>11. CASE FinishWrite(p)
  <2>1. /\ run'[p].pc = "done" /\ run'[p].started = 0
        /\ OwnsGeneration(p) /\ authority'.rev = authority.rev + 1
    BY <1>11, <1>a DEF FinishWrite, IdleRun, TypeOK, Authority
  <2>2. Fence(p)'
    BY <1>a, <1>c, <2>1, FenceOfStopped DEF Holding
  <2>3. ASSUME NEW q \in Runs, q # p
        PROVE  Fence(q)'
    <3>1. run'[q] = run[q]
      BY <1>11, <1>a, <2>3 DEF FinishWrite
    <3>2. ~(run[q].pc \in Holding /\ Alive(q))
      BY <2>1, <2>3 DEF Fence, OwnsGeneration
    <3> QED
      BY <1>a, <1>c, <2>1, <3>1, <3>2 DEF Fence, Alive, Holding
  <2> QED
    BY <2>2, <2>3
<1>12. CASE FinishLost(p)
  <2>1. run'[p].pc = "refresh" /\ run'[p].started = run[p].started
    BY <1>12, <1>a DEF FinishLost, Run, RunRecord
  <2>2. Fence(p)'
    BY <1>12, <2>1, FenceOfLoop DEF FinishLost, At, Holding
  <2> QED
    BY <1>12, <1>d, <2>2 DEF FinishLost
<1>13. CASE Crash(p)
  <2>1. run'[p].pc = "dead" /\ run'[p].started = 0
    BY <1>13, <1>a DEF Crash, IdleRun
  <2>2. Fence(p)'
    BY <1>a, <1>c, <2>1, FenceOfStopped DEF Holding
  <2> QED
    BY <1>13, <1>d, <2>2 DEF Crash
<1> QED
  BY <1>1, <1>2, <1>3, <1>4, <1>5, <1>6, <1>7, <1>8, <1>9, <1>10, <1>11,
     <1>12, <1>13 DEF RunStep

\* Every step keeps the fence; the clock does because a run is dead before its
\* lease ends.
LEMMA FenceStep ==
    ASSUME FenceInv, LeaseOutlivesRun, [Next]_vars, TypeOK'
    PROVE  FenceInv'
<1>1. CASE \E p \in Runs : RunStep(p)
  BY <1>1, FenceRunStep
<1>2. CASE UNCHANGED <<now, authority, run>>
  BY <1>2 DEF FenceInv, Fence, Alive, OwnsGeneration, LeaseHeld
<1>3. CASE Tick
  <2>1. /\ now \in Nat /\ now' = now + 1 /\ UNCHANGED <<authority, run>>
        /\ \A p \in Runs : run[p].started \in Nat
    BY <1>3 DEF Tick, FenceInv, TypeOK, Run, RunRecord
  <2>2. ASSUME NEW p \in Runs
        PROVE  Fence(p)'
    <3>1. Alive(p)' => Alive(p)
      BY <2>1, TimesAssumption DEF Alive
    <3>2. run[p].started <= now'
      BY <2>1 DEF FenceInv, Fence
    <3> QED
      BY <2>1, <3>1, <3>2 DEF FenceInv, Fence, OwnsGeneration, LeaseHeld
  <2> QED
    BY <2>2 DEF FenceInv
<1>4. ASSUME NEW d \in Dispatches, DispatchStep(d)
      PROVE  UNCHANGED <<now, authority, run>>
  BY <1>4 DEF DispatchStep, DispatchRead, ScanRow, ScanDone, PublishManifest,
              StaleDispatch, StampDispatched
<1>5. ASSUME NEW e \in Events, MarkCompleted(e)
      PROVE  UNCHANGED <<now, authority, run>>
  BY <1>5 DEF MarkCompleted
<1> QED
  BY <1>1, <1>2, <1>3, <1>4, <1>5 DEF Next, vars

\* Initially no run holds anything.
LEMMA FenceInit == Init => FenceInv
BY InitType DEF Init, FenceInv, Fence, IdleRun, Holding

\* The fence holds in every reachable state.
LEMMA FenceInvariant == ASSUME LeaseOutlivesRun PROVE Spec => []FenceInv
<1>1. FenceInv /\ [Next]_vars /\ TypeOK' => FenceInv'
  BY LeaseOutlivesRun, FenceStep
<1> QED
  BY <1>1, FenceInit, TypeInvariance, PTL DEF Spec

\* With a lease longer than the Lambda timeout, a run that can still write the
\* Events table owns the RUNNING generation.
THEOREM Fenced == ASSUME LeaseOutlivesRun PROVE Spec => []MutatorsAreFenced
<1>1. FenceInv => MutatorsAreFenced
  BY DEF FenceInv, Fence, MutatorsAreFenced
<1> QED
  BY <1>1, FenceInvariant, PTL

(***************************************************************************)
(* The manifest.                                                           *)
(***************************************************************************)

\* The rows noted for the events in E are true as long as the authority stays
\* COMPLETED at revision rev.
TrueOf(rev, E, rows) ==
    /\ rev <= authority.rev
    /\ rev = authority.rev /\ authority.state = "COMPLETED" =>
          \A e \in E : Agrees(rows[e], events[e])

\* What each dispatcher has noted so far, and what the manifest says, is true
\* as long as the authority has not moved.
Snapshot ==
    /\ \A d \in Dispatches :
          /\ dispatch[d].pc = "scan" =>
                TrueOf(dispatch[d].before.rev, Events \ dispatch[d].left,
                       dispatch[d].rows)
          /\ dispatch[d].pc = "publish" =>
                /\ dispatch[d].bind.rev <= authority.rev
                /\ dispatch[d].bind.valid =>
                      TrueOf(dispatch[d].bind.rev, Events, dispatch[d].rows)
    /\ manifest.bind.rev <= authority.rev
    /\ manifest.bind.valid => TrueOf(manifest.bind.rev, Events, manifest.rows)

\* A row keeps what was noted of it through a dispatch stamp and through
\* settlement's completion.
LEMMA AgreesThroughStamp ==
    ASSUME NEW row \in Row, NEW entry \in Entry, NEW noted \in Entry,
           Agrees(noted, row)
    PROVE  Agrees(noted, MarkDispatched(row, entry))
<1> DEFINE new == MarkDispatched(row, entry)
<1>1. /\ new \in Row /\ new.identity = row.identity /\ new.rev = row.rev
      /\ new.omissions = row.omissions /\ new.completed = row.completed
  BY MarkDispatchedRow
<1> HIDE DEF new
<1>2. View(new) = View(row)
  BY <1>1 DEF View
<1>3. /\ Reopened(row).identity = row.identity /\ Reopened(row).rev = row.rev
      /\ Reopened(row).omissions = row.omissions
      /\ Reopened(row).completed = FALSE
  BY ReopenedRow
<1>4. /\ Reopened(new).identity = new.identity /\ Reopened(new).rev = new.rev
      /\ Reopened(new).omissions = new.omissions
      /\ Reopened(new).completed = FALSE
  BY <1>1, ReopenedRow
<1>5. View(Reopened(new)) = View(Reopened(row))
  BY <1>1, <1>3, <1>4 DEF View
<1> QED
  BY <1>1, <1>2, <1>5 DEF Agrees, new

\* mark_completed does not make a note untrue.
LEMMA AgreesThroughCompletion ==
    ASSUME NEW row \in Row, NEW noted \in Entry, Agrees(noted, row)
    PROVE  Agrees(noted, Completed(row))
<1> DEFINE new == Completed(row)
<1>1. /\ new \in Row /\ new.identity = row.identity /\ new.rev = row.rev
      /\ new.omissions = row.omissions /\ new.completed = TRUE
  BY CompletedRow
<1> HIDE DEF new
<1>2. /\ Reopened(row).identity = row.identity /\ Reopened(row).rev = row.rev
      /\ Reopened(row).omissions = row.omissions
      /\ Reopened(row).completed = FALSE
  BY ReopenedRow
<1>3. /\ Reopened(new).identity = new.identity /\ Reopened(new).rev = new.rev
      /\ Reopened(new).omissions = new.omissions
      /\ Reopened(new).completed = FALSE
  BY <1>1, ReopenedRow
<1>4. View(Reopened(new)) = View(Reopened(row))
  BY <1>1, <1>2, <1>3 DEF View
<1>5. row.completed = FALSE => View(Reopened(row)) = View(row)
  BY <1>2 DEF View
<1>6. row.completed = TRUE => View(new) = View(row)
  BY <1>1 DEF View
<1>7. row.completed \in BOOLEAN
  BY DEF Row
<1> QED
  BY <1>1, <1>4, <1>5, <1>6, <1>7 DEF Agrees, new

\* A step that moves neither the authority nor, under a COMPLETED authority,
\* what was noted of a row, keeps every note.
NotesSurvive ==
    authority.state = "COMPLETED" =>
       \A e \in Events : \A noted \in Entry :
          Agrees(noted, events[e]) => Agrees(noted, events[e])'

\* A step that leaves the dispatchers and the manifest alone keeps what is said
\* of them if no note becomes untrue under a COMPLETED authority.
LEMMA SnapshotOfOthers ==
    ASSUME TypeOK, Snapshot, UNCHANGED <<authority, dispatch, manifest>>,
           NotesSurvive
    PROVE  Snapshot'
<1>1. /\ \A d \in Dispatches : dispatch[d].rows \in [Events -> Entry]
      /\ manifest.rows \in [Events -> Entry]
  BY DEF TypeOK, Dispatch
<1>2. ASSUME NEW d \in Dispatches, dispatch[d].pc = "scan"
      PROVE  TrueOf(dispatch[d].before.rev, Events \ dispatch[d].left,
                    dispatch[d].rows)'
  BY <1>1, <1>2 DEF Snapshot, TrueOf, NotesSurvive
<1>3. ASSUME NEW d \in Dispatches, dispatch[d].pc = "publish",
             dispatch[d].bind.valid
      PROVE  TrueOf(dispatch[d].bind.rev, Events, dispatch[d].rows)'
  BY <1>1, <1>3 DEF Snapshot, TrueOf, NotesSurvive
<1>4. manifest.bind.valid =>
         TrueOf(manifest.bind.rev, Events, manifest.rows)'
  BY <1>1 DEF Snapshot, TrueOf, NotesSurvive
<1> QED
  BY <1>2, <1>3, <1>4 DEF Snapshot

\* The authority moves to a revision no note can be about.
LEMMA SnapshotOfNewRevision ==
    ASSUME TypeOK, Snapshot, UNCHANGED <<events, dispatch, manifest>>,
           authority'.rev = authority.rev + 1
    PROVE  Snapshot'
<1>1. /\ authority.rev \in Nat /\ manifest.bind.rev \in Nat
      /\ \A d \in Dispatches : dispatch[d].before.rev \in Nat
                             /\ dispatch[d].bind.rev \in Nat
  BY DEF TypeOK, Authority, Dispatch, Binding
<1>2. ASSUME NEW d \in Dispatches, dispatch[d].pc = "scan"
      PROVE  TrueOf(dispatch[d].before.rev, Events \ dispatch[d].left,
                    dispatch[d].rows)'
  BY <1>1, <1>2 DEF Snapshot, TrueOf
<1>3. ASSUME NEW d \in Dispatches, dispatch[d].pc = "publish",
             dispatch[d].bind.valid
      PROVE  TrueOf(dispatch[d].bind.rev, Events, dispatch[d].rows)'
  BY <1>1, <1>3 DEF Snapshot, TrueOf
<1>4. manifest.bind.valid =>
         TrueOf(manifest.bind.rev, Events, manifest.rows)'
  BY <1>1 DEF Snapshot, TrueOf
<1> QED
  BY <1>1, <1>2, <1>3, <1>4 DEF Snapshot

\* Every step of an inventory run keeps the notes true: it writes rows only
\* while the authority is not COMPLETED.
LEMMA SnapshotRunStep ==
    ASSUME FenceInv, Snapshot, NEW p \in Runs, RunStep(p)
    PROVE  Snapshot'
<1>a. TypeOK /\ authority \in Authority
  BY DEF FenceInv, TypeOK
<1>1. CASE UNCHANGED <<authority, events>>
  <2>1. UNCHANGED <<dispatch, manifest>>
    BY DEF RunStep, StartRun, BeginRead, BeginWrite, BeginLost, DiscoverSport,
           PutEvent, OmitEvent, QueryOmissions, SportDone, SportFails,
           HandlerFails, FinishRead, FinishWrite, FinishLost, Crash
  <2> QED
    BY <1>a, <1>1, <2>1, SnapshotOfOthers DEF NotesSurvive
<1>2. CASE BeginWrite(p) \/ FinishWrite(p)
  <2>1. authority'.rev = authority.rev + 1
    <3>1. BeginWrite(p) => authority'.rev = authority.rev + 1
      BY DEF BeginWrite
    <3>2. FinishWrite(p) => authority'.rev = authority.rev + 1
      BY <1>a DEF FinishWrite, Authority
    <3> QED
      BY <1>2, <3>1, <3>2
  <2> QED
    BY <1>a, <1>2, <2>1, SnapshotOfNewRevision DEF BeginWrite, FinishWrite
<1>3. ASSUME NEW e \in Events, PutEvent(p, e) \/ OmitEvent(p, e)
      PROVE  Snapshot'
  <2>1. authority.state # "COMPLETED"
    BY <1>3 DEF PutEvent, OmitEvent, At, FenceInv, Fence, OwnsGeneration, Holding
  <2> QED
    BY <1>a, <1>3, <2>1, SnapshotOfOthers DEF NotesSurvive, PutEvent, OmitEvent
<1>4. \/ UNCHANGED <<authority, events>>
      \/ BeginWrite(p) \/ FinishWrite(p)
      \/ \E e \in Events : PutEvent(p, e) \/ OmitEvent(p, e)
  BY DEF RunStep, StartRun, BeginRead, BeginLost, DiscoverSport,
         QueryOmissions, SportDone, SportFails,
         HandlerFails, FinishRead, FinishLost, Crash
<1> QED
  BY <1>1, <1>2, <1>3, <1>4

\* Every step of a dispatcher keeps the notes true, and publishes only those.
LEMMA SnapshotDispatchStep ==
    ASSUME TypeOK, Snapshot, NEW d \in Dispatches, DispatchStep(d)
    PROVE  Snapshot'
<1>a. /\ dispatch \in [Dispatches -> Dispatch] /\ authority \in Authority
      /\ authority.rev \in Nat /\ events \in [Events -> Row]
      /\ dispatch[d] \in Dispatch
      /\ dispatch[d].rows \in [Events -> Entry]
      /\ dispatch[d].left \in SUBSET Events
  BY DEF TypeOK, Dispatch, Authority
<1>b. ASSUME UNCHANGED <<authority, events>>, NEW r,
             dispatch' = [dispatch EXCEPT ![d] = r],
             r.pc = "scan" => TrueOf(r.before.rev, Events \ r.left, r.rows),
             r.pc = "publish" =>
                /\ r.bind.rev <= authority.rev
                /\ r.bind.valid => TrueOf(r.bind.rev, Events, r.rows),
             manifest'.bind.rev <= authority.rev,
             manifest'.bind.valid =>
                TrueOf(manifest'.bind.rev, Events, manifest'.rows)
      PROVE  Snapshot'
  <2>1. dispatch'[d] = r /\ \A x \in Dispatches \ {d} : dispatch'[x] = dispatch[x]
    BY <1>a, <1>b
  <2>2. ASSUME NEW x \in Dispatches
        PROVE  /\ dispatch'[x].pc = "scan" =>
                     TrueOf(dispatch[x].before.rev, Events \ dispatch[x].left,
                            dispatch[x].rows)'
               /\ dispatch'[x].pc = "publish" =>
                     /\ dispatch'[x].bind.rev <= authority.rev
                     /\ dispatch'[x].bind.valid =>
                          TrueOf(dispatch[x].bind.rev, Events, dispatch[x].rows)'
    <3>1. CASE x = d
      BY <1>b, <2>1, <3>1 DEF TrueOf
    <3>2. CASE x # d
      BY <1>b, <2>1, <3>2 DEF TrueOf, Snapshot
    <3> QED
      BY <3>1, <3>2
  <2>3. manifest'.bind.valid => TrueOf(manifest.bind.rev, Events, manifest.rows)'
    BY <1>b DEF TrueOf
  <2> QED
    BY <1>b, <2>2, <2>3 DEF Snapshot
<1>c. /\ manifest.bind.rev <= authority.rev
      /\ manifest.bind.valid => TrueOf(manifest.bind.rev, Events, manifest.rows)
  BY DEF Snapshot
<1>1. CASE DispatchRead(d)
  <2> DEFINE r == [IdleDispatch EXCEPT !.pc = "scan", !.obs = now,
                                       !.before = authority, !.left = Events]
  <2>1. r.pc = "scan" /\ r.before = authority /\ r.left = Events
    BY IdleDispatchType DEF Dispatch
  <2>2. dispatch' = [dispatch EXCEPT ![d] = r]
    BY <1>1 DEF DispatchRead
  <2> HIDE DEF r
  <2>3. TrueOf(r.before.rev, Events \ r.left, r.rows)
    BY <1>a, <2>1 DEF TrueOf
  <2> QED
    BY <1>1, <1>b, <1>c, <2>1, <2>2, <2>3 DEF DispatchRead
<1>2. ASSUME NEW e \in Events, ScanRow(d, e)
      PROVE  Snapshot'
  <2> DEFINE r == Scanned(dispatch[d], e, View(events[e]))
  <2>1. /\ r.pc = "scan" /\ r.before = dispatch[d].before
        /\ r.left = dispatch[d].left \ {e}
        /\ r.rows = [dispatch[d].rows EXCEPT ![e] = View(events[e])]
    BY <1>2, <1>a DEF ScanRow, Scanned, Dispatch
  <2>2. dispatch' = [dispatch EXCEPT ![d] = r]
    BY <1>2 DEF ScanRow
  <2> HIDE DEF r
  <2>3. TrueOf(dispatch[d].before.rev, Events \ dispatch[d].left, dispatch[d].rows)
    BY <1>2 DEF ScanRow, Snapshot
  <2>4. ASSUME NEW x \in Events \ r.left
        PROVE  \/ x = e /\ r.rows[x] = View(events[x])
               \/ x \in Events \ dispatch[d].left /\ r.rows[x] = dispatch[d].rows[x]
    BY <1>a, <2>1, <2>4
  <2>5. TrueOf(r.before.rev, Events \ r.left, r.rows)
    BY <2>1, <2>3, <2>4 DEF TrueOf, Agrees
  <2> QED
    BY <1>2, <1>b, <1>c, <2>1, <2>2, <2>5 DEF ScanRow
<1>3. CASE ScanDone(d)
  <2> DEFINE bind == BindingOf(dispatch[d].before, authority, dispatch[d].obs)
             r == [dispatch[d] EXCEPT !.pc = "publish", !.bind = bind]
  <2>1. /\ bind.rev = authority.rev
        /\ bind.valid => dispatch[d].before.rev = authority.rev
    BY DEF BindingOf
  <2> HIDE DEF bind
  <2>2. r.pc = "publish" /\ r.bind = bind /\ r.rows = dispatch[d].rows
    BY <1>a DEF Dispatch
  <2>3. dispatch' = [dispatch EXCEPT ![d] = r]
    BY <1>3 DEF ScanDone, bind
  <2> HIDE DEF r
  <2>4. TrueOf(dispatch[d].before.rev, Events, dispatch[d].rows)
    BY <1>3 DEF ScanDone, Snapshot
  <2>5. r.bind.rev <= authority.rev
    BY <1>a, <2>1, <2>2
  <2>6. r.bind.valid => TrueOf(r.bind.rev, Events, r.rows)
    BY <2>1, <2>2, <2>4 DEF TrueOf
  <2> QED
    BY <1>3, <1>b, <1>c, <2>2, <2>3, <2>5, <2>6 DEF ScanDone
<1>4. CASE PublishManifest(d)
  <2>1. PICK due \in SUBSET {e \in Events : dispatch[d].rows[e] # NoEntry} :
           dispatch' = [dispatch EXCEPT ![d] =
              [@ EXCEPT !.pc = "stamp",
                        !.left = IF dispatch[d].bind.valid THEN due ELSE {}]]
    BY <1>4 DEF PublishManifest
  <2> DEFINE left == IF dispatch[d].bind.valid THEN due ELSE {}
             r == [dispatch[d] EXCEPT !.pc = "stamp", !.left = left]
  <2>2. r.pc = "stamp"
    BY <1>a DEF Dispatch
  <2>3. dispatch' = [dispatch EXCEPT ![d] = r]
    BY <2>1
  <2> HIDE DEF r
  <2>4. manifest'.bind = dispatch[d].bind /\ manifest'.rows = dispatch[d].rows
    BY <1>4 DEF PublishManifest
  <2>5. /\ dispatch[d].bind.rev <= authority.rev
        /\ dispatch[d].bind.valid =>
              TrueOf(dispatch[d].bind.rev, Events, dispatch[d].rows)
    BY <1>4 DEF PublishManifest, Snapshot
  <2>6. /\ manifest'.bind.rev <= authority.rev
        /\ manifest'.bind.valid =>
              TrueOf(manifest'.bind.rev, Events, manifest'.rows)
    BY <2>4, <2>5
  <2>7. UNCHANGED <<authority, events>>
    BY <1>4 DEF PublishManifest
  <2>8. /\ dispatch'[d].pc = "stamp"
        /\ \A x \in Dispatches \ {d} : dispatch'[x] = dispatch[x]
    BY <1>a, <2>2, <2>3
  <2>9. ASSUME NEW x \in Dispatches, dispatch'[x].pc = "scan"
        PROVE  TrueOf(dispatch[x].before.rev, Events \ dispatch[x].left,
                      dispatch[x].rows)'
    BY <2>7, <2>8, <2>9 DEF TrueOf, Snapshot
  <2>10. ASSUME NEW x \in Dispatches, dispatch'[x].pc = "publish"
         PROVE  /\ dispatch'[x].bind.rev <= authority'.rev
                /\ dispatch'[x].bind.valid =>
                      TrueOf(dispatch[x].bind.rev, Events, dispatch[x].rows)'
    BY <2>7, <2>8, <2>10 DEF TrueOf, Snapshot
  <2>11. manifest'.bind.valid => TrueOf(manifest.bind.rev, Events, manifest.rows)'
    BY <2>6, <2>7 DEF TrueOf
  <2> QED
    BY <2>6, <2>7, <2>9, <2>10, <2>11 DEF Snapshot
<1>5. CASE StaleDispatch(d)
  <2> DEFINE r == [dispatch[d] EXCEPT !.pc = "done"]
  <2>1. r.pc = "done"
    BY <1>a DEF Dispatch
  <2>2. dispatch' = [dispatch EXCEPT ![d] = r]
    BY <1>5 DEF StaleDispatch
  <2> HIDE DEF r
  <2> QED
    BY <1>5, <1>b, <1>c, <2>1, <2>2 DEF StaleDispatch
<1>6. ASSUME NEW e \in Events, StampDispatched(d, e)
      PROVE  Snapshot'
  <2>1. NotesSurvive
    BY <1>6, <1>a, AgreesThroughStamp DEF StampDispatched, NotesSurvive
  <2>2. /\ dispatch'[d].pc = "stamp"
        /\ \A x \in Dispatches \ {d} : dispatch'[x] = dispatch[x]
    BY <1>6, <1>a DEF StampDispatched, Stamped, Dispatch
  <2>3. \A x \in Dispatches : dispatch[x].rows \in [Events -> Entry]
    BY DEF TypeOK, Dispatch
  <2>4. ASSUME NEW x \in Dispatches, dispatch'[x].pc \in {"scan", "publish"}
        PROVE  x # d
    BY <2>2, <2>4
  <2>5. ASSUME NEW x \in Dispatches, dispatch'[x].pc = "scan"
        PROVE  TrueOf(dispatch[x].before.rev, Events \ dispatch[x].left,
                      dispatch[x].rows)'
    BY <1>6, <2>1, <2>2, <2>3, <2>4, <2>5
       DEF StampDispatched, NotesSurvive, TrueOf, Snapshot
  <2>6. ASSUME NEW x \in Dispatches, dispatch'[x].pc = "publish"
        PROVE  /\ dispatch'[x].bind.rev <= authority'.rev
               /\ dispatch'[x].bind.valid =>
                     TrueOf(dispatch[x].bind.rev, Events, dispatch[x].rows)'
    BY <1>6, <2>1, <2>2, <2>3, <2>4, <2>6
       DEF StampDispatched, NotesSurvive, TrueOf, Snapshot
  <2>7. manifest.rows \in [Events -> Entry]
    BY DEF TypeOK
  <2>8. manifest'.bind.valid => TrueOf(manifest.bind.rev, Events, manifest.rows)'
    BY <1>6, <2>1, <2>7 DEF StampDispatched, NotesSurvive, TrueOf, Snapshot
  <2> QED
    BY <1>6, <2>5, <2>6, <2>8 DEF StampDispatched, Snapshot
<1> QED
  BY <1>1, <1>2, <1>3, <1>4, <1>5, <1>6 DEF DispatchStep

\* Every step of the specification keeps the notes true.
LEMMA SnapshotStep ==
    ASSUME FenceInv, Snapshot, [Next]_vars
    PROVE  Snapshot'
<1>a. TypeOK
  BY DEF FenceInv
<1>1. ASSUME NEW e \in Events, MarkCompleted(e)
      PROVE  Snapshot'
  <2>1. NotesSurvive
    BY <1>1, <1>a, AgreesThroughCompletion DEF MarkCompleted, NotesSurvive, TypeOK
  <2> QED
    BY <1>1, <1>a, <2>1, SnapshotOfOthers DEF MarkCompleted
<1>2. CASE Tick \/ UNCHANGED vars
  <2>1. UNCHANGED <<authority, events, dispatch, manifest>>
    BY <1>2 DEF Tick, vars
  <2> QED
    BY <1>a, <2>1, SnapshotOfOthers DEF NotesSurvive
<1> QED
  BY <1>a, <1>1, <1>2, SnapshotRunStep, SnapshotDispatchStep DEF Next

\* Initially nothing is noted or published.
LEMMA SnapshotInit == Init => Snapshot
BY DEF Init, Snapshot, IdleDispatch, NoBinding, MissingAuthority

\* A manifest the API accepts as authoritative describes the Events table.
THEOREM ManifestTruth ==
    ASSUME LeaseOutlivesRun
    PROVE  Spec => []AuthoritativeManifestMatchesSchedule
<1>1. FenceInv /\ Snapshot /\ [Next]_vars => Snapshot'
  BY SnapshotStep
<1>2. Snapshot => AuthoritativeManifestMatchesSchedule
  BY DEF Snapshot, TrueOf, AuthoritativeManifestMatchesSchedule,
         ManifestAuthoritative
<1> QED
  BY <1>1, <1>2, SnapshotInit, FenceInvariant, PTL DEF Spec
(***************************************************************************)
(* What holds without the fence.                                           *)
(***************************************************************************)

\* The steps that write a row of the Events table.
LEMMA RowWriters ==
    ASSUME TypeOK, [Next]_vars, NEW e \in Events, events'[e] # events[e]
    PROVE  \/ \E p \in Runs :
                 /\ e \in run[p].toStore
                 /\ run[p].response[e] \in Identities /\ run[p].obs \in Nat
                 /\ events'[e] = Observed(events[e], run[p].response[e], run[p].obs)
           \/ \E p \in Runs :
                 /\ run[p].toOmit[e] \in Nat /\ run[p].obs \in Nat
                 /\ events'[e] = Omitted(events[e], run[p].toOmit[e], run[p].obs)
           \/ \E d \in Dispatches :
                 /\ dispatch[d].rows[e] \in Entry
                 /\ events'[e] = MarkDispatched(events[e], dispatch[d].rows[e])
           \/ events'[e] = Completed(events[e])
<1>a. /\ events \in [Events -> Row]
      /\ \A p \in Runs : /\ run[p].obs \in Nat
                         /\ run[p].toOmit[e] \in Nat
                         /\ e \in run[p].toStore => run[p].response[e] \in Identities
      /\ \A d \in Dispatches : dispatch[d].rows[e] \in Entry
  BY DEF TypeOK, Run, RunRecord, Dispatch
<1>1. ASSUME NEW p \in Runs, NEW x \in Events, PutEvent(p, x)
      PROVE  /\ x = e /\ e \in run[p].toStore
             /\ events'[e] = Observed(events[e], run[p].response[e], run[p].obs)
  BY <1>a, <1>1 DEF PutEvent
<1>2. ASSUME NEW p \in Runs, NEW x \in Events, OmitEvent(p, x)
      PROVE  events'[e] = Omitted(events[e], run[p].toOmit[e], run[p].obs)
  BY <1>a, <1>2 DEF OmitEvent
<1>3. ASSUME NEW d \in Dispatches, NEW x \in Events, StampDispatched(d, x)
      PROVE  events'[e] = MarkDispatched(events[e], dispatch[d].rows[e])
  BY <1>a, <1>3 DEF StampDispatched
<1>4. ASSUME NEW x \in Events, MarkCompleted(x)
      PROVE  events'[e] = Completed(events[e])
  BY <1>a, <1>4 DEF MarkCompleted
<1>5. ASSUME NEW p \in Runs, RunStep(p), events' # events
      PROVE  \E x \in Events : PutEvent(p, x) \/ OmitEvent(p, x)
  BY <1>5 DEF RunStep, StartRun, BeginRead, BeginWrite, BeginLost, DiscoverSport,
       QueryOmissions, SportDone, SportFails, HandlerFails, FinishRead,
       FinishWrite, FinishLost, Crash
<1>6. ASSUME NEW d \in Dispatches, DispatchStep(d), events' # events
      PROVE  \E x \in Events : StampDispatched(d, x)
  BY <1>6 DEF DispatchStep, DispatchRead, ScanRow, ScanDone, PublishManifest,
              StaleDispatch
<1>7. \/ \E p \in Runs : RunStep(p)
      \/ \E d \in Dispatches : DispatchStep(d)
      \/ \E x \in Events : MarkCompleted(x)
  BY DEF Next, Tick, vars
<1> QED
  BY <1>a, <1>1, <1>2, <1>3, <1>4, <1>5, <1>6, <1>7

\* The last observation that put_event is to exceed is that of the row.
LEMMA ObservedIsNewer ==
    ASSUME NEW row \in Row, NEW identity \in Identities, NEW at \in Nat,
           row.rev > 0, Observed(row, identity, at).identity # row.identity
    PROVE  Observed(row, identity, at).seen > row.seen
<1>1. ~Superseded(row, at)
  BY DEF Observed
<1>2. Stored(row, identity, at).seen = at
  BY StoredRow
<1>3. Observed(row, identity, at) = Stored(row, identity, at)
  BY <1>1 DEF Observed
<1> QED
  BY <1>1, <1>2, <1>3 DEF Superseded, Row

\* An older observation never replaces a schedule, whoever holds the lease.
THEOREM NoRepaint == Spec => NoRepaintByOlderObservation
<1>1. ASSUME TypeOK, [Next]_vars, NEW e \in Events, events[e].rev > 0,
             events'[e].identity # events[e].identity
      PROVE  events'[e].seen > events[e].seen
  <2>1. events[e] \in Row
    BY <1>1 DEF TypeOK
  <2>2. ASSUME NEW rev \in Nat, NEW at \in Nat
        PROVE  Omitted(events[e], rev, at).identity = events[e].identity
    BY <2>1, OmittedRow
  <2>3. ASSUME NEW entry \in Entry
        PROVE  MarkDispatched(events[e], entry).identity = events[e].identity
    BY <2>1, MarkDispatchedRow
  <2>4. Completed(events[e]).identity = events[e].identity
    BY <2>1, CompletedRow
  <2>5. PICK p \in Runs :
           /\ run[p].response[e] \in Identities /\ run[p].obs \in Nat
           /\ events'[e] = Observed(events[e], run[p].response[e], run[p].obs)
    BY <1>1, <2>2, <2>3, <2>4, RowWriters
  <2> QED
    BY <1>1, <2>1, <2>5, ObservedIsNewer
<1>2. TypeOK /\ [Next]_vars =>
         [\A e \in Events :
             events[e].rev > 0 /\ events'[e].identity # events[e].identity
                => events'[e].seen > events[e].seen]_vars
  BY <1>1
<1> QED
  BY <1>2, TypeInvariance, PTL DEF Spec, NoRepaintByOlderObservation

\* Every omission counted is a provider answer later than the last one counted.
THEOREM OmissionsDistinct == Spec => OmissionsAreDistinctAnswers
<1>1. ASSUME TypeOK, [Next]_vars, NEW e \in Events,
             events'[e].omissions > events[e].omissions
      PROVE  /\ events'[e].omissions = events[e].omissions + 1
             /\ events'[e].success > events[e].success
  <2>1. events[e] \in Row /\ (events[e].rev = 0 <=> events[e].identity = NoIdentity)
    BY <1>1 DEF TypeOK
  <2>2. events[e].omissions \in Nat
    BY <2>1 DEF Row
  <2>3. ASSUME NEW identity \in Identities, NEW at \in Nat
        PROVE  ~(Observed(events[e], identity, at).omissions > events[e].omissions)
    <3>1. Stored(events[e], identity, at).omissions = 0
      BY <2>1, StoredRow
    <3> QED
      BY <2>2, <3>1 DEF Observed
  <2>4. ASSUME NEW entry \in Entry
        PROVE  MarkDispatched(events[e], entry).omissions = events[e].omissions
    BY <2>1, MarkDispatchedRow
  <2>5. Completed(events[e]).omissions = events[e].omissions
    BY <2>1, CompletedRow
  <2>6. PICK p \in Runs :
           /\ run[p].toOmit[e] \in Nat /\ run[p].obs \in Nat
           /\ events'[e] = Omitted(events[e], run[p].toOmit[e], run[p].obs)
    BY <1>1, <2>2, <2>3, <2>4, <2>5, RowWriters
  <2> DEFINE new == Omitted(events[e], run[p].toOmit[e], run[p].obs)
  <2>7. new.omissions > events[e].omissions =>
           /\ new.omissions = events[e].omissions + 1
           /\ new.success > events[e].success
    BY <2>1, <2>6, OmittedRow
  <2> HIDE DEF new
  <2>8. events'[e] = new
    BY <2>6 DEF new
  <2> QED
    BY <1>1, <2>7, <2>8
<1>2. TypeOK /\ [Next]_vars =>
         [\A e \in Events :
             events'[e].omissions > events[e].omissions
                => /\ events'[e].omissions = events[e].omissions + 1
                   /\ events'[e].success > events[e].success]_vars
  BY <1>1
<1> QED
  BY <1>2, TypeInvariance, PTL DEF Spec, OmissionsAreDistinctAnswers

\* A dispatch stamp is always of the present schedule revision.
THEOREM StampsAreFresh == Spec => []StampMatchesRevision
<1>1. Init => StampMatchesRevision
  BY DEF Init, StampMatchesRevision, AbsentRow
<1>2. ASSUME TypeOK, StampMatchesRevision, [Next]_vars, NEW e \in Events
      PROVE  events'[e].stamped \in {0, events'[e].rev}
  <2>1. /\ events[e] \in Row /\ (events[e].rev = 0 <=> events[e].identity = NoIdentity)
        /\ events[e].stamped \in {0, events[e].rev}
    BY <1>2 DEF TypeOK, StampMatchesRevision
  <2>2. ASSUME NEW identity \in Identities, NEW at \in Nat
        PROVE  Observed(events[e], identity, at).stamped
                  \in {0, Observed(events[e], identity, at).rev}
    <3>1. Stored(events[e], identity, at).stamped
             \in {0, Stored(events[e], identity, at).rev}
      BY <2>1, StoredRow
    <3> QED
      BY <2>1, <3>1 DEF Observed
  <2>3. ASSUME NEW rev \in Nat, NEW at \in Nat
        PROVE  Omitted(events[e], rev, at).stamped
                  \in {0, Omitted(events[e], rev, at).rev}
    <3>1. /\ Omitted(events[e], rev, at).stamped = events[e].stamped
          /\ Omitted(events[e], rev, at).rev = events[e].rev
      BY <2>1, OmittedRow
    <3> QED
      BY <2>1, <3>1
  <2>4. ASSUME NEW entry \in Entry
        PROVE  MarkDispatched(events[e], entry).stamped
                  \in {0, MarkDispatched(events[e], entry).rev}
    <3>1. /\ MarkDispatched(events[e], entry).stamped \in {0, events[e].rev}
          /\ MarkDispatched(events[e], entry).rev = events[e].rev
      BY <2>1, MarkDispatchedRow
    <3> QED
      BY <3>1
  <2>5. Completed(events[e]).stamped \in {0, Completed(events[e]).rev}
    <3>1. /\ Completed(events[e]).stamped = events[e].stamped
          /\ Completed(events[e]).rev = events[e].rev
      BY <2>1, CompletedRow
    <3> QED
      BY <2>1, <3>1
  <2> QED
    BY <1>2, <2>1, <2>2, <2>3, <2>4, <2>5, RowWriters
<1>3. TypeOK /\ StampMatchesRevision /\ [Next]_vars => StampMatchesRevision'
  BY <1>2 DEF StampMatchesRevision
<1> QED
  BY <1>1, <1>3, TypeInvariance, PTL DEF Spec

\* A run that has read for its finish has nothing left to do, and a COMPLETED
\* authority names a run.
Finishing ==
    /\ \A p \in Runs : run[p].pc = "finish" => run[p].todo = {}
    /\ authority.state = "COMPLETED" => authority.gen \in Runs

\* A COMPLETED generation is whole, and what makes it so.
WholeInv == Finishing /\ CompletedGenerationIsWhole

\* Every step of an inventory run keeps a COMPLETED generation whole.
LEMMA WholeRunStep ==
    ASSUME TypeOK, WholeInv, NEW p \in Runs, RunStep(p)
    PROVE  WholeInv'
<1>a. run \in [Runs -> Run] /\ authority \in Authority /\ run[p] \in RunRecord
  BY DEF TypeOK, Run
<1>b. IdleRun.todo = {} /\ IdleRun.pc = "idle"
  BY DEF IdleRun
<1>c. ASSUME UNCHANGED authority, \A q \in Runs \ {p} : run'[q] = run[q],
             run[p].pc # "done", run'[p].pc = "finish" => run'[p].todo = {}
      PROVE  WholeInv'
  <2>1. authority.state = "COMPLETED" => authority.gen \in Runs \ {p}
    BY <1>c DEF WholeInv, Finishing, CompletedGenerationIsWhole
  <2> QED
    BY <1>c, <2>1 DEF WholeInv, Finishing, CompletedGenerationIsWhole
<1>1. CASE FinishWrite(p)
  <2> DEFINE r == [IdleRun EXCEPT !.pc = "done", !.todo = run[p].todo,
                                  !.ok = run[p].ok]
  <2>1. r.pc = "done" /\ r.todo = run[p].todo /\ r.ok = run[p].ok
    BY DEF IdleRun
  <2>2. run' = [run EXCEPT ![p] = r]
    BY <1>1 DEF FinishWrite
  <2> HIDE DEF r
  <2>3. run'[p] = r /\ \A q \in Runs \ {p} : run'[q] = run[q]
    BY <1>a, <2>2
  <2>4. run[p].todo = {}
    BY <1>1 DEF FinishWrite, At, WholeInv, Finishing
  <2>5. authority'.gen = p /\ (authority'.state = "COMPLETED" => run[p].ok)
    BY <1>1, <1>a DEF FinishWrite, OwnsGeneration, Authority
  <2> QED
    BY <2>1, <2>3, <2>4, <2>5 DEF WholeInv, Finishing, CompletedGenerationIsWhole
<1>2. CASE BeginWrite(p)
  <2>1. authority'.state = "RUNNING"
    BY <1>2 DEF BeginWrite
  <2>2. /\ run'[p].pc = "refresh"
        /\ \A q \in Runs \ {p} : run'[q] = run[q]
    BY <1>2, <1>a DEF BeginWrite, RunRecord
  <2> QED
    BY <2>1, <2>2 DEF WholeInv, Finishing, CompletedGenerationIsWhole
<1>3. CASE FinishRead(p)
  <2>1. run'[p].pc = "finish" => run'[p].todo = {}
    <3>1. CASE OwnsGeneration(p)
      BY <1>3, <1>a, <3>1 DEF FinishRead, RunRecord
    <3>2. CASE ~OwnsGeneration(p)
      BY <1>3, <1>a, <1>b, <3>2 DEF FinishRead, IdleRun
    <3> QED
      BY <3>1, <3>2
  <2> QED
    BY <1>3, <1>a, <1>c, <2>1 DEF FinishRead, At
<1>4. CASE StartRun(p) \/ BeginRead(p) \/ BeginLost(p)
  <2>1. run'[p].pc \in {"begin", "deferred", "claim", "dead"}
    <3>1. StartRun(p) => run'[p].pc = "begin"
      BY <1>a DEF StartRun, RunRecord
    <3>2. BeginRead(p) => run'[p].pc \in {"deferred", "claim"}
      BY <1>a DEF BeginRead, RunRecord, IdleRun
    <3>3. BeginLost(p) => run'[p].pc \in {"begin", "dead"}
      BY <1>a DEF BeginLost, RunRecord
    <3> QED
      BY <1>4, <3>1, <3>2, <3>3
  <2> QED
    BY <1>4, <1>a, <1>c, <2>1 DEF StartRun, BeginRead, BeginLost, At
<1>5. ASSUME NEW s \in Sports, DiscoverSport(p, s)
      PROVE  WholeInv'
  <2>1. run'[p].pc = "store" /\ \A q \in Runs \ {p} : run'[q] = run[q]
    BY <1>5, <1>a DEF DiscoverSport, Answered, RunRecord
  <2> QED
    BY <1>5, <1>c, <2>1 DEF DiscoverSport, At
<1>6. ASSUME NEW e \in Events, PutEvent(p, e) \/ OmitEvent(p, e)
      PROVE  WholeInv'
  <2>1. run'[p].pc = run[p].pc
    BY <1>6, <1>a DEF PutEvent, OmitEvent, AfterPut, AfterOmit, RunRecord
  <2> QED
    BY <1>6, <1>a, <1>c, <2>1 DEF PutEvent, OmitEvent, At
<1>7. CASE QueryOmissions(p)
  <2>1. run'[p].pc = "omit" /\ \A q \in Runs \ {p} : run'[q] = run[q]
    BY <1>7, <1>a DEF QueryOmissions, RunRecord
  <2> QED
    BY <1>7, <1>c, <2>1 DEF QueryOmissions, At
<1>8. CASE SportDone(p) \/ SportFails(p) \/ HandlerFails(p) \/ FinishLost(p)
  <2>1. run'[p].pc = "refresh"
    <3>1. SportDone(p) => run'[p].pc = "refresh"
      BY <1>a DEF SportDone, AfterSport, IdleRun
    <3>2. SportFails(p) => run'[p].pc = "refresh"
      BY <1>a DEF SportFails, AfterSport, IdleRun
    <3>3. HandlerFails(p) => run'[p].pc = "refresh"
      BY <1>a DEF HandlerFails, At, RunRecord
    <3>4. FinishLost(p) => run'[p].pc = "refresh"
      BY <1>a DEF FinishLost, RunRecord
    <3> QED
      BY <1>8, <3>1, <3>2, <3>3, <3>4
  <2> QED
    BY <1>8, <1>a, <1>c, <2>1
       DEF SportDone, SportFails, HandlerFails, FinishLost, At
<1>9. CASE Crash(p)
  <2>1. run'[p].pc = "dead"
    BY <1>9, <1>a DEF Crash, IdleRun
  <2> QED
    BY <1>9, <1>a, <1>c, <2>1 DEF Crash, Holding
<1> QED
  BY <1>1, <1>2, <1>3, <1>4, <1>5, <1>6, <1>7, <1>8, <1>9 DEF RunStep

\* A COMPLETED authority names a run that refreshed every competition itself
\* and without a failure, whatever happened to the leases.
THEOREM GenerationsAreWhole == Spec => []CompletedGenerationIsWhole
<1>1. Init => WholeInv
  BY DEF Init, WholeInv, Finishing, CompletedGenerationIsWhole,
         MissingAuthority, IdleRun
<1>2. ASSUME TypeOK, WholeInv, [Next]_vars
      PROVE  WholeInv'
  <2>1. CASE UNCHANGED <<authority, run>>
    BY <1>2, <2>1 DEF WholeInv, Finishing, CompletedGenerationIsWhole
  <2>2. \/ UNCHANGED <<authority, run>>
        \/ \E p \in Runs : RunStep(p)
    BY <1>2 DEF Next, DispatchStep, DispatchRead, ScanRow, ScanDone,
        PublishManifest, StaleDispatch, StampDispatched, MarkCompleted, Tick,
        vars
  <2> QED
    BY <1>2, <2>1, <2>2, WholeRunStep
<1>3. WholeInv => CompletedGenerationIsWhole
  BY DEF WholeInv
<1> QED
  BY <1>1, <1>2, <1>3, TypeInvariance, PTL DEF Spec
===========================================================================
