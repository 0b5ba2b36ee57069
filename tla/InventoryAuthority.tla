------------------------ MODULE InventoryAuthority ------------------------
(***************************************************************************)
(* The fixture inventory of soccer_auto and the dispatcher that reads it.  *)
(*                                                                         *)
(* inventory_handler runs every 15 minutes as a Lambda that may crash or   *)
(* be killed by its timeout at any step.  It takes a reclaimable lease on  *)
(* one DynamoDB row (the authority), rewrites the Events table sport by    *)
(* sport, and publishes the generation as COMPLETED or FAILED.  The        *)
(* one-minute dispatcher scans the Events table page by page, reads the    *)
(* authority before and after, and binds what it saw into a manifest that  *)
(* the API and the analyst trust as long as the binding is still current.  *)
(* Settlement marks events completed without any lease.                    *)
(*                                                                         *)
(* Every read and every conditional write of the authority is one step, so *)
(* a lease may expire and another run may act between any two of them.     *)
(* put_event is one step: its loop retries until no writer came between    *)
(* its read and its write (every writer of a row bumps metadata_revision,  *)
(* which the write's condition compares).  Times are abstract seconds.     *)
(***************************************************************************)
EXTENDS Naturals

CONSTANTS
    Runs,            \* inventory invocations; each is its own generation_id
    Dispatches,      \* concurrent dispatcher invocations
    Events,          \* event keys
    Identities,      \* schedule identities: kickoff and teams, as one digest
    Sports,          \* active competitions
    EventsOf,        \* the events of each competition
    LeaseSeconds,    \* EVENT_INVENTORY_LEASE_SECONDS
    FunctionTimeout, \* the Lambda Timeout of the inventory function
    MaxAge,          \* EVENT_INVENTORY_AUTHORITY_MAX_AGE_SECONDS
    FutureSkew,      \* how far completed_at may lie after the reader's clock
    OmissionLimit,   \* consecutive omissions that retire a fixture
    MaxTime,         \* bound on the clock
    NoRun, NoIdentity, NoSport

ASSUME EventsOfAssumption == EventsOf \in [Sports -> SUBSET Events]
ASSUME TimesAssumption ==
    /\ LeaseSeconds \in Nat /\ FunctionTimeout \in Nat /\ MaxAge \in Nat
    /\ FutureSkew \in Nat /\ OmissionLimit \in Nat /\ MaxTime \in Nat
ASSUME NoneAssumption ==
    NoRun \notin Runs /\ NoIdentity \notin Identities /\ NoSport \notin Sports

VARIABLES
    now,        \* the wall clock the Lambdas share
    authority,  \* the EVENT_INVENTORY_AUTHORITY / LATEST row
    events,     \* the Events table; rev = 0 is an absent row
    run,        \* the inventory invocations
    dispatch,   \* the dispatcher invocations
    manifest    \* the COVERAGE_DISPATCH_MANIFEST / LATEST row

vars == <<now, authority, events, run, dispatch, manifest>>

MissingAuthority == [state |-> "MISSING", rev |-> 0, gen |-> NoRun,
                     completedAt |-> 0, lease |-> 0]

\* seen, success, omissions, stamped: last_seen_at, last_inventory_success_at,
\* inventory_omission_count, and the revision last_dispatched_at stands for
\* (0: no last_dispatched_at).
AbsentRow == [identity |-> NoIdentity, rev |-> 0, seen |-> 0, success |-> 0,
              omissions |-> 0, stamped |-> 0, completed |-> FALSE]

\* started and obs are the clocks a run read first and last; readRev is the
\* authority_revision it read before a conditional write; response, toStore
\* and toOmit are the provider's answer for sport, its events not stored yet,
\* and the revisions of the events the index listed and the answer lacked.
IdleRun == [pc |-> "idle", started |-> 0, readRev |-> 0, todo |-> {},
            sport |-> NoSport, obs |-> 0,
            response |-> [e \in Events |-> NoIdentity], toStore |-> {},
            toOmit |-> [e \in Events |-> 0], ok |-> FALSE]

NoEntry == [identity |-> NoIdentity, rev |-> 0]
NoBinding == [gen |-> NoRun, rev |-> 0, completedAt |-> 0, valid |-> FALSE]

\* left holds the rows a dispatch has still to read, and later to stamp.
IdleDispatch == [pc |-> "idle", obs |-> 0, before |-> MissingAuthority,
                 left |-> {}, rows |-> [e \in Events |-> NoEntry],
                 bind |-> NoBinding]

Init ==
    /\ now = 1
    /\ authority = MissingAuthority
    /\ events = [e \in Events |-> AbsentRow]
    /\ run = [p \in Runs |-> IdleRun]
    /\ dispatch = [d \in Dispatches |-> IdleDispatch]
    /\ manifest = [obs |-> 0, bind |-> NoBinding,
                   rows |-> [e \in Events |-> NoEntry]]

(***************************************************************************)
(* An inventory run.                                                       *)
(***************************************************************************)

\* The states in which a run believes it owns the current generation.
Holding == {"refresh", "store", "omit", "finish"}

\* AWS kills an invocation FunctionTimeout seconds after it started.
Alive(p) == now <= run[p].started + FunctionTimeout

At(p, place) == run[p].pc = place /\ Alive(p)

StartRun(p) ==
    /\ run[p].pc = "idle"
    /\ run' = [run EXCEPT ![p] = [@ EXCEPT !.pc = "begin", !.started = now]]
    /\ UNCHANGED <<now, authority, events, dispatch, manifest>>

\* A plausible bug: the lease length is added once more by the reader.
LeaseHeld_Ignored(at) == authority.state = "RUNNING" /\ authority.lease > at + LeaseSeconds

\* A RUNNING generation whose lease the clock has not reached defers a run.
LeaseHeld(at) == authority.state = "RUNNING" /\ authority.lease > at

BeginRead(p) ==
    /\ At(p, "begin")
    /\ run' = [run EXCEPT ![p] =
          IF LeaseHeld(run[p].started)
          THEN [IdleRun EXCEPT !.pc = "deferred"]
          ELSE [@ EXCEPT !.pc = "claim", !.readRev = authority.rev]]
    /\ UNCHANGED <<now, authority, events, dispatch, manifest>>

BeginWrite(p) ==
    /\ At(p, "claim")
    /\ authority.rev = run[p].readRev
    /\ authority' = [state |-> "RUNNING", rev |-> authority.rev + 1, gen |-> p,
                     completedAt |-> 0,
                     lease |-> run[p].started + LeaseSeconds]
    /\ run' = [run EXCEPT ![p] =
          [@ EXCEPT !.pc = "refresh", !.todo = Sports, !.ok = TRUE]]
    /\ UNCHANGED <<now, events, dispatch, manifest>>

\* The conditional write lost: read again, or give up after eight attempts
\* (the count is abstracted to a choice).
BeginLost(p) ==
    /\ At(p, "claim")
    /\ authority.rev # run[p].readRev
    /\ \E place \in {"begin", "dead"} :
          run' = [run EXCEPT ![p] = [@ EXCEPT !.pc = place, !.readRev = 0]]
    /\ UNCHANGED <<now, authority, events, dispatch, manifest>>

\* The run's locals after client.events answered for s at the clock at.
Answered(r, s, answer, at) ==
    [r EXCEPT !.pc = "store", !.todo = @ \ {s}, !.sport = s, !.obs = at,
              !.toStore = {e \in Events : answer[e] # NoIdentity},
              !.response = answer]

\* client.events returned a list: any of the competition's fixtures, each with
\* any schedule.  The clock is read before the request.
DiscoverSport(p, s) ==
    /\ At(p, "refresh")
    /\ s \in run[p].todo
    /\ \E answer \in [Events -> Identities \cup {NoIdentity}] :
          /\ \A e \in Events \ EventsOf[s] : answer[e] = NoIdentity
          /\ run' = [run EXCEPT ![p] = Answered(@, s, answer, now)]
    /\ UNCHANGED <<now, authority, events, dispatch, manifest>>

\* A plausible bug: a repeated observation is recognised, an older one is not.
Superseded_Duplicate(row, at) == row.rev > 0 /\ row.seen = at

\* put_event returns early on an observation not newer than the row's own.
Superseded(row, at) == row.rev > 0 /\ row.seen >= at

\* A plausible bug: a new row starts at revision zero.
Stored_FromZero(row, identity, at) ==
    LET changed == row.rev > 0 /\ row.identity # identity
    IN  [row EXCEPT !.identity = identity, !.rev = IF changed THEN @ + 1 ELSE @,
                    !.seen = at, !.success = at, !.omissions = 0,
                    !.stamped = IF changed THEN 0 ELSE @]

\* The revision moves exactly when the identity does, and the dispatch stamp
\* does not survive a change of identity.
Stored(row, identity, at) ==
    LET changed == row.rev > 0 /\ row.identity # identity
    IN  [row EXCEPT !.identity = identity,
                    !.rev = IF row.rev = 0 \/ changed THEN @ + 1 ELSE @,
                    !.seen = at, !.success = at, !.omissions = 0,
                    !.stamped = IF changed THEN 0 ELSE @]

\* put_event as a whole.
Observed(row, identity, at) ==
    IF Superseded(row, at) THEN row ELSE Stored(row, identity, at)

AfterPut(r, e) == [r EXCEPT !.toStore = @ \ {e}]

PutEvent(p, e) ==
    /\ At(p, "store")
    /\ e \in run[p].toStore
    /\ events' = [events EXCEPT ![e] =
          Observed(@, run[p].response[e], run[p].obs)]
    /\ run' = [run EXCEPT ![p] = AfterPut(@, e)]
    /\ UNCHANGED <<now, authority, dispatch, manifest>>

\* record_event_inventory_omissions queries an eventually consistent index, so
\* it lists any subset of the stored events the response lacked.
QueryOmissions(p) ==
    /\ At(p, "store")
    /\ run[p].toStore = {}
    /\ \E listed \in SUBSET {e \in EventsOf[run[p].sport] :
             run[p].response[e] = NoIdentity /\ events[e].rev > 0} :
          run' = [run EXCEPT ![p] =
             [@ EXCEPT !.pc = "omit",
                       !.toOmit = [e \in Events |-> IF e \in listed
                                                    THEN events[e].rev ELSE 0]]]
    /\ UNCHANGED <<now, authority, events, dispatch, manifest>>

\* A plausible bug: the observation is not compared with the last success.
Omitted_Recounted(row, rev, at) ==
    IF row.rev = rev
    THEN [row EXCEPT !.omissions = @ + 1, !.success = at]
    ELSE row

\* One omission per event and observation, and only of the revision listed.
Omitted(row, rev, at) ==
    IF row.rev = rev /\ row.success < at
    THEN [row EXCEPT !.omissions = @ + 1, !.success = at]
    ELSE row

AfterOmit(r, e) == [r EXCEPT !.toOmit[e] = 0]

OmitEvent(p, e) ==
    /\ At(p, "omit")
    /\ run[p].toOmit[e] > 0
    /\ events' = [events EXCEPT ![e] = Omitted(@, run[p].toOmit[e], run[p].obs)]
    /\ run' = [run EXCEPT ![p] = AfterOmit(@, e)]
    /\ UNCHANGED <<now, authority, dispatch, manifest>>

\* The loop body of one competition ends and its locals go out of scope.
AfterSport(r, ok) ==
    [IdleRun EXCEPT !.pc = "refresh", !.started = r.started, !.todo = r.todo,
                    !.ok = ok]

SportDone(p) ==
    /\ At(p, "omit")
    /\ \A e \in Events : run[p].toOmit[e] = 0
    /\ run' = [run EXCEPT ![p] = AfterSport(@, @.ok)]
    /\ UNCHANGED <<now, authority, events, dispatch, manifest>>

\* The request, a store or an omission raised: the competition is a failure
\* and the loop goes on with the next one.
SportFails(p) ==
    /\ At(p, "store") \/ At(p, "omit")
    /\ run' = [run EXCEPT ![p] = AfterSport(@, FALSE)]
    /\ UNCHANGED <<now, authority, events, dispatch, manifest>>

\* The catalog or the registry read raised: no competition is refreshed and
\* the handler finishes its generation as a failure.
HandlerFails(p) ==
    /\ At(p, "refresh")
    /\ run[p].todo = Sports
    /\ run' = [run EXCEPT ![p] = [@ EXCEPT !.todo = {}, !.ok = FALSE]]
    /\ UNCHANGED <<now, authority, events, dispatch, manifest>>

\* A plausible bug: a run finishes whatever generation is RUNNING.
OwnsGeneration_Any(p) == authority.state = "RUNNING" /\ p \in Runs

OwnsGeneration(p) == authority.state = "RUNNING" /\ authority.gen = p

FinishRead(p) ==
    /\ At(p, "refresh")
    /\ run[p].todo = {}
    /\ run' = [run EXCEPT ![p] =
          IF OwnsGeneration(p)
          THEN [@ EXCEPT !.pc = "finish", !.obs = now, !.readRev = authority.rev]
          ELSE [IdleRun EXCEPT !.pc = "lost"]]
    /\ UNCHANGED <<now, authority, events, dispatch, manifest>>

FinishWrite(p) ==
    /\ At(p, "finish")
    /\ authority.rev = run[p].readRev /\ OwnsGeneration(p)
    /\ authority' = [authority EXCEPT
          !.state = IF run[p].ok THEN "COMPLETED" ELSE "FAILED",
          !.rev = @ + 1, !.completedAt = run[p].obs, !.lease = 0]
    /\ run' = [run EXCEPT ![p] = [IdleRun EXCEPT
          !.pc = "done", !.todo = run[p].todo, !.ok = run[p].ok]]
    /\ UNCHANGED <<now, events, dispatch, manifest>>

\* The conditional write lost; the next read finds another generation.
FinishLost(p) ==
    /\ At(p, "finish")
    /\ ~(authority.rev = run[p].readRev /\ OwnsGeneration(p))
    /\ run' = [run EXCEPT ![p] = [@ EXCEPT !.pc = "refresh"]]
    /\ UNCHANGED <<now, authority, events, dispatch, manifest>>

\* A crash, or the Lambda timeout: the run takes no further step and what it
\* had in memory is gone.
Crash(p) ==
    /\ run[p].pc \in {"begin", "claim"} \cup Holding
    /\ run' = [run EXCEPT ![p] = [IdleRun EXCEPT !.pc = "dead"]]
    /\ UNCHANGED <<now, authority, events, dispatch, manifest>>

(***************************************************************************)
(* A dispatcher run.  It may stop at any step.                             *)
(***************************************************************************)

\* What a dispatch keeps of a row: an entry for an event that is neither
\* completed nor retired by OmissionLimit omissions.
View(row) ==
    IF row.rev > 0 /\ ~row.completed /\ row.omissions < OmissionLimit
    THEN [identity |-> row.identity, rev |-> row.rev]
    ELSE NoEntry

\* The next tick of the schedule, or a retry of the same one.
DispatchRead(d) ==
    /\ dispatch[d].pc \in {"idle", "stamp", "done"} /\ dispatch[d].left = {}
    /\ dispatch' = [dispatch EXCEPT ![d] =
          [IdleDispatch EXCEPT !.pc = "scan", !.obs = now, !.before = authority,
                    !.left = Events]]
    /\ UNCHANGED <<now, authority, events, run, manifest>>

Scanned(r, e, entry) == [r EXCEPT !.left = @ \ {e}, !.rows[e] = entry]

\* One page of the strongly consistent scan; a page is one row here.
ScanRow(d, e) ==
    /\ dispatch[d].pc = "scan"
    /\ e \in dispatch[d].left
    /\ dispatch' = [dispatch EXCEPT ![d] = Scanned(@, e, View(events[e]))]
    /\ UNCHANGED <<now, authority, events, run, manifest>>

\* A plausible bug: only the authority read after the scan is looked at.
BindingOf_AfterOnly(first, last, at) ==
    [gen |-> last.gen, rev |-> last.rev, completedAt |-> last.completedAt,
     valid |-> /\ last.state = "COMPLETED"
               /\ last.completedAt <= at + FutureSkew
               /\ at <= last.completedAt + MaxAge]

\* The binding is valid when one completed, fresh generation frames the scan.
BindingOf(first, last, at) ==
    [gen |-> last.gen, rev |-> last.rev, completedAt |-> last.completedAt,
     valid |-> /\ first.gen = last.gen
               /\ first.rev = last.rev
               /\ first.completedAt = last.completedAt
               /\ last.state = "COMPLETED"
               /\ last.completedAt <= at + FutureSkew
               /\ at <= last.completedAt + MaxAge]

ScanDone(d) ==
    /\ dispatch[d].pc = "scan"
    /\ dispatch[d].left = {}
    /\ dispatch' = [dispatch EXCEPT ![d] =
          [@ EXCEPT !.pc = "publish",
                    !.bind = BindingOf(dispatch[d].before, authority, dispatch[d].obs)]]
    /\ UNCHANGED <<now, authority, events, run, manifest>>

\* Only a newer dispatch replaces the manifest; work is dispatched only under
\* a valid binding, for the entries the cadence makes due (any of them).
PublishManifest(d) ==
    /\ dispatch[d].pc = "publish"
    /\ manifest.obs < dispatch[d].obs
    /\ manifest' = [obs |-> dispatch[d].obs, bind |-> dispatch[d].bind,
                    rows |-> dispatch[d].rows]
    /\ \E due \in SUBSET {e \in Events : dispatch[d].rows[e] # NoEntry} :
          dispatch' = [dispatch EXCEPT ![d] =
             [@ EXCEPT !.pc = "stamp",
                       !.left = IF dispatch[d].bind.valid THEN due ELSE {}]]
    /\ UNCHANGED <<now, authority, events, run>>

StaleDispatch(d) ==
    /\ dispatch[d].pc = "publish"
    /\ manifest.obs >= dispatch[d].obs
    /\ dispatch' = [dispatch EXCEPT ![d] = [@ EXCEPT !.pc = "done"]]
    /\ UNCHANGED <<now, authority, events, run, manifest>>

Stamped(r, e) == [r EXCEPT !.left = @ \ {e}]

\* A plausible bug: mark_dispatched without its condition on the schedule.
MarkDispatched_Unconditional(row, entry) == [row EXCEPT !.stamped = entry.rev]

\* mark_dispatched: conditional on the revision and identity that were scanned.
MarkDispatched(row, entry) ==
    IF row.rev = entry.rev /\ row.identity = entry.identity
    THEN [row EXCEPT !.stamped = entry.rev]
    ELSE row

StampDispatched(d, e) ==
    /\ dispatch[d].pc = "stamp"
    /\ e \in dispatch[d].left
    /\ events' = [events EXCEPT ![e] = MarkDispatched(@, dispatch[d].rows[e])]
    /\ dispatch' = [dispatch EXCEPT ![d] = Stamped(@, e)]
    /\ UNCHANGED <<now, authority, run, manifest>>

(***************************************************************************)
(* The environment.                                                        *)
(***************************************************************************)

Completed(row) == [row EXCEPT !.completed = TRUE]

\* settlement's mark_completed: unconditional and under no lease.
MarkCompleted(e) ==
    /\ events[e].rev > 0
    /\ events' = [events EXCEPT ![e] = Completed(@)]
    /\ UNCHANGED <<now, authority, run, dispatch, manifest>>

Tick ==
    /\ now < MaxTime
    /\ now' = now + 1
    /\ UNCHANGED <<authority, events, run, dispatch, manifest>>

RunStep(p) ==
    \/ StartRun(p) \/ BeginRead(p) \/ BeginWrite(p) \/ BeginLost(p)
    \/ \E s \in Sports : DiscoverSport(p, s)
    \/ \E e \in Events : PutEvent(p, e) \/ OmitEvent(p, e)
    \/ QueryOmissions(p) \/ SportDone(p) \/ SportFails(p) \/ HandlerFails(p)
    \/ FinishRead(p) \/ FinishWrite(p) \/ FinishLost(p) \/ Crash(p)

DispatchStep(d) ==
    \/ DispatchRead(d) \/ ScanDone(d) \/ PublishManifest(d) \/ StaleDispatch(d)
    \/ \E e \in Events : ScanRow(d, e) \/ StampDispatched(d, e)

Next ==
    \/ \E p \in Runs : RunStep(p)
    \/ \E d \in Dispatches : DispatchStep(d)
    \/ \E e \in Events : MarkCompleted(e)
    \/ Tick

Spec == Init /\ [][Next]_vars

(***************************************************************************)
(* Properties.                                                             *)
(***************************************************************************)

Row == [identity : Identities \cup {NoIdentity}, rev : Nat, seen : Nat,
        success : Nat, omissions : Nat, stamped : Nat, completed : BOOLEAN]
Entry == [identity : Identities \cup {NoIdentity}, rev : Nat]
Authority == [state : {"MISSING", "RUNNING", "COMPLETED", "FAILED"},
              rev : Nat, gen : Runs \cup {NoRun}, completedAt : Nat, lease : Nat]
Binding == [gen : Runs \cup {NoRun}, rev : Nat, completedAt : Nat,
            valid : BOOLEAN]
RunRecord ==
    [pc : {"idle", "begin", "claim", "deferred", "done", "lost", "dead"}
          \cup Holding,
     started : Nat, readRev : Nat, todo : SUBSET Sports,
     sport : Sports \cup {NoSport}, obs : Nat,
     response : [Events -> Identities \cup {NoIdentity}],
     toStore : SUBSET Events, toOmit : [Events -> Nat], ok : BOOLEAN]
Run == {r \in RunRecord : \A e \in r.toStore : r.response[e] \in Identities}
Dispatch == [pc : {"idle", "scan", "publish", "stamp", "done"}, obs : Nat,
             before : Authority, left : SUBSET Events,
             rows : [Events -> Entry], bind : Binding]

\* Every variable has its type, a stored row has both an identity and a
\* positive revision (the form every reader of the Events table relies on),
\* and a run stores only events the provider listed.
TypeOK ==
    /\ now \in Nat
    /\ authority \in Authority
    /\ events \in [Events -> Row]
    /\ run \in [Runs -> Run]
    /\ dispatch \in [Dispatches -> Dispatch]
    /\ manifest \in [obs : Nat, bind : Binding, rows : [Events -> Entry]]
    /\ \A e \in Events : events[e].rev = 0 <=> events[e].identity = NoIdentity

\* Every run that can still write the schedule owns the RUNNING generation:
\* the lease outlives the Lambda that holds it, so a reclaiming run never
\* meets a live predecessor (docs/SOCCER_AUTO.md, "Fixture and competition
\* mutations occur inside one reclaimable inventory generation lease").
MutatorsAreFenced ==
    \A p \in Runs : run[p].pc \in Holding /\ Alive(p) => OwnsGeneration(p)

Reopened(row) == [row EXCEPT !.completed = FALSE]

\* What a manifest row may say of an event: its present schedule, or, when
\* settlement completed it since, the schedule it had.
Agrees(entry, row) ==
    \/ entry = View(row)
    \/ row.completed /\ entry = View(Reopened(row))

\* The condition under which the API treats the manifest as authoritative.
ManifestAuthoritative ==
    /\ manifest.bind.valid
    /\ authority.state = "COMPLETED"
    /\ authority.gen = manifest.bind.gen
    /\ authority.rev = manifest.bind.rev
    /\ authority.completedAt = manifest.bind.completedAt
    /\ now <= manifest.bind.completedAt + MaxAge

\* A manifest the API accepts describes the Events table exactly, although the
\* scan that built it was not atomic and the manifest is written after it.
AuthoritativeManifestMatchesSchedule ==
    ManifestAuthoritative =>
        \A e \in Events : Agrees(manifest.rows[e], events[e])

\* A COMPLETED authority names a run that itself refreshed every competition
\* without a failure, even when leases expire under slow runs.
CompletedGenerationIsWhole ==
    authority.state = "COMPLETED" =>
        /\ run[authority.gen].pc = "done"
        /\ run[authority.gen].ok
        /\ run[authority.gen].todo = {}

\* A dispatch stamp always belongs to the current schedule revision: a
\* dispatcher that scanned the old schedule cannot make the new one look
\* dispatched, which would delay its first collection by a cadence.
StampMatchesRevision ==
    \A e \in Events : events[e].stamped \in {0, events[e].rev}

\* No step, not even of a run whose lease was taken over, replaces a schedule
\* by one observed earlier.
NoRepaintByOlderObservation ==
    [][\A e \in Events :
          events[e].rev > 0 /\ events'[e].identity # events[e].identity
             => events'[e].seen > events[e].seen]_vars

\* Each omission rests on a provider answer of its own, later than the last
\* answer counted for the event: overlapping runs cannot retire a fixture
\* with fewer than OmissionLimit answers that lacked it.
OmissionsAreDistinctAnswers ==
    [][\A e \in Events :
          events'[e].omissions > events[e].omissions
             => /\ events'[e].omissions = events[e].omissions + 1
                /\ events'[e].success > events[e].success]_vars

=============================================================================
