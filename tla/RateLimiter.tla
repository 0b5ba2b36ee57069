------------------------------ MODULE RateLimiter ------------------------------
(***************************************************************************)
(* The distributed request limiter of the soccer Odds API client.          *)
(*                                                                         *)
(* Every Lambda that wants to call the provider first claims a slot: it    *)
(* reads its clock, reads the one row that holds next_allowed_ms, and      *)
(* either waits for that time or moves the row forward with an update      *)
(* conditioned on the value it read.  There is no owner and no release: a  *)
(* caller that loses the race starts over, until its deadline or its       *)
(* attempts run out and the request is refused.  OddsApiClient.get calls   *)
(* the provider with the slot and claims a new one for each retry.         *)
(*                                                                         *)
(* A step is one access to the clock, the row or the provider, so other    *)
(* callers and the clock move between any two.  Clocks may be apart by a   *)
(* constant Skew; times are multiples of an abstract unit.                 *)
(***************************************************************************)
EXTENDS Naturals

CONSTANTS
    Callers,        \* concurrent OddsApiClient.get calls
    Skew,           \* how far each caller's clock is ahead
    Spacing,        \* minimum_spacing_ms
    MaxWait,        \* max_wait_ms
    MaxContention,  \* max_contention_attempts
    MaxAttempts,    \* the client's max_attempts, the retries included
    MaxFaults,      \* bound on the failures of the lease table
    MaxTime         \* bound on the clock

ASSUME SkewAssumption == Skew \in [Callers -> Nat]
ASSUME LimitsAssumption ==
    /\ Spacing \in Nat \ {0} /\ MaxWait \in Nat /\ MaxContention \in Nat \ {0}
    /\ MaxAttempts \in Nat \ {0} /\ MaxFaults \in Nat /\ MaxTime \in Nat

VARIABLES
    now,      \* real time
    next,     \* the row's next_allowed_ms; 0 is a row that does not exist
    caller,   \* the callers
    calls,    \* history: the provider requests made, with the slot of each
    grants,   \* history: the number of slots granted
    faults    \* the failures of the lease table so far

vars == <<now, next, caller, calls, grants, faults>>

Attempts == 1..MaxAttempts

\* attempt counts provider requests, tries the passes of one acquire; expected
\* is the next_allowed_ms a caller read, error its last error (a failed
\* condition or a failed table), and base the grants made before it started.
NewCaller == [pc |-> "idle", attempt |-> 1, tries |-> 0, started |-> 0,
              observed |-> 0, expected |-> 0, slot |-> 0,
              error |-> "none", base |-> 0]

NoCall == [slot |-> 0, made |-> FALSE]

Init ==
    /\ now = 1
    /\ next = 0
    /\ caller = [c \in Callers |-> NewCaller]
    /\ calls = [c \in Callers |-> [a \in Attempts |-> NoCall]]
    /\ grants = 0
    /\ faults = 0

(***************************************************************************)
(* acquire                                                                 *)
(***************************************************************************)

ClockOf(c) == now + Skew[c]

Deadline(c) == caller[c].started + MaxWait

\* A caller starts only if its whole wait lies before the bound on time.
StartAcquire(c) ==
    /\ caller[c].pc = "idle"
    /\ now + MaxWait <= MaxTime
    /\ caller' = [caller EXCEPT ![c] =
          [@ EXCEPT !.pc = "loop", !.tries = 0, !.started = ClockOf(c),
                    !.error = "none", !.base = grants]]
    /\ UNCHANGED <<now, next, calls, grants, faults>>

\* A plausible bug: the clock is never compared with the deadline again.
MayTry_Forever(c) == caller[c].tries < MaxContention

\* The loop goes on while attempts remain and the clock is before the deadline.
MayTry(c) == caller[c].tries < MaxContention /\ ClockOf(c) <= Deadline(c)

\* How acquire ends without a slot.
Refusal(c) == IF caller[c].error = "condition" THEN "contention" ELSE "unavailable"

Observe(c) ==
    /\ caller[c].pc = "loop"
    /\ caller' = [caller EXCEPT ![c] =
          IF MayTry(c)
          THEN [@ EXCEPT !.pc = "read", !.observed = ClockOf(c)]
          ELSE [@ EXCEPT !.pc = Refusal(c)]]
    /\ UNCHANGED <<now, next, calls, grants, faults>>

\* A plausible bug: the update expects the clock that was read, not the row.
Expected_Clock(c) == caller[c].observed

Expected(c) == next

\* A consistent read: too late, not yet, or time to compete.
ReadRow(c) ==
    /\ caller[c].pc = "read"
    /\ caller' = [caller EXCEPT ![c] =
          IF next > Deadline(c) THEN [@ EXCEPT !.pc = "wait_exceeded"]
          ELSE IF next > caller[c].observed
          THEN [@ EXCEPT !.pc = "sleep", !.expected = next]
          ELSE [@ EXCEPT !.pc = "update", !.expected = Expected(c)]]
    /\ UNCHANGED <<now, next, calls, grants, faults>>

\* A plausible bug: the sleeper waits for the row to move.
Awake_RowMoved(c) == next # caller[c].expected

Awake(c) == ClockOf(c) >= caller[c].expected

\* The caller wakes at the boundary it saw, or later, and competes again.
Wake(c) ==
    /\ caller[c].pc = "sleep"
    /\ Awake(c)
    /\ caller' = [caller EXCEPT ![c] =
          [@ EXCEPT !.pc = "loop", !.tries = caller[c].tries + 1]]
    /\ UNCHANGED <<now, next, calls, grants, faults>>

\* A plausible bug: the update is not conditioned on the row that was read.
Unmoved_Ignored(c) == TRUE

\* The condition of the update: next_allowed_ms is still what was read.
Unmoved(c) == next = caller[c].expected

\* A plausible bug: the next slot is allowed from the one before, not this one.
NextAllowed_FromRow(c) == caller[c].expected + Spacing

NextAllowed(c) == caller[c].observed + Spacing

Grant(c) ==
    /\ caller[c].pc = "update"
    /\ Unmoved(c)
    /\ next' = NextAllowed(c)
    /\ grants' = grants + 1
    /\ caller' = [caller EXCEPT ![c] =
          [@ EXCEPT !.pc = "granted", !.slot = caller[c].observed]]
    /\ UNCHANGED <<now, calls, faults>>

\* A failed pass backs off and tries again, unless the deadline has come.
Backoff(c, error) ==
    caller' = [caller EXCEPT ![c] =
        [@ EXCEPT !.pc = IF ClockOf(c) < Deadline(c) THEN "loop"
                         ELSE IF error = "condition" THEN "contention"
                         ELSE "unavailable",
                  !.tries = caller[c].tries + 1, !.error = error]]

LoseRace(c) ==
    /\ caller[c].pc = "update"
    /\ ~Unmoved(c)
    /\ Backoff(c, "condition")
    /\ UNCHANGED <<now, next, calls, grants, faults>>

\* The table fails a read or an update.
TableFails(c) ==
    /\ caller[c].pc \in {"read", "update"}
    /\ faults < MaxFaults
    /\ faults' = faults + 1
    /\ Backoff(c, "table")
    /\ UNCHANGED <<now, next, calls, grants>>

\* The update was applied and its response lost: nobody owns the slot.
UpdateUnanswered(c) ==
    /\ caller[c].pc = "update"
    /\ Unmoved(c)
    /\ faults < MaxFaults
    /\ faults' = faults + 1
    /\ next' = NextAllowed(c)
    /\ Backoff(c, "table")
    /\ UNCHANGED <<now, calls, grants>>

(***************************************************************************)
(* OddsApiClient.get                                                       *)
(***************************************************************************)

\* A plausible bug: a retry keeps the slot of the request it repeats.
RetryFrom_SameSlot == "granted"

\* A retry is another request and claims a slot of its own.
RetryFrom == "idle"

\* A plausible bug: one attempt too many.
MayRetry_OffByOne(c) == caller[c].attempt <= MaxAttempts

MayRetry(c) == caller[c].attempt < MaxAttempts

\* The request goes out with the slot held.  It is answered, fails for good,
\* or is repeated while attempts remain.
CallProvider(c) ==
    /\ caller[c].pc = "granted"
    /\ calls' = [calls EXCEPT ![c] =
          [@ EXCEPT ![caller[c].attempt] = [slot |-> caller[c].slot, made |-> TRUE]]]
    /\ \/ caller' = [caller EXCEPT ![c] = [@ EXCEPT !.pc = "done"]]
       \/ /\ MayRetry(c)
          /\ caller' = [caller EXCEPT ![c] =
                [@ EXCEPT !.pc = RetryFrom, !.attempt = caller[c].attempt + 1]]
    /\ UNCHANGED <<now, next, grants, faults>>

Tick ==
    /\ now < MaxTime
    /\ now' = now + 1
    /\ UNCHANGED <<next, caller, calls, grants, faults>>

CallerStep(c) ==
    \/ StartAcquire(c) \/ Observe(c) \/ ReadRow(c) \/ Wake(c)
    \/ Grant(c) \/ LoseRace(c) \/ TableFails(c) \/ UpdateUnanswered(c)
    \/ CallProvider(c)

Next == Tick \/ \E c \in Callers : CallerStep(c)

Spec == Init /\ [][Next]_vars

\* A Lambda that runs takes its next step, and time passes.  Neither a failure
\* of the table nor a start is owed to anyone.
FairSpec ==
    /\ Spec
    /\ WF_vars(Tick)
    /\ \A c \in Callers :
          WF_vars(Observe(c) \/ ReadRow(c) \/ Wake(c) \/ Grant(c) \/ LoseRace(c)
                  \/ CallProvider(c))

(***************************************************************************)
(* Properties                                                              *)
(***************************************************************************)

Refusals == {"contention", "unavailable", "wait_exceeded"}

Places == {"idle", "loop", "read", "sleep", "update", "granted", "done"} \cup Refusals

Errors == {"none", "condition", "table"}

CallerType == [pc : Places, attempt : Attempts, tries : Nat, started : Nat,
               observed : Nat, expected : Nat, slot : Nat,
               error : Errors, base : Nat]

CallType == [slot : Nat, made : BOOLEAN]

\* Every variable keeps its type: places and attempts stay in range and no
\* clock reading or count of the limiter is ever negative.
TypeOK ==
    /\ now \in Nat /\ next \in Nat /\ grants \in Nat /\ faults \in Nat
    /\ caller \in [Callers -> CallerType]
    /\ calls \in [Callers -> [Attempts -> CallType]]

Requests == Callers \X Attempts

Made(r) == calls[r[1]][r[2]].made

SlotOf(r) == calls[r[1]][r[2]].slot

Apart(s, t) == s + Spacing <= t \/ t + Spacing <= s

\* Any two requests that reach the provider, retries included and from any two
\* processes, carry slots at least minimum_spacing_ms apart: the promise of
\* acquire's conditional update and of get's acquire before every attempt.
RequestsOwnSpacedSlots ==
    \A r, s \in Requests : r # s /\ Made(r) /\ Made(s) => Apart(SlotOf(r), SlotOf(s))

\* A slot lies inside the wait of the caller that holds it: acquire never hands
\* out a time before the caller asked or after its deadline.
SlotsAreTimely ==
    \A c \in Callers : caller[c].pc = "granted" =>
        caller[c].started <= caller[c].slot /\ caller[c].slot <= Deadline(c)

\* While the table works, a caller refused for contention was beaten: another
\* caller was granted a slot since it started (acquire is lock-free).
RefusalsMeanProgress ==
    \A c \in Callers :
        caller[c].pc = "contention" /\ faults = 0 => grants > caller[c].base

\* Every acquire that starts ends, with a slot or with a refusal.
AcquireEnds ==
    \A c \in Callers :
        caller[c].pc = "loop" ~> caller[c].pc \in {"granted"} \cup Refusals
================================================================================
