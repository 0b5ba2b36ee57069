--------------------------- MODULE RateLimiterProofs ---------------------------
(***************************************************************************)
(* Proofs about RateLimiter: the types, that no two provider requests      *)
(* carry slots closer than the spacing, that a slot lies in its caller's   *)
(* wait and that contention means progress, for any number of callers, any *)
(* clocks, any waits and any pattern of failures of the lease table.       *)
(***************************************************************************)
EXTENDS RateLimiter, TLAPS

(***************************************************************************)
(* Types.                                                                  *)
(***************************************************************************)

\* Every record and function of the initial state has its type.
LEMMA InitType == Init => TypeOK
<1> USE SkewAssumption, LimitsAssumption
<1>1. NewCaller \in CallerType
  BY DEF NewCaller, CallerType, Places, Refusals, Attempts, Errors
<1>2. NoCall \in CallType
  BY DEF NoCall, CallType
<1> QED
  BY <1>1, <1>2 DEF Init, TypeOK

\* A pass that fails leaves the caller in its type.
LEMMA BackoffType ==
  ASSUME TypeOK, NEW c \in Callers, NEW error \in Errors, Backoff(c, error)
  PROVE  caller' \in [Callers -> CallerType]
<1>1. caller[c] \in CallerType /\ caller[c].tries + 1 \in Nat
  BY DEF TypeOK, CallerType
<1> DEFINE more == caller[c].tries + 1
           place == IF ClockOf(c) < Deadline(c) THEN "loop"
                    ELSE IF error = "condition" THEN "contention"
                    ELSE "unavailable"
           new == [caller[c] EXCEPT !.pc = place, !.tries = more, !.error = error]
<1>2. place \in Places
  BY DEF Places, Refusals
<1> HIDE DEF place, more
<1>3. more \in Nat
  BY <1>1 DEF more
<1>4. new \in CallerType
  BY <1>1, <1>2, <1>3 DEF CallerType
<1>5. caller' = [caller EXCEPT ![c] = new]
  BY DEF Backoff, place, more
<1> HIDE DEF new
<1> QED
  BY <1>4, <1>5 DEF TypeOK

\* A step that rewrites one caller inside its type keeps caller in its type.
LEMMA OneCallerType ==
  ASSUME TypeOK, NEW c \in Callers, NEW new \in CallerType,
         caller' = [caller EXCEPT ![c] = new]
  PROVE  caller' \in [Callers -> CallerType]
  BY DEF TypeOK

\* Every step of a caller keeps every variable in its type.
LEMMA CallerStepType ==
  ASSUME TypeOK, NEW c \in Callers, CallerStep(c)
  PROVE  TypeOK'
<1> USE SkewAssumption, LimitsAssumption
<1>0. caller[c] \in CallerType /\ ClockOf(c) \in Nat
  BY DEF TypeOK, ClockOf
<1>1. CASE StartAcquire(c)
  <2> DEFINE new == [caller[c] EXCEPT !.pc = "loop", !.tries = 0,
                       !.started = ClockOf(c), !.error = "none", !.base = grants]
  <2>1. new \in CallerType
    BY <1>0 DEF CallerType, Places, TypeOK, Errors
  <2>2. caller' = [caller EXCEPT ![c] = new]
    BY <1>1 DEF StartAcquire
  <2> HIDE DEF new
  <2> QED
    BY <1>1, <2>1, <2>2, OneCallerType DEF StartAcquire, TypeOK
<1>2. CASE Observe(c)
  <2> DEFINE new == IF MayTry(c)
                    THEN [caller[c] EXCEPT !.pc = "read", !.observed = ClockOf(c)]
                    ELSE [caller[c] EXCEPT !.pc = Refusal(c)]
  <2>1. new \in CallerType
    BY <1>0 DEF CallerType, Places, Refusals, Refusal
  <2>2. caller' = [caller EXCEPT ![c] = new]
    BY <1>2 DEF Observe
  <2> HIDE DEF new
  <2> QED
    BY <1>2, <2>1, <2>2, OneCallerType DEF Observe, TypeOK
<1>3. CASE ReadRow(c)
  <2> DEFINE new == IF next > Deadline(c) THEN [caller[c] EXCEPT !.pc = "wait_exceeded"]
                    ELSE IF next > caller[c].observed
                    THEN [caller[c] EXCEPT !.pc = "sleep", !.expected = next]
                    ELSE [caller[c] EXCEPT !.pc = "update", !.expected = Expected(c)]
  <2>1. new \in CallerType
    BY <1>0 DEF CallerType, Places, Refusals, TypeOK, Expected
  <2>2. caller' = [caller EXCEPT ![c] = new]
    BY <1>3 DEF ReadRow
  <2> HIDE DEF new
  <2> QED
    BY <1>3, <2>1, <2>2, OneCallerType DEF ReadRow, TypeOK
<1>4. CASE Wake(c)
  <2> DEFINE more == caller[c].tries + 1
             new == [caller[c] EXCEPT !.pc = "loop", !.tries = more]
  <2>0. more \in Nat
    BY <1>0 DEF CallerType
  <2> HIDE DEF more
  <2>1. new \in CallerType
    BY <1>0, <2>0 DEF CallerType, Places
  <2>2. caller' = [caller EXCEPT ![c] = new]
    BY <1>4 DEF Wake, more
  <2> HIDE DEF new
  <2> QED
    BY <1>4, <2>1, <2>2, OneCallerType DEF Wake, TypeOK
<1>5. CASE Grant(c)
  <2> DEFINE new == [caller[c] EXCEPT !.pc = "granted", !.slot = caller[c].observed]
  <2>0. caller[c].observed \in Nat /\ NextAllowed(c) \in Nat
    BY <1>0 DEF CallerType, NextAllowed
  <2>1. new \in CallerType
    BY <1>0 DEF CallerType, Places
  <2>2. caller' = [caller EXCEPT ![c] = new]
    BY <1>5 DEF Grant
  <2> HIDE DEF new
  <2> QED
    BY <1>5, <2>0, <2>1, <2>2, OneCallerType DEF Grant, TypeOK
<1>6. CASE LoseRace(c)
  BY <1>6, BackoffType DEF LoseRace, TypeOK, Errors
<1>7. CASE TableFails(c)
  BY <1>7, BackoffType DEF TableFails, TypeOK, Errors
<1>8. CASE UpdateUnanswered(c)
  <2>1. NextAllowed(c) \in Nat
    BY <1>0 DEF CallerType, NextAllowed
  <2> QED
    BY <1>8, <2>1, BackoffType DEF UpdateUnanswered, TypeOK, Errors
<1>9. CASE CallProvider(c)
  <2> DEFINE a == caller[c].attempt
             call == [slot |-> caller[c].slot, made |-> TRUE]
  <2>1. a \in Attempts /\ call \in CallType
    BY <1>0 DEF CallerType, CallType, TypeOK
  <2>2. calls' = [calls EXCEPT ![c] = [@ EXCEPT ![a] = call]]
    BY <1>9 DEF CallProvider
  <2> HIDE DEF call, a
  <2>3. calls' \in [Callers -> [Attempts -> CallType]]
    BY <2>1, <2>2 DEF TypeOK
  <2> DEFINE done == [caller[c] EXCEPT !.pc = "done"]
             another == caller[c].attempt + 1
             retry == [caller[c] EXCEPT !.pc = RetryFrom, !.attempt = another]
  <2>4. done \in CallerType
    BY <1>0 DEF CallerType, Places
  <2>5. MayRetry(c) => another \in Attempts
    BY <1>0 DEF CallerType, MayRetry, Attempts
  <2> HIDE DEF another
  <2>6. MayRetry(c) => retry \in CallerType
    BY <1>0, <2>5 DEF CallerType, Places, RetryFrom
  <2>7. \/ caller' = [caller EXCEPT ![c] = done]
        \/ MayRetry(c) /\ caller' = [caller EXCEPT ![c] = retry]
    BY <1>9 DEF CallProvider, another
  <2> HIDE DEF done, retry
  <2>8. caller' \in [Callers -> CallerType]
    BY <2>4, <2>6, <2>7, OneCallerType
  <2> QED
    BY <1>9, <2>3, <2>8 DEF CallProvider, TypeOK
<1> QED
  BY <1>1, <1>2, <1>3, <1>4, <1>5, <1>6, <1>7, <1>8, <1>9 DEF CallerStep

\* Every step of the specification keeps every variable in its type.
LEMMA NextType == TypeOK /\ [Next]_vars => TypeOK'
<1> SUFFICES ASSUME TypeOK, [Next]_vars PROVE TypeOK'
  OBVIOUS
<1>1. CASE Tick
  BY <1>1 DEF Tick, TypeOK
<1>2. CASE \E c \in Callers : CallerStep(c)
  BY <1>2, CallerStepType
<1>3. CASE UNCHANGED vars
  BY <1>3 DEF vars, TypeOK
<1> QED
  BY <1>1, <1>2, <1>3 DEF Next

\* The limiter's variables keep their types in every behaviour.
THEOREM TypeInvariance == Spec => []TypeOK
  BY InitType, NextType, PTL DEF Spec

(***************************************************************************)
(* Spacing.  A slot in use is a slot of a request made or one a caller     *)
(* holds.  The row is always a full spacing past each of them, so a slot   *)
(* granted at or after the row is a full spacing past all.                 *)
(***************************************************************************)

Holds(r) == caller[r[1]].pc = "granted" /\ caller[r[1]].attempt = r[2]

InUse(r) == Made(r) \/ Holds(r)

SlotInUse(r) == IF Holds(r) THEN caller[r[1]].slot ELSE SlotOf(r)

\* The row lies a spacing past every slot in use.
RowIsAhead == \A r \in Requests : InUse(r) => SlotInUse(r) + Spacing <= next

\* Any two slots in use are a spacing apart.
SlotsApart ==
    \A r, s \in Requests :
        r # s /\ InUse(r) /\ InUse(s) => Apart(SlotInUse(r), SlotInUse(s))

\* A caller that competes read its clock at or after the row it expects, and a
\* caller that has requests left has not made them yet.
CallersInOrder ==
    \A c \in Callers :
        /\ caller[c].pc = "update" => caller[c].expected <= caller[c].observed
        /\ caller[c].pc # "done" =>
              \A a \in Attempts : a >= caller[c].attempt => calls[c][a] = NoCall

SpacingInv == TypeOK /\ RowIsAhead /\ SlotsApart /\ CallersInOrder

\* Initially no slot is in use.
LEMMA SpacingInit == Init => SpacingInv
<1> SUFFICES ASSUME Init PROVE SpacingInv
  OBVIOUS
<1>1. \A r \in Requests : ~InUse(r)
  BY DEF Init, Requests, InUse, Made, Holds, NewCaller, NoCall
<1>2. CallersInOrder
  BY DEF Init, CallersInOrder, NewCaller
<1> QED
  BY <1>1, <1>2, InitType DEF SpacingInv, RowIsAhead, SlotsApart

\* A step that puts no new slot in use and does not move the row back keeps
\* every slot a spacing from the others and behind the row.
LEMMA QuietStep ==
  ASSUME SpacingInv, TypeOK', next' >= next,
         \A r \in Requests : InUse(r)' => InUse(r) /\ SlotInUse(r)' = SlotInUse(r)
  PROVE  RowIsAhead' /\ SlotsApart'
<1> USE LimitsAssumption
<1>1. \A r \in Requests : SlotInUse(r) \in Nat
  BY DEF SpacingInv, TypeOK, SlotInUse, SlotOf, Requests, CallerType, CallType
<1>2. next \in Nat /\ next' \in Nat
  BY DEF SpacingInv, TypeOK
<1>3. RowIsAhead'
  BY <1>1, <1>2 DEF SpacingInv, RowIsAhead, Requests, Attempts
<1>4. SlotsApart'
  BY <1>1 DEF SpacingInv, SlotsApart, Apart, Requests, Attempts
<1> QED
  BY <1>3, <1>4
\* A caller that neither gains nor uses a slot, nor forgets its requests, keeps
\* the invariant; the row may move on meanwhile.
LEMMA MovedCaller ==
  ASSUME SpacingInv, TypeOK', NEW c \in Callers, NEW new,
         caller' = [caller EXCEPT ![c] = new], calls' = calls, next' >= next,
         new.attempt = caller[c].attempt,
         caller[c].pc # "granted", caller[c].pc # "done",
         new.pc # "granted",
         new.pc = "update" => new.expected <= new.observed
  PROVE  SpacingInv'
<1>1. \A d \in Callers : caller'[d] = IF d = c THEN new ELSE caller[d]
  BY DEF SpacingInv, TypeOK
<1>2. ASSUME NEW r \in Requests, InUse(r)'
      PROVE  InUse(r) /\ SlotInUse(r)' = SlotInUse(r)
  <2>1. r[1] \in Callers
    BY DEF Requests
  <2>2. Made(r)' = Made(r) /\ SlotOf(r)' = SlotOf(r)
    BY DEF Made, SlotOf
  <2>3. Holds(r)' = Holds(r) /\ (Holds(r) => caller'[r[1]].slot = caller[r[1]].slot)
    BY <1>1, <2>1 DEF Holds
  <2> QED
    BY <1>2, <2>2, <2>3 DEF InUse, SlotInUse
<1>3. RowIsAhead' /\ SlotsApart'
  BY <1>2, QuietStep
<1>4. CallersInOrder'
  BY <1>1 DEF SpacingInv, CallersInOrder
<1> QED
  BY <1>3, <1>4 DEF SpacingInv

\* A backoff keeps the invariant, wherever the row is meanwhile moved to.
LEMMA BackoffSpacing ==
  ASSUME SpacingInv, TypeOK', NEW c \in Callers, NEW error, Backoff(c, error),
         caller[c].pc \in {"read", "update"}, calls' = calls, next' >= next
  PROVE  SpacingInv'
<1> DEFINE place == IF ClockOf(c) < Deadline(c) THEN "loop"
                    ELSE IF error = "condition" THEN "contention"
                    ELSE "unavailable"
           more == caller[c].tries + 1
           new == [caller[c] EXCEPT !.pc = place, !.tries = more, !.error = error]
<1>1. caller[c] \in CallerType
  BY DEF SpacingInv, TypeOK
<1>2. place \notin {"granted", "update"}
  OBVIOUS
<1>3. caller' = [caller EXCEPT ![c] = new]
  BY DEF Backoff
<1> HIDE DEF place, more
<1>4. new.attempt = caller[c].attempt /\ new.pc = place
  BY <1>1 DEF CallerType
<1> HIDE DEF new
<1> QED
  BY <1>2, <1>3, <1>4, MovedCaller

\* A granted slot starts where the row was or later, so it is a spacing from
\* every slot in use, and the row moves a spacing past it.
LEMMA GrantSpacing ==
  ASSUME SpacingInv, TypeOK', NEW c \in Callers, Grant(c)
  PROVE  SpacingInv'
<1> USE LimitsAssumption
<1> DEFINE s == caller[c].observed
<1>1. caller[c] \in CallerType /\ s \in Nat /\ next \in Nat
  BY DEF SpacingInv, TypeOK, CallerType
<1>2. PICK g \in Requests : g = <<c, caller[c].attempt>>
  BY <1>1 DEF Requests, CallerType
<1>3. next <= s /\ next' = s + Spacing
  BY DEF Grant, Unmoved, NextAllowed, SpacingInv, CallersInOrder
<1>4. /\ caller'[c].pc = "granted" /\ caller'[c].slot = s
      /\ caller'[c].attempt = caller[c].attempt
      /\ \A d \in Callers \ {c} : caller'[d] = caller[d]
      /\ caller[c].pc = "update" /\ calls' = calls
  BY <1>1 DEF Grant, SpacingInv, TypeOK, CallerType
<1>5. SlotInUse(g)' = s
  BY <1>2, <1>4 DEF SlotInUse, Holds
<1> HIDE DEF s
<1>6. ASSUME NEW r \in Requests, r # g, InUse(r)'
      PROVE  /\ InUse(r) /\ SlotInUse(r)' = SlotInUse(r)
             /\ SlotInUse(r) + Spacing <= next /\ SlotInUse(r) \in Nat
  <2>1. r[1] \in Callers /\ r[2] \in Attempts /\ r = <<r[1], r[2]>>
    BY DEF Requests
  <2>2. Made(r)' = Made(r) /\ SlotOf(r)' = SlotOf(r)
    BY <1>4 DEF Made, SlotOf
  <2>3. r[1] = c => r[2] # caller[c].attempt
    BY <1>2, <1>6, <2>1
  <2>4. Holds(r)' = Holds(r) /\ (Holds(r) => caller'[r[1]].slot = caller[r[1]].slot)
    BY <1>4, <2>1, <2>3 DEF Holds
  <2>5. InUse(r) /\ SlotInUse(r)' = SlotInUse(r)
    BY <1>6, <2>2, <2>4 DEF InUse, SlotInUse
  <2>6. SlotInUse(r) \in Nat
    BY <2>1 DEF SpacingInv, TypeOK, SlotInUse, SlotOf, CallerType, CallType
  <2> QED
    BY <2>5, <2>6 DEF SpacingInv, RowIsAhead
<1>7. RowIsAhead'
  <2> SUFFICES ASSUME NEW r \in Requests, InUse(r)'
               PROVE  SlotInUse(r)' + Spacing <= next'
    BY DEF RowIsAhead, Requests, Attempts
  <2>1. CASE r = g
    BY <1>1, <1>3, <1>5, <2>1
  <2>2. CASE r # g
    BY <1>1, <1>3, <1>6, <2>2
  <2> QED
    BY <2>1, <2>2
<1>8. SlotsApart'
  <2> SUFFICES ASSUME NEW r \in Requests, NEW t \in Requests, r # t, InUse(r)', InUse(t)'
               PROVE  Apart(SlotInUse(r)', SlotInUse(t)')
    BY DEF SlotsApart, Requests, Attempts, Apart
  <2>1. CASE r = g
    BY <1>1, <1>3, <1>5, <1>6, <2>1 DEF Apart
  <2>2. CASE t = g
    BY <1>1, <1>3, <1>5, <1>6, <2>2 DEF Apart
  <2>3. CASE r # g /\ t # g
    BY <1>6, <2>3 DEF SpacingInv, SlotsApart
  <2> QED
    BY <2>1, <2>2, <2>3
<1>9. CallersInOrder'
  BY <1>4 DEF SpacingInv, CallersInOrder
<1> QED
  BY <1>7, <1>8, <1>9 DEF SpacingInv

\* A request takes its slot over from the caller that held it, and a retry
\* starts without one.
LEMMA CallSpacing ==
  ASSUME SpacingInv, TypeOK', NEW c \in Callers, CallProvider(c)
  PROVE  SpacingInv'
<1> USE LimitsAssumption
<1> DEFINE a == caller[c].attempt
           another == caller[c].attempt + 1
<1>0. caller[c] \in CallerType /\ a \in Attempts
  BY DEF SpacingInv, TypeOK, CallerType
<1>1. caller[c] \in CallerType /\ a \in Attempts /\ a \in Nat /\ caller[c].pc = "granted"
  BY <1>0 DEF CallProvider, Attempts
<1>2. /\ calls'[c][a].slot = caller[c].slot
      /\ \A b \in Attempts \ {a} : calls'[c][b] = calls[c][b]
      /\ \A d \in Callers \ {c} : calls'[d] = calls[d]
  <2> DEFINE call == [slot |-> caller[c].slot, made |-> TRUE]
  <2>1. calls' = [calls EXCEPT ![c] = [@ EXCEPT ![a] = call]]
    BY DEF CallProvider
  <2>2. call.slot = caller[c].slot
    OBVIOUS
  <2> HIDE DEF call, a
  <2> QED
    BY <1>1, <2>1, <2>2 DEF SpacingInv, TypeOK
<1>3. /\ \A d \in Callers \ {c} : caller'[d] = caller[d]
      /\ \/ caller'[c].pc = "done"
         \/ caller'[c].pc = "idle" /\ caller'[c].attempt = another
  <2> DEFINE done == [caller[c] EXCEPT !.pc = "done"]
             retry == [caller[c] EXCEPT !.pc = "idle", !.attempt = another]
  <2>1. caller' = [caller EXCEPT ![c] = done] \/ caller' = [caller EXCEPT ![c] = retry]
    BY DEF CallProvider, RetryFrom
  <2> HIDE DEF another
  <2>2. done.pc = "done" /\ retry.pc = "idle" /\ retry.attempt = another
    BY <1>1 DEF CallerType
  <2> HIDE DEF done, retry
  <2> QED
    BY <2>1, <2>2 DEF SpacingInv, TypeOK
<1>4. ASSUME NEW r \in Requests, InUse(r)'
      PROVE  InUse(r) /\ SlotInUse(r)' = SlotInUse(r)
  <2>1. r[1] \in Callers /\ r[2] \in Attempts
    BY DEF Requests
  <2>2. CASE r[1] = c /\ r[2] = a
    BY <1>1, <1>2, <1>3, <2>2 DEF InUse, SlotInUse, Holds, SlotOf
  <2>3. CASE r[1] = c /\ r[2] # a
    BY <1>1, <1>2, <1>3, <1>4, <2>1, <2>3 DEF InUse, SlotInUse, Holds, SlotOf, Made
  <2>4. CASE r[1] # c
    BY <1>2, <1>3, <1>4, <2>1, <2>4 DEF InUse, SlotInUse, Holds, SlotOf, Made
  <2> QED
    BY <2>2, <2>3, <2>4
<1>5. next' >= next
  BY DEF CallProvider, SpacingInv, TypeOK
<1>6. RowIsAhead' /\ SlotsApart'
  BY <1>4, <1>5, QuietStep
<1>7. CallersInOrder'
  <2> SUFFICES ASSUME NEW d \in Callers
               PROVE  /\ caller'[d].pc = "update" => caller'[d].expected <= caller'[d].observed
                      /\ caller'[d].pc # "done" =>
                            \A b \in Attempts : b >= caller'[d].attempt => calls'[d][b] = NoCall
    BY DEF CallersInOrder, Attempts, NoCall
  <2>1. CASE d # c
    BY <1>2, <1>3, <2>1 DEF SpacingInv, CallersInOrder
  <2>2. CASE d = c
    <3>1. ASSUME NEW b \in Attempts, b >= another
          PROVE  b # a /\ b >= a
      BY <1>1, <3>1 DEF Attempts
    <3>2. \A b \in Attempts : b >= a => calls[c][b] = NoCall
      BY <1>1 DEF SpacingInv, CallersInOrder
    <3> HIDE DEF a, another
    <3> QED
      BY <1>2, <1>3, <2>2, <3>1, <3>2
  <2> QED
    BY <2>1, <2>2
<1> QED
  BY <1>6, <1>7 DEF SpacingInv

\* Every step of a caller keeps the slots in use apart.
LEMMA CallerStepSpacing ==
  ASSUME SpacingInv, TypeOK', NEW c \in Callers, CallerStep(c)
  PROVE  SpacingInv'
<1> USE LimitsAssumption
<1>0. caller[c] \in CallerType /\ next \in Nat
  BY DEF SpacingInv, TypeOK
<1>1. CASE StartAcquire(c)
  <2> DEFINE new == [caller[c] EXCEPT !.pc = "loop", !.tries = 0,
                       !.started = ClockOf(c), !.error = "none", !.base = grants]
  <2>1. new.pc = "loop" /\ new.attempt = caller[c].attempt
    BY <1>0 DEF CallerType
  <2>2. caller' = [caller EXCEPT ![c] = new] /\ caller[c].pc = "idle"
    BY <1>1 DEF StartAcquire
  <2>3. calls' = calls /\ next' >= next
    BY <1>0, <1>1 DEF StartAcquire
  <2> HIDE DEF new
  <2> QED
    BY <2>1, <2>2, <2>3, MovedCaller
<1>2. CASE Observe(c)
  <2> DEFINE new == IF MayTry(c)
                    THEN [caller[c] EXCEPT !.pc = "read", !.observed = ClockOf(c)]
                    ELSE [caller[c] EXCEPT !.pc = Refusal(c)]
  <2>1. new.pc \in {"read"} \cup Refusals /\ new.attempt = caller[c].attempt
    BY <1>0 DEF CallerType, Refusal, Refusals
  <2>2. caller' = [caller EXCEPT ![c] = new] /\ caller[c].pc = "loop"
    BY <1>2 DEF Observe
  <2>3. calls' = calls /\ next' >= next
    BY <1>0, <1>2 DEF Observe
  <2> HIDE DEF new
  <2>4. new.pc # "granted" /\ new.pc # "update"
    BY <2>1 DEF Refusals
  <2> QED
    BY <2>1, <2>2, <2>3, <2>4, MovedCaller
<1>3. CASE ReadRow(c)
  <2> DEFINE new == IF next > Deadline(c) THEN [caller[c] EXCEPT !.pc = "wait_exceeded"]
                    ELSE IF next > caller[c].observed
                    THEN [caller[c] EXCEPT !.pc = "sleep", !.expected = next]
                    ELSE [caller[c] EXCEPT !.pc = "update", !.expected = next]
  <2>1. new.pc # "granted" /\ new.attempt = caller[c].attempt
    BY <1>0 DEF CallerType
  <2>2. new.pc = "update" => new.expected <= new.observed
    BY <1>0 DEF CallerType
  <2>3. caller' = [caller EXCEPT ![c] = new] /\ caller[c].pc = "read"
    BY <1>3 DEF ReadRow, Expected
  <2>4. calls' = calls /\ next' >= next
    BY <1>0, <1>3 DEF ReadRow
  <2> HIDE DEF new
  <2> QED
    BY <2>1, <2>2, <2>3, <2>4, MovedCaller
<1>4. CASE Wake(c)
  <2> DEFINE more == caller[c].tries + 1
             new == [caller[c] EXCEPT !.pc = "loop", !.tries = more]
  <2>1. caller' = [caller EXCEPT ![c] = new] /\ caller[c].pc = "sleep"
    BY <1>4 DEF Wake
  <2> HIDE DEF more
  <2>2. new.pc = "loop" /\ new.attempt = caller[c].attempt
    BY <1>0 DEF CallerType
  <2>3. calls' = calls /\ next' >= next
    BY <1>0, <1>4 DEF Wake
  <2> HIDE DEF new
  <2> QED
    BY <2>1, <2>2, <2>3, MovedCaller
<1>5. CASE Grant(c)
  BY <1>5, GrantSpacing
<1>6. CASE LoseRace(c)
  BY <1>0, <1>6, BackoffSpacing DEF LoseRace
<1>7. CASE TableFails(c)
  BY <1>0, <1>7, BackoffSpacing DEF TableFails
<1>8. CASE UpdateUnanswered(c)
  <2>1. next' >= next
    BY <1>0, <1>8 DEF UpdateUnanswered, Unmoved, NextAllowed, SpacingInv, CallersInOrder, CallerType
  <2> QED
    BY <1>8, <2>1, BackoffSpacing DEF UpdateUnanswered
<1>9. CASE CallProvider(c)
  BY <1>9, CallSpacing
<1> QED
  BY <1>1, <1>2, <1>3, <1>4, <1>5, <1>6, <1>7, <1>8, <1>9 DEF CallerStep

\* Every step of the specification keeps the slots in use apart.
LEMMA SpacingStep == SpacingInv /\ [Next]_vars => SpacingInv'
<1> SUFFICES ASSUME SpacingInv, [Next]_vars PROVE SpacingInv'
  OBVIOUS
<1>1. TypeOK'
  BY NextType DEF SpacingInv
<1>2. CASE \E c \in Callers : CallerStep(c)
  BY <1>1, <1>2, CallerStepSpacing
<1>3. CASE Tick \/ UNCHANGED vars
  <2>1. caller' = caller /\ calls' = calls /\ next' = next
    BY <1>3 DEF Tick, vars
  <2>2. next' >= next
    BY <2>1 DEF SpacingInv, TypeOK
  <2>3. \A r \in Requests : InUse(r)' = InUse(r) /\ SlotInUse(r)' = SlotInUse(r)
    BY <2>1 DEF InUse, Made, Holds, SlotInUse, SlotOf
  <2>4. RowIsAhead' /\ SlotsApart'
    BY <1>1, <2>2, <2>3, QuietStep
  <2>5. CallersInOrder'
    BY <2>1 DEF SpacingInv, CallersInOrder
  <2> QED
    BY <1>1, <2>4, <2>5 DEF SpacingInv
<1> QED
  BY <1>2, <1>3 DEF Next

\* Slots in use are apart, so the slots of the requests made are.
LEMMA SpacingImplies == SpacingInv => RequestsOwnSpacedSlots
<1> SUFFICES ASSUME SpacingInv, NEW r \in Requests, NEW s \in Requests,
                    r # s, Made(r), Made(s)
             PROVE  Apart(SlotOf(r), SlotOf(s))
  BY DEF RequestsOwnSpacedSlots
<1>1. ASSUME NEW t \in Requests, Made(t)
      PROVE  ~Holds(t)
  <2>1. t[1] \in Callers /\ t[2] \in Attempts /\ t[2] >= t[2]
    BY DEF Requests, Attempts
  <2>2. Holds(t) => calls[t[1]][t[2]] = NoCall
    BY <2>1 DEF Holds, SpacingInv, CallersInOrder
  <2> QED
    BY <1>1, <2>2 DEF Made, NoCall
<1>2. SlotInUse(r) = SlotOf(r) /\ SlotInUse(s) = SlotOf(s)
  BY <1>1 DEF SlotInUse
<1> QED
  BY <1>2 DEF SpacingInv, SlotsApart, InUse

\* For any number of callers, with clocks apart by any amounts and any failures
\* of the lease table, any two provider requests carry slots at least one
\* spacing apart: the claim acquire's conditional update and the acquire before
\* every attempt in OddsApiClient.get make together.
THEOREM SpacedSlots == Spec => []RequestsOwnSpacedSlots
  BY SpacingInit, SpacingStep, SpacingImplies, PTL DEF Spec

(***************************************************************************)
(* What a caller is told.  A caller reads its clock after it starts and    *)
(* goes on only before its deadline, so the slot it is granted lies in its *)
(* wait.  A caller whose condition failed expected a value of the row that *)
(* was there after it started: while the table works, only another grant   *)
(* can have replaced it.                                                   *)
(***************************************************************************)

\* The clock readings of a caller z lie in its wait; clock is its clock now.
InWait(z, clock) ==
    /\ z.pc # "idle" => z.started <= clock
    /\ z.pc \in {"read", "update"} =>
          z.started <= z.observed /\ z.observed <= z.started + MaxWait
    /\ z.pc = "granted" => z.started <= z.slot /\ z.slot <= z.started + MaxWait

\* A caller z that was beaten, or is about to find out, saw a grant since it started.
Beaten(z) ==
    /\ z.base <= grants
    /\ z.pc = "update" /\ z.expected # next => grants > z.base
    /\ z.error = "condition" => grants > z.base
    /\ z.pc = "contention" => z.error = "condition"

TimelyInv == \A c \in Callers : InWait(caller[c], ClockOf(c))

ProgressInv == faults = 0 => \A c \in Callers : Beaten(caller[c])

\* A step of a caller rewrites its own record alone, leaves the clock alone, and
\* moves the row only with a grant or a failure.
LEMMA CallerStepFrame ==
  ASSUME TypeOK, NEW c \in Callers, CallerStep(c)
  PROVE  /\ now' = now
         /\ \A d \in Callers \ {c} : caller'[d] = caller[d]
         /\ faults' = 0 => faults = 0
         /\ grants' >= grants
         /\ faults' = 0 /\ next' # next => grants' > grants
<1>0. faults \in Nat /\ grants \in Nat
  BY DEF TypeOK
<1>1. now' = now /\ \A d \in Callers \ {c} : caller'[d] = caller[d]
  BY DEF TypeOK, CallerStep, StartAcquire, Observe, ReadRow, Wake, Grant, LoseRace,
         TableFails, UpdateUnanswered, Backoff, CallProvider
<1>2. /\ faults' \in {faults, faults + 1}
      /\ grants' \in {grants, grants + 1}
      /\ next' # next => grants' = grants + 1 \/ faults' = faults + 1
  BY DEF CallerStep, StartAcquire, Observe, ReadRow, Wake, Grant, LoseRace,
         TableFails, UpdateUnanswered, CallProvider
<1> QED
  BY <1>0, <1>1, <1>2

\* A pass that fails keeps the caller's clock readings where they were.
LEMMA BackoffInWait ==
  ASSUME TypeOK, TimelyInv, NEW c \in Callers, NEW error \in Errors, Backoff(c, error),
         now' = now, caller[c].pc # "idle"
  PROVE  InWait(caller'[c], ClockOf(c)')
<1> DEFINE more == caller[c].tries + 1
           place == IF ClockOf(c) < Deadline(c) THEN "loop"
                    ELSE IF error = "condition" THEN "contention"
                    ELSE "unavailable"
           new == [caller[c] EXCEPT !.pc = place, !.tries = more, !.error = error]
<1>1. place \in {"loop", "contention", "unavailable"}
  OBVIOUS
<1>2. caller' = [caller EXCEPT ![c] = new]
  BY DEF Backoff
<1> HIDE DEF place, more
<1>3. new.started = caller[c].started /\ new.pc = place
  BY DEF TypeOK, CallerType
<1> HIDE DEF new
<1>4. caller'[c] = new /\ ClockOf(c)' = ClockOf(c)
  BY <1>2 DEF TypeOK, ClockOf
<1> QED
  BY <1>1, <1>3, <1>4 DEF InWait, TimelyInv

\* A caller's own step keeps its clock readings in its wait.
LEMMA OwnStepInWait ==
  ASSUME TypeOK, TimelyInv, NEW c \in Callers, CallerStep(c)
  PROVE  InWait(caller'[c], ClockOf(c)')
<1> USE SkewAssumption, LimitsAssumption
<1>0. /\ caller \in [Callers -> CallerType] /\ caller[c] \in CallerType
      /\ ClockOf(c) \in Nat /\ InWait(caller[c], ClockOf(c))
  BY DEF TypeOK, ClockOf, TimelyInv
<1>00. now' = now /\ ClockOf(c)' = ClockOf(c)
  BY CallerStepFrame DEF ClockOf
<1>1. CASE StartAcquire(c)
  <2> DEFINE new == [caller[c] EXCEPT !.pc = "loop", !.tries = 0,
                       !.started = ClockOf(c), !.error = "none", !.base = grants]
  <2>1. new.pc = "loop" /\ new.started = ClockOf(c)
    BY <1>0 DEF CallerType
  <2>2. caller'[c] = new
    BY <1>0, <1>1 DEF StartAcquire
  <2> HIDE DEF new
  <2> QED
    BY <1>0, <1>00, <2>1, <2>2 DEF InWait
<1>2. CASE Observe(c)
  <2> DEFINE new == IF MayTry(c)
                    THEN [caller[c] EXCEPT !.pc = "read", !.observed = ClockOf(c)]
                    ELSE [caller[c] EXCEPT !.pc = Refusal(c)]
  <2>1. /\ new.started = caller[c].started
        /\ \/ new.pc = "read" /\ new.observed = ClockOf(c) /\ ClockOf(c) <= Deadline(c)
           \/ new.pc \in Refusals
    BY <1>0 DEF CallerType, Refusal, Refusals, MayTry
  <2>2. caller'[c] = new /\ caller[c].pc = "loop"
    BY <1>0, <1>2 DEF Observe
  <2> HIDE DEF new
  <2> QED
    BY <1>0, <1>00, <2>1, <2>2 DEF InWait, Deadline, Refusals
<1>3. CASE ReadRow(c)
  <2> DEFINE new == IF next > Deadline(c) THEN [caller[c] EXCEPT !.pc = "wait_exceeded"]
                    ELSE IF next > caller[c].observed
                    THEN [caller[c] EXCEPT !.pc = "sleep", !.expected = next]
                    ELSE [caller[c] EXCEPT !.pc = "update", !.expected = next]
  <2>1. /\ new.started = caller[c].started /\ new.observed = caller[c].observed
        /\ new.pc \in {"wait_exceeded", "sleep", "update"}
    BY <1>0 DEF CallerType
  <2>2. caller'[c] = new /\ caller[c].pc = "read"
    BY <1>0, <1>3 DEF ReadRow, Expected
  <2> HIDE DEF new
  <2> QED
    BY <1>0, <1>00, <2>1, <2>2 DEF InWait
<1>4. CASE Wake(c)
  <2> DEFINE more == caller[c].tries + 1
             new == [caller[c] EXCEPT !.pc = "loop", !.tries = more]
  <2>1. caller'[c] = new /\ caller[c].pc = "sleep"
    BY <1>0, <1>4 DEF Wake
  <2> HIDE DEF more
  <2>2. new.pc = "loop" /\ new.started = caller[c].started
    BY <1>0 DEF CallerType
  <2> HIDE DEF new
  <2> QED
    BY <1>0, <1>00, <2>1, <2>2 DEF InWait
<1>5. CASE Grant(c)
  <2> DEFINE new == [caller[c] EXCEPT !.pc = "granted", !.slot = caller[c].observed]
  <2>1. /\ new.pc = "granted" /\ new.started = caller[c].started
        /\ new.slot = caller[c].observed
    BY <1>0 DEF CallerType
  <2>2. caller'[c] = new /\ caller[c].pc = "update"
    BY <1>0, <1>5 DEF Grant
  <2> HIDE DEF new
  <2> QED
    BY <1>0, <1>00, <2>1, <2>2 DEF InWait
<1>6. CASE LoseRace(c)
  BY <1>00, <1>6, BackoffInWait DEF LoseRace, Errors
<1>7. CASE TableFails(c)
  BY <1>00, <1>7, BackoffInWait DEF TableFails, Errors
<1>8. CASE UpdateUnanswered(c)
  BY <1>00, <1>8, BackoffInWait DEF UpdateUnanswered, Errors
<1>9. CASE CallProvider(c)
  <2> DEFINE another == caller[c].attempt + 1
             done == [caller[c] EXCEPT !.pc = "done"]
             retry == [caller[c] EXCEPT !.pc = "idle", !.attempt = another]
  <2>1. caller'[c] = done \/ caller'[c] = retry
    BY <1>0, <1>9 DEF CallProvider, RetryFrom
  <2>2. caller[c].pc = "granted"
    BY <1>9 DEF CallProvider
  <2> HIDE DEF another
  <2>3. /\ done.pc = "done" /\ done.started = caller[c].started
        /\ retry.pc = "idle"
    BY <1>0 DEF CallerType
  <2> HIDE DEF done, retry
  <2> QED
    BY <1>0, <1>00, <2>1, <2>2, <2>3 DEF InWait
<1> QED
  BY <1>1, <1>2, <1>3, <1>4, <1>5, <1>6, <1>7, <1>8, <1>9 DEF CallerStep

\* Clocks go forward, so every step keeps all clock readings in their waits.
LEMMA TimelyStep == TypeOK /\ TimelyInv /\ [Next]_vars => TimelyInv'
<1> SUFFICES ASSUME TypeOK, TimelyInv, [Next]_vars, NEW d \in Callers
             PROVE  InWait(caller'[d], ClockOf(d)')
  BY DEF TimelyInv
<1>0. now \in Nat /\ Skew[d] \in Nat /\ caller[d] \in CallerType
  BY SkewAssumption DEF TypeOK
<1>1. ASSUME NEW c \in Callers, CallerStep(c)
      PROVE  InWait(caller'[d], ClockOf(d)')
  <2>1. CASE d = c
    BY <1>1, <2>1, OwnStepInWait
  <2>2. CASE d # c
    BY <1>1, <2>2, CallerStepFrame DEF TimelyInv, ClockOf
  <2> QED
    BY <2>1, <2>2
<1>2. CASE Tick \/ UNCHANGED vars
  <2>1. caller' = caller /\ now' \in {now, now + 1}
    BY <1>2 DEF Tick, vars
  <2>2. InWait(caller[d], ClockOf(d))
    BY DEF TimelyInv
  <2> QED
    BY <1>0, <2>1, <2>2 DEF InWait, ClockOf, CallerType
<1> QED
  BY <1>1, <1>2 DEF Next

\* Nobody has read a clock yet.
LEMMA TimelyInit == Init => TimelyInv
<1>1. NewCaller.pc = "idle"
  BY DEF NewCaller
<1>2. Init => \A c \in Callers : caller[c] = NewCaller
  BY DEF Init
<1> QED
  BY <1>1, <1>2 DEF TimelyInv, InWait

\* For any clocks and waits, acquire hands out only a time at or after the
\* caller's start and at or before its deadline (odds_api.py:190).
THEOREM TimelySlots == Spec => []SlotsAreTimely
<1>1. TimelyInv => SlotsAreTimely
  BY DEF TimelyInv, InWait, SlotsAreTimely, Deadline
<1> QED
  BY <1>1, InitType, NextType, TimelyInit, TimelyStep, PTL DEF Spec

\* While the table works, a caller's own step keeps what it knows of grants true.
LEMMA OwnStepBeaten ==
  ASSUME TypeOK, TypeOK', ProgressInv, NEW c \in Callers, CallerStep(c), faults' = 0
  PROVE  Beaten(caller[c])'
<1>0. /\ caller \in [Callers -> CallerType] /\ caller[c] \in CallerType
      /\ grants \in Nat /\ faults \in Nat /\ next \in Nat
  BY DEF TypeOK
<1>00. faults = 0 /\ Beaten(caller[c])
  BY CallerStepFrame DEF ProgressInv
<1>1. CASE StartAcquire(c)
  <2> DEFINE new == [caller[c] EXCEPT !.pc = "loop", !.tries = 0,
                       !.started = ClockOf(c), !.error = "none", !.base = grants]
  <2>1. new.pc = "loop" /\ new.error = "none" /\ new.base = grants
    BY <1>0 DEF CallerType
  <2>2. caller'[c] = new /\ grants' = grants
    BY <1>0, <1>1 DEF StartAcquire
  <2> HIDE DEF new
  <2> QED
    BY <1>0, <2>1, <2>2 DEF Beaten
<1>2. CASE Observe(c)
  <2> DEFINE new == IF MayTry(c)
                    THEN [caller[c] EXCEPT !.pc = "read", !.observed = ClockOf(c)]
                    ELSE [caller[c] EXCEPT !.pc = Refusal(c)]
  <2>1. /\ new.base = caller[c].base /\ new.error = caller[c].error
        /\ new.pc # "update" /\ (new.pc = "contention" => caller[c].error = "condition")
    BY <1>0 DEF CallerType, Refusal
  <2>2. caller'[c] = new /\ grants' = grants
    BY <1>0, <1>2 DEF Observe
  <2> HIDE DEF new
  <2> QED
    BY <1>00, <2>1, <2>2 DEF Beaten
<1>3. CASE ReadRow(c)
  <2> DEFINE new == IF next > Deadline(c) THEN [caller[c] EXCEPT !.pc = "wait_exceeded"]
                    ELSE IF next > caller[c].observed
                    THEN [caller[c] EXCEPT !.pc = "sleep", !.expected = next]
                    ELSE [caller[c] EXCEPT !.pc = "update", !.expected = next]
  <2>1. /\ new.base = caller[c].base /\ new.error = caller[c].error
        /\ new.pc # "contention" /\ (new.pc = "update" => new.expected = next)
    BY <1>0 DEF CallerType
  <2>2. caller'[c] = new /\ grants' = grants /\ next' = next
    BY <1>0, <1>3 DEF ReadRow, Expected
  <2> HIDE DEF new
  <2> QED
    BY <1>00, <2>1, <2>2 DEF Beaten
<1>4. CASE Wake(c)
  <2> DEFINE more == caller[c].tries + 1
             new == [caller[c] EXCEPT !.pc = "loop", !.tries = more]
  <2>1. caller'[c] = new /\ grants' = grants
    BY <1>0, <1>4 DEF Wake
  <2> HIDE DEF more
  <2>2. new.pc = "loop" /\ new.base = caller[c].base /\ new.error = caller[c].error
    BY <1>0 DEF CallerType
  <2> HIDE DEF new
  <2> QED
    BY <1>00, <2>1, <2>2 DEF Beaten
<1>5. CASE Grant(c)
  <2> DEFINE new == [caller[c] EXCEPT !.pc = "granted", !.slot = caller[c].observed]
  <2>1. new.pc = "granted" /\ new.base = caller[c].base /\ new.error = caller[c].error
    BY <1>0 DEF CallerType
  <2>2. caller'[c] = new /\ grants' = grants + 1
    BY <1>0, <1>5 DEF Grant
  <2>3. new.base \in Nat
    BY <1>0, <2>1 DEF CallerType
  <2> HIDE DEF new
  <2> QED
    BY <1>0, <1>00, <2>1, <2>2, <2>3 DEF Beaten
<1>6. CASE LoseRace(c)
  <2> DEFINE more == caller[c].tries + 1
             place == IF ClockOf(c) < Deadline(c) THEN "loop" ELSE "contention"
             new == [caller[c] EXCEPT !.pc = place, !.tries = more, !.error = "condition"]
  <2>1. caller'[c] = new /\ grants' = grants /\ grants > caller[c].base
    BY <1>0, <1>00, <1>6 DEF LoseRace, Backoff, Beaten, Unmoved
  <2>2. place \in {"loop", "contention"}
    OBVIOUS
  <2> HIDE DEF place, more
  <2>3. new.base = caller[c].base /\ new.pc = place /\ new.error = "condition"
    BY <1>0 DEF CallerType
  <2>4. caller[c].base \in Nat
    BY <1>0 DEF CallerType
  <2> HIDE DEF new
  <2> QED
    BY <1>0, <2>1, <2>2, <2>3, <2>4 DEF Beaten
<1>7. CASE TableFails(c) \/ UpdateUnanswered(c)
  BY <1>0, <1>00, <1>7 DEF TableFails, UpdateUnanswered
<1>9. CASE CallProvider(c)
  <2> DEFINE another == caller[c].attempt + 1
             done == [caller[c] EXCEPT !.pc = "done"]
             retry == [caller[c] EXCEPT !.pc = "idle", !.attempt = another]
  <2>1. (caller'[c] = done \/ caller'[c] = retry) /\ grants' = grants
    BY <1>0, <1>9 DEF CallProvider, RetryFrom
  <2> HIDE DEF another
  <2>2. /\ done.pc = "done" /\ done.base = caller[c].base /\ done.error = caller[c].error
        /\ retry.pc = "idle" /\ retry.base = caller[c].base
        /\ retry.error = caller[c].error
    BY <1>0 DEF CallerType
  <2> HIDE DEF done, retry
  <2> QED
    BY <1>00, <2>1, <2>2 DEF Beaten
<1> QED
  BY <1>1, <1>2, <1>3, <1>4, <1>5, <1>6, <1>7, <1>9 DEF CallerStep

\* A row that moves under a caller that competes moved with a grant.
LEMMA ProgressStep == TypeOK /\ ProgressInv /\ [Next]_vars => ProgressInv'
<1> SUFFICES ASSUME TypeOK, ProgressInv, [Next]_vars, NEW d \in Callers, faults' = 0
             PROVE  Beaten(caller[d])'
  BY DEF ProgressInv
<1>0. grants \in Nat /\ grants' \in Nat /\ caller[d].base \in Nat /\ TypeOK'
  <2>1. TypeOK'
    BY NextType
  <2> QED
    BY <2>1 DEF TypeOK, CallerType
<1>1. ASSUME NEW c \in Callers, CallerStep(c)
      PROVE  Beaten(caller[d])'
  <2>1. CASE d = c
    BY <1>0, <1>1, <2>1, OwnStepBeaten
  <2>2. CASE d # c
    <3>1. /\ caller'[d] = caller[d] /\ faults = 0 /\ grants' >= grants
          /\ next' # next => grants' > grants
      BY <1>1, <2>2, CallerStepFrame
    <3>2. Beaten(caller[d])
      BY <3>1 DEF ProgressInv
    <3> QED
      BY <1>0, <3>1, <3>2 DEF Beaten
  <2> QED
    BY <2>1, <2>2
<1>2. CASE Tick \/ UNCHANGED vars
  BY <1>2 DEF Tick, vars, ProgressInv, Beaten
<1> QED
  BY <1>1, <1>2 DEF Next

\* Nobody competes yet.
LEMMA ProgressInit == Init => ProgressInv
<1> SUFFICES ASSUME Init PROVE ProgressInv
  OBVIOUS
<1>1. NewCaller.pc = "idle" /\ NewCaller.base = 0 /\ NewCaller.error = "none"
  BY DEF NewCaller
<1>2. grants = 0 /\ caller = [c \in Callers |-> NewCaller]
  BY DEF Init
<1>3. Beaten(NewCaller)
  BY <1>1, <1>2 DEF Beaten
<1>4. \A c \in Callers : caller[c] = NewCaller
  BY <1>2
<1> QED
  BY <1>3, <1>4 DEF ProgressInv

\* For any number of callers, as long as the lease table answers, a caller is
\* refused for contention only if somebody was granted a slot since it started:
\* the retry loop of acquire is lock-free (odds_api.py:212).
THEOREM ContentionIsProgress == Spec => []RefusalsMeanProgress
<1>1. ProgressInv => RefusalsMeanProgress
  BY DEF ProgressInv, Beaten, RefusalsMeanProgress
<1> QED
  BY <1>1, InitType, NextType, ProgressInit, ProgressStep, PTL DEF Spec
================================================================================
