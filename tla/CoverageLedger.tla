--------------------------- MODULE CoverageLedger ---------------------------
(***************************************************************************)
(* What the coverage of one event promises to those who read it: the       *)
(* coverage API, the analyst, and the lock that decides before kickoff.    *)
(*                                                                         *)
(* Generations only move forward.  A generation gets one plan; under the   *)
(* plan the ledger says which batches were handed out and which jobs are   *)
(* over, which batches succeeded and which pairs came back.  None of it is *)
(* ever taken back while its generation is the current one, and a success  *)
(* or a pair is entered only when the provider has answered for it.  A     *)
(* certificate outlives its generation; it may come late, but only for a   *)
(* plan whose every batch and every required pair was answered.            *)
(*                                                                         *)
(* No queue, lease, worker or retry is left here: CoverageCycle is the     *)
(* program that has to keep the promise with those.                        *)
(***************************************************************************)
EXTENDS Naturals

CONSTANTS
    Gens,     \* generations, a set of numbers
    Jobs,     \* batches and the parts they may be split into
    Batches,  \* the batches of a plan
    Children, \* [Jobs -> SUBSET Jobs]: the parts of a job
    Pairs,    \* bookmaker/market pairs
    Required  \* the pairs a certificate vouches for

VARIABLES
    gen,       \* the current generation, 0 before the first
    planned,   \* it has its plan
    handedOut, \* batches given to the queue
    over,      \* jobs that need no further call
    succeeded, \* batches that were answered
    returned,  \* pairs that came back
    answered,  \* the provider's answers: generation, job and pairs
    certs      \* generations with a certificate

plan == <<handedOut, over, succeeded, returned>>
vars == <<gen, planned, plan, answered, certs>>

\* The jobs that count as answered when those of A are: a job with all its parts.
UpClosed(X) == \A j \in Jobs : Children[j] # {} /\ Children[j] \subseteq X => j \in X
Settles(A, j) == \A X \in SUBSET Jobs : UpClosed(X) /\ A \subseteq X => j \in X

JobsOf(g) == {a.job : a \in {x \in answered : x.gen = g}}
PairsOf(g) == UNION {a.pairs : a \in {x \in answered : x.gen = g}}

Init ==
    /\ gen = 0 /\ planned = FALSE
    /\ handedOut = {} /\ over = {} /\ succeeded = {} /\ returned = {}
    /\ answered = {} /\ certs = {}

\* A later generation starts, without a plan.
Supersede ==
    /\ gen' \in Gens /\ gen' > gen
    /\ planned' = FALSE
    /\ handedOut' = {} /\ over' = {} /\ succeeded' = {} /\ returned' = {}
    /\ UNCHANGED <<answered, certs>>

\* The current generation gets its only plan.
Publish ==
    /\ ~planned
    /\ planned' = TRUE
    /\ UNCHANGED <<gen, plan, answered, certs>>

\* The provider answers a job of the current plan.
Answer(j, pairs) ==
    /\ planned
    /\ answered' = answered \cup {[gen |-> gen, job |-> j, pairs |-> pairs]}
    /\ UNCHANGED <<gen, planned, plan, certs>>

\* Something is entered, and it is true.
Enter ==
    /\ planned
    /\ handedOut \subseteq handedOut' /\ handedOut' \subseteq Batches
    /\ over \subseteq over' /\ over' \subseteq Jobs
    /\ succeeded \subseteq succeeded'
    /\ \A b \in succeeded' : b \in Batches /\ Settles(JobsOf(gen), b)
    /\ returned \subseteq returned' /\ returned' \subseteq PairsOf(gen)
    /\ UNCHANGED <<gen, planned, answered, certs>>

\* A plan that has its answers, not necessarily the current one, is certified.
Certify(g) ==
    /\ g <= gen
    /\ \A b \in Batches : Settles(JobsOf(g), b)
    /\ Required \subseteq PairsOf(g)
    /\ certs' = certs \cup {g}
    /\ UNCHANGED <<gen, planned, plan, answered>>

Next ==
    \/ Supersede \/ Publish \/ Enter
    \/ \E j \in Jobs, pairs \in SUBSET Pairs : Answer(j, pairs)
    \/ \E g \in Gens : Certify(g)

Spec == Init /\ [][Next]_vars
=============================================================================
