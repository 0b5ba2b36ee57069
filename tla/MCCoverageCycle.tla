-------------------------- MODULE MCCoverageCycle --------------------------
(* Small instances of CoverageCycle for TLC.                               *)
EXTENDS CoverageCycle, TLC

CONSTANTS b1, b2, a, b, a1, a2, p1, p2

Unsplit == b1 :> {} @@ b2 :> {}
OnePairEach == b1 :> {p1} @@ b2 :> {p2}

\* b1 halves into a and b, by region.
Halved == b1 :> {a, b} @@ a :> {} @@ b :> {}
RegionScope == b1 :> {p1} @@ a :> {p1} @@ b :> {p1}

\* b1 halves into a and b, and a into a1 and a2.
HalvedTwice == b1 :> {a, b} @@ a :> {a1, a2} @@ b :> {} @@ a1 :> {} @@ a2 :> {}
HalvedTwiceScope == b1 :> {p1} @@ a :> {p1} @@ b :> {} @@ a1 :> {p1} @@ a2 :> {}

SingleBatch == b1 :> {}
SinglePair == b1 :> {p1}

Symmetry == Permutations(Workers)
SplitSymmetry == Symmetry \cup Permutations({a, b})

\* A named bound: the fault falls on the fetches (coverage_fanout has it fall on
\* the discovery too).
FaultsWhileFetching ==
    faults > 0 => row.planned /\ ~Pending([gen |-> row.gen, job |-> Discover])

\* What the next steps and the split's properties depend on: of the answers the
\* jobs and the pairs, and no owner of a lease that is over or whose owner is gone.
Essential ==
    <<open, dispatch, row, certs, queue, worker, faults,
      {x.job : x \in answered}, UNION {x.pairs : x \in answered},
      [m \in Messages |->
          IF lease[m].state = "IN_PROGRESS" /\ HolderLives(m)
          THEN lease[m] ELSE [lease[m] EXCEPT !.owner = NoWorker]]>>
=============================================================================
