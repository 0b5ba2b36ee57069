----------------------------- MODULE PublicDecision -----------------------------
(***************************************************************************)
(* What soccer_auto promises of the public pick of one fixture: each       *)
(* schedule revision gets at most one decision, made while that revision   *)
(* is the current one of an open fixture and the publishing authority      *)
(* allows it, and a decision once made never changes.                      *)
(*                                                                         *)
(* docs/SOCCER_AUTO.md states it so: "The first champion evaluated against *)
(* an event's T-10 final-decision lock is atomically and immutably bound   *)
(* ... A later champion cannot repaint the pick".  PublicPrediction is the *)
(* program that has to keep the promise.                                   *)
(***************************************************************************)
CONSTANTS Revisions, Models, NoModel

VARIABLES
    decision,  \* the model whose pick is public, for each schedule revision
    revision,  \* the fixture's current schedule revision
    open,      \* the fixture has no final result yet
    allowed    \* the publishing authority

vars == <<decision, revision, open, allowed>>

Init ==
    /\ decision = [r \in Revisions |-> NoModel]
    /\ revision \in Revisions
    /\ open = TRUE
    /\ allowed \in BOOLEAN

Decide(m) ==
    /\ open /\ allowed
    /\ decision[revision] = NoModel
    /\ decision' = [decision EXCEPT ![revision] = m]
    /\ UNCHANGED <<revision, open, allowed>>

Reschedule ==
    /\ revision' \in Revisions \ {revision}
    /\ UNCHANGED <<decision, open, allowed>>

Complete ==
    /\ open' = FALSE
    /\ UNCHANGED <<decision, revision, allowed>>

SetAuthority ==
    /\ allowed' \in BOOLEAN
    /\ UNCHANGED <<decision, revision, open>>

Next == (\E m \in Models : Decide(m)) \/ Reschedule \/ Complete \/ SetAuthority

Spec == Init /\ [][Next]_vars
=================================================================================
