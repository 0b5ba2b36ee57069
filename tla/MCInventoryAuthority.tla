---------------------- MODULE MCInventoryAuthority ----------------------
(* Small instances of InventoryAuthority for TLC.                        *)
EXTENDS InventoryAuthority, TLC

CONSTANTS e1, s1

OneEvent == s1 :> {e1}

Symmetry == Permutations(Runs) \cup Permutations(Identities) \cup Permutations(Events)
=========================================================================
