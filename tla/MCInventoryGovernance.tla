----------------------- MODULE MCInventoryGovernance -----------------------
(* Small instances of InventoryGovernance for TLC.                          *)
EXTENDS InventoryGovernance, TLC

(* Users and sessions are alike, and so are unused ids of a table.          *)
Symmetry ==
    Permutations(Users) \union Permutations(Sessions) \union Permutations(Runs)
    \union Permutations(Approvals) \union Permutations(Restatements)
    \union Permutations(Reports)
=============================================================================
