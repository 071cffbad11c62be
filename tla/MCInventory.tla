---------------------------- MODULE MCInventory ----------------------------
(* Inventory for TLC.                                                      *)
EXTENDS Inventory, TLC

\* Sessions are interchangeable (safety runs only).
Symmetric == Permutations(Sessions)
=============================================================================
