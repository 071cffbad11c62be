---------------------------- MODULE MCStockLedger ----------------------------
(* Inventory for TLC, where stock and movements must agree: in one family of *)
(* behaviours every handler locks the product first, in the other carts of   *)
(* several lines only remove stock. A sale beside a stock-in is in neither   *)
(* (MCInventory_net_zero.cfg).                                               *)
EXTENDS Inventory

VARIABLE family     \* which of the two a behaviour is of

Removing == {"sale", "packageSale", "supplierReturn"}
Belongs(t, handlers) ==
    \/ t.op = "idle"
    \/ handlers = "lockFirst" /\ t.op \in LockFirst
    \/ handlers = "removing" /\ t.op \in Removing /\ \A i \in DOMAIN t.todo : t.todo[i].delta = -1

FamilyInit ==
    /\ family \in {"lockFirst", "removing"}
    /\ Init
    /\ \A p \in Products :
          IF family = "lockFirst" THEN row[p].stock <= 1 ELSE row[p] = [stock |-> 2, cost |-> 1]
FamilyNext ==
    /\ Next
    /\ \A s \in Sessions : Belongs(tx'[s], family)
    /\ UNCHANGED family

FamilySpec == FamilyInit /\ [][FamilyNext]_<<vars, family>> /\ Fairness
=============================================================================
