------------------------------ MODULE Packages ------------------------------
(* Packages of products and services at a price of their own. A package      *)
(* keeps the price each component had when its items were last replaced,     *)
(* their sum, and what a customer saves. An update runs in one transaction   *)
(* that reads from the snapshot its first SELECT took, and locks only what   *)
(* it writes.                                                                *)
EXTENDS Integers, FiniteSets, FiniteSetsExt, Functions

CONSTANTS
    Components,  \* products and services
    Prices,      \* component -> the prices it may have
    Amounts,     \* prices of a package
    Packages,
    Sessions     \* update requests

\* What is assumed of the parameters.
Parameters ==
    /\ IsFiniteSet(Components) /\ Amounts \subseteq Nat
    /\ \A c \in Components : Prices[c] \in (SUBSET Nat) \ {{}}

VARIABLES
    price,       \* component -> its price today
    row,         \* package -> its row
    items,       \* package -> its rows of package_items
    tx,          \* session -> its transaction
    overlapped   \* packages two of whose updates ran at the same time

vars == <<price, row, items, tx, overlapped>>

Row(normal, own, savings) ==
    [normalPrice |-> normal, packagePrice |-> own, savings |-> savings]
Item(c, snapshot, by) == [component |-> c, snapshotPrice |-> snapshot, by |-> by]
NoTx == [phase |-> "idle"]

InFlight(p) == {s \in Sessions : tx[s].phase # "idle" /\ tx[s].package = p}

-----------------------------------------------------------------------------
(* Creation and what an update asks for.                                    *)

\* The form sends its components, each once and at least one.
Selections == (SUBSET Components) \ {{}}

\* resolveItems: each component once, at its price of now; "created" or the
\* session it is resolved for.
Resolved(cs, by) == {Item(c, price[c], by) : c \in cs}

NormalPrice(resolved) == SumFunction([i \in resolved |-> i.snapshotPrice])

\* create: the checks and all rows in one transaction, seen when it commits.
Created(cs, own) == Row(NormalPrice(Resolved(cs, "created")), own,
                        NormalPrice(Resolved(cs, "created")) - own)

Init ==
    /\ price = [c \in Components |-> Min(Prices[c])]
    /\ items \in [Packages -> {Resolved(cs, "created") : cs \in Selections}]
    /\ row \in [Packages -> {Created(cs, own) : cs \in Selections, own \in Amounts}]
    /\ \A p \in Packages :
         /\ row[p].normalPrice = NormalPrice(items[p])
         /\ row[p].packagePrice <= row[p].normalPrice
    /\ tx = [s \in Sessions |-> NoTx]
    /\ overlapped = {}

\* The forms of products and services.
SetPrice ==
    /\ \E c \in Components : \E amount \in Prices[c] : price' = [price EXCEPT ![c] = amount]
    /\ UNCHANGED <<row, items, tx, overlapped>>

Begins(s, p, rest) ==
    /\ tx[s] = NoTx
    /\ tx' = [tx EXCEPT ![s] = rest]
    /\ overlapped' = overlapped \cup (IF InFlight(p) = {} THEN {} ELSE {p})
    /\ UNCHANGED <<price, row, items>>

\* With all components and the package's price.
Update(s) ==
    \E p \in Packages, cs \in Selections, own \in Amounts :
        LET resolved == Resolved(cs, s)
            normal == NormalPrice(resolved)
        IN  /\ own <= normal
            /\ Begins(s, p, [phase |-> "replace", package |-> p, read |-> row[p],
                             resolved |-> resolved, row |-> Row(normal, own, normal - own)])

\* The switch of the list sends active alone: the amounts are written as read.
Toggle(s) ==
    \E p \in Packages :
        LET read == row[p]
            savings == read.normalPrice - read.packagePrice
        IN  /\ savings >= 0
            /\ Begins(s, p, [phase |-> "save", package |-> p, read |-> read, resolved |-> {},
                             row |-> Row(read.normalPrice, read.packagePrice, savings)])

-----------------------------------------------------------------------------
(* The update's writes.                                                     *)

\* The rows of package_items, and by their foreign key the package, are locked
\* by the transaction that replaces them until it ends.
Replacing(p) == {s \in InFlight(p) : tx[s].phase = "save" /\ tx[s].resolved # {}}

\* Variant with a mistake: the old items stay.
ReplacedAdding(old, resolved) == old \cup resolved

\* delete, which works on the latest rows, and save.
Replaced(old, resolved) == resolved

Replace(s) ==
    /\ tx[s].phase = "replace" /\ Replacing(tx[s].package) = {}
    /\ items' = [items EXCEPT ![tx[s].package] = Replaced(@, tx[s].resolved)]
    /\ tx' = [tx EXCEPT ![s].phase = "save"]
    /\ UNCHANGED <<price, row, overlapped>>

\* save writes the columns that differ from the snapshot's row over the latest.
Saved(base, new, read) ==
    [normalPrice  |-> IF new.normalPrice = read.normalPrice THEN base.normalPrice ELSE new.normalPrice,
     packagePrice |-> IF new.packagePrice = read.packagePrice THEN base.packagePrice ELSE new.packagePrice,
     savings      |-> IF new.savings = read.savings THEN base.savings ELSE new.savings]

Save(s) ==
    /\ tx[s].phase = "save" /\ Replacing(tx[s].package) \subseteq {s}
    /\ row' = [row EXCEPT ![tx[s].package] = Saved(@, tx[s].row, tx[s].read)]
    /\ tx' = [tx EXCEPT ![s] = NoTx]
    /\ UNCHANGED <<price, items, overlapped>>

Next ==
    \/ SetPrice
    \/ \E s \in Sessions : Update(s) \/ Toggle(s) \/ Replace(s) \/ Save(s)

Spec == Init /\ [][Next]_vars

-----------------------------------------------------------------------------
(* Properties.                                                              *)

\* The variables keep their types.
TypeOK ==
    /\ \A c \in Components : price[c] \in Prices[c]
    /\ \A p \in Packages : \A i \in items[p] :
         i.component \in Components /\ i.snapshotPrice \in Prices[i.component]
    /\ overlapped \subseteq Packages
    /\ \A s \in Sessions : tx[s].phase \in {"idle", "replace", "save"}

\* However updates of a package overlap, its items are those of one of them:
\* no component is in it twice, and it is never empty.
ItemsOfOneUpdate ==
    \A p \in Packages :
        /\ Cardinality({i.by : i \in items[p]}) = 1
        /\ Cardinality({i.component : i \in items[p]}) = Cardinality(items[p])

\* A package none of whose updates overlapped, and none of which is at work,
\* adds up: its normal price is the sum of its items', and what is saved is
\* what the package costs less, never below zero.
PackageAddsUp ==
    \A p \in Packages \ overlapped :
        InFlight(p) = {} =>
            /\ row[p].normalPrice = NormalPrice(items[p])
            /\ row[p].savings = row[p].normalPrice - row[p].packagePrice
            /\ row[p].savings >= 0
=============================================================================
