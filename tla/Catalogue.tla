----------------------------- MODULE Catalogue -----------------------------
(* The tree of product and service categories, the items filed under them,  *)
(* and the catalog page that lists the items of a category. Requests read   *)
(* and write in separate statements; the database adds foreign keys and a   *)
(* unique key on kind and slug. Order, icons and the active flag, which     *)
(* only decide how a list looks, are left out.                              *)
EXTENDS Integers, Functions

CONSTANTS
    Ids,       \* ids a category can get; one is never given twice
    Slugs,     \* what names are reduced to
    Items,     \* products and services
    Sessions,  \* requests at work
    NoId       \* no parent; no category

Parameters == {1, 2} \subseteq Ids /\ NoId \notin Ids /\ Slugs # {}

VARIABLES
    category,  \* id -> its row, for the rows there are
    gone,      \* ids of the rows removed so far
    item,      \* item -> its kind and category, for the items there are
    call       \* session -> the request at work, <<>> for none

vars == <<category, gone, item, call>>

Kinds == {"SERVICE", "PRODUCT"}
There == DOMAIN category
Row(kind, name, parent) == [kind |-> kind, slug |-> name, parent |-> parent]

\* f with v at x.
With(f, x, v) == [y \in DOMAIN f \cup {x} |-> IF y = x THEN v ELSE f[y]]

Fresh == Ids \ (There \cup gone)

\* uq_categories_kind_slug, leaving out row i.
Taken(kind, name, i) ==
    \E j \in There \ {i} : category[j].kind = kind /\ category[j].slug = name
\* The foreign keys of categories, products and services, ON DELETE RESTRICT.
ParentThere(parent) == parent = NoId \/ parent \in There
Referenced(i) ==
    (\E j \in There : category[j].parent = i) \/ (\E x \in DOMAIN item : item[x].category = i)

Ends(s) == call' = [call EXCEPT ![s] = <<>>]
Waits(s, rec) == call' = [call EXCEPT ![s] = <<rec>>]
At(s, op) == call[s] # <<>> /\ call[s][1].op = op

-----------------------------------------------------------------------------
(* CategoriesService.                                                       *)

\* Variant with a mistake: the parent may be of the other kind.
ParentFound(kind, parent) == ParentThere(parent)

\* The checks of create on the parent it finds.
ParentFits(kind, parent) ==
    parent = NoId \/ (parent \in There /\ category[parent].kind = kind)

Create(s) ==
    /\ call[s] = <<>>
    /\ \E kind \in Kinds, name \in Slugs, parent \in There \cup {NoId} :
         /\ ParentFits(kind, parent) /\ ~Taken(kind, name, NoId)
         /\ Waits(s, [op |-> "create", row |-> Row(kind, name, parent)])
    /\ UNCHANGED <<category, gone, item>>

\* The INSERT, refused by the keys if the tables have changed since.
Insert(s) ==
    /\ At(s, "create")
    /\ LET row == call[s][1].row
       IN  IF ParentThere(row.parent) /\ ~Taken(row.kind, row.slug, NoId)
           THEN /\ Fresh # {}
                /\ category' = With(category, CHOOSE i \in Fresh : TRUE, row)
           ELSE UNCHANGED category
    /\ Ends(s)
    /\ UNCHANGED <<gone, item>>

Update(s) ==
    /\ call[s] = <<>>
    /\ \E i \in There, name \in Slugs :
         /\ ~Taken(category[i].kind, name, i)
         /\ Waits(s, [op |-> "update", id |-> i, row |-> [category[i] EXCEPT !.slug = name]])
    /\ UNCHANGED <<category, gone, item>>

\* save selects the row first: what it does not find it will insert.
Select(s) ==
    /\ At(s, "update")
    /\ LET edit == call[s][1]
       IN  Waits(s, [op |-> IF edit.id \in There THEN "save" ELSE "restore",
                     id |-> edit.id, row |-> edit.row])
    /\ UNCHANGED <<category, gone, item>>

Save(s) ==
    /\ At(s, "save")
    /\ LET edit == call[s][1]
       IN  IF edit.id \in There /\ ~Taken(edit.row.kind, edit.row.slug, edit.id)
           THEN category' = [category EXCEPT ![edit.id].slug = edit.row.slug]
           ELSE UNCHANGED category
    /\ Ends(s)
    /\ UNCHANGED <<gone, item>>

Restore(s) ==
    /\ At(s, "restore")
    /\ LET edit == call[s][1]
       IN  IF /\ edit.id \notin There /\ ParentThere(edit.row.parent)
              /\ ~Taken(edit.row.kind, edit.row.slug, edit.id)
           THEN category' = With(category, edit.id, edit.row) /\ gone' = gone \ {edit.id}
           ELSE UNCHANGED <<category, gone>>
    /\ Ends(s)
    /\ UNCHANGED item

\* remove finds the category and counts its children.
Remove(s) ==
    /\ call[s] = <<>>
    /\ \E i \in There :
         /\ \A j \in There : category[j].parent # i
         /\ Waits(s, [op |-> "remove", id |-> i])
    /\ UNCHANGED <<category, gone, item>>

Delete(s) ==
    /\ At(s, "remove")
    /\ LET i == call[s][1].id
       IN  IF i \in There /\ ~Referenced(i)
           THEN category' = Restrict(category, There \ {i}) /\ gone' = gone \cup {i}
           ELSE UNCHANGED <<category, gone>>
    /\ Ends(s)
    /\ UNCHANGED item

-----------------------------------------------------------------------------
(* Items: the form of the catalog page names a product's category, and      *)
(* gives the id of a service's.                                             *)

\* resolveCategory of products, by slug and kind; of services, with the id of
\* the service category whose page is open.
Resolve(kind) == {i \in There : category[i].kind = kind}

File(s) ==
    /\ call[s] = <<>>
    /\ \E x \in Items, kind \in Kinds :
         /\ x \in DOMAIN item => kind = "PRODUCT" /\ item[x].kind = "PRODUCT"
         /\ \E i \in Resolve(kind) : Waits(s, [op |-> "file", item |-> x, kind |-> kind, id |-> i])
    /\ UNCHANGED <<category, gone, item>>

\* The INSERT of a new item, or the UPDATE of a product that moves.
Filed(s) ==
    /\ At(s, "file")
    /\ LET new == call[s][1]
       IN  IF new.id \in There /\ (new.item \in DOMAIN item => item[new.item].kind = new.kind)
           THEN item' = With(item, new.item, [kind |-> new.kind, category |-> new.id])
           ELSE UNCHANGED item
    /\ Ends(s)
    /\ UNCHANGED <<category, gone>>

-----------------------------------------------------------------------------
(* CatalogPage.                                                             *)

Children(i) == {j \in There : category[j].parent = i}

\* collectIds: the category and all below it, which is the least set that
\* holds the category and the children of its members.
CollectIds(i) ==
    {j \in There : \A S \in SUBSET There :
        i \in S /\ (\A k \in S : Children(k) \subseteq S) => j \in S}

\* findNode on the whole tree, where the service categories come first.
Found(name) ==
    LET named == {i \in There : category[i].slug = name}
        services == {i \in named : category[i].kind = "SERVICE"}
    IN  IF named = {} THEN NoId
        ELSE CHOOSE i \in IF services # {} THEN services ELSE named : TRUE

\* visibleChildIds.
VisibleIds(i, child) ==
    CASE child = NoId -> CollectIds(i)
      [] child \in Children(i) -> CollectIds(child)
      [] OTHER -> {child}

\* filteredProducts or filteredServices, whichever the category holds.
Listed(i, child) ==
    {x \in DOMAIN item :
        item[x].kind = category[i].kind /\ item[x].category \in VisibleIds(i, child)}

Init ==
    /\ category = [i \in {1, 2} |-> Row(IF i = 1 THEN "SERVICE" ELSE "PRODUCT",
                                        CHOOSE name \in Slugs : TRUE, NoId)]
    /\ gone = {} /\ item = <<>> /\ call = [s \in Sessions |-> <<>>]

Next ==
    \E s \in Sessions :
        \/ Create(s) \/ Insert(s) \/ Update(s) \/ Select(s) \/ Save(s) \/ Restore(s)
        \/ Remove(s) \/ Delete(s) \/ File(s) \/ Filed(s)

Spec == Init /\ [][Next]_vars

-----------------------------------------------------------------------------
(* Properties.                                                              *)

\* The variables keep their types, and the keys hold.
TypeOK ==
    /\ There \subseteq Ids /\ gone \subseteq Ids \ There /\ DOMAIN item \subseteq Items
    /\ \A i \in There : category[i] \in [kind : Kinds, slug : Slugs, parent : There \cup {NoId}]
    /\ \A x \in DOMAIN item : item[x] \in [kind : Kinds, category : There]

\* The category of an item and those above it, up to the top.
Chain(x) ==
    {j \in There : \A S \in SUBSET There :
        item[x].category \in S /\ (\A k \in S : category[k].parent \in S \cup {NoId}) => j \in S}

\* Whatever is created, renamed, moved and deleted at the same time, an item is
\* listed on the page of its category and of every category above it, of which
\* one is in the sidebar; under the tab of a sub-category the page lists the
\* items filed below that. Pages whose slug a service category has too show
\* that category's items.
ListedWhereFiled ==
    /\ \A x \in DOMAIN item :
         /\ \E i \in Chain(x) : category[i].parent = NoId
         /\ \A i \in Chain(x) : Found(category[i].slug) = i => x \in Listed(i, NoId)
    /\ \A i \in There : \A child \in Children(i) :
         Listed(i, child) = {x \in DOMAIN item : child \in Chain(x)}
=============================================================================
