------------------------ MODULE MCAccountingPeriods ------------------------
(* AccountingPeriods for TLC: two instances in one run. Months are closed    *)
(* beside edits of a header's text, and one document is edited in month and  *)
(* amount by requests that overlap; an edit of the amount alone does change  *)
(* a closed month (AccountingPeriods_amount_edit.cfg).                       *)
EXTENDS AccountingPeriods

VARIABLE focus      \* which of the two a behaviour follows

Edited == CHOOSE d \in Docs : TRUE

\* Entries and requests of each instance.
EntriesOf(about) ==
    IF about = "closing" THEN [month : Months, payee : Payees, amount : {1}]
    ELSE [month : Months, payee : {"a"}, amount : Amounts]
Belongs(t, about) ==
    /\ t.draft \in EntriesOf(about) \cup {None}
    /\ about = "closing" /\ t.op = "update" => t.draft.month = t.seen.month
    /\ about = "editing" => t.op # "close" /\ t.doc \in {Edited, None}

FocusInit ==
    /\ focus \in {"closing", "editing"}
    /\ Init
    /\ \A d \in Docs : expense[d] \in EntriesOf(focus) \cup {None}
    /\ focus = "editing" => \A d \in Docs \ {Edited} : expense[d] = None
FocusNext ==
    /\ Next
    /\ \A s \in Sessions : Belongs(tx'[s], focus)
    /\ UNCHANGED focus

FocusSpec == FocusInit /\ [][FocusNext]_<<vars, focus>> /\ Fairness
=============================================================================
