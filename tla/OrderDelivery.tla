---------------------------- MODULE OrderDelivery ----------------------------
(***************************************************************************)
(* What the exchange of orders promises (docs/1C_INTEGRATION.md, section   *)
(* 3, and export_orders_to_1c): an order stays on offer until 1C has       *)
(* confirmed it, so none is lost; a confirmed order is one that 1C has.    *)
(***************************************************************************)
CONSTANT OrderIds

VARIABLES
    placed,      \* orders of the site
    known,       \* orders 1C has a document for
    confirmed    \* orders the site does not offer any more

vars == <<placed, known, confirmed>>

Init == placed = {} /\ known = {} /\ confirmed = {}

Place(o) ==
    /\ o \notin placed
    /\ placed' = placed \cup {o}
    /\ UNCHANGED <<known, confirmed>>

Deliver(o) ==
    /\ o \in placed \ known
    /\ known' = known \cup {o}
    /\ UNCHANGED <<placed, confirmed>>

Confirm(set) ==
    /\ set # {} /\ set \subseteq known \ confirmed
    /\ confirmed' = confirmed \cup set
    /\ UNCHANGED <<placed, known>>

Next ==
    \/ \E o \in OrderIds : Place(o) \/ Deliver(o)
    \/ \E set \in SUBSET OrderIds : Confirm(set)

Safety == Init /\ [][Next]_vars

Spec == Safety /\ \A o \in OrderIds : WF_vars(Deliver(o))
=============================================================================
