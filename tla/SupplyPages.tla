---------------------------- MODULE SupplyPages ----------------------------
(***************************************************************************)
(* The supply pages of the administrator (admin.py): supplies and their    *)
(* positions are entered, recounted, taken off the shelf and deleted.      *)
(* Each handler reads and commits in one step here; a position that is     *)
(* deleted takes the references of the preorders to it along.              *)
(***************************************************************************)
EXTENDS PreorderDB

CONSTANTS
    EditsTo,     \* statuses the administrator gives
    Packs,       \* packs the administrator enters
    MaxStock     \* packs a position may be topped up to

ASSUME PagesAssumption ==
    /\ EditsTo \subseteq Statuses
    /\ Packs \subseteq Nat \ {0}
    /\ MaxStock \in Nat

SupplyExists(s) == status[s] \in Statuses

\* supply_new
NewSupply ==
    /\ \E s \in Manual, st \in EditsTo :
        /\ status[s] = "none"
        /\ status' = [status EXCEPT ![s] = st]
    /\ UNCHANGED <<rows, preorders, writes>>

\* supply_edit: any status may follow any other, on supplies of 1C too.
EditSupply ==
    /\ \E s \in Supplies, st \in EditsTo :
        /\ SupplyExists(s)
        /\ FreeOf(Unloaders, "supply", s)
        /\ status' = [status EXCEPT ![s] = st]
    /\ UNCHANGED <<rows, preorders, writes>>

\* supply_deactivate
Deactivate ==
    /\ \E s \in Manual :
        /\ SupplyExists(s)
        /\ \A i \in Items : SupplyOf[i] = s /\ IsActive(i)
                             => FreeOf(Unloaders, "item", i)
        /\ rows' = [i \in Items |->
                      IF SupplyOf[i] = s /\ IsActive(i)
                      THEN [rows[i] EXCEPT !.active = FALSE] ELSE rows[i]]
    /\ UNCHANGED <<status, preorders, writes>>

\* The line of a product after "packs" more of it were entered: a supply that
\* lists the product already gets no second line.
Entered(i, packs) ==
    IF IsListed(i) THEN [rows[i] EXCEPT !.stock = @ + packs]
    ELSE [stock |-> packs, reserved |-> 0, active |-> FALSE]

\* supply_item_add (one line), supply_import_invoice (all lines of a file).
EnterLines ==
    /\ \E s \in Supplies, packs \in Packs :
        \E lines \in (SUBSET {i \in Items : SupplyOf[i] = s}) \ {{}} :
            /\ SupplyExists(s)
            /\ \A i \in lines :
                /\ rows[i] # Gone /\ FreeOf(Unloaders, "item", i)
                /\ Entered(i, packs).stock <= MaxStock
            /\ rows' = [i \in Items |-> IF i \in lines THEN Entered(i, packs) ELSE rows[i]]
    /\ UNCHANGED <<status, preorders, writes>>

\* supply_item_update: the stock is set, reserve and shelf stay as they are.
UpdateLine ==
    /\ \E i \in Items, packs \in Packs :
        /\ IsListed(i) /\ FreeOf(Unloaders, "item", i)
        /\ rows' = [rows EXCEPT ![i].stock = packs]
    /\ UNCHANGED <<status, preorders, writes>>

\* Mutant: preorders that have arrived keep their position.
DetachedWaiting(lines) ==
    [o \in PreorderIds |->
       IF Waiting(o) /\ preorders[o].item \in lines
       THEN [preorders[o] EXCEPT !.item = 0] ELSE preorders[o]]

\* _detach_supply_items, for the preorders.
Detached(lines) ==
    [o \in PreorderIds |->
       IF Exists(o) /\ preorders[o].item \in lines
       THEN [preorders[o] EXCEPT !.item = 0] ELSE preorders[o]]

Delete(lines) ==
    /\ \A i \in lines : FreeOf(Unloaders, "item", i)
    /\ \A o \in PreorderIds : Detached(lines)[o] # preorders[o]
                               => FreeOf(Unloaders, "preorder", o)
    /\ rows' = [i \in Items |-> IF i \in lines THEN Gone ELSE rows[i]]
    /\ preorders' = Detached(lines)

\* supply_item_delete
DeleteLine ==
    /\ \E i \in Items : IsListed(i) /\ Delete({i})
    /\ UNCHANGED <<status, writes>>

\* supply_delete: of any supply but the service one.
DeleteSupply ==
    /\ \E s \in Supplies \ Service :
        /\ SupplyExists(s)
        /\ FreeOf(Unloaders, "supply", s)
        /\ Delete({i \in Items : SupplyOf[i] = s /\ IsListed(i)})
        /\ status' = [status EXCEPT ![s] = "gone"]
    /\ UNCHANGED writes
=============================================================================
