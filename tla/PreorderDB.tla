----------------------------- MODULE PreorderDB -----------------------------
(***************************************************************************)
(* The tables behind preorders: the shelf, the supplies it came with and   *)
(* the preorders, with what the open transactions have written to them.    *)
(*                                                                         *)
(* Only an unloading keeps writes of its own while others run; every other *)
(* handler writes and commits in one step.  Until it commits, nobody else  *)
(* sees what an unloading wrote and nobody else may write it: PostgreSQL   *)
(* makes the others wait for the row, SQLite for the whole database.       *)
(***************************************************************************)
EXTENDS Shelf, Totals, FiniteSets

CONSTANTS
    Supplies,     \* supplies (lorries with flowers)
    SupplyOf,     \* SupplyOf[i]: the supply the stock position i belongs to
    Manual,       \* supplies kept by hand: neither the service one nor an invoice of 1C
    Service,      \* the service supply of 1C, if the shop has one
    Users,        \* customers
    PreorderIds,  \* ids a preorder can get
    MaxPreorder,  \* MAX_PREORDER_PACKS
    Unloaders,    \* database sessions that unload supplies
    Database,     \* what DATABASE_URL points to
    Unused,       \* a preorder id that was never given out
    Gone          \* the id of a deleted preorder or a deleted position

Statuses == {"expected", "onTheWay", "arrived", "unloaded"}

\* Its position is 0 (NULL) once that position has been deleted.
Preorder == [user : Users, product : {Product[i] : i \in Items}, item : Items \cup {0},
             qty : 1..MaxPreorder, done : BOOLEAN]

\* A supply lists a product once: supply_item_add adds to the line it has.
ASSUME PreorderAssumption ==
    /\ SupplyOf \in [Items -> Supplies]
    /\ \A i, j \in Items :
          SupplyOf[i] = SupplyOf[j] /\ Product[i] = Product[j] => i = j
    /\ Manual \subseteq Supplies
    /\ Service \subseteq Supplies \ Manual
    /\ IsFiniteSet(PreorderIds)
    /\ MaxPreorder \in Nat \ {0}
    /\ Database \in {"postgresql", "sqlite"}
    /\ {NoRow, Gone} \cap Row = {}
    /\ {Unused, Gone} \cap Preorder = {}
    /\ Unused # Gone /\ NoRow # Gone

VARIABLES
    status,       \* status of each supply, "none" before it is entered
    preorders,    \* committed preorders
    reset,        \* stock rows an unloading has taken off the shelf so far
    draft,        \* rows it has flushed
    fulfilled,    \* preorders it has flushed, with the position they now have
    closed        \* supplies it has flushed

tables == <<rows, status, preorders>>
writes == <<reset, draft, fulfilled, closed>>

NoDraft   == [i \in Items |-> NoRow]
NotMarked == [o \in PreorderIds |-> 0]

Exists(o) == preorders[o] \in Preorder

\* The position has been entered and not been deleted since.
IsListed(i) == rows[i] \in Row

IsActive(i) == IsListed(i) /\ rows[i].active

Waiting(o) == Exists(o) /\ ~preorders[o].done
Arrived(o) == Exists(o) /\ preorders[o].done

PacksOf(set, x) == Total([o \in set |-> x[o].qty], set)

TablesInit ==
    /\ preorders = [o \in PreorderIds |-> Unused]
    /\ reset = [c \in Unloaders |-> {}]
    /\ draft = [c \in Unloaders |-> NoDraft]
    /\ fulfilled = [c \in Unloaders |-> NotMarked]
    /\ closed = [c \in Unloaders |-> {}]

-----------------------------------------------------------------------------
(* Who may write what, while transactions are open                         *)

HasWritten(c) ==
    \/ reset[c] # {} \/ closed[c] # {}
    \/ draft[c] # NoDraft \/ fulfilled[c] # NotMarked

Writes(c, table, key) ==
    CASE table = "item"     -> key \in reset[c] \/ draft[c][key] # NoRow
      [] table = "preorder" -> fulfilled[c][key] # 0
      [] table = "supply"   -> key \in closed[c]

\* None of these sessions keeps the row from being written.
FreeOf(sessions, table, key) ==
    \A c \in sessions :
        IF Database = "sqlite" THEN ~HasWritten(c) ELSE ~Writes(c, table, key)

\* The rows and preorders as the transaction of c sees them.
RowSeen(c, i) == IF draft[c][i] = NoRow THEN rows[i] ELSE draft[c][i]

IsWaitingFor(c, o) == Waiting(o) /\ fulfilled[c][o] = 0

-----------------------------------------------------------------------------
(* The rest of the shop, one committed transaction each.  That a checkout  *)
(* is such a step is what the theorem CheckoutIsAtomic says.               *)

\* place_order, for one line of n packs.
Sell(i, n, preordered) ==
    /\ IsListed(i)
    /\ FreeOf(Unloaders, "item", i)
    /\ IF preordered THEN n <= rows[i].stock
                     ELSE rows[i].active /\ n <= Avail(rows[i])
    /\ LET left == [rows[i] EXCEPT !.stock = @ - n]
       IN  rows' = [rows EXCEPT ![i] =
                      [left EXCEPT !.active = @ /\ Avail(left) > 0]]

-----------------------------------------------------------------------------

TablesTypeOK ==
    /\ rows \in [Items -> Row \cup {NoRow, Gone}]
    /\ status \in [Supplies -> Statuses \cup {"none", "gone"}]
    /\ preorders \in [PreorderIds -> Preorder \cup {Unused, Gone}]
    /\ reset \in [Unloaders -> SUBSET Items]
    /\ draft \in [Unloaders -> [Items -> Row \cup {NoRow}]]
    /\ fulfilled \in [Unloaders -> [PreorderIds -> Items \cup {0}]]
    /\ closed \in [Unloaders -> SUBSET Supplies]
=============================================================================
