----------------------------- MODULE Unloading -----------------------------
(***************************************************************************)
(* do_unload (scheduler.py): old batches leave the shelf, the batches of a *)
(* supply that has arrived enter it, waiting preorders get their reserve.  *)
(* An administrator unloads one supply (supply_unload in admin.py); every  *)
(* hour the scheduler unloads all that are overdue, in one transaction     *)
(* with a savepoint for each (auto_unload_overdue).                        *)
(*                                                                         *)
(* The batches are loaded first; the bulk UPDATE that empties the shelf    *)
(* goes past the loaded objects (synchronize_session=False).  What is      *)
(* flushed later are the columns in which an object differs from what was  *)
(* loaded.                                                                 *)
(***************************************************************************)
EXTENDS PreorderDB

CONSTANTS
    Admins,      \* sessions of administrators
    Robots       \* sessions of the scheduler

ASSUME UnloadingAssumption == Unloaders = Admins \cup Robots

VARIABLES
    phase,       \* where a session is in its handler
    todo,        \* supplies it has still to unload
    current,     \* supply it is unloading
    item,        \* SupplyItem objects as it loaded them
    was,         \* statuses of the supplies as it loaded them
    found        \* Preorder objects it loaded for the current supply

unloadVars == <<phase, todo, current, item, was, found>>

NothingFound == [o \in PreorderIds |-> Unused]

UnloadingInit ==
    /\ phase = [c \in Unloaders |-> "idle"]
    /\ todo = [c \in Unloaders |-> {}]
    /\ current = [c \in Unloaders |-> {}]
    /\ item = [c \in Unloaders |-> NoDraft]
    /\ was = [c \in Unloaders |-> [s \in Supplies |-> "expected"]]
    /\ found = [c \in Unloaders |-> NothingFound]

\* supply.items
ItemsOf(set) == {i \in Items : SupplyOf[i] \in set /\ IsListed(i)}

\* The positions of its supplies a session has loaded.
Loaded(c, set) == {i \in Items : SupplyOf[i] \in set /\ item[c][i] # NoRow}

\* Mutant: supplies of 1C are not told apart.
OldBatchesOfAll(c) == {i \in Items : IsListed(i) /\ RowSeen(c, i).active}

\* "Старые партии": active positions of supplies kept by hand.
OldBatches(c) == {i \in OldBatchesOfAll(c) : SupplyOf[i] \in Manual}

-----------------------------------------------------------------------------

Open(c, supplies) ==
    /\ phase[c] = "idle"
    /\ phase' = [phase EXCEPT ![c] = "clearing"]
    /\ todo' = [todo EXCEPT ![c] = supplies]
    /\ item' = [item EXCEPT ![c] =
                  [i \in Items |-> IF i \in ItemsOf(supplies) THEN rows[i] ELSE NoRow]]
    /\ was' = [was EXCEPT ![c] =
                  [s \in Supplies |-> IF s \in supplies THEN status[s] ELSE @[s]]]
    /\ UNCHANGED <<tables, writes, current, found>>

\* supply_unload: of any manual supply with items, whatever its status.
OpenUnload(c) ==
    /\ c \in Admins
    /\ \E s \in Manual : ItemsOf({s}) # {} /\ Open(c, {s})

\* auto_unload_overdue: all whose arrival date has passed.
OpenOverdue(c) ==
    /\ c \in Robots
    /\ \E set \in (SUBSET {s \in Manual : status[s] \in {"onTheWay", "arrived"}}) \ {{}} :
          Open(c, set)

\* The products of this supply that came with any stock.
Delivered(c, s) == {Product[i] : i \in {j \in Loaded(c, {s}) : item[c][j].stock > 0}}

\* The bulk UPDATE and the query for waiting preorders.  The letters to their
\* owners are sent before anything else is written.
ClearShelf(c) ==
    /\ phase[c] = "clearing"
    /\ \A i \in OldBatches(c) : FreeOf(Unloaders \ {c}, "item", i)
    /\ \E s \in todo[c] :
        /\ current' = [current EXCEPT ![c] = {s}]
        /\ todo' = [todo EXCEPT ![c] = @ \ {s}]
        /\ found' = [found EXCEPT ![c] =
              [o \in PreorderIds |->
                 IF IsWaitingFor(c, o) /\ preorders[o].product \in Delivered(c, s)
                 THEN preorders[o] ELSE Unused]]
    /\ reset' = [reset EXCEPT ![c] = OldBatches(c)]
    /\ phase' = [phase EXCEPT ![c] = "flushing"]
    /\ UNCHANGED <<tables, draft, fulfilled, closed, item, was>>

\* Preorders whose packs position i brings.
Awaiting(c, i) ==
    {o \in PreorderIds : found[c][o] # Unused /\ found[c][o].product = Product[i]}

\* The object after the loop of do_unload.
Placed(c, i) ==
    LET wanted == PacksOf(Awaiting(c, i), found[c])
        held   == IF wanted = 0 THEN item[c][i]
                  ELSE [item[c][i] EXCEPT !.reserved =
                          IF wanted < item[c][i].stock THEN wanted ELSE item[c][i].stock]
    IN  IF item[c][i].stock <= 0 THEN item[c][i]
        ELSE [held EXCEPT !.active = @ \/ Avail(held) > 0]

\* Mutant: only the reserve is reset.
ClearedReserve(c, i) ==
    IF i \in reset[c] THEN [RowSeen(c, i) EXCEPT !.reserved = 0] ELSE RowSeen(c, i)

\* The row once the shelf is cleared.
Cleared(c, i) ==
    IF i \in reset[c] THEN [RowSeen(c, i) EXCEPT !.active = FALSE, !.reserved = 0]
    ELSE RowSeen(c, i)

IsChanged(c, i) == i \in Loaded(c, current[c]) /\ Placed(c, i) # item[c][i]

\* Only columns that differ from the loaded object are written.
Flushed(c, i) ==
    IF ~IsChanged(c, i) THEN Cleared(c, i)
    ELSE [Cleared(c, i) EXCEPT
            !.reserved = IF Placed(c, i).reserved = item[c][i].reserved THEN @
                         ELSE Placed(c, i).reserved,
            !.active   = IF Placed(c, i).active = item[c][i].active THEN @
                         ELSE Placed(c, i).active]

Batch(c, o) == CHOOSE i \in Loaded(c, current[c]) : Product[i] = found[c][o].product

NewlyClosed(c) == {s \in current[c] : was[c][s] # "unloaded"}

IsFound(c) == {o \in PreorderIds : found[c][o] # Unused}

CanFlush(c) ==
    /\ \A i \in Items : IsChanged(c, i) => FreeOf(Unloaders \ {c}, "item", i)
    /\ \A o \in IsFound(c) : FreeOf(Unloaders \ {c}, "preorder", o)
    /\ \A s \in NewlyClosed(c) : FreeOf(Unloaders \ {c}, "supply", s)

\* A loaded row that is to be written has been deleted: StaleDataError.
IsStale(c) ==
    \/ \E o \in IsFound(c) : preorders[o] = Gone
    \/ \E i \in Items : IsChanged(c, i) /\ rows[i] = Gone
    \/ \E s \in NewlyClosed(c) : status[s] = "gone"

NextSupply(c) ==
    /\ phase' = [phase EXCEPT ![c] = IF todo[c] = {} THEN "committing" ELSE "clearing"]
    /\ found' = [found EXCEPT ![c] = NothingFound]
    /\ reset' = [reset EXCEPT ![c] = {}]
    /\ current' = [current EXCEPT ![c] = {}]

Flush(c) ==
    /\ phase[c] = "flushing" /\ CanFlush(c) /\ ~IsStale(c)
    /\ draft' = [draft EXCEPT ![c] =
          [i \in Items |-> IF i \in reset[c] \/ IsChanged(c, i) THEN Flushed(c, i) ELSE @[i]]]
    /\ fulfilled' = [fulfilled EXCEPT ![c] =
          [o \in PreorderIds |->
             IF o \notin IsFound(c) THEN @[o]
             ELSE IF found[c][o].item = Batch(c, o) THEN preorders[o].item
             ELSE Batch(c, o)]]
    /\ closed' = [closed EXCEPT ![c] = @ \cup NewlyClosed(c)]
    /\ NextSupply(c)
    /\ UNCHANGED <<tables, todo, item, was>>

\* The scheduler goes back to the savepoint and on to the next supply.
SkipSupply(c) ==
    /\ c \in Robots
    /\ phase[c] = "flushing" /\ CanFlush(c) /\ IsStale(c)
    /\ NextSupply(c)
    /\ UNCHANGED <<tables, draft, fulfilled, closed, todo, item, was>>

\* The transaction ends: its writes are not its own any more.
EndUnload(c) ==
    /\ phase' = [phase EXCEPT ![c] = "idle"]
    /\ todo' = [todo EXCEPT ![c] = {}]
    /\ current' = [current EXCEPT ![c] = {}]
    /\ item' = [item EXCEPT ![c] = NoDraft]
    /\ was' = [was EXCEPT ![c] = [s \in Supplies |-> "expected"]]
    /\ found' = [found EXCEPT ![c] = NothingFound]
    /\ reset' = [reset EXCEPT ![c] = {}]
    /\ draft' = [draft EXCEPT ![c] = NoDraft]
    /\ fulfilled' = [fulfilled EXCEPT ![c] = NotMarked]
    /\ closed' = [closed EXCEPT ![c] = {}]

CommitUnload(c) ==
    /\ phase[c] = "committing"
    /\ rows' = [i \in Items |-> RowSeen(c, i)]
    /\ preorders' = [o \in PreorderIds |->
          IF fulfilled[c][o] = 0 THEN preorders[o]
          ELSE [preorders[o] EXCEPT !.done = TRUE, !.item = fulfilled[c][o]]]
    /\ status' = [s \in Supplies |-> IF s \in closed[c] THEN "unloaded" ELSE status[s]]
    /\ EndUnload(c)

\* The process dies, a statement is refused (a stale preorder for an
\* administrator, a deadlock the database breaks): rollback.
LostUnload(c) ==
    /\ phase[c] # "idle"
    /\ UNCHANGED tables
    /\ EndUnload(c)

UnloadStep(c) == ClearShelf(c) \/ Flush(c) \/ SkipSupply(c) \/ CommitUnload(c) \/ LostUnload(c)

-----------------------------------------------------------------------------

UnloadingTypeOK ==
    /\ phase \in [Unloaders -> {"idle", "clearing", "flushing", "committing"}]
    /\ todo \in [Unloaders -> SUBSET Manual]
    /\ current \in [Unloaders -> SUBSET Manual]
    /\ item \in [Unloaders -> [Items -> Row \cup {NoRow}]]
    /\ was \in [Unloaders -> [Supplies -> Statuses]]
    /\ found \in [Unloaders -> [PreorderIds -> Preorder \cup {Unused}]]
=============================================================================
