----------------------------- MODULE Dictionaries -----------------------------
(***************************************************************************)
(* One of the tables customers filter the catalogue by (kinds, colours,    *)
(* heights, countries): services/taxonomy.py, the exchanges and imports    *)
(* that bring new values, and the pages where staff edits them             *)
(* (routers/filters.py) and chooses one for a product (routers/admin.py).  *)
(*                                                                         *)
(* Whoever brings values loads the table once (Taxonomy), looks them up in *)
(* its memory, makes what is missing, and commits at the end of its lines. *)
(* Two names with one key (fold: capitals, e for yo) are meant to be one   *)
(* entry, but the unique index compares them as they are written.  Which   *)
(* product a line is about is CatalogSync's matter.                        *)
(***************************************************************************)
EXTENDS Naturals, FiniteSets

CONSTANTS
    Keys,       \* names, as fold compares them
    Forms,      \* ways to write one that display_name leaves apart
    Codes,      \* identifiers of entries in 1C
    Goods,      \* products
    Sessions,   \* requests, and the start of the site
    Legacy,     \* Legacy[p]: what the old text column of p says, None if nothing
    Guess,      \* Guess[p]: what the name of p suggests, None if nothing
    Other,      \* what a product gets without a guess, None if nothing
    Defaults,   \* the starting set of names
    Overlap,    \* whether requests run at the same time
    Postgres,   \* PostgreSQL: foreign keys hold, exchanges lock each other out
    MaxId,      \* bound on entries ever made
    MaxLines,   \* bound on the lines of one message
    Blank,      \* no identifier of 1C
    None        \* no entry, no name

Ids == 1..MaxId
Names == [key : Keys, form : Forms]
Entry == [name : Names, ext : Codes \cup {Blank}]

ASSUME DictionariesAssumption ==
    /\ Blank \notin Codes
    /\ None \notin Nat \cup Names \cup Entry
    /\ Legacy \in [Goods -> Names \cup {None}]
    /\ Guess \in [Goods -> Names \cup {None}]
    /\ Other \in Names \cup {None}
    /\ Defaults \subseteq Names
    /\ Overlap \in BOOLEAN /\ Postgres \in BOOLEAN
    /\ MaxId \in Nat /\ MaxLines \in Nat

VARIABLES
    entries,    \* rows of the table by id, None where there is none
    value,      \* the entry each product points at
    used,       \* ids given out by the sequence
    prepared,   \* whether the old columns have been carried over
    pc,         \* what each session is doing
    kind,       \* "start", "sync", "import" or "page"
    read,       \* what it has read
    mem,        \* the same as it has changed it
    sent,       \* the products its lines gave a value, or none, for
    lines       \* how many lines it has looked at

dbVars == <<entries, value, used, prepared>>
sessionVars == <<pc, kind, read, mem, sent, lines>>
vars == <<dbVars, sessionVars>>

Table == [entries : [Ids -> Entry \cup {None}], value : [Goods -> Ids \cup {None}]]
Nothing == [entries |-> [i \in Ids |-> None], value |-> [p \in Goods |-> None]]

Init ==
    /\ entries = Nothing.entries
    /\ value = Nothing.value
    /\ used = 0
    /\ prepared = FALSE
    /\ pc = [s \in Sessions |-> "idle"]
    /\ kind = [s \in Sessions |-> "page"]
    /\ read = [s \in Sessions |-> Nothing]
    /\ mem = [s \in Sessions |-> Nothing]
    /\ sent = [s \in Sessions |-> {}]
    /\ lines = [s \in Sessions |-> 0]

-----------------------------------------------------------------------------
(* Looking a value up: Taxonomy                                            *)

\* What a line, a file or a form says of a value.
Ref == [id : Ids \cup {None}, ext : Codes \cup {Blank}, name : Names \cup {None}]
ByName(n) == [id |-> None, ext |-> Blank, name |-> n]
Empty == [id |-> None, ext |-> Blank, name |-> None]

\* fold: one key for all ways to write a name.
SameName(n, m) == n.key = m.key

WithCode(t, e) == {i \in Ids : t[i] # None /\ t[i].ext = e}
WithName(t, n) == {i \in Ids : t[i] # None /\ SameName(t[i].name, n)}

\* Taxonomy.resolve: by the id of the site, that of 1C, the name.
Matches(t, ref) ==
    IF ref.id # None THEN {ref.id} \cap {i \in Ids : t[i] # None}
    ELSE IF ref.ext # Blank /\ WithCode(t, ref.ext) # {} THEN WithCode(t, ref.ext)
    ELSE IF ref.name # None THEN WithName(t, ref.name) ELSE {}

\* Mutant: the entry takes the identifier it was last sent with.
AdoptedAlways(entry, ref) ==
    IF ref.id = None /\ ref.ext # Blank THEN [entry EXCEPT !.ext = ref.ext] ELSE entry

\* An entry found by its name remembers the identifier of 1C, once.
Adopted(entry, ref) ==
    IF ref.id = None /\ ref.ext # Blank /\ entry.ext = Blank
    THEN [entry EXCEPT !.ext = ref.ext] ELSE entry

\* _create needs a name; without one, or with an id that is not there, the
\* line is an error and changes nothing.
Creates(t, ref) == Matches(t, ref) = {} /\ ref.id = None /\ ref.name # None

\* The table and the entry a reference leads to.
Resolved(t, ref) ==
    {[table |-> [t EXCEPT ![i] = Adopted(@, ref)], id |-> i] : i \in Matches(t, ref)}
    \cup (IF Creates(t, ref) /\ used < MaxId
          THEN {[table |-> [t EXCEPT ![used + 1] = [name |-> ref.name, ext |-> ref.ext]],
                 id |-> used + 1]}
          ELSE {})

\* The session puts the entry it was led to into a product, or only into the
\* table when something else is wrong with the line.
Puts(s, p, r, ok) ==
    /\ mem' = [mem EXCEPT ![s].entries = r.table,
                          ![s].value[p] = IF ok THEN r.id ELSE @]
    /\ used' = IF r.id > used THEN r.id ELSE used

-----------------------------------------------------------------------------
(* Sessions                                                                *)

\* Mutant: an exchange does not wait for another one.
MayBeginAnyTime(s, k) ==
    /\ ~Overlap => \A t \in Sessions : pc[t] = "idle"
    /\ k = "start" <=> ~prepared

\* Nothing is served before the start; lock_exchange keeps exchanges apart.
MayBegin(s, k) ==
    /\ ~Overlap => \A t \in Sessions : pc[t] = "idle"
    /\ k = "start" <=> ~prepared
    /\ k = "start" => \A t \in Sessions : pc[t] = "idle"
    /\ k = "sync" /\ Postgres => \A t \in Sessions : ~(pc[t] = "open" /\ kind[t] = "sync")

Begin(s) ==
    /\ pc[s] = "idle"
    /\ \E k \in {"start", "sync", "import", "page"} :
        /\ MayBegin(s, k)
        /\ kind' = [kind EXCEPT ![s] = k]
    /\ pc' = [pc EXCEPT ![s] = "open"]
    /\ read' = [read EXCEPT ![s] = [entries |-> entries, value |-> value]]
    /\ mem' = [mem EXCEPT ![s] = [entries |-> entries, value |-> value]]
    /\ UNCHANGED <<dbVars, sent, lines>>

Serves(s, kinds) == pc[s] = "open" /\ kind[s] \in kinds

NextLine(s) ==
    /\ Serves(s, {"sync", "import"})
    /\ lines[s] < MaxLines
    /\ lines' = [lines EXCEPT ![s] = @ + 1]
    /\ UNCHANGED <<entries, value, prepared, pc, kind, read>>

\* A line that gives a value; a file has names only.
NamedLine(s) ==
    /\ NextLine(s)
    /\ \E p \in Goods, ref \in Ref, ok \in BOOLEAN :
        /\ kind[s] = "import" => ref = ByName(ref.name)
        /\ \E r \in Resolved(mem[s].entries, ref) : Puts(s, p, r, ok)
        /\ sent' = [sent EXCEPT ![s] = @ \cup {p}]

\* 1C sends the field empty: the product loses its value.
EmptyLine(s) ==
    /\ NextLine(s) /\ kind[s] = "sync"
    /\ \E p \in Goods :
        /\ mem' = [mem EXCEPT ![s].value[p] = None]
        /\ sent' = [sent EXCEPT ![s] = @ \cup {p}]
    /\ UNCHANGED used

\* Only a product without a value is guessed.
MayGuess(s, p) == mem[s].value[p] = None

\* A line without the field: fill_empty_from_name, then the last resort.
SilentLine(s) ==
    /\ NextLine(s)
    /\ \E p \in Goods :
        LET n == IF Guess[p] # None THEN Guess[p] ELSE Other
        IN  /\ MayGuess(s, p) /\ n # None
            /\ \E r \in Resolved(mem[s].entries, ByName(n)) : Puts(s, p, r, TRUE)
    /\ UNCHANGED sent

OldNames(s) == {p \in Goods : Legacy[p] # None /\ mem[s].value[p] = None}
Missing(s) == {n \in Defaults : WithName(mem[s].entries, n) = {}}

\* apply_legacy_values: the old column of a product becomes an entry.
CarryOver(s) ==
    /\ Serves(s, {"start"})
    /\ \E p \in OldNames(s) :
        \E r \in Resolved(mem[s].entries, ByName(Legacy[p])) : Puts(s, p, r, TRUE)
    /\ UNCHANGED <<entries, value, prepared, pc, kind, read, sent, lines>>

\* seed_defaults: what the starting set has and the table has not.
Seed(s) ==
    /\ Serves(s, {"start"}) /\ OldNames(s) = {}
    /\ \E n \in Missing(s), r \in UNION {Resolved(mem[s].entries, ByName(m)) : m \in Missing(s)} :
        /\ r.table[r.id].name = n
        /\ mem' = [mem EXCEPT ![s].entries = r.table]
        /\ used' = r.id
    /\ UNCHANGED <<entries, value, prepared, pc, kind, read, sent, lines>>

-----------------------------------------------------------------------------
(* Writing                                                                 *)

Over(s) ==
    /\ pc' = [pc EXCEPT ![s] = "idle"]
    /\ kind' = [kind EXCEPT ![s] = "page"]
    /\ read' = [read EXCEPT ![s] = Nothing]
    /\ mem' = [mem EXCEPT ![s] = Nothing]
    /\ sent' = [sent EXCEPT ![s] = {}]
    /\ lines' = [lines EXCEPT ![s] = 0]

\* UNIQUE(name), as it is written.
IsFree(n, i) == \A j \in Ids \ {i} : entries[j] # None => entries[j].name # n

\* FOREIGN KEY: on PostgreSQL a product points at a row that is there.
MayPoint(i) == Postgres => entries[i] # None

New(s) == {i \in Ids : read[s].entries[i] = None /\ mem[s].entries[i] # None}
Recoded(s) == {i \in Ids \ New(s) : mem[s].entries[i] # read[s].entries[i]}
Moved(s) == {p \in Goods : mem[s].value[p] # read[s].value[p]}

\* The commit of an exchange, of an import and of the start: new rows, the
\* identifiers that were adopted, the products that were changed.  A row that
\* is gone, a name that is taken and a broken reference fail all of it.
Commit(s) ==
    /\ Serves(s, {"start", "sync", "import"})
    /\ kind[s] = "start" => OldNames(s) = {} /\ Missing(s) = {}
    /\ \A i \in New(s) : IsFree(mem[s].entries[i].name, i)
    /\ \A i \in Recoded(s) : entries[i] # None
    /\ \A p \in Moved(s) :
        mem[s].value[p] \notin New(s) \cup {None} => MayPoint(mem[s].value[p])
    /\ entries' = [i \in Ids |-> IF i \in New(s) THEN mem[s].entries[i]
                                 ELSE IF i \in Recoded(s)
                                 THEN [entries[i] EXCEPT !.ext = mem[s].entries[i].ext]
                                 ELSE entries[i]]
    /\ value' = [p \in Goods |-> IF p \in Moved(s) THEN mem[s].value[p] ELSE value[p]]
    /\ prepared' = (prepared \/ kind[s] = "start")
    /\ Over(s)
    /\ UNCHANGED used

\* dry_run, a lost connection, or the database refuses something.
RollBack(s) ==
    /\ pc[s] = "open"
    /\ Over(s)
    /\ UNCHANGED dbVars

Writes(s, table, values) ==
    /\ Serves(s, {"page"})
    /\ entries' = table /\ value' = values
    /\ Over(s)
    /\ UNCHANGED prepared

\* add_value
AddValue(s) ==
    /\ \E n \in Names :
        /\ used < MaxId
        /\ WithName(read[s].entries, n) = {}
        /\ IsFree(n, used + 1)
        /\ Writes(s, [entries EXCEPT ![used + 1] = [name |-> n, ext |-> Blank]], value)
    /\ used' = used + 1

\* edit_value: a name no other entry had; only the name is written.
EditValue(s) ==
    /\ \E i \in Ids, n \in Names :
        /\ read[s].entries[i] # None /\ n # read[s].entries[i].name
        /\ WithName(read[s].entries, n) \subseteq {i}
        /\ entries[i] # None /\ IsFree(n, i)
        /\ Writes(s, [entries EXCEPT ![i].name = n], value)
    /\ UNCHANGED used

IsUnused(s, i) == \A p \in Goods : read[s].value[p] # i

\* delete_value: no product used it; on PostgreSQL none uses it now.
DeleteValue(s) ==
    /\ \E i \in Ids :
        /\ read[s].entries[i] # None
        /\ IsUnused(s, i)
        /\ Postgres => \A p \in Goods : value[p] # i
        /\ Writes(s, [entries EXCEPT ![i] = None], value)
    /\ UNCHANGED used

\* product_new and product_edit with a choice from the list, or with none.
ChooseValue(s) ==
    /\ \E p \in Goods, i \in Ids \cup {None} :
        /\ i # read[s].value[p]
        /\ i # None => read[s].entries[i] # None /\ MayPoint(i)
        /\ Writes(s, entries, [value EXCEPT ![p] = i])
    /\ UNCHANGED used

-----------------------------------------------------------------------------

Next == \E s \in Sessions :
    \/ Begin(s)
    \/ CarryOver(s) \/ Seed(s)
    \/ NamedLine(s) \/ EmptyLine(s) \/ SilentLine(s)
    \/ Commit(s) \/ RollBack(s)
    \/ AddValue(s) \/ EditValue(s) \/ DeleteValue(s) \/ ChooseValue(s)

Spec == Init /\ [][Next]_vars

-----------------------------------------------------------------------------
(* Properties                                                              *)

\* Every variable has its type.
DictionariesTypeOK ==
    /\ entries \in [Ids -> Entry \cup {None}]
    /\ value \in [Goods -> Ids \cup {None}]
    /\ used \in 0..MaxId
    /\ prepared \in BOOLEAN
    /\ pc \in [Sessions -> {"idle", "open"}]
    /\ kind \in [Sessions -> {"start", "sync", "import", "page"}]
    /\ read \in [Sessions -> Table] /\ mem \in [Sessions -> Table]
    /\ sent \in [Sessions -> SUBSET Goods]
    /\ lines \in [Sessions -> 0..MaxLines]

\* No two entries of a dictionary are ways to write one name, whoever made
\* them, renamed them or brought them from 1C.
OneEntryPerName ==
    \A i, j \in Ids :
        /\ entries[i] # None /\ entries[j] # None
        /\ entries[i].name.key = entries[j].name.key
        => i = j

\* An identifier of 1C leads to one entry: after the owner renames it, the
\* next message finds the renamed one and makes no second.
OneEntryPerCode ==
    \A i, j \in Ids :
        /\ entries[i] # None /\ entries[j] # None
        /\ entries[i].ext # Blank /\ entries[i].ext = entries[j].ext
        => i = j

\* An entry 1C knows keeps its identifier as long as it exists, whatever
\* other identifiers its name is sent with.
CodeIsKept ==
    [][\A i \in Ids :
         entries[i] # None /\ entries'[i] # None /\ entries[i].ext # Blank
         => entries'[i].ext = entries[i].ext
      ]_vars

\* What 1C or staff has filled in is not changed by a line that says nothing
\* of it.
FilledIsKept ==
    [][\A s \in Sessions, p \in Goods :
         /\ kind[s] \in {"sync", "import"}
         /\ pc[s] = "open" /\ pc'[s] = "idle"
         /\ value[p] # None /\ p \notin sent[s]
         => value'[p] = value[p]
      ]_vars
=============================================================================
