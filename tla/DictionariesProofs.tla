-------------------------- MODULE DictionariesProofs --------------------------
(***************************************************************************)
(* What happens to one dictionary while an exchange, files and pages of    *)
(* staff work on it at the same time: where exchanges do not overlap an    *)
(* identifier of 1C belongs to one entry and stays with it.                *)
(*                                                                         *)
(* Only exchanges write identifiers.  The one that is open therefore has   *)
(* in its memory every identifier of the table, where the table has it,    *)
(* however many entries others have made, renamed or deleted since.        *)
(***************************************************************************)
EXTENDS Dictionaries, Startup, TLAPS

Rows == [Ids -> Entry \cup {None}]

OneCode(t) ==
    \A i, j \in Ids :
        t[i] # None /\ t[j] # None /\ t[i].ext # Blank /\ t[i].ext = t[j].ext => i = j

IsOpen(s) == pc[s] = "open"
Syncs(s) == IsOpen(s) /\ kind[s] = "sync"

\* A session drops nothing of what it has read and renames nothing; it adds
\* identifiers of 1C, and only if it is an exchange.
Kept(s) ==
    \A i \in Ids :
        /\ read[s].entries[i] # None =>
            /\ mem[s].entries[i] # None
            /\ mem[s].entries[i].name = read[s].entries[i].name
            /\ read[s].entries[i].ext # Blank \/ kind[s] # "sync"
                    => mem[s].entries[i].ext = read[s].entries[i].ext
        /\ i \in New(s) /\ kind[s] # "sync" => mem[s].entries[i].ext = Blank

\* What a session has made is nowhere else.
Own(s) ==
    \A i \in New(s) :
        entries[i] = None /\ \A t \in Sessions \ {s} : mem[t].entries[i] = None

\* The memory of an exchange has every identifier of the table.
Fresh(s) ==
    \A i \in Ids :
        entries[i] # None /\ entries[i].ext # Blank =>
            mem[s].entries[i] # None /\ mem[s].entries[i].ext = entries[i].ext

\* Ids above "used" have never been given out.
Beyond ==
    \A i \in Ids : i > used =>
        entries[i] = None /\ \A s \in Sessions : mem[s].entries[i] = None

OneSync == \A s, t \in Sessions : Syncs(s) /\ Syncs(t) => s = t

CodesInv ==
    /\ OneSync
    /\ OneCode(entries)
    /\ \A s \in Sessions : OneCode(mem[s].entries)
    /\ \A s \in Sessions : Syncs(s) => Fresh(s)

DictInv ==
    /\ DictionariesTypeOK
    /\ \A s \in Sessions : ~IsOpen(s) => read[s] = Nothing /\ mem[s] = Nothing
    /\ \A s \in Sessions : Kept(s) /\ Own(s)
    /\ Beyond

USE DictionariesAssumption DEF Ids

-----------------------------------------------------------------------------
(* Looking a value up                                                      *)

LEMMA EntryIs ==
    ASSUME NEW e \in Entry
    PROVE  e # None /\ e.name \in Names /\ e.ext \in Codes \cup {Blank}
BY DEF Entry

\* The entry a reference leads to is one that was there, or a new one.  One
\* that was there keeps its name, and its identifier if it has one; if it takes
\* one, no other entry has it.  A new one has a name and an identifier that no
\* other has.
Found(t, ref, r) ==
    /\ r.id \in Ids /\ t[r.id] # None
    /\ r.table[r.id].name = t[r.id].name
    /\ \/ r.table[r.id].ext = t[r.id].ext
       \/ /\ t[r.id].ext = Blank /\ ref.ext # Blank
          /\ r.table[r.id].ext = ref.ext
          /\ \A j \in Ids : t[j] # None => t[j].ext # ref.ext

Made(t, ref, r) ==
    /\ r.id = used + 1 /\ used < MaxId
    /\ r.table[r.id] = [name |-> ref.name, ext |-> ref.ext]
    /\ ref.name \in Names
    /\ \A j \in Ids : t[j] # None =>
        /\ t[j].name.key # ref.name.key
        /\ ref.ext # Blank => t[j].ext # ref.ext

LEMMA ResolvedIs ==
    ASSUME NEW t \in Rows, NEW ref \in Ref, used \in 0..MaxId, NEW r \in Resolved(t, ref)
    PROVE  /\ r.id \in Ids /\ r.table \in Rows /\ r.table[r.id] # None
           /\ \A i \in Ids : i # r.id => r.table[i] = t[i]
           /\ Found(t, ref, r) \/ Made(t, ref, r)
<1>1. /\ ref.id \in Ids \cup {None} /\ ref.ext \in Codes \cup {Blank}
      /\ ref.name \in Names \cup {None}
    BY DEF Ref
<1>2. CASE \E i \in Matches(t, ref) :
                r = [table |-> [t EXCEPT ![i] = Adopted(t[i], ref)], id |-> i]
    <2>1. PICK i \in Matches(t, ref) :
            r = [table |-> [t EXCEPT ![i] = Adopted(t[i], ref)], id |-> i]
        BY <1>2
    <2>2. i \in Ids /\ t[i] # None
        BY <2>1 DEF Matches, WithCode, WithName
    <2>3. t[i] \in Entry
        BY <2>2 DEF Rows
    <2>4. Adopted(t[i], ref) \in Entry /\ Adopted(t[i], ref).name = t[i].name
        BY <1>1, <2>3 DEF Adopted, Entry
    <2>5. \/ Adopted(t[i], ref).ext = t[i].ext
          \/ /\ t[i].ext = Blank /\ ref.ext # Blank
             /\ Adopted(t[i], ref).ext = ref.ext
             /\ \A j \in Ids : t[j] # None => t[j].ext # ref.ext
        <3>1. CASE ref.id = None /\ ref.ext # Blank /\ t[i].ext = Blank
            <4>1. Adopted(t[i], ref).ext = ref.ext
                BY <2>3, <3>1 DEF Adopted, Entry
            <4>2. i \notin WithCode(t, ref.ext)
                BY <3>1 DEF WithCode
            <4>3. WithCode(t, ref.ext) = {}
                BY <2>1, <3>1, <4>2 DEF Matches
            <4>. QED
                BY <3>1, <4>1, <4>3 DEF WithCode
        <3>2. CASE ~(ref.id = None /\ ref.ext # Blank /\ t[i].ext = Blank)
            BY <3>2 DEF Adopted
        <3>. QED
            BY <3>1, <3>2
    <2>6. /\ r.id = i /\ r.table \in Rows /\ r.table[i] = Adopted(t[i], ref)
          /\ \A k \in Ids : k # i => r.table[k] = t[k]
        BY <2>1, <2>2, <2>4 DEF Rows
    <2>. QED
        BY <2>2, <2>4, <2>5, <2>6, EntryIs DEF Found
<1>3. CASE /\ Creates(t, ref) /\ used < MaxId
           /\ r = [table |-> [t EXCEPT ![used + 1] = [name |-> ref.name, ext |-> ref.ext]],
                   id |-> used + 1]
    <2>1. used + 1 \in Ids /\ ref.name \in Names /\ [name |-> ref.name, ext |-> ref.ext] \in Entry
        BY <1>1, <1>3 DEF Creates, Entry
    <2>2. /\ r.id = used + 1 /\ r.table \in Rows
          /\ r.table[used + 1] = [name |-> ref.name, ext |-> ref.ext]
          /\ \A k \in Ids : k # used + 1 => r.table[k] = t[k]
        BY <1>3, <2>1 DEF Rows
    <2>3. WithName(t, ref.name) = {} /\ (ref.ext # Blank => WithCode(t, ref.ext) = {})
        BY <1>3 DEF Creates, Matches
    <2>. QED
        BY <1>3, <2>1, <2>2, <2>3, EntryIs DEF Made, WithName, WithCode, SameName
<1>. QED
    BY <1>2, <1>3 DEF Resolved

\* Looking a value up makes no second entry with an identifier.
LEMMA ResolvedKeepsApart ==
    ASSUME NEW t \in Rows, NEW ref \in Ref, used \in 0..MaxId, NEW r \in Resolved(t, ref)
    PROVE  OneCode(t) => OneCode(r.table)
<1>1. /\ r.id \in Ids /\ r.table \in Rows /\ r.table[r.id] # None
      /\ \A i \in Ids : i # r.id => r.table[i] = t[i]
      /\ Found(t, ref, r) \/ Made(t, ref, r)
    BY ResolvedIs
<1>2. ASSUME OneCode(t), NEW j \in Ids, j # r.id, t[j] # None, t[j].ext # Blank
      PROVE  t[j].ext # r.table[r.id].ext
    BY <1>1, <1>2 DEF Found, Made, OneCode
<1>. QED
    BY <1>1, <1>2 DEF OneCode

-----------------------------------------------------------------------------
(* A session looks something up                                            *)

\* What CarryOver, Seed and the lines do to the memory of s.
Learns(s, ref, r) ==
    /\ IsOpen(s) /\ (kind[s] # "sync" => ref.ext = Blank)
    /\ mem' \in [Sessions -> Table] /\ mem'[s].entries = r.table
    /\ \A t \in Sessions \ {s} : mem'[t] = mem[t]
    /\ used' = IF r.id > used THEN r.id ELSE used
    /\ UNCHANGED <<entries, value, prepared, pc, kind, read>>

LEMMA MemoryIs ==
    ASSUME DictInv, NEW s \in Sessions
    PROVE  /\ mem[s].entries \in Rows /\ mem[s].value \in [Goods -> Ids \cup {None}]
           /\ read[s].entries \in Rows /\ read[s].value \in [Goods -> Ids \cup {None}]
           /\ used \in 0..MaxId /\ entries \in Rows
BY DEF DictInv, DictionariesTypeOK, Table, Rows

LEMMA LearnsKeeps ==
    ASSUME DictInv, NEW s \in Sessions, NEW ref \in Ref, NEW r \in Resolved(mem[s].entries, ref),
           Learns(s, ref, r), sent' \in [Sessions -> SUBSET Goods], lines' \in [Sessions -> 0..MaxLines]
    PROVE  DictInv'
<1>. DEFINE m == mem[s].entries
<1>1. /\ r.id \in Ids /\ r.table \in Rows /\ r.table[r.id] # None
      /\ \A i \in Ids : i # r.id => r.table[i] = m[i]
      /\ Found(m, ref, r) \/ Made(m, ref, r)
    BY MemoryIs, ResolvedIs
<1>2. /\ mem'[s].entries = r.table
      /\ \A t \in Sessions \ {s} : mem'[t] = mem[t]
      /\ UNCHANGED <<entries, value, prepared, pc, kind, read>>
    BY DEF Learns
<1>3. used' \in 0..MaxId /\ used <= used' /\ r.id <= used'
    BY <1>1, MemoryIs DEF Learns
<1>4. DictionariesTypeOK'
    BY <1>2, <1>3 DEF Learns, DictInv, DictionariesTypeOK
<1>5. (\A t \in Sessions : ~IsOpen(t) => read[t] = Nothing /\ mem[t] = Nothing)'
    BY <1>2 DEF Learns, DictInv, IsOpen
<1>6. CASE Found(m, ref, r)
    <2>1. \A i \in Ids : (r.table[i] # None) <=> (m[i] # None)
        BY <1>1, <1>6 DEF Found
    <2>2. New(s)' = New(s) /\ \A t \in Sessions \ {s} : New(t)' = New(t)
        BY <1>2, <2>1 DEF New
    <2>3. Kept(s)'
        <3>. SUFFICES ASSUME NEW i \in Ids
                      PROVE  /\ read[s].entries[i] # None =>
                                /\ r.table[i] # None
                                /\ r.table[i].name = read[s].entries[i].name
                                /\ read[s].entries[i].ext # Blank \/ kind[s] # "sync"
                                        => r.table[i].ext = read[s].entries[i].ext
                             /\ i \in New(s) /\ kind[s] # "sync" => r.table[i].ext = Blank
            BY <1>2, <2>2 DEF Kept
        <3>1. /\ read[s].entries[i] # None =>
                    /\ m[i] # None
                    /\ m[i].name = read[s].entries[i].name
                    /\ read[s].entries[i].ext # Blank \/ kind[s] # "sync"
                            => m[i].ext = read[s].entries[i].ext
              /\ i \in New(s) /\ kind[s] # "sync" => m[i].ext = Blank
            BY DEF DictInv, Kept
        <3>2. CASE i # r.id
            BY <1>1, <3>1, <3>2
        <3>3. CASE i = r.id
            <4>1. /\ m[i] # None /\ r.table[i] # None /\ r.table[i].name = m[i].name
                  /\ m[i].ext # Blank \/ kind[s] # "sync" => r.table[i].ext = m[i].ext
                BY <1>1, <1>6, <3>3 DEF Found, Learns
            <4>. HIDE DEF m
            <4>. QED
                BY <3>1, <4>1
        <3>. QED
            BY <3>2, <3>3
    <2>4. \A t \in Sessions \ {s} : Kept(t)'
        BY <1>2, <2>2 DEF DictInv, Kept
    <2>5. \A t \in Sessions : Own(t)'
        <3>. SUFFICES ASSUME NEW t \in Sessions PROVE Own(t)'
            OBVIOUS
        <3>1. \A i \in New(t) : i \in Ids /\ entries[i] = None
                    /\ \A u \in Sessions \ {t} : mem[u].entries[i] = None
            BY DEF DictInv, Own, New
        <3>2. \A i \in New(t), u \in Sessions \ {t} : mem'[u].entries[i] = None
            BY <1>2, <2>1, <3>1
        <3>3. New(t)' = New(t)
            BY <2>2
        <3>. QED
            BY <1>2, <3>1, <3>2, <3>3 DEF Own
    <2>6. Beyond'
        BY <1>2, <1>3, <2>1, MemoryIs DEF DictInv, Beyond
    <2>. QED
        BY <1>4, <1>5, <2>3, <2>4, <2>5, <2>6 DEF DictInv
<1>7. CASE Made(m, ref, r)
    <2>1. /\ r.id = used + 1 /\ r.table[r.id].ext = ref.ext
          /\ entries[r.id] = None /\ \A t \in Sessions : mem[t].entries[r.id] = None
        BY <1>1, <1>7, MemoryIs DEF Made, DictInv, Beyond
    <2>2. read[s].entries[r.id] = None
        BY <1>1, <2>1 DEF DictInv, Kept
    <2>3. New(s)' = New(s) \cup {r.id} /\ \A t \in Sessions \ {s} : New(t)' = New(t)
        BY <1>1, <1>2, <2>1, <2>2 DEF New
    <2>4. Kept(s)'
        BY <1>1, <1>2, <2>1, <2>2, <2>3 DEF DictInv, Kept, Learns
    <2>5. \A t \in Sessions \ {s} : Kept(t)'
        BY <1>2, <2>3 DEF DictInv, Kept
    <2>6. \A t \in Sessions : Own(t)'
        <3>1. Own(s)'
            BY <1>2, <2>1, <2>3 DEF DictInv, Own
        <3>2. ASSUME NEW t \in Sessions \ {s} PROVE Own(t)'
            <4>1. r.id \notin New(t)
                BY <2>1 DEF New
            <4>2. \A i \in New(t) : i \in Ids /\ entries[i] = None
                        /\ \A u \in Sessions \ {t} : mem[u].entries[i] = None
                BY DEF DictInv, Own, New
            <4>. QED
                BY <1>1, <1>2, <2>3, <4>1, <4>2 DEF Own
        <3>. QED
            BY <3>1, <3>2
    <2>7. Beyond'
        <3>. SUFFICES ASSUME NEW i \in Ids, i > used'
                      PROVE  entries[i] = None /\ \A t \in Sessions : mem'[t].entries[i] = None
            BY <1>2 DEF Beyond
        <3>1. i > used /\ i # r.id
            BY <1>1, <1>3, MemoryIs
        <3>2. entries[i] = None /\ \A t \in Sessions : mem[t].entries[i] = None
            BY <3>1 DEF DictInv, Beyond
        <3>. QED
            BY <1>1, <1>2, <3>1, <3>2
    <2>. QED
        BY <1>4, <1>5, <2>4, <2>5, <2>6, <2>7 DEF DictInv
<1>. QED
    BY <1>1, <1>6, <1>7

LEMMA LearnsKeepsCodes ==
    ASSUME DictInv, CodesInv, NEW s \in Sessions, NEW ref \in Ref,
           NEW r \in Resolved(mem[s].entries, ref), Learns(s, ref, r)
    PROVE  CodesInv'
<1>. DEFINE m == mem[s].entries
<1>1. /\ r.id \in Ids /\ r.table \in Rows /\ r.table[r.id] # None
      /\ \A i \in Ids : i # r.id => r.table[i] = m[i]
      /\ Found(m, ref, r) \/ Made(m, ref, r)
    BY MemoryIs, ResolvedIs
<1>2. /\ mem'[s].entries = r.table
      /\ \A t \in Sessions \ {s} : mem'[t] = mem[t]
      /\ UNCHANGED <<entries, pc, kind>>
    BY DEF Learns
<1>3. OneCode(r.table)
    BY MemoryIs, ResolvedKeepsApart DEF CodesInv
<1>4. Syncs(s) => Fresh(s)'
    <2>. SUFFICES ASSUME Syncs(s), NEW i \in Ids, entries[i] # None, entries[i].ext # Blank
                  PROVE  r.table[i] # None /\ r.table[i].ext = entries[i].ext
        BY <1>2 DEF Fresh
    <2>1. m[i] # None /\ m[i].ext = entries[i].ext
        BY DEF CodesInv, Fresh
    <2>2. CASE i # r.id
        BY <1>1, <2>1, <2>2
    <2>3. CASE i = r.id /\ Found(m, ref, r)
        BY <1>1, <2>1, <2>3 DEF Found
    <2>4. CASE i = r.id /\ Made(m, ref, r)
        BY <2>4, MemoryIs DEF Made, DictInv, Beyond
    <2>. QED
        BY <1>1, <2>2, <2>3, <2>4
<1>5. \A t \in Sessions : Syncs(t)' <=> Syncs(t)
    BY <1>2 DEF Syncs, IsOpen
<1>. QED
    BY <1>2, <1>3, <1>4, <1>5 DEF CodesInv, OneSync, Fresh

LEMMA ByNameIs ==
    ASSUME NEW n \in Names
    PROVE  ByName(n) \in Ref /\ ByName(n).ext = Blank /\ ByName(n).name = n /\ ByName(n).id = None
BY DEF ByName, Ref

LEMMA PutsLearns ==
    ASSUME DictInv, NEW s \in Sessions, IsOpen(s), NEW ref \in Ref,
           kind[s] # "sync" => ref.ext = Blank,
           NEW r \in Resolved(mem[s].entries, ref), NEW p \in Goods, NEW ok \in BOOLEAN,
           Puts(s, p, r, ok), UNCHANGED <<entries, value, prepared, pc, kind, read>>
    PROVE  Learns(s, ref, r)
<1>1. r.id \in Ids /\ r.table \in Rows
    BY MemoryIs, ResolvedIs
<1>2. mem \in [Sessions -> Table] /\ mem[s] \in Table
    BY DEF DictInv, DictionariesTypeOK
<1>. DEFINE e == IF ok THEN r.id ELSE mem[s].value[p]
<1>3. e \in Ids \cup {None}
    BY <1>1, MemoryIs
<1>4. mem' = [mem EXCEPT ![s].entries = r.table, ![s].value[p] = e]
    BY DEF Puts
<1>. HIDE DEF e
<1>5. mem' \in [Sessions -> Table] /\ mem'[s].entries = r.table
    BY <1>1, <1>2, <1>3, <1>4 DEF Table, Rows
<1>6. \A t \in Sessions \ {s} : mem'[t] = mem[t]
    BY <1>2, <1>4
<1>. QED
    BY <1>5, <1>6 DEF Learns, Puts

\* The lines that name a value, the guesses, and both steps of the start.
LEMMA LearningSteps ==
    ASSUME DictInv, NEW s \in Sessions,
           CarryOver(s) \/ Seed(s) \/ NamedLine(s) \/ SilentLine(s)
    PROVE  /\ \E ref \in Ref : \E r \in Resolved(mem[s].entries, ref) : Learns(s, ref, r)
           /\ sent' \in [Sessions -> SUBSET Goods] /\ lines' \in [Sessions -> 0..MaxLines]
<1>1. sent \in [Sessions -> SUBSET Goods] /\ lines \in [Sessions -> 0..MaxLines]
    BY DEF DictInv, DictionariesTypeOK
<1>2. NextLine(s) => lines' \in [Sessions -> 0..MaxLines]
    BY <1>1 DEF NextLine
<1>3. CASE CarryOver(s)
    <2>1. PICK p \in OldNames(s) :
            \E r \in Resolved(mem[s].entries, ByName(Legacy[p])) : Puts(s, p, r, TRUE)
        BY <1>3 DEF CarryOver
    <2>2. p \in Goods /\ Legacy[p] \in Names
        BY DEF OldNames
    <2>3. IsOpen(s) /\ UNCHANGED <<entries, value, prepared, pc, kind, read, sent, lines>>
        BY <1>3 DEF CarryOver, Serves, IsOpen
    <2>. QED
        BY <1>1, <2>1, <2>2, <2>3, ByNameIs, PutsLearns
<1>4. CASE Seed(s)
    <2>0. PICK r \in UNION {Resolved(mem[s].entries, ByName(m)) : m \in Missing(s)} :
                mem' = [mem EXCEPT ![s].entries = r.table] /\ used' = r.id
        BY <1>4 DEF Seed
    <2>1. PICK m \in Missing(s) : r \in Resolved(mem[s].entries, ByName(m))
        OBVIOUS
    <2>2. m \in Names /\ WithName(mem[s].entries, m) = {}
        BY DEF Missing
    <2>3. r.id = used + 1
        <3>1. Matches(mem[s].entries, ByName(m)) = {}
            BY <2>2, ByNameIs DEF Matches
        <3>. QED
            BY <2>1, <3>1 DEF Resolved
    <2>4. IsOpen(s) /\ UNCHANGED <<entries, value, prepared, pc, kind, read, sent, lines>>
        BY <1>4 DEF Seed, Serves, IsOpen
    <2>5. r.table \in Rows
        BY <2>1, <2>2, ByNameIs, MemoryIs, ResolvedIs
    <2>6. mem \in [Sessions -> Table] /\ mem[s] \in Table
        BY DEF DictInv, DictionariesTypeOK
    <2>7. /\ mem' \in [Sessions -> Table] /\ mem'[s].entries = r.table
          /\ \A t \in Sessions \ {s} : mem'[t] = mem[t]
        BY <2>0, <2>5, <2>6 DEF Table, Rows
    <2>8. Learns(s, ByName(m), r)
        BY <2>0, <2>1, <2>2, <2>3, <2>4, <2>7, ByNameIs, MemoryIs DEF Learns
    <2>. QED
        BY <1>1, <2>1, <2>2, <2>4, <2>8, ByNameIs
<1>5. CASE NamedLine(s)
    <2>1. PICK p \in Goods, ref \in Ref, ok \in BOOLEAN :
            /\ kind[s] = "import" => ref = ByName(ref.name)
            /\ \E r \in Resolved(mem[s].entries, ref) : Puts(s, p, r, ok)
            /\ sent' = [sent EXCEPT ![s] = @ \cup {p}]
        BY <1>5 DEF NamedLine
    <2>2. IsOpen(s) /\ kind[s] \in {"sync", "import"}
          /\ UNCHANGED <<entries, value, prepared, pc, kind, read>>
        BY <1>5 DEF NamedLine, NextLine, Serves, IsOpen
    <2>3. kind[s] # "sync" => ref.ext = Blank
        BY <2>1, <2>2 DEF ByName
    <2>4. sent' \in [Sessions -> SUBSET Goods] /\ lines' \in [Sessions -> 0..MaxLines]
        BY <1>1, <1>2, <1>5, <2>1 DEF NamedLine
    <2>. QED
        BY <2>1, <2>2, <2>3, <2>4, PutsLearns
<1>6. CASE SilentLine(s)
    <2>1. PICK p \in Goods :
            LET n == IF Guess[p] # None THEN Guess[p] ELSE Other
            IN  n # None /\ \E r \in Resolved(mem[s].entries, ByName(n)) : Puts(s, p, r, TRUE)
        BY <1>6 DEF SilentLine
    <2>. DEFINE n == IF Guess[p] # None THEN Guess[p] ELSE Other
    <2>2. n \in Names
        BY <2>1
    <2>3. IsOpen(s) /\ UNCHANGED <<entries, value, prepared, pc, kind, read, sent>>
        BY <1>6 DEF SilentLine, NextLine, Serves, IsOpen
    <2>4. \E r \in Resolved(mem[s].entries, ByName(n)) : Puts(s, p, r, TRUE)
        BY <2>1
    <2>. HIDE DEF n
    <2>. QED
        BY <1>1, <1>2, <1>6, <2>2, <2>3, <2>4, ByNameIs, PutsLearns DEF SilentLine
<1>. QED
    BY <1>3, <1>4, <1>5, <1>6

-----------------------------------------------------------------------------
(* A session begins, or ends with nothing                                  *)

LEMMA NothingIs ==
    /\ Nothing \in Table
    /\ \A i \in Ids : Nothing.entries[i] = None
BY DEF Nothing, Table

\* Sessions other than s keep what they have, s has nothing.
LEMMA OverIs ==
    ASSUME DictInv, NEW s \in Sessions, Over(s)
    PROVE  /\ pc' \in [Sessions -> {"idle", "open"}]
           /\ kind' \in [Sessions -> {"start", "sync", "import", "page"}]
           /\ read' \in [Sessions -> Table] /\ mem' \in [Sessions -> Table]
           /\ sent' \in [Sessions -> SUBSET Goods] /\ lines' \in [Sessions -> 0..MaxLines]
           /\ pc'[s] = "idle" /\ read'[s] = Nothing /\ mem'[s] = Nothing
           /\ \A t \in Sessions \ {s} : /\ pc'[t] = pc[t] /\ kind'[t] = kind[t]
                                        /\ read'[t] = read[t] /\ mem'[t] = mem[t]
BY NothingIs DEF DictInv, DictionariesTypeOK, Over

LEMMA BeginIs ==
    ASSUME DictInv, NEW s \in Sessions, Begin(s)
    PROVE  /\ pc[s] = "idle" /\ MayBegin(s, kind'[s])
           /\ pc' \in [Sessions -> {"idle", "open"}]
           /\ kind' \in [Sessions -> {"start", "sync", "import", "page"}]
           /\ read' \in [Sessions -> Table] /\ mem' \in [Sessions -> Table]
           /\ pc'[s] = "open" /\ read'[s].entries = entries /\ mem'[s].entries = entries
           /\ \A t \in Sessions \ {s} : /\ pc'[t] = pc[t] /\ kind'[t] = kind[t]
                                        /\ read'[t] = read[t] /\ mem'[t] = mem[t]
           /\ UNCHANGED <<entries, value, used, prepared, sent, lines>>
<1>1. PICK k \in {"start", "sync", "import", "page"} :
        MayBegin(s, k) /\ kind' = [kind EXCEPT ![s] = k]
    BY DEF Begin
<1>2. [entries |-> entries, value |-> value] \in Table
    BY DEF DictInv, DictionariesTypeOK, Table
<1>. QED
    BY <1>1, <1>2 DEF Begin, dbVars, DictInv, DictionariesTypeOK

LEMMA BeginKeeps ==
    ASSUME DictInv, NEW s \in Sessions, Begin(s)
    PROVE  DictInv'
<1>1. /\ pc' \in [Sessions -> {"idle", "open"}]
      /\ kind' \in [Sessions -> {"start", "sync", "import", "page"}]
      /\ read' \in [Sessions -> Table] /\ mem' \in [Sessions -> Table]
      /\ pc'[s] = "open" /\ read'[s].entries = entries /\ mem'[s].entries = entries
      /\ \A t \in Sessions \ {s} : /\ pc'[t] = pc[t] /\ kind'[t] = kind[t]
                                   /\ read'[t] = read[t] /\ mem'[t] = mem[t]
      /\ UNCHANGED <<entries, value, used, prepared, sent, lines>>
    BY BeginIs
<1>2. DictionariesTypeOK'
    BY <1>1 DEF DictInv, DictionariesTypeOK
<1>3. (\A t \in Sessions : ~IsOpen(t) => read[t] = Nothing /\ mem[t] = Nothing)'
    BY <1>1 DEF DictInv, IsOpen
<1>4. New(s)' = {} /\ \A t \in Sessions \ {s} : New(t)' = New(t)
    BY <1>1 DEF New
<1>5. Kept(s)' /\ \A t \in Sessions \ {s} : Kept(t)'
    BY <1>1, <1>4 DEF DictInv, Kept
<1>6. \A t \in Sessions : Own(t)'
    <2>1. Own(s)'
        BY <1>4 DEF Own
    <2>2. ASSUME NEW t \in Sessions \ {s} PROVE Own(t)'
        <3>1. \A i \in New(t) : entries[i] = None
                    /\ \A u \in Sessions \ {t} : mem[u].entries[i] = None
            BY DEF DictInv, Own
        <3>2. \A i \in New(t), u \in Sessions \ {t} : mem'[u].entries[i] = None
            BY <1>1, <3>1
        <3>. QED
            BY <1>1, <1>4, <3>1, <3>2 DEF Own
    <2>. QED
        BY <2>1, <2>2
<1>7. Beyond'
    BY <1>1 DEF DictInv, Beyond
<1>. QED
    BY <1>2, <1>3, <1>5, <1>6, <1>7 DEF DictInv

\* An exchange that begins is the only one, and has just read everything.
LEMMA BeginKeepsCodes ==
    ASSUME Postgres \/ ~Overlap, DictInv, CodesInv, NEW s \in Sessions, Begin(s)
    PROVE  CodesInv'
<1>1. /\ pc[s] = "idle" /\ MayBegin(s, kind'[s])
      /\ pc'[s] = "open" /\ mem'[s].entries = entries
      /\ \A t \in Sessions \ {s} : pc'[t] = pc[t] /\ kind'[t] = kind[t] /\ mem'[t] = mem[t]
      /\ UNCHANGED entries
    BY BeginIs
<1>2. \A t \in Sessions \ {s} : Syncs(t)' <=> Syncs(t)
    BY <1>1 DEF Syncs, IsOpen
<1>3. ASSUME Syncs(s)', NEW t \in Sessions, Syncs(t) PROVE FALSE
    BY <1>1, <1>3 DEF MayBegin, Syncs, IsOpen
<1>4. OneSync'
    BY <1>2, <1>3 DEF CodesInv, OneSync
<1>5. \A t \in Sessions : OneCode(mem[t].entries)'
    BY <1>1 DEF CodesInv, OneCode
<1>6. Fresh(s)' /\ \A t \in Sessions \ {s} : Fresh(t)' <=> Fresh(t)
    BY <1>1 DEF Fresh
<1>. QED
    BY <1>1, <1>2, <1>4, <1>5, <1>6 DEF CodesInv, OneCode

\* 1C empties a field: the memory of entries is as it was.
LEMMA EmptyLineKeeps ==
    ASSUME DictInv, NEW s \in Sessions, EmptyLine(s)
    PROVE  DictInv' /\ (CodesInv => CodesInv')
<1>1. IsOpen(s) /\ UNCHANGED <<entries, value, used, prepared, pc, kind, read>>
      /\ lines' = [lines EXCEPT ![s] = lines[s] + 1] /\ lines[s] < MaxLines
    BY DEF EmptyLine, NextLine, Serves, IsOpen
<1>2. PICK p \in Goods : /\ mem' = [mem EXCEPT ![s].value[p] = None]
                         /\ sent' = [sent EXCEPT ![s] = @ \cup {p}]
    BY DEF EmptyLine
<1>3. /\ mem' \in [Sessions -> Table]
      /\ \A t \in Sessions : mem'[t].entries = mem[t].entries
      /\ \A t \in Sessions \ {s} : mem'[t] = mem[t]
    <2>1. mem \in [Sessions -> Table] /\ mem[s] \in Table
        BY DEF DictInv, DictionariesTypeOK
    <2>2. mem' \in [Sessions -> Table] /\ mem'[s].entries = mem[s].entries
        BY <1>2, <2>1, MemoryIs DEF Table
    <2>. QED
        BY <1>2, <2>1, <2>2
<1>4. DictionariesTypeOK'
    BY <1>1, <1>2, <1>3 DEF DictInv, DictionariesTypeOK
<1>5. \A t \in Sessions : New(t)' = New(t)
    BY <1>1, <1>3 DEF New
<1>6. \A t \in Sessions : Kept(t)' /\ Own(t)'
    BY <1>1, <1>3, <1>5 DEF DictInv, Kept, Own
<1>7. (\A t \in Sessions : ~IsOpen(t) => read[t] = Nothing /\ mem[t] = Nothing)'
    BY <1>1, <1>3 DEF DictInv, IsOpen
<1>8. Beyond'
    BY <1>1, <1>3 DEF DictInv, Beyond
<1>9. CodesInv => CodesInv'
    BY <1>1, <1>3 DEF CodesInv, OneSync, Syncs, IsOpen, OneCode, Fresh
<1>. QED
    BY <1>4, <1>6, <1>7, <1>8, <1>9 DEF DictInv

-----------------------------------------------------------------------------
(* A session writes and is over                                            *)

LEMMA OverKeeps ==
    ASSUME DictInv, NEW s \in Sessions, Over(s),
           entries' \in Rows, value' \in [Goods -> Ids \cup {None}], prepared' \in BOOLEAN,
           used' \in 0..MaxId, used <= used',
           \A t \in Sessions \ {s} : \A i \in New(t) : entries'[i] = None,
           \A i \in Ids : i > used' => entries'[i] = None
    PROVE  DictInv'
<1>1. /\ pc' \in [Sessions -> {"idle", "open"}]
      /\ kind' \in [Sessions -> {"start", "sync", "import", "page"}]
      /\ read' \in [Sessions -> Table] /\ mem' \in [Sessions -> Table]
      /\ sent' \in [Sessions -> SUBSET Goods] /\ lines' \in [Sessions -> 0..MaxLines]
      /\ pc'[s] = "idle" /\ read'[s] = Nothing /\ mem'[s] = Nothing
      /\ \A t \in Sessions \ {s} : /\ pc'[t] = pc[t] /\ kind'[t] = kind[t]
                                   /\ read'[t] = read[t] /\ mem'[t] = mem[t]
    BY OverIs
<1>2. DictionariesTypeOK'
    BY <1>1 DEF DictionariesTypeOK, Rows
<1>3. (\A t \in Sessions : ~IsOpen(t) => read[t] = Nothing /\ mem[t] = Nothing)'
    BY <1>1 DEF DictInv, IsOpen
<1>4. New(s)' = {} /\ \A t \in Sessions \ {s} : New(t)' = New(t)
    BY <1>1, NothingIs DEF New
<1>5. Kept(s)' /\ \A t \in Sessions \ {s} : Kept(t)'
    <2>1. \A i \in Ids : read'[s].entries[i] = None
        BY <1>1, NothingIs
    <2>2. Kept(s)'
        BY <1>4, <2>1 DEF Kept
    <2>3. ASSUME NEW t \in Sessions \ {s} PROVE Kept(t)'
        <3>1. Kept(t)
            BY DEF DictInv
        <3>. QED
            BY <1>1, <1>4, <3>1 DEF Kept
    <2>. QED
        BY <2>2, <2>3
<1>6. \A t \in Sessions : Own(t)'
    <2>1. Own(s)'
        BY <1>4 DEF Own
    <2>2. ASSUME NEW t \in Sessions \ {s} PROVE Own(t)'
        <3>1. \A i \in New(t) : i \in Ids /\ \A u \in Sessions \ {t} : mem[u].entries[i] = None
            BY DEF DictInv, Own, New
        <3>2. \A i \in New(t), u \in Sessions \ {t} : mem'[u].entries[i] = None
            BY <1>1, <3>1, NothingIs
        <3>. QED
            BY <1>1, <1>4, <3>2 DEF Own
    <2>. QED
        BY <2>1, <2>2
<1>7. Beyond'
    <2>. SUFFICES ASSUME NEW i \in Ids, i > used', NEW t \in Sessions
                  PROVE  mem'[t].entries[i] = None
        BY DEF Beyond
    <2>1. i > used
        BY MemoryIs
    <2>. QED
        BY <1>1, <2>1, NothingIs DEF DictInv, Beyond
<1>. QED
    BY <1>2, <1>3, <1>5, <1>6, <1>7 DEF DictInv

\* Others may work on if no identifier has appeared that their memory has not.
LEMMA OverKeepsCodes ==
    ASSUME DictInv, CodesInv, NEW s \in Sessions, Over(s), OneCode(entries'),
           \A t \in Sessions \ {s} : Syncs(t) =>
                \A i \in Ids : entries'[i] # None /\ entries'[i].ext # Blank =>
                    entries[i] # None /\ entries[i].ext = entries'[i].ext
    PROVE  CodesInv'
<1>1. /\ pc'[s] = "idle" /\ mem'[s] = Nothing
      /\ \A t \in Sessions \ {s} : pc'[t] = pc[t] /\ kind'[t] = kind[t] /\ mem'[t] = mem[t]
    BY OverIs
<1>2. ~Syncs(s)' /\ \A t \in Sessions \ {s} : Syncs(t)' <=> Syncs(t)
    BY <1>1 DEF Syncs, IsOpen
<1>3. OneSync'
    BY <1>2 DEF CodesInv, OneSync
<1>4. \A t \in Sessions : OneCode(mem[t].entries)'
    BY <1>1, NothingIs DEF CodesInv, OneCode
<1>5. \A t \in Sessions : Syncs(t)' => Fresh(t)'
    BY <1>1, <1>2 DEF CodesInv, Fresh
<1>. QED
    BY <1>3, <1>4, <1>5 DEF CodesInv, OneCode

LEMMA SameEntry ==
    ASSUME NEW e \in Entry, NEW f \in Entry, e.name = f.name, e.ext = f.ext
    PROVE  e = f
BY DEF Entry

\* A commit writes what the session made, and the identifiers an exchange has
\* given to entries; it renames and deletes nothing.
LEMMA CommitIs ==
    ASSUME DictInv, NEW s \in Sessions, Commit(s)
    PROVE  /\ IsOpen(s) /\ Over(s) /\ UNCHANGED used
           /\ entries' \in Rows /\ value' \in [Goods -> Ids \cup {None}] /\ prepared' \in BOOLEAN
           /\ \A i \in New(s) : IsFree(mem[s].entries[i].name, i)
           /\ \A i \in New(s) : entries'[i] = mem[s].entries[i] /\ entries'[i] # None
           /\ \A i \in Ids \ New(s) :
                \/ entries'[i] = entries[i]
                \/ /\ kind[s] = "sync" /\ entries[i] # None /\ entries'[i] # None
                   /\ entries'[i].name = entries[i].name
                   /\ mem[s].entries[i] # None /\ entries'[i].ext = mem[s].entries[i].ext
<1>. DEFINE m == mem[s].entries
            d == read[s].entries
<1>1. /\ m \in Rows /\ d \in Rows /\ entries \in Rows
      /\ mem[s].value \in [Goods -> Ids \cup {None}]
    BY MemoryIs
<1>2. \A i \in Ids : entries'[i] = IF i \in New(s) THEN m[i]
                                 ELSE IF i \in Recoded(s)
                                 THEN [entries[i] EXCEPT !.ext = m[i].ext]
                                 ELSE entries[i]
    BY DEF Commit
<1>3. \A i \in New(s) : i \in Ids /\ m[i] # None /\ m[i] \in Entry /\ d[i] = None
    BY <1>1 DEF New, Rows
<1>4. ASSUME NEW i \in Recoded(s)
      PROVE  /\ kind[s] = "sync" /\ entries[i] # None /\ m[i] # None
             /\ [entries[i] EXCEPT !.ext = m[i].ext] \in Entry
             /\ [entries[i] EXCEPT !.ext = m[i].ext].name = entries[i].name
             /\ [entries[i] EXCEPT !.ext = m[i].ext].ext = m[i].ext
    <2>1. i \in Ids /\ i \notin New(s) /\ m[i] # d[i]
        BY DEF Recoded
    <2>2. d[i] # None /\ m[i] # None /\ m[i].name = d[i].name
          /\ (kind[s] # "sync" => m[i].ext = d[i].ext)
        BY <2>1 DEF New, DictInv, Kept
    <2>3. d[i] \in Entry /\ m[i] \in Entry
        BY <1>1, <2>1, <2>2 DEF Rows
    <2>4. kind[s] = "sync"
        BY <2>1, <2>2, <2>3, SameEntry
    <2>5. entries[i] # None /\ entries[i] \in Entry
        BY <1>1, <2>1 DEF Commit, Rows
    <2>6. m[i].ext \in Codes \cup {Blank}
        BY <2>3, EntryIs
    <2>. QED
        BY <2>2, <2>4, <2>5, <2>6 DEF Entry
<1>5. \A i \in Ids : entries'[i] \in Entry \cup {None}
    BY <1>1, <1>2, <1>3, <1>4 DEF Rows
<1>6. entries' \in Rows
    <2>1. entries' = [i \in Ids |-> entries'[i]]
        BY DEF Commit
    <2>. QED
        BY <1>5, <2>1 DEF Rows
<1>7. value' \in [Goods -> Ids \cup {None}]
    BY <1>1 DEF Commit, DictInv, DictionariesTypeOK
<1>8. IsOpen(s) /\ Over(s) /\ UNCHANGED used /\ prepared' \in BOOLEAN
      /\ \A i \in New(s) : IsFree(m[i].name, i)
    BY DEF Commit, Serves, IsOpen, DictInv, DictionariesTypeOK
<1>9. \A i \in New(s) : entries'[i] = m[i] /\ entries'[i] # None
    BY <1>2, <1>3
<1>10. ASSUME NEW i \in Ids \ New(s)
       PROVE  \/ entries'[i] = entries[i]
              \/ /\ kind[s] = "sync" /\ entries[i] # None /\ entries'[i] # None
                 /\ entries'[i].name = entries[i].name
                 /\ m[i] # None /\ entries'[i].ext = m[i].ext
    <2>1. CASE i \in Recoded(s)
        BY <1>2, <1>4, <2>1, EntryIs
    <2>2. CASE i \notin Recoded(s)
        BY <1>2, <2>2
    <2>. QED
        BY <2>1, <2>2
<1>. QED
    BY <1>6, <1>7, <1>8, <1>9, <1>10

LEMMA CommitKeeps ==
    ASSUME DictInv, NEW s \in Sessions, Commit(s)
    PROVE  DictInv'
<1>1. used \in 0..MaxId
    BY MemoryIs
<1>2. ASSUME NEW t \in Sessions \ {s}, NEW i \in New(t) PROVE entries'[i] = None
    <2>1. i \in Ids /\ entries[i] = None /\ mem[s].entries[i] = None
        BY DEF DictInv, Own, New
    <2>2. i \notin New(s)
        BY <2>1 DEF New
    <2>. QED
        BY <2>1, <2>2, CommitIs
<1>3. ASSUME NEW i \in Ids, i > used' PROVE entries'[i] = None
    <2>1. entries[i] = None /\ mem[s].entries[i] = None
        BY <1>3, CommitIs DEF DictInv, Beyond
    <2>2. i \notin New(s)
        BY <2>1 DEF New
    <2>. QED
        BY <2>1, <2>2, CommitIs
<1>. QED
    BY <1>1, <1>2, <1>3, CommitIs, OverKeeps

\* Identifiers in the table are where the memory of the exchange has them.
LEMMA CommitKeepsCodes ==
    ASSUME DictInv, CodesInv, NEW s \in Sessions, Commit(s)
    PROVE  /\ CodesInv'
           /\ \A i \in Ids : entries[i] # None /\ entries'[i] # None /\ entries[i].ext # Blank
                    => entries'[i].ext = entries[i].ext
<1>1. CASE kind[s] = "sync"
    <2>1. Syncs(s) /\ Fresh(s)
        BY <1>1, CommitIs DEF Syncs, CodesInv
    <2>2. ASSUME NEW i \in Ids, entries'[i] # None, entries'[i].ext # Blank
          PROVE  mem[s].entries[i] # None /\ mem[s].entries[i].ext = entries'[i].ext
        <3>1. CASE i \in New(s)
            BY <2>2, <3>1, CommitIs
        <3>2. CASE i \notin New(s) /\ entries'[i] = entries[i]
            BY <2>1, <2>2, <3>2 DEF Fresh
        <3>. QED
            BY <3>1, <3>2, CommitIs
    <2>3. OneCode(entries')
        BY <2>2 DEF CodesInv, OneCode
    <2>4. \A t \in Sessions \ {s} : ~Syncs(t)
        BY <2>1 DEF CodesInv, OneSync
    <2>5. CodesInv'
        BY <2>3, <2>4, CommitIs, OverKeepsCodes
    <2>6. ASSUME NEW i \in Ids, entries[i] # None, entries'[i] # None, entries[i].ext # Blank
          PROVE  entries'[i].ext = entries[i].ext
        <3>1. mem[s].entries[i].ext = entries[i].ext
            BY <2>1, <2>6 DEF Fresh
        <3>2. CASE i \in New(s)
            BY <3>1, <3>2, CommitIs
        <3>3. CASE i \notin New(s)
            BY <3>1, <3>3, CommitIs
        <3>. QED
            BY <3>2, <3>3
    <2>. QED
        BY <2>5, <2>6
<1>2. CASE kind[s] # "sync"
    <2>1. \A i \in New(s) : i \in Ids /\ entries[i] = None /\ entries'[i].ext = Blank
        BY <1>2, CommitIs DEF DictInv, Kept, Own, New
    <2>2. \A i \in Ids \ New(s) : entries'[i] = entries[i]
        BY <1>2, CommitIs
    <2>3. OneCode(entries')
        BY <2>1, <2>2 DEF CodesInv, OneCode
    <2>4. CodesInv'
        BY <2>1, <2>2, <2>3, CommitIs, OverKeepsCodes
    <2>. QED
        BY <2>1, <2>2, <2>4
<1>. QED
    BY <1>1, <1>2

-----------------------------------------------------------------------------
(* The pages of staff                                                      *)

Page(s) == AddValue(s) \/ EditValue(s) \/ DeleteValue(s) \/ ChooseValue(s) \/ RollBack(s)

\* A page makes an entry under an id never used, renames one, deletes one, or
\* leaves the table alone; identifiers of 1C it does not write.
MadeHere(i) ==
    /\ i = used + 1 /\ used' = used + 1 /\ entries[i] = None
    /\ entries'[i] # None /\ entries'[i].ext = Blank

Renamed(i) == entries[i] # None /\ entries'[i] # None /\ entries'[i].ext = entries[i].ext

WritesOne ==
    \E i \in Ids :
        /\ \A j \in Ids \ {i} : entries'[j] = entries[j]
        /\ entries'[i] = None \/ MadeHere(i) \/ Renamed(i)

LEMMA PageIs ==
    ASSUME DictInv, NEW s \in Sessions, Page(s)
    PROVE  /\ IsOpen(s) /\ Over(s)
           /\ entries' \in Rows /\ value' \in [Goods -> Ids \cup {None}] /\ prepared' \in BOOLEAN
           /\ used' \in 0..MaxId /\ used <= used'
           /\ entries' = entries \/ WritesOne
<1>0. /\ entries \in Rows /\ value \in [Goods -> Ids \cup {None}] /\ prepared \in BOOLEAN
      /\ used \in 0..MaxId
    BY MemoryIs DEF DictInv, DictionariesTypeOK
<1>1. CASE AddValue(s)
    <2>1. PICK n \in Names :
            /\ used < MaxId /\ WithName(read[s].entries, n) = {} /\ IsFree(n, used + 1)
            /\ Writes(s, [entries EXCEPT ![used + 1] = [name |-> n, ext |-> Blank]], value)
        BY <1>1 DEF AddValue
    <2>2. used' = used + 1 /\ used + 1 \in Ids /\ [name |-> n, ext |-> Blank] \in Entry
        BY <1>0, <1>1, <2>1 DEF AddValue, Entry
    <2>3. entries' \in Rows /\ entries'[used + 1] = [name |-> n, ext |-> Blank]
          /\ \A j \in Ids \ {used + 1} : entries'[j] = entries[j]
        BY <1>0, <2>1, <2>2 DEF Writes, Rows
    <2>4. MadeHere(used + 1)
        BY <1>0, <2>2, <2>3, EntryIs DEF MadeHere, DictInv, Beyond
    <2>5. IsOpen(s) /\ Over(s) /\ value' = value /\ prepared' = prepared
        BY <2>1 DEF Writes, Serves, IsOpen
    <2>. QED
        BY <1>0, <2>1, <2>2, <2>3, <2>4, <2>5, EntryIs DEF WritesOne
<1>2. CASE EditValue(s)
    <2>1. PICK i \in Ids, n \in Names :
            /\ WithName(read[s].entries, n) \subseteq {i}
            /\ entries[i] # None /\ IsFree(n, i)
            /\ Writes(s, [entries EXCEPT ![i].name = n], value)
        BY <1>2 DEF EditValue
    <2>2. entries[i] \in Entry /\ used' = used
        BY <1>0, <1>2, <2>1 DEF EditValue, Rows
    <2>3. /\ [entries[i] EXCEPT !.name = n] \in Entry
          /\ [entries[i] EXCEPT !.name = n].name = n
          /\ [entries[i] EXCEPT !.name = n].ext = entries[i].ext
        BY <2>2 DEF Entry
    <2>4. entries' \in Rows /\ entries'[i] = [entries[i] EXCEPT !.name = n]
          /\ \A j \in Ids \ {i} : entries'[j] = entries[j]
        BY <1>0, <2>1, <2>3 DEF Writes, Rows
    <2>5. Renamed(i) /\ entries'[i].name = n
        BY <2>1, <2>3, <2>4, EntryIs DEF Renamed
    <2>6. IsOpen(s) /\ Over(s) /\ value' = value /\ prepared' = prepared
        BY <2>1 DEF Writes, Serves, IsOpen
    <2>7. WritesOne
        BY <2>1, <2>4, <2>5 DEF WritesOne
    <2>. QED
        BY <1>0, <2>2, <2>4, <2>6, <2>7
<1>3. CASE DeleteValue(s)
    <2>1. PICK i \in Ids : Writes(s, [entries EXCEPT ![i] = None], value)
        BY <1>3 DEF DeleteValue
    <2>2. used' = used
        BY <1>3 DEF DeleteValue
    <2>3. entries' \in Rows /\ entries'[i] = None /\ \A j \in Ids \ {i} : entries'[j] = entries[j]
        BY <1>0, <2>1 DEF Writes, Rows
    <2>4. IsOpen(s) /\ Over(s) /\ value' = value /\ prepared' = prepared
        BY <2>1 DEF Writes, Serves, IsOpen
    <2>. QED
        BY <1>0, <2>2, <2>3, <2>4 DEF WritesOne
<1>4. CASE ChooseValue(s)
    <2>1. PICK p \in Goods, i \in Ids \cup {None} :
            Writes(s, entries, [value EXCEPT ![p] = i])
        BY <1>4 DEF ChooseValue
    <2>2. used' = used
        BY <1>4 DEF ChooseValue
    <2>3. value' \in [Goods -> Ids \cup {None}] /\ entries' = entries
        BY <1>0, <2>1 DEF Writes
    <2>4. IsOpen(s) /\ Over(s) /\ prepared' = prepared
        BY <2>1 DEF Writes, Serves, IsOpen
    <2>. QED
        BY <1>0, <2>2, <2>3, <2>4
<1>5. CASE RollBack(s)
    BY <1>0, <1>5 DEF RollBack, dbVars, IsOpen
<1>. QED
    BY <1>1, <1>2, <1>3, <1>4, <1>5 DEF Page

\* A page touches nothing that a session at work has made.
LEMMA PageKeeps ==
    ASSUME DictInv, NEW s \in Sessions, Page(s)
    PROVE  DictInv'
<1>1. /\ IsOpen(s) /\ Over(s)
      /\ entries' \in Rows /\ value' \in [Goods -> Ids \cup {None}] /\ prepared' \in BOOLEAN
      /\ used' \in 0..MaxId /\ used <= used' /\ used \in 0..MaxId
    BY PageIs, MemoryIs
<1>2. ASSUME NEW i \in Ids
      PROVE  entries[i] # None \/ entries'[i] = None \/ MadeHere(i)
    BY PageIs DEF Renamed, WritesOne
<1>3. ASSUME NEW t \in Sessions \ {s}, NEW i \in New(t) PROVE entries'[i] = None
    <2>1. i \in Ids /\ entries[i] = None /\ mem[t].entries[i] # None
        BY DEF DictInv, Own, New
    <2>2. i # used + 1
        BY <1>1, <2>1 DEF DictInv, Beyond
    <2>. QED
        BY <1>2, <2>1, <2>2 DEF MadeHere
<1>4. ASSUME NEW i \in Ids, i > used' PROVE entries'[i] = None
    <2>1. entries[i] = None
        BY <1>1, <1>4 DEF DictInv, Beyond
    <2>. QED
        BY <1>1, <1>2, <1>4, <2>1 DEF MadeHere
<1>. QED
    BY <1>1, <1>3, <1>4, OverKeeps

LEMMA PageKeepsCodes ==
    ASSUME DictInv, CodesInv, NEW s \in Sessions, Page(s)
    PROVE  /\ CodesInv'
           /\ \A i \in Ids : entries[i] # None /\ entries'[i] # None => entries'[i].ext = entries[i].ext
<1>1. ASSUME NEW i \in Ids, entries'[i] # None
      PROVE  IF entries[i] = None THEN entries'[i].ext = Blank ELSE entries'[i].ext = entries[i].ext
    BY <1>1, PageIs DEF MadeHere, Renamed, WritesOne
<1>2. OneCode(entries')
    BY <1>1 DEF CodesInv, OneCode
<1>. QED
    BY <1>1, <1>2, PageIs, OverKeepsCodes

-----------------------------------------------------------------------------
(* Every step                                                              *)

LEMMA StepsOfNext ==
    ASSUME Next
    PROVE  \E s \in Sessions :
            \/ Begin(s) \/ EmptyLine(s) \/ Commit(s) \/ Page(s)
            \/ CarryOver(s) \/ Seed(s) \/ NamedLine(s) \/ SilentLine(s)
BY DEF Next, Page

LEMMA Initially == Init => DictInv /\ CodesInv
<1>. SUFFICES ASSUME Init PROVE DictInv /\ CodesInv
    OBVIOUS
<1>1. DictionariesTypeOK
    <2>1. Nothing.entries \in [Ids -> Entry \cup {None}]
          /\ Nothing.value \in [Goods -> Ids \cup {None}]
        BY NothingIs DEF Table
    <2>2. read \in [Sessions -> Table] /\ mem \in [Sessions -> Table]
        BY NothingIs DEF Init
    <2>3. used \in 0..MaxId /\ lines \in [Sessions -> 0..MaxLines]
        BY DEF Init
    <2>. QED
        BY <2>1, <2>2, <2>3 DEF Init, DictionariesTypeOK
<1>2. /\ \A s \in Sessions : ~IsOpen(s) /\ read[s] = Nothing /\ mem[s] = Nothing
      /\ \A i \in Ids : entries[i] = None
    BY NothingIs DEF Init, IsOpen
<1>3. \A s \in Sessions : New(s) = {} /\ Kept(s) /\ Own(s)
    BY <1>2, NothingIs DEF New, Kept, Own
<1>4. Beyond
    BY <1>2, NothingIs DEF Beyond
<1>5. CodesInv
    BY <1>2, NothingIs DEF CodesInv, OneSync, OneCode, Syncs
<1>. QED
    BY <1>1, <1>2, <1>3, <1>4, <1>5 DEF DictInv

LEMMA StepKeeps == DictInv /\ [Next]_vars => DictInv'
<1>1. ASSUME DictInv, Next PROVE DictInv'
    <2>1. PICK s \in Sessions :
            \/ Begin(s) \/ EmptyLine(s) \/ Commit(s) \/ Page(s)
            \/ CarryOver(s) \/ Seed(s) \/ NamedLine(s) \/ SilentLine(s)
        BY <1>1, StepsOfNext
    <2>2. CASE Begin(s) \/ EmptyLine(s) \/ Commit(s) \/ Page(s)
        BY <1>1, <2>2, BeginKeeps, EmptyLineKeeps, CommitKeeps, PageKeeps
    <2>3. CASE CarryOver(s) \/ Seed(s) \/ NamedLine(s) \/ SilentLine(s)
        <3>1. /\ \E ref \in Ref : \E r \in Resolved(mem[s].entries, ref) : Learns(s, ref, r)
              /\ sent' \in [Sessions -> SUBSET Goods] /\ lines' \in [Sessions -> 0..MaxLines]
            BY <1>1, <2>3, LearningSteps
        <3>2. PICK ref \in Ref : \E r \in Resolved(mem[s].entries, ref) : Learns(s, ref, r)
            BY <3>1
        <3>3. PICK r \in Resolved(mem[s].entries, ref) : Learns(s, ref, r)
            BY <3>2
        <3>. QED
            BY <1>1, <3>1, <3>3, LearnsKeeps
    <2>. QED
        BY <2>1, <2>2, <2>3
<1>2. ASSUME DictInv, UNCHANGED vars PROVE DictInv'
    <2>1. \A s \in Sessions : New(s)' = New(s)
        BY <1>2 DEF vars, sessionVars, New
    <2>2. DictionariesTypeOK'
        BY <1>2 DEF vars, dbVars, sessionVars, DictInv, DictionariesTypeOK
    <2>3. \A s \in Sessions : Kept(s)' /\ Own(s)'
        BY <1>2, <2>1 DEF vars, dbVars, sessionVars, DictInv, Kept, Own
    <2>4. Beyond'
        BY <1>2 DEF vars, dbVars, sessionVars, DictInv, Beyond
    <2>5. (\A s \in Sessions : ~IsOpen(s) => read[s] = Nothing /\ mem[s] = Nothing)'
        BY <1>2 DEF vars, dbVars, sessionVars, DictInv, IsOpen
    <2>. QED
        BY <2>2, <2>3, <2>4, <2>5 DEF DictInv
<1>. QED
    BY <1>1, <1>2

\* The step also leaves every identifier where it is.
CodesStay ==
    \A i \in Ids : entries[i] # None /\ entries'[i] # None /\ entries[i].ext # Blank
        => entries'[i].ext = entries[i].ext

LEMMA StepKeepsCodes ==
    ASSUME Postgres \/ ~Overlap
    PROVE  DictInv /\ CodesInv /\ [Next]_vars => CodesInv' /\ CodesStay
<1>1. ASSUME DictInv, CodesInv, Next PROVE CodesInv' /\ CodesStay
    <2>1. PICK s \in Sessions :
            \/ Begin(s) \/ EmptyLine(s) \/ Commit(s) \/ Page(s)
            \/ CarryOver(s) \/ Seed(s) \/ NamedLine(s) \/ SilentLine(s)
        BY <1>1, StepsOfNext
    <2>2. CASE Begin(s)
        BY <1>1, <2>2, BeginIs, BeginKeepsCodes DEF CodesStay
    <2>3. CASE EmptyLine(s)
        BY <1>1, <2>3, EmptyLineKeeps DEF CodesStay, EmptyLine, NextLine
    <2>4. CASE Commit(s)
        BY <1>1, <2>4, CommitKeepsCodes DEF CodesStay
    <2>5. CASE Page(s)
        BY <1>1, <2>5, PageKeepsCodes DEF CodesStay
    <2>6. CASE CarryOver(s) \/ Seed(s) \/ NamedLine(s) \/ SilentLine(s)
        <3>1. PICK ref \in Ref : \E r \in Resolved(mem[s].entries, ref) : Learns(s, ref, r)
            BY <1>1, <2>6, LearningSteps
        <3>2. PICK r \in Resolved(mem[s].entries, ref) : Learns(s, ref, r)
            BY <3>1
        <3>. QED
            BY <1>1, <3>2, LearnsKeepsCodes DEF CodesStay, Learns
    <2>. QED
        BY <2>1, <2>2, <2>3, <2>4, <2>5, <2>6
<1>2. ASSUME CodesInv, UNCHANGED vars PROVE CodesInv' /\ CodesStay
    BY <1>2 DEF vars, dbVars, sessionVars, CodesInv, OneSync, Syncs, IsOpen, OneCode, Fresh, CodesStay
<1>. QED
    BY <1>1, <1>2

\* Every variable has its type in every state, whatever runs at the same time.
THEOREM DictionariesTypeCorrect == Spec => []DictionariesTypeOK
<1>1. DictInv => DictionariesTypeOK
    BY DEF DictInv
<1>. QED
    BY <1>1, Initially, StepKeeps, PTL DEF Spec

\* Where PostgreSQL keeps exchanges apart, or requests do not overlap, an
\* identifier of 1C leads to one entry of the dictionary, whoever renames,
\* makes or deletes entries while an exchange is under way
\* (Taxonomy.resolve and the commit of import_products).
THEOREM OneEntryOfCode ==
    ASSUME Postgres \/ ~Overlap
    PROVE  Spec => []OneEntryPerCode
<1>1. CodesInv => OneEntryPerCode
    BY DEF CodesInv, OneCode, OneEntryPerCode
<1>. QED
    BY <1>1, Initially, StepKeeps, StepKeepsCodes, PTL DEF Spec

\* Under the same assumption no commit takes an identifier of 1C away from an
\* entry that stays, or gives it another one: the memory of the exchange that
\* writes was never behind the table.
THEOREM CodeStays ==
    ASSUME Postgres \/ ~Overlap
    PROVE  Spec => CodeIsKept
<1>1. CodesStay =>
        \A i \in Ids :
            entries[i] # None /\ entries'[i] # None /\ entries[i].ext # Blank
            => entries'[i].ext = entries[i].ext
    BY DEF CodesStay
<1>. QED
    BY <1>1, Initially, StepKeeps, StepKeepsCodes, PTL DEF Spec, CodeIsKept

-----------------------------------------------------------------------------
(***************************************************************************)
(* The start of the site, which is the first to fill the dictionaries      *)
(* (the repair "taxonomy") and everything else: what holds for any number  *)
(* of workers, of restarts and of failures of its steps, wherever the file *)
(* lock of app/locks.py works.                                             *)
(***************************************************************************)

\* Whoever is at work on the database has the lock.
Mutex == \A w \in Workers : phase[w] \in Inside => held = w

\* What a worker has found missing stays missing until it acts on it, and a
\* repair it has begun has never been committed.
NotDoneBefore == \A w \in Workers :
           /\ phase[w] = "doing" => Thing(w) \notin made
           /\ phase[w] \in {"working", "undoing"} =>
                 Thing(w) \in Backfills /\ done[Thing(w)] = 0
           /\ phase[w] = "working" => Thing(w) \in made

\* A committed repair has its flag.
Flagged == \A b \in Backfills : done[b] = 0 \/ (done[b] = 1 /\ b \in made)

StartInv == /\ StartupTypeOK
            /\ Mutex
            /\ NotDoneBefore
            /\ Flagged
            /\ NobodyFallsOver

\* The steps that are no repairs.
Basic == {"tables", "columns", "admin", "docs"}

LEMMA OrderFacts ==
    /\ Len(Order) = 9
    /\ {Order[i] : i \in Steps} = Basic \cup Backfills
BY DEF Order, Steps, Basic, Backfills

LEMMA StartInit == StartupInit => StartInv
<1> SUFFICES ASSUME StartupInit PROVE StartInv
  OBVIOUS
<1>1. StartupTypeOK
  BY OrderFacts, StartupAssumption
     DEF StartupInit, StartupTypeOK, Stages, Inside, Steps, Basic, Backfills
<1>2. Flagged
  BY DEF StartupInit, Flagged
<1> QED
  BY <1>1, <1>2 DEF StartupInit, StartInv, Mutex, NotDoneBefore, Inside, NobodyFallsOver

\* The step every action of a worker inside the lock ends with: on to the next
\* step of Order.
LEMMA Advances ==
    ASSUME StartInv, LockWorks, NEW w \in Workers, phase[w] \in Inside, Advance(w)
    PROVE  /\ phase' \in [Workers -> Stages] /\ at' \in [Workers -> Steps]
           /\ held' \in Workers \cup {NoOne}
           /\ Mutex'
           /\ phase'[w] \in {"looking", "starting"}
           /\ \A v \in Workers \ {w} : phase'[v] = phase[v] /\ at'[v] = at[v] /\ phase[v] \notin Inside
           /\ \A v \in Workers : phase'[v] # "failed"
<1>0. /\ phase \in [Workers -> Stages] /\ at \in [Workers -> Steps] /\ held = w
      /\ \A v \in Workers \ {w} : phase[v] \notin Inside
      /\ w # NoOne
  BY StartupAssumption DEF StartInv, StartupTypeOK, Mutex, Stages, Inside
<1>1. \A v \in Workers \ {w} : phase'[v] = phase[v] /\ at'[v] = at[v]
  BY <1>0 DEF Advance, To
<1>2. CASE at[w] = 9
  <2>1. /\ phase' = [phase EXCEPT ![w] = "starting"] /\ at' = at /\ held' = NoOne
    BY <1>0, <1>2, OrderFacts DEF Advance, To, IsLast, Released
  <2>2. phase' \in [Workers -> Stages] /\ phase'[w] = "starting"
    BY <1>0, <2>1 DEF Stages, Inside
  <2>3. Mutex'
    BY <1>0, <1>1, <2>2 DEF Mutex, Inside
  <2>4. \A v \in Workers : phase'[v] # "failed"
    BY <1>1, <2>2 DEF StartInv, NobodyFallsOver
  <2> QED
    BY <1>0, <1>1, <2>1, <2>2, <2>3, <2>4
<1>3. CASE at[w] # 9
  <2>1. /\ phase' = [phase EXCEPT ![w] = "looking"] /\ at' = [at EXCEPT ![w] = at[w] + 1]
        /\ held' = held
    BY <1>0, <1>3, OrderFacts DEF Advance, To, IsLast
  <2>2. at' \in [Workers -> Steps]
    BY <1>0, <1>3, <2>1 DEF Steps
  <2>3. phase' \in [Workers -> Stages] /\ phase'[w] = "looking"
    BY <1>0, <2>1 DEF Stages, Inside
  <2>4. Mutex'
    BY <1>0, <1>1, <2>1 DEF Mutex
  <2>5. \A v \in Workers : phase'[v] # "failed"
    BY <1>1, <2>3 DEF StartInv, NobodyFallsOver
  <2> QED
    BY <1>0, <1>1, <2>1, <2>2, <2>3, <2>4, <2>5
<1> QED BY <1>2, <1>3

\* So a step that advances keeps the invariant, if it keeps the flags.
LEMMA AdvanceKeeps ==
    ASSUME StartInv, LockWorks, NEW w \in Workers, phase[w] \in Inside, Advance(w),
           made' \subseteq Basic \cup Backfills,
           done' \in [Backfills -> Nat], Flagged',
           jobs' = jobs, starts' = starts
    PROVE  StartInv'
<1>1. /\ phase' \in [Workers -> Stages] /\ at' \in [Workers -> Steps]
      /\ held' \in Workers \cup {NoOne} /\ Mutex' /\ NobodyFallsOver'
      /\ phase'[w] \in {"looking", "starting"}
      /\ \A v \in Workers \ {w} : phase'[v] = phase[v] /\ phase[v] \notin Inside
  BY Advances DEF NobodyFallsOver
<1>2. StartupTypeOK'
  BY <1>1, OrderFacts DEF StartInv, StartupTypeOK, jobs
<1>3. NotDoneBefore'
  BY <1>1 DEF NotDoneBefore, Inside
<1> QED
  BY <1>1, <1>2, <1>3 DEF StartInv

LEMMA StartStep == StartInv /\ LockWorks /\ [StartupNext]_startupVars => StartInv'
<1> SUFFICES ASSUME StartInv, LockWorks, [StartupNext]_startupVars PROVE StartInv'
  OBVIOUS
<1>0. /\ phase \in [Workers -> Stages] /\ at \in [Workers -> Steps]
      /\ held \in Workers \cup {NoOne} /\ sched \subseteq Workers /\ broken \subseteq Workers
      /\ made \subseteq Basic \cup Backfills
      /\ done \in [Backfills -> Nat]
      /\ starts \in [Workers -> 0 .. MaxStarts] /\ MaxStarts \in Nat
  BY OrderFacts, StartupAssumption DEF StartInv, StartupTypeOK
<1> USE <1>0
<1>1. ASSUME NEW w \in Workers, Start(w) PROVE StartInv'
  <2>1. /\ phase' = [phase EXCEPT ![w] = "waiting"] /\ at' = [at EXCEPT ![w] = 1]
        /\ phase'[w] = "waiting" /\ at'[w] = 1
        /\ starts' = [starts EXCEPT ![w] = @ + 1] /\ starts[w] < MaxStarts
        /\ UNCHANGED <<held, sched, broken, made, done>>
    BY <1>1 DEF Start, To, data, jobs
  <2>2. StartupTypeOK'
    BY <2>1 DEF StartInv, StartupTypeOK, Stages, Inside, jobs, Steps
  <2>3. \A v \in Workers : v # w => phase'[v] = phase[v] /\ Thing(v)' = Thing(v) /\ at'[v] = at[v]
    BY <2>1 DEF Thing
  <2> QED
    BY <2>1, <2>2, <2>3
       DEF StartInv, Mutex, NotDoneBefore, Flagged, NobodyFallsOver, Inside
<1>2. ASSUME NEW w \in Workers, Lock(w) PROVE StartInv'
  <2>1. /\ phase' = [phase EXCEPT ![w] = "looking"] /\ held = NoOne /\ held' = w
        /\ phase'[w] = "looking"
        /\ UNCHANGED <<at, sched, broken, made, done, starts>>
    BY <1>2 DEF Lock, MayLock, To, data, jobs
  <2>2. StartupTypeOK'
    BY <2>1 DEF StartInv, StartupTypeOK, Stages, Inside, jobs
  <2>3. \A v \in Workers : v # w => phase'[v] = phase[v] /\ phase[v] \notin Inside
    BY <2>1, StartupAssumption DEF StartInv, Mutex
  <2>5. Mutex' /\ Flagged' /\ NobodyFallsOver'
    BY <2>1, <2>3 DEF StartInv, Mutex, Flagged, NobodyFallsOver
  <2>6. NotDoneBefore'
    BY <2>1, <2>3 DEF StartInv, NotDoneBefore, Thing
  <2> QED BY <2>2, <2>5, <2>6 DEF StartInv
<1>3. ASSUME NEW w \in Workers, Look(w) PROVE StartInv'
  <2>1. phase[w] = "looking" /\ UNCHANGED <<jobs, made, done, starts>> /\ phase[w] \in Inside
    BY <1>3 DEF Look, data, Inside
  <2>2. CASE Thing(w) \in made
    <3>1. Advance(w)
      BY <1>3, <2>2 DEF Look
    <3>2. Flagged'
      BY <2>1 DEF StartInv, Flagged
    <3> QED BY <2>1, <2>2, <3>1, <3>2, AdvanceKeeps
  <2>3. CASE Thing(w) \notin made
    <3>1. /\ phase' = [phase EXCEPT ![w] = "doing"] /\ UNCHANGED <<at, held>>
          /\ phase'[w] = "doing"
      BY <1>3, <2>3 DEF Look, To
    <3>2. \A v \in Workers : v # w => phase'[v] = phase[v]
      BY <3>1
    <3>3. StartupTypeOK'
      BY <2>1, <3>1 DEF StartInv, StartupTypeOK, Stages, Inside, jobs
    <3>4. NotDoneBefore'
      BY <2>1, <2>3, <3>1, <3>2 DEF StartInv, NotDoneBefore, Thing
    <3>5. Mutex' /\ Flagged' /\ NobodyFallsOver'
      BY <2>1, <3>1, <3>2 DEF StartInv, Mutex, Flagged, NobodyFallsOver
    <3> QED BY <3>3, <3>4, <3>5 DEF StartInv
  <2> QED BY <2>2, <2>3
<1>4. ASSUME NEW w \in Workers, CreateTables(w) PROVE StartInv'
  <2>1. /\ phase[w] = "doing" /\ phase[w] \in Inside /\ Thing(w) = "tables"
        /\ made' = made \cup {"tables", "columns"} /\ UNCHANGED <<jobs, done, starts>>
    BY <1>4 DEF CreateTables, Inside
  <2>2. Advance(w)
    BY <1>4, <2>1 DEF CreateTables, StartInv, NotDoneBefore
  <2>3. Flagged'
    BY <2>1 DEF StartInv, Flagged
  <2>4. made' \subseteq Basic \cup Backfills
    BY <2>1 DEF Basic
  <2> QED BY <2>1, <2>2, <2>3, <2>4, AdvanceKeeps
<1>5. ASSUME NEW w \in Workers, AddColumns(w) PROVE StartInv'
  <2>1. /\ phase[w] = "doing" /\ phase[w] \in Inside /\ Thing(w) = "columns" /\ Advance(w)
        /\ made' = IF "tables" \in made THEN made \cup {"columns"} ELSE made
        /\ UNCHANGED <<jobs, done, starts>>
    BY <1>5 DEF AddColumns, Inside
  <2>2. Flagged'
    BY <2>1 DEF StartInv, Flagged
  <2>3. made' \subseteq Basic \cup Backfills
    BY <2>1 DEF Basic
  <2> QED BY <2>1, <2>2, <2>3, AdvanceKeeps
<1>6. ASSUME NEW w \in Workers, SetFlag(w) PROVE StartInv'
  <2>1. /\ phase[w] = "doing" /\ Thing(w) \in Backfills
        /\ phase' = [phase EXCEPT ![w] = "working"] /\ phase'[w] = "working"
        /\ made' = made \cup {Thing(w)}
        /\ UNCHANGED <<at, held, jobs, done, starts>>
    BY <1>6 DEF SetFlag, To
  <2>2. /\ \A v \in Workers : v # w => phase'[v] = phase[v] /\ phase[v] \notin Inside
        /\ phase[w] \in Inside
    BY <2>1 DEF StartInv, Mutex, Inside
  <2>3. StartupTypeOK'
    BY <2>1, OrderFacts DEF StartInv, StartupTypeOK, Stages, Inside, jobs
  <2>4. done[Thing(w)] = 0 /\ Thing(w)' = Thing(w)
    BY <2>1 DEF StartInv, NotDoneBefore, Flagged, Thing
  <2>5. NotDoneBefore'
    BY <2>1, <2>2, <2>4 DEF NotDoneBefore, Inside
  <2>6. Mutex' /\ NobodyFallsOver'
    BY <2>1, <2>2 DEF StartInv, Mutex, NobodyFallsOver
  <2>7. Flagged'
    BY <2>1 DEF StartInv, Flagged
  <2> QED BY <2>3, <2>5, <2>6, <2>7 DEF StartInv
<1>7. ASSUME NEW w \in Workers, Work(w) PROVE StartInv'
  <2>1. /\ phase[w] = "working" /\ phase[w] \in Inside /\ Advance(w)
        /\ done' = [done EXCEPT ![Thing(w)] = @ + 1]
        /\ UNCHANGED <<jobs, made, starts>>
    BY <1>7 DEF Work, Inside
  <2>2. Thing(w) \in Backfills /\ done[Thing(w)] = 0 /\ Thing(w) \in made
    BY <2>1 DEF StartInv, NotDoneBefore
  <2>3. done' \in [Backfills -> Nat] /\ Flagged'
    BY <2>1, <2>2 DEF StartInv, Flagged
  <2> QED BY <2>1, <2>2, <2>3, AdvanceKeeps
<1>8. ASSUME NEW w \in Workers, WorkFails(w) PROVE StartInv'
  <2>1. /\ phase[w] = "working" /\ phase[w] \in Inside
        /\ UNCHANGED <<jobs, made, done, starts>>
    BY <1>8 DEF WorkFails, Inside, data
  <2>2. Thing(w) \in Backfills /\ done[Thing(w)] = 0 /\ Thing(w) \in made
    BY <2>1 DEF StartInv, NotDoneBefore
  <2>3. CASE Thing(w) \notin Retried
    <3>1. Advance(w) /\ Flagged'
      BY <1>8, <2>1, <2>3 DEF WorkFails, StartInv, Flagged
    <3> QED BY <2>1, <2>2, <3>1, AdvanceKeeps
  <2>4. CASE Thing(w) \in Retried
    <3>1. /\ phase' = [phase EXCEPT ![w] = "undoing"] /\ UNCHANGED <<at, held>>
          /\ phase'[w] = "undoing" /\ Thing(w)' = Thing(w)
      BY <1>8, <2>4 DEF WorkFails, To, Thing
    <3>2. \A v \in Workers : v # w => phase'[v] = phase[v] /\ phase[v] \notin Inside
      BY <2>1, <3>1 DEF StartInv, Mutex
    <3>3. StartupTypeOK'
      BY <2>1, <3>1 DEF StartInv, StartupTypeOK, Stages, Inside, jobs
    <3>4. NotDoneBefore'
      BY <2>1, <2>2, <3>1, <3>2 DEF NotDoneBefore, Inside
    <3>5. Mutex' /\ Flagged' /\ NobodyFallsOver'
      BY <2>1, <3>1, <3>2 DEF StartInv, Mutex, Flagged, NobodyFallsOver
    <3> QED BY <3>3, <3>4, <3>5 DEF StartInv
  <2> QED BY <2>3, <2>4
<1>9. ASSUME NEW w \in Workers, TakeFlagBack(w) PROVE StartInv'
  <2>1. /\ phase[w] = "undoing" /\ phase[w] \in Inside /\ Advance(w)
        /\ made' \in {made, made \ {Thing(w)}} /\ UNCHANGED <<jobs, done, starts>>
    BY <1>9 DEF TakeFlagBack, Inside
  <2>2. Thing(w) \in Backfills /\ done[Thing(w)] = 0
    BY <2>1 DEF StartInv, NotDoneBefore
  <2>3. Flagged'
    BY <2>1, <2>2 DEF StartInv, Flagged
  <2> QED BY <2>1, <2>3, AdvanceKeeps
<1>10. ASSUME NEW w \in Workers, AddRows(w) PROVE StartInv'
  <2>1. /\ phase[w] = "doing" /\ phase[w] \in Inside /\ Thing(w) \in {"admin", "docs"}
        /\ made' = IF "tables" \in made THEN made \cup {Thing(w)} ELSE made
        /\ Advance(w) /\ UNCHANGED <<jobs, done, starts>>
    BY <1>10 DEF AddRows, Inside
  <2>2. Flagged'
    BY <2>1 DEF StartInv, Flagged
  <2>3. made' \subseteq Basic \cup Backfills
    BY <2>1 DEF Basic
  <2> QED BY <2>1, <2>2, <2>3, AdvanceKeeps
<1>11. ASSUME NEW w \in Workers, StepFails(w) PROVE StartInv'
  <2>1. /\ phase[w] = "doing" /\ phase[w] \in Inside /\ Advance(w)
        /\ UNCHANGED <<jobs, made, done, starts>>
    BY <1>11 DEF StepFails, data, Inside
  <2>2. Flagged'
    BY <2>1 DEF StartInv, Flagged
  <2> QED BY <2>1, <2>2, AdvanceKeeps
<1>12. ASSUME NEW w \in Workers, StartScheduler(w) \/ SchedulerFails(w) PROVE StartInv'
  <2>1. /\ phase[w] = "starting" /\ phase' = [phase EXCEPT ![w] = "serving"] /\ phase'[w] = "serving"
        /\ sched' \subseteq Workers /\ broken' \subseteq Workers
        /\ UNCHANGED <<at, held, made, done, starts>>
    BY <1>12 DEF StartScheduler, SchedulerFails, To, data
  <2>2. \A v \in Workers : v # w => phase'[v] = phase[v] /\ Thing(v)' = Thing(v)
    BY <2>1 DEF Thing
  <2>3. StartupTypeOK'
    BY <2>1 DEF StartInv, StartupTypeOK, Stages, Inside
  <2>4. Mutex' /\ Flagged' /\ NobodyFallsOver'
    BY <2>1, <2>2 DEF StartInv, Mutex, Flagged, NobodyFallsOver, Inside
  <2>5. NotDoneBefore'
    BY <2>1, <2>2 DEF StartInv, NotDoneBefore
  <2> QED BY <2>3, <2>4, <2>5 DEF StartInv
<1>13. ASSUME NEW w \in Workers, Die(w) PROVE StartInv'
  <2>1. /\ phase' = [phase EXCEPT ![w] = "down"] /\ phase'[w] = "down"
        /\ held' = Released(w) /\ sched' = sched \ {w} /\ broken' = broken \ {w}
        /\ UNCHANGED <<at, made, done, starts>>
    BY <1>13 DEF Die, To, data
  <2>2. \A v \in Workers : v # w => phase'[v] = phase[v] /\ Thing(v)' = Thing(v)
    BY <2>1 DEF Thing
  <2>3. StartupTypeOK'
    BY <2>1 DEF StartInv, StartupTypeOK, Stages, Inside, Released
  <2>4. Flagged' /\ NobodyFallsOver'
    BY <2>1, <2>2 DEF StartInv, Flagged, NobodyFallsOver
  <2>5. Mutex'
    BY <2>1, <2>2 DEF StartInv, Mutex, Inside, Released
  <2>6. NotDoneBefore'
    BY <2>1, <2>2 DEF StartInv, NotDoneBefore
  <2> QED BY <2>3, <2>4, <2>5, <2>6 DEF StartInv
<1>14. ASSUME UNCHANGED startupVars PROVE StartInv'
  BY <1>14 DEF startupVars, StartInv, StartupTypeOK, Mutex, NotDoneBefore, Flagged,
               NobodyFallsOver, Thing
<1> QED
  BY <1>1, <1>2, <1>3, <1>4, <1>5, <1>6, <1>7, <1>8, <1>9, <1>10, <1>11, <1>12, <1>13, <1>14
     DEF StartupNext, Proceed, Rest

LEMMA StartupInvariant == ASSUME LockWorks PROVE Safety => []StartInv
<1>1. LockWorks
  OBVIOUS
<1> QED
  BY <1>1, StartInit, StartStep, PTL DEF Safety

\* Where the lock file works, a repair is committed at most once in the life of
\* the database: _backfill_once, however workers start, die and fail.
THEOREM RepairsRunOnce == ASSUME LockWorks PROVE Safety => []EachRepairOnce
<1>1. StartInv => EachRepairOnce
  BY DEF StartInv, Flagged, EachRepairOnce
<1> QED
  BY <1>1, StartupInvariant, PTL

\* and no worker fails because another creates the tables (prepare_database).
THEOREM StartsDoNotClash == ASSUME LockWorks PROVE Safety => []NobodyFallsOver
<1>1. StartInv => NobodyFallsOver
  BY DEF StartInv
<1> QED
  BY <1>1, StartupInvariant, PTL

\* The hourly job finds its worker although the lock is asked for once per start
\* and given back by the kernel at any time (start_scheduler): whoever was last
\* to ask has it, was refused by one that has it, or could not start it.  This
\* needs no lock file that works and no luck: any number of workers, deaths and
\* refused steps.
THEOREM JobFindsItsWorker == Safety => []SomebodySchedules
<1> DEFINE Anybody == sched \cup broken
           Serving(w) == phase[w] = "serving"
<1>1. StartupInit => phase \in [Workers -> Stages] /\ SomebodySchedules
  BY StartupAssumption DEF StartupInit, SomebodySchedules, Stages
<1>2. ASSUME phase \in [Workers -> Stages], SomebodySchedules, [StartupNext]_startupVars
      PROVE  (phase \in [Workers -> Stages] /\ SomebodySchedules)'
  <2>1. ASSUME NEW w \in Workers, StartScheduler(w) \/ SchedulerFails(w)
        PROVE  phase' \in [Workers -> Stages] /\ Anybody' # {}
    BY <1>2, <2>1 DEF StartScheduler, SchedulerFails, MaySchedule, To, Stages
  <2>2. ASSUME NEW w \in Workers,
               \/ Start(w) \/ Lock(w) \/ Die(w) \/ Look(w) \/ CreateTables(w) \/ AddColumns(w)
               \/ SetFlag(w) \/ Work(w) \/ WorkFails(w) \/ TakeFlagBack(w) \/ AddRows(w)
               \/ StepFails(w)
        PROVE  phase' \in [Workers -> Stages] /\ ~Serving(w)'
    BY <1>2, <2>2 DEF Start, Lock, Die, Look, CreateTables, AddColumns, SetFlag, Work, WorkFails,
       TakeFlagBack, AddRows, StepFails, Advance, Abort, To, Stages, Inside
  <2>3. CASE UNCHANGED startupVars
    BY <1>2, <2>3 DEF startupVars, SomebodySchedules
  <2> QED
    BY <1>2, <2>1, <2>2, <2>3 DEF StartupNext, Proceed, Rest, SomebodySchedules
<1> QED
  BY <1>1, <1>2, PTL DEF Safety
=============================================================================
