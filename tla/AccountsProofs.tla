---------------------------- MODULE AccountsProofs ----------------------------
(***************************************************************************)
(* Whatever requests overlap, the journal of consents says what the        *)
(* accounts say.  Where requests do not overlap, nobody gets into an       *)
(* erased account.                                                         *)
(*                                                                         *)
(* The journal follows because a plan has an entry for exactly the         *)
(* consents in which what it writes differs from what it read: those are   *)
(* the columns its commit writes, whatever has been committed meanwhile.   *)
(* The rest needs that what was read is still so at the commit.            *)
(*                                                                         *)
(* Of the sessions in which people are signed in to accounts: an           *)
(* identifier given out to a visitor never belongs to somebody signed in,  *)
(* wherever sessions are kept and whatever fails.  While every call finds  *)
(* its data where the others left it, what has been ended is never served  *)
(* again.                                                                  *)
(***************************************************************************)
EXTENDS Accounts, Sessions, FiniteSetTheorems, TLAPS

\* The entries of a plan name the consents that it changes, and no others.
Told(j) ==
    \A k \in Consents :
        IF k \in DOMAIN j.entries
        THEN j.new[k] = j.entries[k] /\ j.new[k] # j.was[k]
        ELSE j.new[k] = j.was[k]

\* An account is made with the consents of its entries.
Signed(j) ==
    \A k \in Consents : j.new[k] <=> k \in DOMAIN j.entries /\ j.entries[k]

\* A plan as some handler makes it.
Sound(j) ==
    /\ j.do # "close" => j.whom \in People
    /\ j.do \in {"create", "update", "erase", "reset"} => j.new \in Account
    /\ j.do \in {"update", "erase", "reset"} => j.was \in Account /\ Told(j)
    /\ j.do = "create" => Signed(j)
    /\ j.do = "reset" => DOMAIN j.entries = {}
    /\ j.do \in {"ask", "close"} => j.row \in Requests
    /\ j.do = "erase" => j.row \in Requests \cup {Absent}
    /\ j.do = "link" => j.row \in Links

\* Nobody who has no account has given consent to anything.
NoneUnasked ==
    \A p \in People : users[p] = Absent =>
        \A k \in Consents : journal[p][k] # "given"

\* Open requests are those of accounts there are.
OpenAreOwned == \A r \in Requests : requests[r] \in People => Exists(requests[r])

\* The tables hold what they are for, and agree on consents and requests.
TablesAgree ==
    /\ users \in [People -> Account \cup {Absent}]
    /\ orders \subseteq People
    /\ journal \in [People -> [Consents -> Word]]
    /\ requests \in [Requests -> People \cup {Nobody, Absent}]
    /\ links \in [Links -> People \cup {Absent}]
    /\ JournalAgrees
    /\ NoneUnasked
    /\ OpenAreOwned

AccountsInv ==
    /\ TablesAgree
    /\ job \in [Threads -> Job \cup {NoJob}]
    /\ \A t \in Threads : job[t] # NoJob => Sound(job[t])

\* What a plan rests on is still so.
StillSo(j) ==
    LET p == j.whom
    IN  /\ j.do \in {"update", "erase", "reset"} => j.was = users[p]
        /\ j.do \in {"link", "reset"} => MayReset(p)
        /\ j.do = "create" => ~j.new["erased"]
        /\ j.do = "reset" => ~j.new["erased"]
        /\ j.do = "update" =>
            /\ j.new["erased"] = j.was["erased"]
            /\ j.new["erased"] => ~j.new["password"]
        /\ j.do = "erase" => ~j.new["password"]
        /\ j.do = "ask" => Exists(p)

OneAtATime ==
    \A s, t \in Threads : job[s] # NoJob /\ job[t] # NoJob => s = t

SerialInv ==
    /\ OneAtATime
    /\ \A t \in Threads : job[t] # NoJob => StillSo(job[t])
    /\ ErasedStaysShut

USE AccountsAssumption, AbsentAssumption

-----------------------------------------------------------------------------
(* Operators                                                               *)

\* A plan has the parts it is made of, and is no idle thread.
LEMMA PlanIs ==
    ASSUME NEW do, NEW p, NEW new, NEW entries, NEW row, do # "idle"
    PROVE  LET j == Plan(do, p, new, entries, row)
           IN  /\ j.do = do /\ j.whom = p /\ j.new = new
               /\ j.entries = entries /\ j.row = row
               /\ p # Nobody => j.was = users[p]
               /\ p = Nobody => j.was = Absent
               /\ j # NoJob
<1>. DEFINE j == Plan(do, p, new, entries, row)
<1>1. /\ j.do = do /\ j.whom = p /\ j.new = new /\ j.entries = entries /\ j.row = row
      /\ j.was = IF p = Nobody THEN Absent ELSE users[p]
    BY DEF Plan
<1>2. NoJob.do = "idle"
    BY DEF NoJob
<1>. QED
    BY <1>1, <1>2

\* An account in which some columns are set.
LEMMA WithIs ==
    ASSUME NEW u \in Account, NEW C \in SUBSET Columns, NEW to \in [C -> BOOLEAN]
    PROVE  /\ With(u, to) \in Account
           /\ \A c \in C : With(u, to)[c] = to[c]
           /\ \A c \in Columns \ C : With(u, to)[c] = u[c]
BY DEF With, Account

LEMMA SomeIs ==
    ASSUME NEW c \in Columns, NEW value \in BOOLEAN
    PROVE  /\ Some(c, value) \in [{c} -> BOOLEAN]
           /\ Some(c, value)[c] = value
           /\ DOMAIN Some(c, value) = {c}
BY DEF Some

LEMMA NoEntryIs == NoEntry \in [{} -> BOOLEAN] /\ DOMAIN NoEntry = {}
BY DEF NoEntry

\* What a commit makes of an account: the columns in which the plan differs
\* from what it read.
LEMMA WrittenIs ==
    ASSUME NEW p, users[p] \in Account, NEW was \in Account, NEW new \in Account
    PROVE  /\ Written(p, was, new) \in Account
           /\ \A c \in Columns : Written(p, was, new)[c] =
                    IF new[c] = was[c] THEN users[p][c] ELSE new[c]
           /\ was = users[p] => \A c \in Columns : Written(p, was, new)[c] = new[c]
BY DEF Written, Account

LEMMA LinksLeftIs ==
    ASSUME links \in [Links -> People \cup {Absent}], NEW p
    PROVE  /\ LinksLeft(p) \in [Links -> People \cup {Absent}]
           /\ \A l \in Links : LinksLeft(p)[l] = IF links[l] = p THEN Absent ELSE links[l]
BY DEF LinksLeft

-----------------------------------------------------------------------------
(* Requests plan                                                           *)

LEMMA PlanIsJob ==
    ASSUME AccountsTypeOK,
           NEW do \in {"create", "update", "erase", "purge", "ask", "close", "link", "reset"},
           NEW p \in People \cup {Nobody}, NEW new \in Account \cup {Absent},
           NEW K \in SUBSET Consents, NEW entries \in [K -> BOOLEAN],
           NEW row \in Requests \cup Links \cup {Absent}
    PROVE  Plan(do, p, new, entries, row) \in Job
<1>1. (IF p = Nobody THEN Absent ELSE users[p]) \in Account \cup {Absent}
    BY DEF AccountsTypeOK
<1>2. entries \in UNION {[L -> BOOLEAN] : L \in SUBSET Consents}
    OBVIOUS
<1>. QED
    BY <1>1, <1>2 DEF Plan, Job

\* What a handler does: it plans something sound, and something that is so.
Planned(t) ==
    \E j \in Job : Begins(t, j) /\ Sound(j) /\ (SerialInv => StillSo(j))

\* Columns may be set if the entries name the consents among them, if nobody
\* is let into an erased account, and if an administrator remains.
LEMMA SetsPlans ==
    ASSUME AccountsTypeOK,
           NEW t, NEW p \in People, users[p] \in Account,
           NEW C \in SUBSET (Columns \ {"erased"}), NEW to \in [C -> BOOLEAN],
           NEW K \in SUBSET (Consents \cap C), NEW entries \in [K -> BOOLEAN],
           \A k \in K : to[k] = entries[k] /\ to[k] # users[p][k],
           Consents \cap C \subseteq K,
           users[p]["erased"] => "password" \notin C,
           "admin" \in C /\ users[p]["admin"] => to["admin"] \/ \E q \in Admins : q # p,
           Sets(t, p, to, entries)
    PROVE  Planned(t)
<1>. DEFINE new == With(users[p], to)
            j == Plan("update", p, new, entries, Absent)
<1>1. /\ new \in Account
      /\ \A c \in C : new[c] = to[c]
      /\ \A c \in Columns \ C : new[c] = users[p][c]
    BY WithIs
<1>2. j \in Job
    BY <1>1, PlanIsJob
<1>3. /\ j.do = "update" /\ j.whom = p /\ j.new = new /\ j.entries = entries
      /\ j.was = users[p]
    BY PlanIs
<1>. HIDE DEF j, new
<1>4. Begins(t, j)
    BY DEF Sets, j, new
<1>5. DOMAIN j.entries = K
    BY <1>3
<1>6. Told(j)
    <2>. SUFFICES ASSUME NEW k \in Consents
                  PROVE  IF k \in DOMAIN j.entries
                         THEN j.new[k] = j.entries[k] /\ j.new[k] # j.was[k]
                         ELSE j.new[k] = j.was[k]
        BY DEF Told
    <2>. QED
        BY <1>1, <1>3, <1>5 DEF Consents, Columns
<1>7. Sound(j)
    BY <1>1, <1>3, <1>6 DEF Sound
<1>8. ASSUME SerialInv PROVE StillSo(j)
    <2>1. j.new["erased"] = j.was["erased"]
        BY <1>1, <1>3 DEF Columns
    <2>2. j.new["erased"] => ~j.new["password"]
        BY <1>1, <1>3, <1>8, <2>1 DEF Columns, SerialInv, ErasedStaysShut, Exists
    <2>3. j.was["admin"] => j.new["admin"] \/ \E q \in Admins : q # p
        BY <1>1, <1>3 DEF Columns
    <2>. QED
        BY <1>3, <2>1, <2>2, <2>3 DEF StillSo
<1>. QED
    BY <1>2, <1>4, <1>7, <1>8 DEF Planned

LEMMA AdminsAre ==
    ASSUME AccountsTypeOK, NEW p \in Admins
    PROVE  p \in People /\ users[p] \in Account /\ users[p]["admin"]
BY DEF Admins, Exists

LEMMA RegisterPlans ==
    ASSUME AccountsTypeOK, NEW t \in Threads, Register(t)
    PROVE  Planned(t)
<1>1. PICK p \in People, ads \in BOOLEAN :
        /\ users[p] = Absent
        /\ Begins(t, Plan("create", p,
                [c \in Columns |-> c \in {"password", "pd"} \/ (c = "marketing" /\ ads)],
                [k \in IF ads THEN Consents ELSE {"pd"} |-> TRUE], Absent))
    BY DEF Register
<1>. DEFINE new == [c \in Columns |-> c \in {"password", "pd"} \/ (c = "marketing" /\ ads)]
            K == IF ads THEN Consents ELSE {"pd"}
            entries == [k \in K |-> TRUE]
            j == Plan("create", p, new, entries, Absent)
<1>2. new \in Account /\ ~new["erased"]
    BY DEF Account, Columns
<1>3. K \in SUBSET Consents /\ entries \in [K -> BOOLEAN]
    BY DEF Consents
<1>4. j \in Job
    BY <1>2, <1>3, PlanIsJob
<1>5. j.do = "create" /\ j.whom = p /\ j.new = new /\ j.entries = entries
    BY PlanIs
<1>6. Signed(j)
    <2>1. new["pd"] /\ (new["marketing"] <=> ads)
        BY DEF Columns
    <2>2. DOMAIN entries = K /\ \A k \in K : entries[k]
        OBVIOUS
    <2>3. "pd" \in K /\ ("marketing" \in K <=> ads)
        BY DEF Consents
    <2>. QED
        BY <1>5, <2>1, <2>2, <2>3 DEF Signed, Consents
<1>. QED
    BY <1>1, <1>2, <1>4, <1>5, <1>6 DEF Planned, Sound, StillSo

LEMMA MakeAdminPlans ==
    ASSUME AccountsTypeOK, NEW t \in Threads, MakeAdmin(t)
    PROVE  Planned(t)
<1>. DEFINE to == [c \in {"admin", "approved"} |-> TRUE]
<1>1. PICK p \in People : Exists(p) /\ Sets(t, p, to, NoEntry)
    BY DEF MakeAdmin
<1>2. {"admin", "approved"} \in SUBSET (Columns \ {"erased"})
      /\ Consents \cap {"admin", "approved"} = {} /\ {} \in SUBSET (Consents \cap {"admin", "approved"})
    BY DEF Columns, Consents
<1>3. to \in [{"admin", "approved"} -> BOOLEAN] /\ to["admin"]
    OBVIOUS
<1>. HIDE DEF to
<1>. QED
    BY <1>1, <1>2, <1>3, NoEntryIs, SetsPlans DEF Exists

\* Setting one column that is no consent.
LEMMA SetsOnePlans ==
    ASSUME AccountsTypeOK, NEW t, NEW p \in People, users[p] \in Account,
           NEW c \in {"admin", "manager", "approved", "password", "bound"}, NEW value \in BOOLEAN,
           c = "password" => ~users[p]["erased"],
           c = "admin" /\ ~value => \E q \in Admins : q # p,
           Sets(t, p, Some(c, value), NoEntry)
    PROVE  Planned(t)
<1>1. c \in Columns /\ {c} \in SUBSET (Columns \ {"erased"}) /\ Consents \cap {c} = {}
    BY DEF Columns, Consents
<1>2. Some(c, value) \in [{c} -> BOOLEAN] /\ Some(c, value)[c] = value
    BY <1>1, SomeIs
<1>3. "admin" \in {c} /\ users[p]["admin"] => Some(c, value)["admin"] \/ \E q \in Admins : q # p
    BY <1>2
<1>4. users[p]["erased"] => "password" \notin {c}
    OBVIOUS
<1>. QED
    BY <1>1, <1>2, <1>3, <1>4, NoEntryIs, SetsPlans

LEMMA DemotePlans ==
    ASSUME AccountsTypeOK, NEW t \in Threads, Demote(t)
    PROVE  Planned(t)
<1>1. PICK by \in Admins, p \in Admins :
        by # p /\ Sets(t, p, Some("admin", FALSE), NoEntry)
    BY DEF Demote, MayDemote
<1>. QED
    BY <1>1, AdminsAre, SetsOnePlans

LEMMA ApprovePlans ==
    ASSUME AccountsTypeOK, NEW t \in Threads, Approve(t)
    PROVE  Planned(t)
BY SetsOnePlans DEF Approve, Exists

LEMMA ToggleManagerPlans ==
    ASSUME AccountsTypeOK, NEW t \in Threads, ToggleManager(t)
    PROVE  Planned(t)
<1>1. PICK p \in People :
        Exists(p) /\ Sets(t, p, Some("manager", ~users[p]["manager"]), NoEntry)
    BY DEF ToggleManager
<1>. QED
    BY <1>1, SetsOnePlans DEF Exists

LEMMA DictatePasswordPlans ==
    ASSUME AccountsTypeOK, NEW t \in Threads, DictatePassword(t)
    PROVE  Planned(t)
<1>1. PICK p \in People : /\ Exists(p) /\ ~users[p]["erased"]
                          /\ Sets(t, p, Some("password", TRUE), NoEntry)
    BY DEF DictatePassword
<1>. QED
    BY <1>1, SetsOnePlans DEF Exists

LEMMA SyncClientPlans ==
    ASSUME AccountsTypeOK, NEW t \in Threads, SyncClient(t)
    PROVE  Planned(t)
<1>1. PICK p \in People : Exists(p) /\ Sets(t, p, Some("bound", TRUE), NoEntry)
    BY DEF SyncClient, FindsErased
<1>. QED
    BY <1>1, SetsOnePlans DEF Exists

\* A consent is set to what it is not, with an entry that says so.
LEMMA SetsConsentPlans ==
    ASSUME AccountsTypeOK, NEW t, NEW p \in People, users[p] \in Account,
           NEW k \in Consents, NEW want \in BOOLEAN, users[p][k] # want,
           Sets(t, p, Some(k, want), Some(k, want))
    PROVE  Planned(t)
<1>1. k \in Columns /\ {k} \in SUBSET (Columns \ {"erased"}) /\ {k} = Consents \cap {k}
      /\ "password" \notin {k} /\ "admin" \notin {k}
    BY DEF Columns, Consents
<1>2. Some(k, want) \in [{k} -> BOOLEAN] /\ Some(k, want)[k] = want
    BY <1>1, SomeIs
<1>. QED
    BY <1>1, <1>2, SetsPlans

LEMMA ToggleMarketingPlans ==
    ASSUME AccountsTypeOK, NEW t \in Threads, ToggleMarketing(t)
    PROVE  Planned(t)
<1>1. PICK p \in People, want \in BOOLEAN :
        /\ Exists(p) /\ users[p]["marketing"] # want
        /\ Sets(t, p, Some("marketing", want), Some("marketing", want))
    BY DEF ToggleMarketing, MayAct
<1>. QED
    BY <1>1, SetsConsentPlans DEF Exists, Consents

LEMMA ConfirmConsentPlans ==
    ASSUME AccountsTypeOK, NEW t \in Threads, ConfirmConsent(t)
    PROVE  Planned(t)
<1>1. PICK p \in People : /\ Exists(p) /\ ~users[p]["pd"]
                          /\ Sets(t, p, Some("pd", TRUE), Some("pd", TRUE))
    BY DEF ConfirmConsent, MayAct
<1>2. users[p]["pd"] # TRUE
    BY <1>1
<1>. QED
    BY <1>1, <1>2, SetsConsentPlans DEF Exists, Consents

\* What anonymize_user leaves, with an entry for each consent withdrawn.
LEMMA ErasePlans ==
    ASSUME AccountsTypeOK, NEW t, NEW p \in People, users[p] \in Account,
           ~users[p]["admin"], NEW row \in Requests \cup {Absent}, Erase(t, p, row)
    PROVE  Planned(t)
<1>. DEFINE new == [c \in Columns |-> c = "erased"]
            K == {c \in Consents : users[p][c]}
            j == Plan("erase", p, new, Withdrawn(p), row)
<1>1. new \in Account /\ ~new["password"] /\ \A k \in Consents : new[k] = FALSE
    BY DEF Account, Columns, Consents
<1>2. /\ K \in SUBSET Consents /\ Withdrawn(p) \in [K -> BOOLEAN]
      /\ \A k \in K : Withdrawn(p)[k] = FALSE
      /\ DOMAIN Withdrawn(p) = K
    BY DEF Withdrawn
<1>3. j \in Job
    BY <1>1, <1>2, PlanIsJob
<1>4. /\ j.do = "erase" /\ j.whom = p /\ j.new = new /\ j.entries = Withdrawn(p)
      /\ j.row = row /\ j.was = users[p]
    BY PlanIs
<1>5. \A k \in Consents : k \notin K => users[p][k] = FALSE
    BY DEF Account, Columns, Consents
<1>6. Told(j)
    BY <1>1, <1>2, <1>4, <1>5 DEF Told
<1>7. Sound(j)
    BY <1>1, <1>4, <1>6 DEF Sound
<1>8. StillSo(j)
    BY <1>1, <1>4 DEF StillSo
<1>9. Begins(t, j)
    BY DEF Erase
<1>. QED
    BY <1>3, <1>7, <1>8, <1>9 DEF Planned

LEMMA RejectPlans ==
    ASSUME AccountsTypeOK, NEW t \in Threads, Reject(t)
    PROVE  Planned(t)
<1>1. PICK p \in People :
        /\ Exists(p) /\ ~users[p]["admin"]
        /\ \/ Erase(t, p, Absent)
           \/ MayPurge(p) /\ Begins(t, Plan("purge", p, Absent, NoEntry, Absent))
    BY DEF Reject
<1>2. CASE Erase(t, p, Absent)
    BY <1>1, <1>2, ErasePlans DEF Exists
<1>3. CASE MayPurge(p) /\ Begins(t, Plan("purge", p, Absent, NoEntry, Absent))
    <2>. DEFINE j == Plan("purge", p, Absent, NoEntry, Absent)
    <2>1. j \in Job
        BY NoEntryIs, PlanIsJob
    <2>2. j.do = "purge" /\ j.whom = p
        BY PlanIs
    <2>3. Sound(j)
        BY <2>2 DEF Sound
    <2>4. StillSo(j)
        BY <1>1, <1>3, <2>2 DEF StillSo, MayPurge, Admins
    <2>. QED
        BY <1>3, <2>1, <2>3, <2>4 DEF Planned
<1>. QED
    BY <1>1, <1>2, <1>3

LEMMA AskErasurePlans ==
    ASSUME AccountsTypeOK, NEW t \in Threads, AskErasure(t)
    PROVE  Planned(t)
<1>1. PICK p \in People, r \in Requests :
        Exists(p) /\ Begins(t, Plan("ask", p, Absent, NoEntry, r))
    BY DEF AskErasure, MayAct
<1>. DEFINE j == Plan("ask", p, Absent, NoEntry, r)
<1>2. j \in Job
    BY NoEntryIs, PlanIsJob
<1>3. j.do = "ask" /\ j.whom = p /\ j.row = r
    BY PlanIs
<1>4. Sound(j) /\ StillSo(j)
    BY <1>1, <1>3 DEF Sound, StillSo
<1>. QED
    BY <1>1, <1>2, <1>4 DEF Planned

LEMMA ClosePlans ==
    ASSUME AccountsTypeOK, NEW t, NEW r \in Requests,
           Begins(t, Plan("close", Nobody, Absent, NoEntry, r))
    PROVE  Planned(t)
<1>. DEFINE j == Plan("close", Nobody, Absent, NoEntry, r)
<1>1. j \in Job
    BY NoEntryIs, PlanIsJob
<1>2. j.do = "close" /\ j.row = r
    BY PlanIs
<1>3. Begins(t, j)
    OBVIOUS
<1>. HIDE DEF j
<1>4. Sound(j) /\ StillSo(j)
    BY <1>2 DEF Sound, StillSo
<1>. QED
    BY <1>1, <1>3, <1>4 DEF Planned

LEMMA GrantErasurePlans ==
    ASSUME AccountsTypeOK, OpenAreOwned, NEW t \in Threads, GrantErasure(t)
    PROVE  Planned(t)
<1>1. PICK r \in Requests :
        /\ requests[r] # Absent
        /\ IF requests[r] = Nobody
           THEN Begins(t, Plan("close", Nobody, Absent, NoEntry, r))
           ELSE ~IsStaff(users[requests[r]]) /\ Erase(t, requests[r], r)
    BY DEF GrantErasure, IsOpen
<1>2. CASE requests[r] = Nobody
    BY <1>1, <1>2, ClosePlans
<1>3. CASE requests[r] # Nobody
    <2>1. requests[r] \in People
        BY <1>1, <1>3 DEF AccountsTypeOK
    <2>2. users[requests[r]] \in Account /\ ~users[requests[r]]["admin"]
        BY <1>1, <1>3, <2>1 DEF OpenAreOwned, Exists, IsStaff
    <2>. QED
        BY <1>1, <1>3, <2>1, <2>2, ErasePlans
<1>. QED
    BY <1>2, <1>3

LEMMA RefuseErasurePlans ==
    ASSUME AccountsTypeOK, NEW t \in Threads, RefuseErasure(t)
    PROVE  Planned(t)
BY ClosePlans DEF RefuseErasure

LEMMA ForgotPlans ==
    ASSUME AccountsTypeOK, NEW t \in Threads, Forgot(t)
    PROVE  Planned(t)
<1>1. PICK p \in People, l \in Links :
        MayReset(p) /\ Begins(t, Plan("link", p, Absent, NoEntry, l))
    BY DEF Forgot, MayReset
<1>. DEFINE j == Plan("link", p, Absent, NoEntry, l)
<1>2. j \in Job
    BY NoEntryIs, PlanIsJob
<1>3. j.do = "link" /\ j.whom = p /\ j.row = l
    BY PlanIs
<1>4. Sound(j) /\ StillSo(j)
    BY <1>1, <1>3 DEF Sound, StillSo
<1>. QED
    BY <1>1, <1>2, <1>4 DEF Planned

LEMMA UseLinkPlans ==
    ASSUME AccountsTypeOK, NEW t \in Threads, UseLink(t)
    PROVE  Planned(t)
<1>1. PICK l \in Links :
        /\ links[l] # Absent /\ MayReset(links[l])
        /\ Begins(t, Plan("reset", links[l],
                          With(users[links[l]], Some("password", TRUE)), NoEntry, l))
    BY DEF UseLink, Works
<1>. DEFINE p == links[l]
            new == With(users[p], Some("password", TRUE))
            j == Plan("reset", p, new, NoEntry, l)
<1>2. p \in People /\ users[p] \in Account /\ ~users[p]["erased"]
    BY <1>1 DEF AccountsTypeOK, MayReset, Exists
<1>3. {"password"} \in SUBSET Columns /\ Some("password", TRUE) \in [{"password"} -> BOOLEAN]
    BY SomeIs DEF Columns
<1>4. new \in Account /\ \A c \in Columns \ {"password"} : new[c] = users[p][c]
    BY <1>2, <1>3, WithIs
<1>. HIDE DEF new
<1>5. j \in Job
    BY <1>2, <1>4, NoEntryIs, PlanIsJob
<1>6. /\ j.do = "reset" /\ j.whom = p /\ j.new = new /\ j.entries = NoEntry
      /\ j.was = users[p]
    BY <1>2, PlanIs
<1>. HIDE DEF j
<1>7. Told(j)
    BY <1>4, <1>6, NoEntryIs DEF Told, Consents, Columns
<1>8. Sound(j)
    BY <1>2, <1>4, <1>6, <1>7, NoEntryIs DEF Sound
<1>9. StillSo(j)
    BY <1>1, <1>2, <1>4, <1>6 DEF StillSo, Columns
<1>10. Begins(t, j)
    BY <1>1 DEF j, new
<1>. QED
    BY <1>5, <1>8, <1>9, <1>10 DEF Planned

LEMMA InvTypes == AccountsInv => AccountsTypeOK
BY DEF AccountsInv, TablesAgree, AccountsTypeOK

\* A thread that plans something sound leaves everything as it should be.
LEMMA PlannedKeeps ==
    ASSUME AccountsInv, NEW t \in Threads, Planned(t)
    PROVE  AccountsInv' /\ (~Overlap /\ SerialInv => SerialInv')
<1>1. PICK j \in Job : Begins(t, j) /\ Sound(j) /\ (SerialInv => StillSo(j))
    BY DEF Planned
<1>2. job' = [job EXCEPT ![t] = j] /\ UNCHANGED tables /\ MayBegin(t)
    BY <1>1 DEF Begins
<1>3. TablesAgree'
    BY <1>2 DEF AccountsInv, TablesAgree, tables, JournalAgrees, NoneUnasked, OpenAreOwned, Exists
<1>4. AccountsInv'
    BY <1>1, <1>2, <1>3 DEF AccountsInv
<1>5. ASSUME ~Overlap, SerialInv PROVE SerialInv'
    <2>1. \A s \in Threads \ {t} : job'[s] = NoJob
        BY <1>2, <1>5 DEF MayBegin, Quiet, AccountsInv
    <2>2. job'[t] = j
        BY <1>2 DEF AccountsInv
    <2>3. OneAtATime'
        BY <2>1 DEF OneAtATime
    <2>4. StillSo(j)'
        BY <1>1, <1>2, <1>5 DEF StillSo, tables, MayReset, Exists, Admins
    <2>5. \A s \in Threads : job'[s] # NoJob => StillSo(job[s])'
        BY <2>1, <2>2, <2>4 DEF StillSo, MayReset, Exists, Admins
    <2>6. ErasedStaysShut'
        BY <1>2, <1>5 DEF SerialInv, ErasedStaysShut, tables, Exists, Works
    <2>. QED
        BY <2>3, <2>5, <2>6 DEF SerialInv
<1>. QED
    BY <1>4, <1>5

-----------------------------------------------------------------------------
(* Requests commit                                                         *)

\* What the commit of an update, an erasure or a reset makes of the accounts.
LEMMA UpdatesAre ==
    ASSUME TablesAgree, NEW p \in People, NEW j, Updates(p, j),
           j.was \in Account, j.new \in Account
    PROVE  /\ users' \in [People -> Account \cup {Absent}]
           /\ \A q \in People : q # p => users'[q] = users[q]
           /\ users[p] \in Account /\ users'[p] \in Account
           /\ \A c \in Columns : users'[p][c] =
                    IF j.new[c] = j.was[c] THEN users[p][c] ELSE j.new[c]
           /\ j.was = users[p] => \A c \in Columns : users'[p][c] = j.new[c]
<1>1. users[p] \in Account /\ users' = [users EXCEPT ![p] = Written(p, j.was, j.new)]
    BY DEF Updates, Exists
<1>2. /\ Written(p, j.was, j.new) \in Account
      /\ \A c \in Columns : Written(p, j.was, j.new)[c] =
                    IF j.new[c] = j.was[c] THEN users[p][c] ELSE j.new[c]
      /\ j.was = users[p] => \A c \in Columns : Written(p, j.was, j.new)[c] = j.new[c]
    BY <1>1, WrittenIs
<1>3. users'[p] = Written(p, j.was, j.new)
    BY <1>1 DEF TablesAgree
<1>. QED
    BY <1>1, <1>2, <1>3 DEF TablesAgree

\* record_consent, for the entries of a plan.
LEMMA JournalIs ==
    ASSUME TablesAgree, NEW p \in People, NEW j, Journal(p, j)
    PROVE  /\ journal' \in [People -> [Consents -> Word]]
           /\ \A q \in People : q # p => journal'[q] = journal[q]
           /\ \A k \in Consents : journal'[p][k] =
                IF k \notin DOMAIN j.entries THEN journal[p][k]
                ELSE IF j.entries[k] THEN "given" ELSE "withdrawn"
<1>. DEFINE new == [k \in Consents |-> IF k \notin DOMAIN j.entries THEN journal[p][k]
                            ELSE IF j.entries[k] THEN "given" ELSE "withdrawn"]
<1>1. journal[p] \in [Consents -> Word]
    BY DEF TablesAgree
<1>2. new \in [Consents -> Word]
    BY <1>1 DEF Word
<1>3. journal' = [journal EXCEPT ![p] = new]
    BY DEF Journal
<1>4. journal'[p] = new
    BY <1>3 DEF TablesAgree
<1>. QED
    BY <1>2, <1>3, <1>4 DEF TablesAgree

\* An update and its entries, or a reset that has none, keep the agreement.
LEMMA TellingAgrees ==
    ASSUME TablesAgree, NEW p \in People, NEW j, Updates(p, j),
           j.was \in Account, j.new \in Account, Told(j),
           Journal(p, j) \/ (DOMAIN j.entries = {} /\ UNCHANGED journal)
    PROVE  /\ users' \in [People -> Account \cup {Absent}]
           /\ journal' \in [People -> [Consents -> Word]]
           /\ JournalAgrees' /\ NoneUnasked'
           /\ \A q \in People : Exists(q) => Exists(q)'
<1>1. /\ users' \in [People -> Account \cup {Absent}]
      /\ \A q \in People : q # p => users'[q] = users[q]
      /\ users[p] \in Account /\ users'[p] \in Account
      /\ \A c \in Columns : users'[p][c] =
              IF j.new[c] = j.was[c] THEN users[p][c] ELSE j.new[c]
    BY UpdatesAre
<1>2. /\ journal' \in [People -> [Consents -> Word]]
      /\ \A q \in People : q # p => journal'[q] = journal[q]
      /\ \A k \in Consents : journal'[p][k] =
                IF k \notin DOMAIN j.entries THEN journal[p][k]
                ELSE IF j.entries[k] THEN "given" ELSE "withdrawn"
    <2>1. CASE Journal(p, j)
        BY <2>1, JournalIs
    <2>2. CASE DOMAIN j.entries = {} /\ UNCHANGED journal
        BY <2>2 DEF TablesAgree
    <2>. QED
        BY <2>1, <2>2
<1>3. \A k \in Consents : users'[p][k] <=> journal'[p][k] = "given"
    <2>. TAKE k \in Consents
    <2>1. k \in Columns
        BY DEF Consents, Columns
    <2>2. users[p][k] <=> journal[p][k] = "given"
        BY <1>1 DEF TablesAgree, JournalAgrees, Exists
    <2>3. j.was[k] \in BOOLEAN /\ j.new[k] \in BOOLEAN /\ users[p][k] \in BOOLEAN
        BY <1>1, <2>1 DEF Account
    <2>4. CASE k \in DOMAIN j.entries
        <3>1. users'[p][k] = j.entries[k] /\ j.entries[k] \in BOOLEAN
            BY <1>1, <2>1, <2>3, <2>4 DEF Told
        <3>. QED
            BY <1>2, <2>4, <3>1
    <2>5. CASE k \notin DOMAIN j.entries
        <3>1. users'[p][k] = users[p][k]
            BY <1>1, <2>1, <2>5 DEF Told
        <3>. QED
            BY <1>2, <2>2, <2>5, <3>1
    <2>. QED
        BY <2>4, <2>5
<1>4. JournalAgrees'
    BY <1>1, <1>2, <1>3 DEF TablesAgree, JournalAgrees, Exists
<1>5. NoneUnasked'
    BY <1>1, <1>2 DEF TablesAgree, NoneUnasked
<1>6. \A q \in People : Exists(q) => Exists(q)'
    BY <1>1 DEF Exists
<1>. QED
    BY <1>1, <1>2, <1>4, <1>5, <1>6

LEMMA CreateAgrees ==
    ASSUME TablesAgree, NEW p \in People, NEW j, CommitCreate(p, j), j.new \in Account, Signed(j)
    PROVE  TablesAgree'
<1>1. users[p] = Absent /\ users' = [users EXCEPT ![p] = j.new]
      /\ UNCHANGED <<orders, requests, links>>
    BY DEF CommitCreate
<1>2. /\ users' \in [People -> Account \cup {Absent}]
      /\ users'[p] = j.new /\ \A q \in People : q # p => users'[q] = users[q]
    BY <1>1 DEF TablesAgree
<1>3. /\ journal' \in [People -> [Consents -> Word]]
      /\ \A q \in People : q # p => journal'[q] = journal[q]
      /\ \A k \in Consents : journal'[p][k] =
                IF k \notin DOMAIN j.entries THEN journal[p][k]
                ELSE IF j.entries[k] THEN "given" ELSE "withdrawn"
    BY JournalIs DEF CommitCreate
<1>4. \A k \in Consents : users'[p][k] <=> journal'[p][k] = "given"
    <2>. TAKE k \in Consents
    <2>1. journal[p][k] # "given"
        BY <1>1 DEF TablesAgree, NoneUnasked
    <2>2. users'[p][k] <=> k \in DOMAIN j.entries /\ j.entries[k]
        BY <1>2 DEF Signed
    <2>. QED
        BY <1>3, <2>1, <2>2
<1>5. JournalAgrees'
    BY <1>2, <1>3, <1>4 DEF TablesAgree, JournalAgrees, Exists
<1>6. NoneUnasked'
    BY <1>2, <1>3 DEF TablesAgree, NoneUnasked
<1>7. OpenAreOwned'
    BY <1>1, <1>2 DEF TablesAgree, OpenAreOwned, Exists
<1>. QED
    BY <1>1, <1>2, <1>3, <1>5, <1>6, <1>7 DEF TablesAgree

LEMMA ClosedIs ==
    ASSUME requests \in [Requests -> People \cup {Nobody, Absent}], NEW row
    PROVE  /\ Closed(row) \in [Requests -> People \cup {Nobody, Absent}]
           /\ \A r \in Requests : Closed(row)[r] \in {requests[r], Absent}
BY DEF Closed

LEMMA UpdateAgrees ==
    ASSUME TablesAgree, NEW p \in People, NEW j,
           \/ CommitUpdate(p, j) \/ CommitErase(p, j)
           \/ CommitReset(p, j) /\ DOMAIN j.entries = {},
           j.was \in Account, j.new \in Account, Told(j)
    PROVE  TablesAgree'
<1>1. Updates(p, j) /\ UNCHANGED orders
      /\ (Journal(p, j) \/ (DOMAIN j.entries = {} /\ UNCHANGED journal))
    BY DEF CommitUpdate, CommitErase, CommitReset
<1>2. /\ users' \in [People -> Account \cup {Absent}]
      /\ journal' \in [People -> [Consents -> Word]]
      /\ JournalAgrees' /\ NoneUnasked'
      /\ \A q \in People : Exists(q) => Exists(q)'
    BY <1>1, TellingAgrees
<1>3. /\ requests' \in [Requests -> People \cup {Nobody, Absent}]
      /\ \A r \in Requests : requests'[r] \in {requests[r], Absent}
    BY ClosedIs DEF CommitUpdate, CommitErase, CommitReset, TablesAgree
<1>4. links' \in [Links -> People \cup {Absent}]
    BY LinksLeftIs DEF CommitUpdate, CommitErase, CommitReset, TablesAgree
<1>5. OpenAreOwned'
    BY <1>2, <1>3 DEF TablesAgree, OpenAreOwned
<1>. QED
    BY <1>1, <1>2, <1>3, <1>4, <1>5 DEF TablesAgree

LEMMA PurgeAgrees ==
    ASSUME TablesAgree, NEW p \in People, NEW j, CommitPurge(p, j)
    PROVE  TablesAgree'
<1>1. /\ users' = [users EXCEPT ![p] = Absent]
      /\ orders' = orders \ {p}
      /\ journal' = [journal EXCEPT ![p] = [k \in Consents |-> "none"]]
      /\ requests' = [r \in Requests |-> IF requests[r] = p THEN Nobody ELSE requests[r]]
      /\ links' = LinksLeft(p)
    BY DEF CommitPurge
<1>2. [k \in Consents |-> "none"] \in [Consents -> Word]
    BY DEF Word
<1>3. /\ users' \in [People -> Account \cup {Absent}]
      /\ users'[p] = Absent /\ \A q \in People : q # p => users'[q] = users[q]
      /\ journal' \in [People -> [Consents -> Word]]
      /\ journal'[p] = [k \in Consents |-> "none"]
      /\ \A q \in People : q # p => journal'[q] = journal[q]
    BY <1>1, <1>2 DEF TablesAgree
<1>4. JournalAgrees' /\ NoneUnasked'
    BY <1>3 DEF TablesAgree, JournalAgrees, NoneUnasked, Exists
<1>5. OpenAreOwned'
    BY <1>1, <1>3 DEF TablesAgree, OpenAreOwned, Exists
<1>6. links' \in [Links -> People \cup {Absent}]
    BY <1>1, LinksLeftIs DEF TablesAgree
<1>. QED
    BY <1>1, <1>3, <1>4, <1>5, <1>6 DEF TablesAgree

\* The commits that leave the accounts and the journal alone.
LEMMA OthersAgree ==
    ASSUME TablesAgree, NEW p, NEW j,
           \/ CommitAsk(p, j) /\ p \in People /\ j.row \in Requests
           \/ CommitClose(j)
           \/ CommitLink(p, j) /\ p \in People /\ j.row \in Links
    PROVE  TablesAgree'
<1>1. UNCHANGED <<users, orders, journal>>
    BY DEF CommitAsk, CommitClose, CommitLink
<1>2. JournalAgrees' /\ NoneUnasked'
    BY <1>1 DEF TablesAgree, JournalAgrees, NoneUnasked, Exists
<1>3. requests' \in [Requests -> People \cup {Nobody, Absent}] /\ OpenAreOwned'
    <2>1. CASE CommitAsk(p, j) /\ p \in People /\ j.row \in Requests
        BY <1>1, <2>1 DEF TablesAgree, CommitAsk, OpenAreOwned, Exists
    <2>2. CASE CommitClose(j)
        BY <1>1, <2>2, ClosedIs DEF TablesAgree, CommitClose, OpenAreOwned, Exists
    <2>3. CASE CommitLink(p, j)
        BY <1>1, <2>3 DEF TablesAgree, CommitLink, OpenAreOwned, Exists
    <2>. QED
        BY <2>1, <2>2, <2>3
<1>4. links' \in [Links -> People \cup {Absent}]
    <2>1. CASE CommitLink(p, j) /\ p \in People /\ j.row \in Links
        BY <2>1, LinksLeftIs DEF TablesAgree, CommitLink, Outdated
    <2>2. CASE CommitAsk(p, j) \/ CommitClose(j)
        BY <2>2 DEF TablesAgree, CommitAsk, CommitClose
    <2>. QED
        BY <2>1, <2>2
<1>. QED
    BY <1>1, <1>2, <1>3, <1>4 DEF TablesAgree

\* Every commit, whatever has been committed since the plan was made.
LEMMA CommitAgrees ==
    ASSUME TablesAgree, NEW j \in Job, Sound(j), NEW p, p = j.whom,
           \/ j.do = "create" /\ CommitCreate(p, j)
           \/ j.do = "update" /\ CommitUpdate(p, j)
           \/ j.do = "erase"  /\ CommitErase(p, j)
           \/ j.do = "purge"  /\ CommitPurge(p, j)
           \/ j.do = "ask"    /\ CommitAsk(p, j)
           \/ j.do = "close"  /\ CommitClose(j)
           \/ j.do = "link"   /\ CommitLink(p, j)
           \/ j.do = "reset"  /\ CommitReset(p, j)
    PROVE  TablesAgree'
<1>1. CASE j.do = "create" /\ CommitCreate(p, j)
    BY <1>1, CreateAgrees DEF Sound
<1>2. CASE j.do \in {"update", "erase"} /\ (CommitUpdate(p, j) \/ CommitErase(p, j))
    BY <1>2, UpdateAgrees DEF Sound
<1>3. CASE j.do = "reset" /\ CommitReset(p, j)
    BY <1>3, UpdateAgrees DEF Sound
<1>4. CASE j.do = "purge" /\ CommitPurge(p, j)
    BY <1>4, PurgeAgrees DEF Sound
<1>5. CASE j.do = "ask" /\ CommitAsk(p, j)
    BY <1>5, OthersAgree DEF Sound
<1>6. CASE j.do = "link" /\ CommitLink(p, j)
    BY <1>6, OthersAgree DEF Sound
<1>7. CASE j.do = "close" /\ CommitClose(j)
    BY <1>7, OthersAgree DEF Sound
<1>. QED
    BY <1>1, <1>2, <1>3, <1>4, <1>5, <1>6, <1>7

LEMMA CommitKeeps ==
    ASSUME AccountsInv, NEW t \in Threads, Commit(t)
    PROVE  AccountsInv'
<1>1. job[t] \in Job /\ Sound(job[t]) /\ job' = [job EXCEPT ![t] = NoJob]
    BY DEF Commit, AccountsInv
<1>2. TablesAgree'
    BY <1>1, CommitAgrees DEF Commit, AccountsInv
<1>. QED
    BY <1>1, <1>2 DEF AccountsInv

LEMMA FailKeeps ==
    ASSUME AccountsInv, NEW t \in Threads, Fail(t)
    PROVE  AccountsInv'
<1>1. TablesAgree'
    BY DEF Fail, AccountsInv, TablesAgree, tables, JournalAgrees, NoneUnasked, OpenAreOwned, Exists
<1>. QED
    BY <1>1 DEF AccountsInv, Fail

LEMMA BuyKeeps ==
    ASSUME AccountsInv, Buy
    PROVE  AccountsInv'
<1>1. TablesAgree'
    BY DEF Buy, AccountsInv, TablesAgree, JournalAgrees, NoneUnasked, OpenAreOwned, Exists
<1>. QED
    BY <1>1 DEF AccountsInv, Buy

LEMMA InitHolds == Init => AccountsInv
<1>. SUFFICES ASSUME Init PROVE AccountsInv
    OBVIOUS
<1>1. /\ [c \in Columns |-> c \in {"admin", "approved", "password"}] \in Account
      /\ [c \in Columns |-> c \in {"approved", "password"}] \in Account
      /\ [k \in Consents |-> "none"] \in [Consents -> Word]
    BY DEF Account, Columns, Word
<1>2. /\ users \in [People -> Account \cup {Absent}]
      /\ journal \in [People -> [Consents -> Word]]
    BY <1>1 DEF Init
<1>3. \A p \in People : Exists(p) => \A k \in Consents : ~users[p][k]
    BY DEF Init, Exists, Consents, Columns
<1>4. JournalAgrees /\ NoneUnasked
    BY <1>3 DEF Init, JournalAgrees, NoneUnasked
<1>5. OpenAreOwned
    BY DEF Init, OpenAreOwned
<1>. QED
    BY <1>2, <1>4, <1>5 DEF Init, AccountsInv, TablesAgree

\* What a request that begins plans.
LEMMA ServePlans ==
    ASSUME AccountsInv, NEW t \in Threads, Serve(t), ~Commit(t), ~Fail(t)
    PROVE  Planned(t)
<1>1. AccountsTypeOK /\ OpenAreOwned
    BY InvTypes DEF AccountsInv, TablesAgree
<1>. QED
    BY <1>1, RegisterPlans, MakeAdminPlans, DemotePlans, ApprovePlans, ToggleManagerPlans,
       RejectPlans, ToggleMarketingPlans, ConfirmConsentPlans, AskErasurePlans,
       GrantErasurePlans, RefuseErasurePlans, DictatePasswordPlans, ForgotPlans, UseLinkPlans,
       SyncClientPlans DEF Serve

LEMMA StutterKeeps ==
    ASSUME AccountsInv, UNCHANGED vars
    PROVE  AccountsInv'
BY DEF vars, tables, AccountsInv, TablesAgree, JournalAgrees, NoneUnasked, OpenAreOwned, Exists

LEMMA StepKeeps ==
    ASSUME AccountsInv, [Next]_vars
    PROVE  AccountsInv'
<1>1. CASE Buy
    BY <1>1, BuyKeeps
<1>2. ASSUME NEW t \in Threads, Serve(t) PROVE AccountsInv'
    BY <1>2, CommitKeeps, FailKeeps, ServePlans, PlannedKeeps
<1>3. CASE UNCHANGED vars
    BY <1>3, StutterKeeps
<1>. QED
    BY <1>1, <1>2, <1>3 DEF Next

LEMMA AccountsInvariant == Spec => []AccountsInv
BY InitHolds, StepKeeps, PTL DEF Spec

\* Every variable keeps its type.
THEOREM AccountsTypeCorrect == Spec => []AccountsTypeOK
BY AccountsInvariant, InvTypes, PTL

\* What an account says of its consents is what the journal said last, whatever
\* requests overlap: staff, the customer, an erasure, a deletion, and a new
\* account at the same address.
THEOREM JournalIsTrue == Spec => []JournalAgrees
<1>1. AccountsInv => JournalAgrees
    BY DEF AccountsInv, TablesAgree
<1>. QED
    BY <1>1, AccountsInvariant, PTL

-----------------------------------------------------------------------------
(* Requests that do not overlap                                            *)

\* With no other thread at work, what is left to show of a commit is that it
\* keeps erased accounts shut.
LEMMA DoneIsSerial ==
    ASSUME AccountsInv, OneAtATime, NEW t \in Threads, job[t] # NoJob,
           job' = [job EXCEPT ![t] = NoJob], ErasedStaysShut'
    PROVE  SerialInv'
<1>1. \A s \in Threads : job'[s] = NoJob
    BY DEF OneAtATime, AccountsInv
<1>. QED
    BY <1>1 DEF SerialInv, OneAtATime

LEMMA SerialCommitIs ==
    ASSUME AccountsInv, SerialInv, NEW j \in Job, Sound(j), StillSo(j), NEW p, p = j.whom,
           \/ j.do = "create" /\ CommitCreate(p, j)
           \/ j.do = "update" /\ CommitUpdate(p, j)
           \/ j.do = "erase"  /\ CommitErase(p, j)
           \/ j.do = "purge"  /\ CommitPurge(p, j)
           \/ j.do = "ask"    /\ CommitAsk(p, j)
           \/ j.do = "close"  /\ CommitClose(j)
           \/ j.do = "link"   /\ CommitLink(p, j)
           \/ j.do = "reset"  /\ CommitReset(p, j)
    PROVE  ErasedStaysShut'
<1>1. j \in Job /\ Sound(j) /\ StillSo(j) /\ TablesAgree
    BY DEF AccountsInv
<1>2. ErasedStaysShut
    BY DEF SerialInv
<1>4. CASE j.do = "create" /\ CommitCreate(p, j)
    <2>1. p \in People /\ users[p] = Absent /\ users' = [users EXCEPT ![p] = j.new]
          /\ UNCHANGED links /\ ~j.new["erased"]
        BY <1>1, <1>4 DEF CommitCreate, Sound, StillSo
    <2>2. users'[p] = j.new /\ \A q \in People : q # p => users'[q] = users[q]
        BY <1>1, <2>1 DEF TablesAgree
    <2>. QED
        BY <1>2, <2>1, <2>2 DEF ErasedStaysShut, Exists, Works
<1>5. ASSUME j.do \in {"update", "erase", "reset"}, Updates(p, j)
      PROVE  /\ p \in People /\ j.was = users[p] /\ users[p] \in Account /\ users'[p] \in Account
             /\ \A q \in People : q # p => users'[q] = users[q]
             /\ \A c \in Columns : users'[p][c] = j.new[c]
    <2>1. p \in People /\ j.was = users[p] /\ j.was \in Account /\ j.new \in Account
        BY <1>1, <1>5 DEF Sound, StillSo
    <2>2. /\ users'[p] \in Account
          /\ \A q \in People : q # p => users'[q] = users[q]
          /\ \A c \in Columns : users'[p][c] = j.new[c]
        BY <1>1, <1>5, <2>1, UpdatesAre
    <2>. QED
        BY <2>1, <2>2
<1>6. CASE j.do = "update" /\ CommitUpdate(p, j)
    <2>1. Updates(p, j) /\ UNCHANGED links
        BY <1>6 DEF CommitUpdate
    <2>2. /\ p \in People /\ users[p] \in Account
          /\ \A q \in People : q # p => users'[q] = users[q]
          /\ \A c \in Columns : users'[p][c] = j.new[c]
          /\ j.new["erased"] = users[p]["erased"] /\ (j.new["erased"] => ~j.new["password"])
        BY <1>1, <1>5, <1>6, <2>1 DEF StillSo
    <2>3. ErasedStaysShut'
        BY <1>2, <2>1, <2>2 DEF ErasedStaysShut, Exists, Works, Columns
    <2>. QED
        BY <2>3
<1>7. CASE j.do = "erase" /\ CommitErase(p, j)
    <2>1. Updates(p, j) /\ links' = LinksLeft(p)
        BY <1>7 DEF CommitErase
    <2>2. /\ p \in People
          /\ \A q \in People : q # p => users'[q] = users[q]
          /\ \A c \in Columns : users'[p][c] = j.new[c]
          /\ ~j.new["password"]
        BY <1>1, <1>5, <1>7, <2>1 DEF StillSo
    <2>3. \A l \in Links : links'[l] = IF links[l] = p THEN Absent ELSE links[l]
        BY <1>1, <2>1, LinksLeftIs DEF TablesAgree
    <2>4. ErasedStaysShut'
        BY <1>2, <2>2, <2>3 DEF ErasedStaysShut, Exists, Works, Columns
    <2>. QED
        BY <2>2, <2>4
<1>8. CASE j.do = "reset" /\ CommitReset(p, j)
    <2>1. Updates(p, j) /\ links' = LinksLeft(p)
        BY <1>8 DEF CommitReset
    <2>2. /\ p \in People
          /\ \A q \in People : q # p => users'[q] = users[q]
          /\ \A c \in Columns : users'[p][c] = j.new[c]
          /\ ~j.new["erased"]
        BY <1>1, <1>5, <1>8, <2>1 DEF StillSo
    <2>3. \A l \in Links : links'[l] = IF links[l] = p THEN Absent ELSE links[l]
        BY <1>1, <2>1, LinksLeftIs DEF TablesAgree
    <2>4. ErasedStaysShut'
        BY <1>2, <2>2, <2>3 DEF ErasedStaysShut, Exists, Works, Columns
    <2>. QED
        BY <2>2, <2>4
<1>9. CASE j.do = "purge" /\ CommitPurge(p, j)
    <2>1. p \in People /\ users' = [users EXCEPT ![p] = Absent]
          /\ links' = LinksLeft(p)
        BY <1>1, <1>9 DEF CommitPurge, Sound, StillSo
    <2>2. users'[p] = Absent /\ \A q \in People : q # p => users'[q] = users[q]
        BY <1>1, <2>1 DEF TablesAgree
    <2>4. \A l \in Links : links'[l] = IF links[l] = p THEN Absent ELSE links[l]
        BY <1>1, <2>1, LinksLeftIs DEF TablesAgree
    <2>. QED
        BY <1>2, <2>2, <2>4 DEF ErasedStaysShut, Exists, Works
<1>10. CASE (j.do = "ask" /\ CommitAsk(p, j)) \/ (j.do = "close" /\ CommitClose(j))
    BY <1>2, <1>10 DEF CommitAsk, CommitClose, ErasedStaysShut, Exists, Works
<1>11. CASE j.do = "link" /\ CommitLink(p, j)
    <2>1. p \in People /\ j.row \in Links /\ ~users[p]["erased"]
          /\ UNCHANGED users /\ links' = [LinksLeft(p) EXCEPT ![j.row] = p]
        BY <1>1, <1>11 DEF CommitLink, Outdated, Sound, StillSo, MayReset
    <2>2. \A l \in Links : links'[l] \in {p, Absent, links[l]}
        BY <1>1, <2>1, LinksLeftIs DEF TablesAgree
    <2>. QED
        BY <1>2, <2>1, <2>2 DEF ErasedStaysShut, Exists, Works
<1>. QED
    BY <1>4, <1>6, <1>7, <1>8, <1>9, <1>10, <1>11

LEMMA SerialCommitKeeps ==
    ASSUME AccountsInv, SerialInv, NEW t \in Threads, Commit(t)
    PROVE  SerialInv'
<1>1. job[t] \in Job /\ job[t] # NoJob /\ Sound(job[t]) /\ StillSo(job[t])
      /\ job' = [job EXCEPT ![t] = NoJob]
    BY DEF Commit, AccountsInv, SerialInv
<1>2. ErasedStaysShut'
    BY <1>1, SerialCommitIs DEF Commit
<1>. QED
    BY <1>1, <1>2, DoneIsSerial DEF SerialInv

LEMMA SerialStepKeeps ==
    ASSUME ~Overlap, AccountsInv, SerialInv, [Next]_vars
    PROVE  SerialInv'
<1>1. CASE Buy
    <2>1. \A s \in Threads : job'[s] = NoJob
        BY <1>1 DEF Buy, Quiet
    <2>2. ErasedStaysShut'
        BY <1>1 DEF Buy, SerialInv, ErasedStaysShut, Exists, Works
    <2>. QED
        BY <2>1, <2>2 DEF SerialInv, OneAtATime
<1>2. ASSUME NEW t \in Threads, Serve(t) PROVE SerialInv'
    <2>1. CASE Commit(t)
        BY <2>1, SerialCommitKeeps
    <2>2. CASE Fail(t)
        <3>1. ErasedStaysShut'
            BY <2>2 DEF Fail, tables, SerialInv, ErasedStaysShut, Exists, Works
        <3>. QED
            BY <2>2, <3>1, DoneIsSerial DEF Fail, SerialInv
    <2>3. CASE ~Commit(t) /\ ~Fail(t)
        BY <1>2, <2>3, ServePlans, PlannedKeeps
    <2>. QED
        BY <2>1, <2>2, <2>3
<1>3. CASE UNCHANGED vars
    BY <1>3 DEF vars, tables, SerialInv, OneAtATime, StillSo, MayReset, Exists,
                ErasedStaysShut, Works
<1>. QED
    BY <1>1, <1>2, <1>3 DEF Next

LEMMA SerialInvariant ==
    ASSUME ~Overlap
    PROVE  Spec => [](AccountsInv /\ SerialInv)
<1>1. Init => SerialInv
    <2>. SUFFICES ASSUME Init PROVE SerialInv
        OBVIOUS
    <2>1. \A t \in Threads : job[t] = NoJob
        BY DEF Init
    <2>4. ErasedStaysShut
        BY DEF Init, ErasedStaysShut, Exists, Columns
    <2>. QED
        BY <2>1, <2>4 DEF SerialInv, OneAtATime
<1>2. (AccountsInv /\ SerialInv) /\ [Next]_vars => (AccountsInv /\ SerialInv)'
    BY StepKeeps, SerialStepKeeps
<1>. QED
    BY <1>1, <1>2, InitHolds, PTL DEF Spec

\* While requests do not overlap, nobody gets into an erased account: it has no
\* password, and no link that sets one.
THEOREM ErasedIsShut ==
    ASSUME ~Overlap
    PROVE  Spec => []ErasedStaysShut
<1>1. SerialInv => ErasedStaysShut
    BY DEF SerialInv
<1>. QED
    BY <1>1, SerialInvariant, PTL

-----------------------------------------------------------------------------
(* Sessions                                                                *)

\* A request has the data of the identifier it came with, and is signed in
\* only under one that was given out for that.
Carried ==
    \A r \in Slots :
        /\ sid[r] = None <=> data[r] = None
        /\ data[r] = "user" => born[sid[r]] = "user"

SessionsInv == SessionsTypeOK /\ Carried /\ SignedInIdIsNew

\* There is one place where sessions are kept.
OnePlace ==
    IF HasRedis THEN up /\ linked = Workers /\ \A w \in Workers, s \in Sids : memory[w][s] = None
    ELSE ~up /\ (\A s \in Sids : redis[s] = None) /\ \A v, w \in Workers : v = w

\* What has been ended is not in it, and no request came with it.
Over ==
    \A s \in ended :
        /\ redis[s] = None /\ \A w \in Workers : memory[w][s] = None
        /\ \A r \in Slots : sid[r] # s

EndedInv == Reliable => OnePlace /\ Over

USE SessionsAssumption

-----------------------------------------------------------------------------
(* What a response does                                                    *)

\* Saving s and forgetting old: no other session appears anywhere.
LEMMA SavedIs ==
    ASSUME SessionsTypeOK, NEW w \in Workers, NEW s \in Sids \cup {None}, NEW d \in Payload,
           NEW old \in Sids \cup {None}, Saved(w, s, d, old)
    PROVE  /\ redis' \in Store /\ memory' \in [Workers -> Store]
           /\ \A x \in Sids : redis'[x] \in {redis[x], None} \/ (x = s /\ redis'[x] = d)
           /\ \A v \in Workers, x \in Sids :
                memory'[v][x] \in {memory[v][x], None} \/ (x = s /\ memory'[v][x] = d)
           /\ s \in Sids => redis'[s] = d \/ memory'[w][s] = d
           /\ Answers(w) =>
                /\ old \in Sids /\ old # s => redis'[old] = None
                /\ \A v \in Workers, x \in Sids :
                        memory[v][x] = None => memory'[v][x] = None
           /\ ~Answers(w) =>
                /\ UNCHANGED redis
                /\ old \in Sids /\ old # s => memory'[w][old] = None
<1>1. redis \in Store /\ memory \in [Workers -> Store]
    BY DEF SessionsTypeOK
<1>2. ASSUME NEW table \in Store, NEW e \in Payload
      PROVE  /\ Put(table, s, e, old) \in Store
             /\ \A x \in Sids : Put(table, s, e, old)[x] =
                    IF x = s THEN e ELSE IF x = old THEN None ELSE table[x]
    BY <1>2 DEF Put, Store, Payload
<1>3. None \in Payload
    BY DEF Payload
<1>4. memory[w] \in Store
    BY <1>1
<1>5. CASE Answers(w)
    <2>1. redis' = Put(redis, s, d, old)
          /\ memory' = [memory EXCEPT ![w] = Put(memory[w], s, None, old)]
        BY <1>5 DEF Saved, GoneFromRedis
    <2>2. /\ redis' \in Store
          /\ \A x \in Sids : redis'[x] = IF x = s THEN d ELSE IF x = old THEN None ELSE redis[x]
        BY <1>1, <1>2, <2>1
    <2>3. /\ memory' \in [Workers -> Store]
          /\ \A v \in Workers : v # w => memory'[v] = memory[v]
          /\ \A x \in Sids : memory'[w][x] =
                IF x = s THEN None ELSE IF x = old THEN None ELSE memory[w][x]
        BY <1>1, <1>2, <1>3, <1>4, <2>1
    <2>. QED
        BY <1>5, <2>2, <2>3
<1>6. CASE ~Answers(w)
    <2>1. memory' = [memory EXCEPT ![w] = Put(memory[w], s, d, old)] /\ UNCHANGED redis
        BY <1>6 DEF Saved
    <2>2. /\ memory' \in [Workers -> Store]
          /\ \A v \in Workers : v # w => memory'[v] = memory[v]
          /\ \A x \in Sids : memory'[w][x] =
                IF x = s THEN d ELSE IF x = old THEN None ELSE memory[w][x]
        BY <1>1, <1>2, <1>4, <2>1
    <2>. QED
        BY <1>1, <1>6, <2>1, <2>2
<1>. QED
    BY <1>5, <1>6

\* Whether the session s is nowhere.
LEMMA CopiesAre ==
    ASSUME NEW s
    PROVE  /\ (Copies(s) = {None}) <=> (redis[s] = None /\ \A w \in Workers : memory[w][s] = None)
           /\ ("user" \in Copies(s)) <=>
                (redis[s] = "user" \/ \E w \in Workers : memory[w][s] = "user")
BY DEF Copies

LEMMA CopiesWillBe ==
    ASSUME NEW s
    PROVE  /\ (Copies(s)' = {None}) <=> (redis'[s] = None /\ \A w \in Workers : memory'[w][s] = None)
           /\ ("user" \in Copies(s)') <=>
                (redis'[s] = "user" \/ \E w \in Workers : memory'[w][s] = "user")
BY DEF Copies

\* A response saves nothing, saves d where the session was, or saves it under
\* an identifier that nothing knew; an old identifier that goes is not the one
\* under which it is saved.
Answered(r, d, renew, s, old, fresh) ==
    /\ Saved(at[r], s, d, old)
    /\ Forget(r)
    /\ cookie' \in Sids \cup {None}
    /\ old \in {None, sid[r]}
    /\ s \in Sids => s # old /\ d # None
    /\ \/ fresh = {} /\ s = None
       \/ fresh = {} /\ s = sid[r] /\ s \in Sids /\ ~renew
       \/ fresh = {s} /\ s \in Unknown
    /\ born' = [x \in Sids |-> IF x \in Unknown' THEN None
                               ELSE IF x \in fresh THEN d ELSE born[x]]
    /\ ended' = {x \in (ended \cup {old}) \ ({None} \cup fresh \cup Unknown') :
                    x \in ended \/ (outages = 0 /\ \A q \in Slots \ {r} : sid[q] # x)}
    /\ UNCHANGED <<up, linked, outages, restarts>>

LEMMA RespondIs ==
    ASSUME SessionsTypeOK, NEW r \in Slots, NEW d \in Payload,
           NEW changed \in BOOLEAN, NEW renew \in BOOLEAN, Respond(r, d, changed, renew)
    PROVE  \E s, old \in Sids \cup {None}, fresh \in SUBSET Sids :
                Answered(r, d, renew, s, old, fresh)
<1>. DEFINE isNew == d # None /\ (sid[r] = None \/ renew)
            writes == d # None /\ (isNew \/ changed)
            old == IF renew \/ d = None THEN sid[r] ELSE None
<1>1. sid[r] \in Sids \cup {None} /\ cookie \in Sids \cup {None}
    BY DEF SessionsTypeOK
<1>2. PICK s \in IF isNew THEN Unknown ELSE IF writes THEN {sid[r]} ELSE {None} :
          /\ Saved(at[r], s, d, old)
          /\ Forget(r)
          /\ cookie' \in {cookie, IF writes THEN s ELSE IF old # None THEN None ELSE cookie}
          /\ LET fresh == IF isNew THEN {s} ELSE {}
             IN  /\ born' = [x \in Sids |-> IF x \in Unknown' THEN None
                                           ELSE IF x \in fresh THEN d ELSE born[x]]
                 /\ ended' = {x \in (ended \cup {old}) \ ({None} \cup fresh \cup Unknown') :
                                x \in ended \/ (outages = 0 /\ \A q \in Slots \ {r} : sid[q] # x)}
          /\ UNCHANGED <<up, linked, outages, restarts>>
    BY DEF Respond
<1>. DEFINE fresh == IF isNew THEN {s} ELSE {}
<1>3. old \in Sids \cup {None} /\ old \in {None, sid[r]}
    BY <1>1
<1>4. /\ s \in Sids \cup {None}
      /\ fresh \in SUBSET Sids
      /\ s \in Sids => s # old /\ d # None
      /\ \/ fresh = {} /\ s = None
         \/ fresh = {} /\ s = sid[r] /\ s \in Sids /\ ~renew
         \/ fresh = {s} /\ s \in Unknown
    <2>1. CASE isNew
        BY <1>1, <1>2, <2>1 DEF Unknown
    <2>2. CASE ~isNew /\ writes
        BY <1>1, <1>2, <2>2
    <2>3. CASE ~isNew /\ ~writes
        BY <1>1, <1>2, <2>3
    <2>. QED
        BY <2>1, <2>2, <2>3
<1>5. cookie' \in Sids \cup {None}
    BY <1>1, <1>2, <1>4
<1>6. Answered(r, d, renew, s, old, fresh)
    BY <1>2, <1>3, <1>4, <1>5 DEF Answered
<1>. QED
    BY <1>3, <1>4, <1>6

\* Forget changes one request.
LEMMA ForgetIs ==
    ASSUME SessionsTypeOK, NEW r \in Slots, Forget(r)
    PROVE  /\ at' \in [Slots -> Workers \cup {None}]
           /\ sid' \in [Slots -> Sids \cup {None}]
           /\ data' \in [Slots -> Payload]
           /\ sid'[r] = None /\ data'[r] = None
           /\ \A q \in Slots : q # r => sid'[q] = sid[q] /\ data'[q] = data[q]
BY DEF Forget, SessionsTypeOK, Payload

LEMMA AnsweredKeeps ==
    ASSUME SessionsInv, NEW r \in Slots, at[r] \in Workers, NEW d \in Payload, NEW renew \in BOOLEAN,
           d = "user" => renew \/ data[r] = "user",
           NEW s \in Sids \cup {None}, NEW old \in Sids \cup {None}, NEW fresh \in SUBSET Sids,
           Answered(r, d, renew, s, old, fresh)
    PROVE  SessionsInv'
<1>1. SessionsTypeOK /\ Carried /\ SignedInIdIsNew
    BY DEF SessionsInv
<1>2. /\ redis' \in Store /\ memory' \in [Workers -> Store]
      /\ \A x \in Sids : redis'[x] \in {redis[x], None} \/ (x = s /\ redis'[x] = d)
      /\ \A v \in Workers, x \in Sids :
            memory'[v][x] \in {memory[v][x], None} \/ (x = s /\ memory'[v][x] = d)
      /\ s \in Sids => redis'[s] = d \/ memory'[at[r]][s] = d
    BY <1>1, SavedIs DEF Answered
<1>3. /\ at' \in [Slots -> Workers \cup {None}]
      /\ sid' \in [Slots -> Sids \cup {None}]
      /\ data' \in [Slots -> Payload]
      /\ sid'[r] = None /\ data'[r] = None
      /\ \A q \in Slots : q # r => sid'[q] = sid[q] /\ data'[q] = data[q]
    BY <1>1, ForgetIs DEF Answered
<1>4. \A x \in Sids : born'[x] = IF x \in Unknown' THEN None
                                 ELSE IF x \in fresh THEN d ELSE born[x]
    BY DEF Answered
<1>5. born' \in [Sids -> Payload]
    BY <1>1 DEF Answered, SessionsTypeOK, Payload
<1>6. SessionsTypeOK'
    BY <1>1, <1>2, <1>3, <1>5 DEF Answered, SessionsTypeOK
<1>7. Carried'
    <2>. SUFFICES ASSUME NEW q \in Slots, q # r
                  PROVE  /\ sid'[q] = None <=> data'[q] = None
                         /\ data'[q] = "user" => born'[sid'[q]] = "user"
        BY <1>3 DEF Carried
    <2>1. sid'[q] = sid[q] /\ data'[q] = data[q] /\ (sid[q] = None <=> data[q] = None)
        BY <1>1, <1>3 DEF Carried
    <2>2. ASSUME data[q] = "user" PROVE born'[sid[q]] = "user"
        <3>1. sid[q] \in Sids /\ born[sid[q]] = "user"
            BY <1>1, <2>1, <2>2 DEF SessionsTypeOK, Carried
        <3>2. sid[q] \notin Unknown'
            BY <2>1 DEF Unknown
        <3>3. sid[q] \notin fresh
            BY DEF Answered, Unknown
        <3>. QED
            BY <1>4, <3>1, <3>2, <3>3
    <2>. QED
        BY <2>1, <2>2
<1>8. SignedInIdIsNew'
    <2>. SUFFICES ASSUME NEW x \in Sids, "user" \in Copies(x)' PROVE born'[x] = "user"
        BY DEF SignedInIdIsNew
    <2>1. redis'[x] = "user" \/ \E v \in Workers : memory'[v][x] = "user"
        BY CopiesWillBe
    <2>2. x \notin Unknown'
        BY <2>1, CopiesWillBe DEF Unknown
    <2>3. "user" \in Copies(x) \/ (x = s /\ d = "user")
        BY <1>2, <2>1, CopiesAre
    <2>4. CASE x \in fresh
        <3>1. x = s /\ s \in Unknown
            BY <2>4 DEF Answered
        <3>2. "user" \notin Copies(x)
            BY <3>1 DEF Unknown
        <3>. QED
            BY <1>4, <2>2, <2>3, <2>4, <3>2
    <2>5. CASE x \notin fresh
        <3>1. born[x] = "user"
            <4>1. CASE "user" \in Copies(x)
                BY <1>1, <4>1 DEF SignedInIdIsNew
            <4>2. CASE x = s /\ d = "user"
                <5>1. x = sid[r] /\ ~renew
                    BY <2>5, <4>2 DEF Answered
                <5>. QED
                    BY <1>1, <4>2, <5>1 DEF Carried
            <4>. QED
                BY <2>3, <4>1, <4>2
        <3>. QED
            BY <1>4, <2>2, <2>5, <3>1
    <2>. QED
        BY <2>4, <2>5
<1>. QED
    BY <1>6, <1>7, <1>8 DEF SessionsInv

\* Every page that responds: who is signed in afterwards was so before, or has
\* a new identifier.
LEMMA PagesRespond ==
    ASSUME SessionsInv, NEW r \in Slots,
           Page(r) \/ Login(r) \/ Logout(r) \/ ChangePassword(r)
    PROVE  /\ at[r] \in Workers
           /\ \E d \in Payload, renew \in BOOLEAN, s, old \in Sids \cup {None}, fresh \in SUBSET Sids :
                /\ d = "user" => renew \/ data[r] = "user"
                /\ Answered(r, d, renew, s, old, fresh)
<1>1. SessionsTypeOK /\ data[r] \in Payload
    BY DEF SessionsInv, SessionsTypeOK
<1>2. at[r] \in Workers
    BY DEF SessionsInv, SessionsTypeOK, Page, Login, Logout, ChangePassword, Posts
<1>3. PICK d \in Payload, changed, renew \in BOOLEAN :
        (d = "user" => renew \/ data[r] = "user") /\ Respond(r, d, changed, renew)
    <2>1. CASE Page(r)
        <3>1. Respond(r, data[r], FALSE, FALSE)
              \/ Respond(r, IF data[r] = None THEN "anon" ELSE data[r], TRUE, FALSE)
              \/ \E d \in {None, "anon"} : Respond(r, d, TRUE, FALSE)
            BY <2>1 DEF Page
        <3>2. (IF data[r] = None THEN "anon" ELSE data[r]) \in Payload
              /\ ((IF data[r] = None THEN "anon" ELSE data[r]) = "user" => data[r] = "user")
              /\ {None, "anon"} \subseteq Payload /\ None # "user"
            BY <1>1 DEF Payload
        <3>. QED
            BY <1>1, <3>1, <3>2
    <2>2. CASE Login(r)
        BY <1>1, <2>2 DEF Login, Payload, Renewed
    <2>3. CASE Logout(r) \/ ChangePassword(r)
        BY <1>1, <2>3 DEF Logout, ChangePassword, Payload
    <2>. QED
        BY <2>1, <2>2, <2>3
<1>. QED
    BY <1>1, <1>2, <1>3, RespondIs

-----------------------------------------------------------------------------
(* The other steps                                                         *)

LEMMA LoadedIs ==
    ASSUME SessionsTypeOK, NEW w \in Workers, NEW s \in Sids
    PROVE  Loaded(w, s) \in Payload /\ Loaded(w, s) \in Copies(s)
BY DEF Loaded, Copies, SessionsTypeOK, Store

LEMMA BeginIs ==
    ASSUME SessionsTypeOK, NEW r \in Slots, Begin(r)
    PROVE  /\ UNCHANGED <<storeVars, cookie, historyVars>>
           /\ at' \in [Slots -> Workers \cup {None}]
           /\ sid' \in [Slots -> Sids \cup {None}]
           /\ data' \in [Slots -> Payload]
           /\ \A q \in Slots : q # r => sid'[q] = sid[q] /\ data'[q] = data[q]
           /\ \/ sid'[r] = None /\ data'[r] = None
              \/ cookie \in Sids /\ sid'[r] = cookie /\ data'[r] # None
                 /\ data'[r] \in Copies(cookie)
<1>1. PICK w \in Workers :
        LET found == IF cookie = None THEN None ELSE Loaded(w, cookie)
        IN  /\ at' = [at EXCEPT ![r] = w]
            /\ sid' = [sid EXCEPT ![r] = IF found = None THEN None ELSE cookie]
            /\ data' = [data EXCEPT ![r] = found]
    BY DEF Begin
<1>. DEFINE found == IF cookie = None THEN None ELSE Loaded(w, cookie)
<1>2. cookie \in Sids \cup {None} /\ None \in Payload
    BY DEF SessionsTypeOK, Payload
<1>3. found \in Payload /\ (found # None => cookie \in Sids /\ found \in Copies(cookie))
    BY <1>2, LoadedIs
<1>4. /\ at' = [at EXCEPT ![r] = w]
      /\ sid' = [sid EXCEPT ![r] = IF found = None THEN None ELSE cookie]
      /\ data' = [data EXCEPT ![r] = found]
    BY <1>1
<1>. HIDE DEF found
<1>5. UNCHANGED <<storeVars, cookie, historyVars>>
    BY DEF Begin
<1>. QED
    BY <1>2, <1>3, <1>4, <1>5 DEF SessionsTypeOK

LEMMA BeginKeeps ==
    ASSUME SessionsInv, NEW r \in Slots, Begin(r)
    PROVE  SessionsInv'
<1>1. SessionsTypeOK /\ Carried /\ SignedInIdIsNew
    BY DEF SessionsInv
<1>2. /\ UNCHANGED <<storeVars, cookie, historyVars>>
      /\ at' \in [Slots -> Workers \cup {None}]
      /\ sid' \in [Slots -> Sids \cup {None}]
      /\ data' \in [Slots -> Payload]
      /\ \A q \in Slots : q # r => sid'[q] = sid[q] /\ data'[q] = data[q]
      /\ \/ sid'[r] = None /\ data'[r] = None
         \/ cookie \in Sids /\ sid'[r] = cookie /\ data'[r] # None /\ data'[r] \in Copies(cookie)
    BY <1>1, BeginIs
<1>3. SessionsTypeOK'
    BY <1>1, <1>2 DEF SessionsTypeOK, storeVars, historyVars
<1>4. sid'[r] = None <=> data'[r] = None
    BY <1>2
<1>5. data'[r] = "user" => born'[sid'[r]] = "user"
    BY <1>1, <1>2 DEF SignedInIdIsNew, historyVars
<1>6. Carried'
    BY <1>1, <1>2, <1>4, <1>5 DEF Carried, historyVars
<1>7. SignedInIdIsNew'
    BY <1>1, <1>2 DEF SignedInIdIsNew, Copies, storeVars, historyVars
<1>. QED
    BY <1>3, <1>6, <1>7 DEF SessionsInv

\* Steps that only take sessions away.
LEMMA LosingKeeps ==
    ASSUME SessionsInv, SessionsTypeOK',
           \A x \in Sids : redis'[x] \in {redis[x], None},
           \A v \in Workers, x \in Sids : memory'[v][x] \in {memory[v][x], None},
           \A q \in Slots : \/ sid'[q] = sid[q] /\ data'[q] = data[q]
                            \/ sid'[q] = None /\ data'[q] = None,
           UNCHANGED born
    PROVE  SessionsInv'
<1>1. Carried'
    BY DEF SessionsInv, Carried
<1>2. SignedInIdIsNew'
    <2>. SUFFICES ASSUME NEW x \in Sids, "user" \in Copies(x)' PROVE born[x] = "user"
        BY DEF SignedInIdIsNew
    <2>1. "user" \in Copies(x)
        BY CopiesWillBe, CopiesAre
    <2>. QED
        BY <2>1 DEF SessionsInv, SignedInIdIsNew
<1>. QED
    BY <1>1, <1>2 DEF SessionsInv

LEMMA ExpireIs ==
    ASSUME SessionsTypeOK, NEW s \in Sids, Expire(s)
    PROVE  /\ redis' \in Store /\ memory' \in [Workers -> Store]
           /\ \A x \in Sids : redis'[x] \in {redis[x], None}
           /\ \A v \in Workers, x \in Sids : memory'[v][x] \in {memory[v][x], None}
           /\ UNCHANGED <<up, linked, outages, restarts, cookie, historyVars, requestVars>>
<1>1. CASE redis' = [redis EXCEPT ![s] = None] /\ UNCHANGED memory
    BY <1>1 DEF Expire, SessionsTypeOK, Store, Payload
<1>2. ASSUME NEW w \in Workers, memory' = [memory EXCEPT ![w][s] = None], UNCHANGED redis
      PROVE  /\ memory' \in [Workers -> Store]
             /\ \A v \in Workers, x \in Sids : memory'[v][x] \in {memory[v][x], None}
    BY <1>2 DEF SessionsTypeOK, Store, Payload
<1>. QED
    BY <1>1, <1>2 DEF Expire, SessionsTypeOK

LEMMA RestartIs ==
    ASSUME SessionsTypeOK, NEW w \in Workers, Restart(w)
    PROVE  /\ memory' \in [Workers -> Store]
           /\ \A v \in Workers, x \in Sids : memory'[v][x] \in {memory[v][x], None}
           /\ at' \in [Slots -> Workers \cup {None}]
           /\ sid' \in [Slots -> Sids \cup {None}]
           /\ data' \in [Slots -> Payload]
           /\ \A q \in Slots : \/ sid'[q] = sid[q] /\ data'[q] = data[q]
                               \/ sid'[q] = None /\ data'[q] = None
           /\ restarts' = restarts + 1 /\ restarts' \in 0..MaxTroubles
           /\ linked' = IF up THEN linked \cup {w} ELSE linked \ {w}
           /\ UNCHANGED <<redis, up, outages, cookie, historyVars>>
<1>1. memory' = [memory EXCEPT ![w] = NoSessions] /\ NoSessions \in Store
      /\ \A x \in Sids : NoSessions[x] = None
    BY DEF Restart, NoSessions, Store, Payload
<1>2. /\ at' = [q \in Slots |-> IF at[q] = w THEN None ELSE at[q]]
      /\ sid' = [q \in Slots |-> IF at[q] = w THEN None ELSE sid[q]]
      /\ data' = [q \in Slots |-> IF at[q] = w THEN None ELSE data[q]]
    BY DEF Restart
<1>3. restarts' = restarts + 1 /\ restarts' \in 0..MaxTroubles
    BY DEF Restart, SessionsTypeOK
<1>4. linked' = IF up THEN linked \cup {w} ELSE linked \ {w}
    BY DEF Restart
<1>5. UNCHANGED <<redis, up, outages, cookie, historyVars>>
    BY DEF Restart
<1>. QED
    BY <1>1, <1>2, <1>3, <1>4, <1>5 DEF SessionsTypeOK, Payload

LEMMA SessionStepKeeps ==
    ASSUME SessionsInv, [SessionNext]_sessionVars
    PROVE  SessionsInv'
<1>1. SessionsTypeOK
    BY DEF SessionsInv
<1>2. ASSUME NEW r \in Slots, ServeTab(r) PROVE SessionsInv'
    BY <1>2, BeginKeeps, PagesRespond, AnsweredKeeps DEF ServeTab
<1>3. CASE DropCookie \/ Outage \/ Recover \/ UNCHANGED sessionVars
    <2>1. UNCHANGED <<redis, memory, born, sid, data>>
        BY <1>3 DEF DropCookie, Outage, Recover, sessionVars, storeVars, historyVars, requestVars
    <2>2. SessionsTypeOK'
        <3>1. up' \in BOOLEAN /\ outages' \in 0..MaxTroubles /\ cookie' \in Sids \cup {None}
              /\ ended' \subseteq Sids /\ UNCHANGED <<restarts, linked, at>>
            <4>1. CASE Outage
                <5>1. outages' \in 0..MaxTroubles
                    BY <1>1, <4>1 DEF Outage, SessionsTypeOK
                <5>2. up' = FALSE /\ ended' = {}
                    BY <4>1 DEF Outage
                <5>. QED
                    BY <1>1, <4>1, <5>1, <5>2 DEF Outage, requestVars, SessionsTypeOK
            <4>2. CASE DropCookie
                BY <1>1, <4>2 DEF DropCookie, storeVars, historyVars, requestVars, SessionsTypeOK
            <4>3. CASE Recover
                BY <1>1, <4>3 DEF Recover, historyVars, requestVars, SessionsTypeOK
            <4>4. CASE UNCHANGED sessionVars
                BY <1>1, <4>4 DEF sessionVars, storeVars, historyVars, requestVars, SessionsTypeOK
            <4>. QED
                BY <1>3, <4>1, <4>2, <4>3, <4>4
        <3>. QED
            BY <1>1, <2>1, <3>1 DEF SessionsTypeOK
    <2>. QED
        BY <2>1, <2>2, LosingKeeps
<1>4. ASSUME NEW s \in Sids, Expire(s) PROVE SessionsInv'
    <2>1. SessionsTypeOK'
        BY <1>1, <1>4, ExpireIs DEF SessionsTypeOK, historyVars, requestVars
    <2>. QED
        BY <1>1, <1>4, <2>1, ExpireIs, LosingKeeps DEF historyVars, requestVars
<1>5. ASSUME NEW w \in Workers, Restart(w) PROVE SessionsInv'
    <2>1. linked' \subseteq Workers
        BY <1>1, <1>5, RestartIs DEF SessionsTypeOK
    <2>2. SessionsTypeOK'
        BY <1>1, <1>5, <2>1, RestartIs DEF SessionsTypeOK, historyVars
    <2>. QED
        BY <1>1, <1>5, <2>2, RestartIs, LosingKeeps DEF historyVars
<1>. QED
    BY <1>2, <1>3, <1>4, <1>5 DEF SessionNext

LEMMA SessionInitHolds == SessionInit => SessionsInv
<1>. SUFFICES ASSUME SessionInit PROVE SessionsInv
    OBVIOUS
<1>1. NoSessions \in Store /\ \A x \in Sids : NoSessions[x] = None
    BY DEF NoSessions, Store, Payload
<1>2. SessionsTypeOK
    BY <1>1 DEF SessionInit, SessionsTypeOK, Payload, Store
<1>3. SignedInIdIsNew
    BY <1>1, CopiesAre DEF SessionInit, SignedInIdIsNew
<1>. QED
    BY <1>2, <1>3 DEF SessionInit, SessionsInv, Carried

LEMMA SessionsInvariant == SessionSpec => []SessionsInv
BY SessionInitHolds, SessionStepKeeps, PTL DEF SessionSpec

\* Every variable keeps its type.
THEOREM SessionsTypeCorrect == SessionSpec => []SessionsTypeOK
<1>1. SessionsInv => SessionsTypeOK
    BY DEF SessionsInv
<1>. QED
    BY <1>1, SessionsInvariant, PTL

\* With any number of workers and tabs, whenever Redis fails or workers restart,
\* the session of somebody signed in has an identifier that was given out when
\* that person signed in or changed the password.
THEOREM NobodySignsInUnderAnOldId == SessionSpec => []SignedInIdIsNew
<1>1. SessionsInv => SignedInIdIsNew
    BY DEF SessionsInv
<1>. QED
    BY <1>1, SessionsInvariant, PTL

-----------------------------------------------------------------------------
(* What has been ended                                                     *)

\* A cookie or a request leads to no session that was ended.
LEMMA BeginKeepsOver ==
    ASSUME SessionsInv, OnePlace, Over, NEW r \in Slots, Begin(r)
    PROVE  OnePlace' /\ Over'
<1>1. SessionsTypeOK
    BY DEF SessionsInv
<1>2. /\ UNCHANGED <<redis, memory, up, linked, ended>>
      /\ \A q \in Slots : q # r => sid'[q] = sid[q]
      /\ \/ sid'[r] = None
         \/ cookie \in Sids /\ sid'[r] = cookie /\ Copies(cookie) # {None}
    BY <1>1, BeginIs DEF storeVars, historyVars
<1>3. \A s \in ended : s \in Sids /\ Copies(s) = {None}
    BY <1>1, CopiesAre DEF Over, SessionsTypeOK
<1>4. OnePlace'
    BY <1>2 DEF OnePlace
<1>5. Over'
    BY <1>2, <1>3 DEF Over, SessionsTypeOK
<1>. QED
    BY <1>4, <1>5

\* The old session goes from the one place there is, and nothing is saved under
\* an identifier that was ended.
LEMMA AnsweredKeepsOver ==
    ASSUME SessionsInv, OnePlace, Over, NEW r \in Slots, at[r] \in Workers,
           NEW d \in Payload, NEW renew \in BOOLEAN,
           NEW s \in Sids \cup {None}, NEW old \in Sids \cup {None}, NEW fresh \in SUBSET Sids,
           Answered(r, d, renew, s, old, fresh)
    PROVE  OnePlace' /\ Over'
<1>1. SessionsTypeOK
    BY DEF SessionsInv
<1>. DEFINE w == at[r]
<1>2. /\ \A x \in Sids : redis'[x] \in {redis[x], None} \/ (x = s /\ redis'[x] = d)
      /\ \A v \in Workers, x \in Sids :
            memory'[v][x] \in {memory[v][x], None} \/ (x = s /\ memory'[v][x] = d)
    BY <1>1, SavedIs DEF Answered
<1>3. /\ Answers(w) =>
            /\ old \in Sids /\ old # s => redis'[old] = None
            /\ \A v \in Workers, x \in Sids : memory[v][x] = None => memory'[v][x] = None
      /\ ~Answers(w) =>
            /\ UNCHANGED redis
            /\ old \in Sids /\ old # s => memory'[w][old] = None
    BY <1>1, SavedIs DEF Answered
<1>4. Answers(w) <=> HasRedis
    BY DEF OnePlace, Answers
<1>5. OnePlace'
    BY <1>3, <1>4 DEF OnePlace, Answered
<1>6. sid'[r] = None /\ \A q \in Slots : q # r => sid'[q] = sid[q]
    BY <1>1, ForgetIs DEF Answered
<1>7. Over'
    <2>. SUFFICES ASSUME NEW x \in ended'
                  PROVE  /\ redis'[x] = None /\ \A v \in Workers : memory'[v][x] = None
                         /\ \A q \in Slots : sid'[q] # x
        BY DEF Over
    <2>1. /\ x \in ended \cup {old} /\ x # None /\ x \notin fresh
          /\ x \in ended \/ \A q \in Slots \ {r} : sid[q] # x
        BY DEF Answered
    <2>2. x \in Sids
        BY <1>1, <2>1 DEF SessionsTypeOK
    <2>3. x # s
        BY <2>1, <2>2 DEF Answered, Over
    <2>4. \A q \in Slots : sid'[q] # x
        BY <1>6, <2>1, <2>2 DEF Over
    <2>5. CASE x \in ended
        BY <1>2, <2>2, <2>3, <2>4, <2>5 DEF Over
    <2>6. CASE x = old
        <3>1. CASE HasRedis
            BY <1>3, <1>4, <2>2, <2>3, <2>4, <2>6, <3>1 DEF OnePlace
        <3>2. CASE ~HasRedis
            <4>1. redis'[x] = None
                BY <1>3, <1>4, <2>2, <3>2 DEF OnePlace
            <4>. QED
                BY <1>3, <1>4, <2>2, <2>3, <2>4, <2>6, <3>2, <4>1 DEF OnePlace
        <3>. QED
            BY <3>1, <3>2
    <2>. QED
        BY <2>1, <2>5, <2>6
<1>. QED
    BY <1>5, <1>7

\* What only takes sessions away brings none back that was ended.
LEMMA LosingKeepsOver ==
    ASSUME SessionsInv, Over,
           \A x \in Sids : redis'[x] \in {redis[x], None},
           \A v \in Workers, x \in Sids : memory'[v][x] \in {memory[v][x], None},
           \A q \in Slots : sid'[q] \in {sid[q], None},
           UNCHANGED ended
    PROVE  Over'
BY DEF SessionsInv, SessionsTypeOK, Over

\* Trouble is not undone: what is reliable now was so before.
LEMMA ReliableBefore ==
    ASSUME SessionsTypeOK, [SessionNext]_sessionVars, Reliable'
    PROVE  Reliable
<1>1. /\ outages' = outages \/ outages' = outages + 1
      /\ restarts' = restarts \/ restarts' = restarts + 1
    <2>1. ASSUME NEW r \in Slots, ServeTab(r) PROVE UNCHANGED <<outages, restarts>>
        BY <2>1 DEF ServeTab, Begin, storeVars, Page, Login, Logout, ChangePassword, Respond
    <2>2. ASSUME NEW w \in Workers, Restart(w) PROVE UNCHANGED outages /\ restarts' = restarts + 1
        BY <2>2 DEF Restart
    <2>3. CASE Outage
        BY <2>3 DEF Outage
    <2>4. CASE DropCookie \/ Recover \/ (\E s \in Sids : Expire(s)) \/ UNCHANGED sessionVars
        BY <2>4 DEF DropCookie, Recover, Expire, sessionVars, storeVars
    <2>. QED
        BY <2>1, <2>2, <2>3, <2>4 DEF SessionNext
<1>. QED
    BY <1>1 DEF Reliable, SessionsTypeOK

LEMMA EndedStepKeeps ==
    ASSUME SessionsInv, EndedInv, [SessionNext]_sessionVars
    PROVE  EndedInv'
<1>. SUFFICES ASSUME Reliable' PROVE OnePlace' /\ Over'
    BY DEF EndedInv
<1>1. SessionsTypeOK /\ OnePlace /\ Over
    BY ReliableBefore DEF SessionsInv, EndedInv
<1>2. ASSUME NEW r \in Slots, ServeTab(r) PROVE OnePlace' /\ Over'
    BY <1>1, <1>2, BeginKeepsOver, PagesRespond, AnsweredKeepsOver DEF ServeTab
<1>3. CASE DropCookie \/ UNCHANGED sessionVars
    <2>1. UNCHANGED <<redis, memory, up, linked, ended, sid>>
        BY <1>3 DEF DropCookie, sessionVars, storeVars, historyVars, requestVars
    <2>. QED
        BY <1>1, <2>1 DEF OnePlace, Over
<1>4. ASSUME NEW s \in Sids, Expire(s) PROVE OnePlace' /\ Over'
    <2>1. OnePlace'
        BY <1>1, <1>4, ExpireIs DEF OnePlace
    <2>2. Over'
        BY <1>1, <1>4, ExpireIs, LosingKeepsOver DEF historyVars, requestVars
    <2>. QED
        BY <2>1, <2>2
<1>5. CASE Outage
    <2>1. up /\ outages' # 0
        BY <1>1, <1>5 DEF Outage, SessionsTypeOK
    <2>2. FALSE
        BY <1>1, <2>1 DEF Reliable, OnePlace
    <2>. QED
        BY <2>2
<1>6. CASE Recover
    BY <1>1, <1>6 DEF Recover, OnePlace
<1>7. ASSUME NEW w \in Workers, Restart(w) PROVE OnePlace' /\ Over'
    <2>1. HasRedis
        BY <1>1, <1>7, RestartIs DEF Reliable, SessionsTypeOK
    <2>2. /\ \A v \in Workers, x \in Sids : memory'[v][x] \in {memory[v][x], None}
          /\ \A q \in Slots : sid'[q] \in {sid[q], None}
          /\ linked' = IF up THEN linked \cup {w} ELSE linked \ {w}
          /\ UNCHANGED <<redis, up, ended>>
        BY <1>1, <1>7, RestartIs DEF historyVars
    <2>3. OnePlace'
        BY <1>1, <2>1, <2>2 DEF OnePlace
    <2>4. Over'
        BY <1>1, <2>2, LosingKeepsOver
    <2>. QED
        BY <2>3, <2>4
<1>. QED
    BY <1>2, <1>3, <1>4, <1>5, <1>6, <1>7 DEF SessionNext

\* While Redis answers, or a single worker that never restarts keeps the
\* sessions, one that was ended with no other request using it is never served
\* again, whatever requests and lost answers follow: what ends such a session
\* leaves no copy, and no response to come knows its identifier.  A session
\* that another request was using is not among those ended and may come back.
THEOREM EndedIsOver ==
    ASSUME IsFiniteSet(Workers)
    PROVE  SessionSpec => []EndedStaysEnded
<1>1. SessionInit => EndedInv
    <2>. SUFFICES ASSUME SessionInit, Reliable PROVE OnePlace /\ Over
        BY DEF EndedInv
    <2>1. Over
        BY DEF SessionInit, Over
    <2>2. CASE HasRedis
        BY <2>1, <2>2 DEF SessionInit, OnePlace, NoSessions
    <2>3. CASE ~HasRedis
        <3>1. \E w : Workers = {w}
            BY <2>3, FS_Singleton DEF Reliable
        <3>. QED
            BY <2>1, <2>3, <3>1 DEF SessionInit, OnePlace, NoSessions
    <2>. QED
        BY <2>2, <2>3
<1>2. (SessionsInv /\ EndedInv) /\ [SessionNext]_sessionVars => (SessionsInv /\ EndedInv)'
    BY SessionStepKeeps, EndedStepKeeps
<1>3. SessionsInv /\ EndedInv => EndedStaysEnded
    BY CopiesAre DEF SessionsInv, SessionsTypeOK, EndedInv, Over, EndedStaysEnded
<1>. QED
    BY <1>1, <1>2, <1>3, SessionInitHolds, PTL DEF SessionSpec

=============================================================================
