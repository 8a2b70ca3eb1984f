------------------------------ MODULE Accounts ------------------------------
(***************************************************************************)
(* Customer and staff accounts: registration, roles, consents and their    *)
(* journal, password links and requests to erase one's data (auth.py,      *)
(* password_reset.py, admin.py, staff.py, legal.py).                       *)
(*                                                                         *)
(* A handler loads rows, decides, and commits once.  Nothing is locked:    *)
(* what has been committed between the two is not looked at again.  The    *)
(* commit writes the columns in which an object differs from what was      *)
(* loaded, and the bulk statements see the rows of that moment.            *)
(*                                                                         *)
(* Once a link has been used or outdated, or a request answered, nothing   *)
(* looks at it again: it is not told apart from one that never was.        *)
(***************************************************************************)
EXTENDS Integers, FiniteSets

CONSTANTS
    People,      \* e-mail addresses accounts can have
    Founders,    \* administrators the shop starts with
    Known,       \* approved customers from before the journal of consents
    Requests,    \* ids of requests to erase data
    Links,       \* ids of password links
    Threads,     \* threads that serve requests
    Absent,      \* no such row: never made, or deleted
    Nobody,      \* the owner of a row whose account was deleted
    Overlap      \* whether requests overlap

ASSUME AccountsAssumption ==
    /\ Founders \cup Known \subseteq People /\ Founders \cap Known = {}
    /\ Nobody \notin People
    /\ Overlap \in BOOLEAN

\* The columns of User that decide something here, all of them Boolean:
\* "password" is whether one can log in with some password, "pd" whether
\* consent_at is set, "erased" whether anonymized_at is, "bound" whether
\* external_id, discount or address were set again after that.
Columns == {"admin", "manager", "approved", "erased", "password", "pd", "marketing", "bound"}
Account == [Columns -> BOOLEAN]

Consents == {"pd", "marketing"}
Word     == {"none", "given", "withdrawn"}

ASSUME AbsentAssumption == Absent \notin Account \cup People \cup {Nobody}

VARIABLES
    users,       \* accounts, by their address
    orders,      \* people who have orders
    journal,     \* what the last entry of the consent journal says
    requests,    \* whose the open data_requests are
    links,       \* whose the password_resets are that work
    job          \* what a thread is about to commit

tables == <<users, orders, journal, requests, links>>
vars == <<tables, job>>

Exists(p)  == users[p] \in Account
IsStaff(u) == u["admin"] \/ u["manager"]

\* get_current_user: a visitor who may act under an account.
MayAct(p)  == Exists(p) /\ (users[p]["approved"] \/ users[p]["admin"])
Admins     == {p \in People : Exists(p) /\ users[p]["admin"]}
Staff      == {p \in People : MayAct(p) /\ IsStaff(users[p])}

\* The values of u, those named in "to" replaced.
With(u, to) == [c \in Columns |-> IF c \in DOMAIN to THEN to[c] ELSE u[c]]

Some(c, value) == [x \in {c} |-> value]

NoEntry == [k \in {} |-> TRUE]

NoJob == [do |-> "idle"]
Job   == [do : {"create", "update", "erase", "purge", "ask", "close", "link", "reset"},
          whom : People \cup {Nobody}, was : Account \cup {Absent}, new : Account \cup {Absent},
          entries : UNION {[K -> BOOLEAN] : K \in SUBSET Consents},
          row : Requests \cup Links \cup {Absent}]

Init ==
    /\ users = [p \in People |->
          IF p \in Founders THEN [c \in Columns |-> c \in {"admin", "approved", "password"}]
          ELSE IF p \in Known THEN [c \in Columns |-> c \in {"approved", "password"}]
          ELSE Absent]
    /\ orders = {}
    /\ journal = [p \in People |-> [k \in Consents |-> "none"]]
    /\ requests = [r \in Requests |-> Absent]
    /\ links = [l \in Links |-> Absent]
    /\ job = [t \in Threads |-> NoJob]

-----------------------------------------------------------------------------
(* A request: it loads and decides, then it commits                        *)

Quiet == Overlap \/ \A t \in Threads : job[t] = NoJob

MayBegin(t) == job[t] = NoJob /\ Quiet

Plan(do, p, new, entries, row) ==
    [do |-> do, whom |-> p, was |-> IF p = Nobody THEN Absent ELSE users[p], new |-> new,
     entries |-> entries, row |-> row]

Begins(t, plan) ==
    /\ MayBegin(t)
    /\ job' = [job EXCEPT ![t] = plan]
    /\ UNCHANGED tables

\* Columns of an account are set; consents that change go to the journal.
Sets(t, p, to, entries) ==
    Begins(t, Plan("update", p, With(users[p], to), entries, Absent))

\* register: consent to the processing of personal data is required, the one
\* to advertising is not.
Register(t) ==
    \E p \in People, ads \in BOOLEAN :
        /\ users[p] = Absent
        /\ Begins(t, Plan("create", p,
                [c \in Columns |-> c \in {"password", "pd"} \/ (c = "marketing" /\ ads)],
                [k \in IF ads THEN Consents ELSE {"pd"} |-> TRUE], Absent))

\* user_make_admin, of anybody who is no administrator yet.
MakeAdmin(t) ==
    \E by \in Admins, p \in People :
        /\ Exists(p) /\ ~users[p]["admin"]
        /\ Sets(t, p, [c \in {"admin", "approved"} |-> TRUE], NoEntry)

\* Not oneself, and not the last administrator.
MayDemote(by, p) == p # by /\ Cardinality(Admins) > 1

\* user_demote
Demote(t) ==
    \E by \in Admins, p \in Admins :
        /\ MayDemote(by, p)
        /\ Sets(t, p, Some("admin", FALSE), NoEntry)

\* user_approve
Approve(t) ==
    \E by \in Staff, p \in People :
        /\ Exists(p) /\ ~users[p]["approved"]
        /\ Sets(t, p, Some("approved", TRUE), NoEntry)

\* toggle_manager
ToggleManager(t) ==
    \E by \in Admins, p \in People :
        /\ Exists(p) /\ ~users[p]["admin"]
        /\ users[p]["approved"] /\ ~users[p]["erased"]
        /\ Sets(t, p, Some("manager", ~users[p]["manager"]), NoEntry)

\* Mutant: the journal is not told.
WithdrawnSilently(p) == NoEntry

\* The journal gets only what is really withdrawn.
Withdrawn(p) == [k \in {c \in Consents : users[p][c]} |-> FALSE]

\* anonymize_user: everything that identifies or admits the person.
Erase(t, p, row) ==
    Begins(t, Plan("erase", p, [c \in Columns |-> c = "erased"], Withdrawn(p), row))

\* With orders an account is not deleted.
MayPurge(p) == p \notin orders

\* user_reject: with orders the account is erased, without it is deleted.
Reject(t) ==
    \E by \in Admins, p \in People :
        /\ Exists(p) /\ p # by /\ ~users[p]["admin"]
        /\ \/ ~MayPurge(p) /\ Erase(t, p, Absent)
           \/ MayPurge(p) /\ Begins(t, Plan("purge", p, Absent, NoEntry, Absent))

\* marketing_consent_toggle (the customer), client_marketing_off (staff).
ToggleMarketing(t) ==
    \E p \in People, want \in BOOLEAN :
        /\ MayAct(p) \/ (Exists(p) /\ ~want /\ Staff # {})
        /\ users[p]["marketing"] # want
        /\ Sets(t, p, Some("marketing", want), Some("marketing", want))

\* pd_consent_confirm: an account older than the journal.
ConfirmConsent(t) ==
    \E p \in People :
        /\ MayAct(p) /\ ~users[p]["pd"]
        /\ Sets(t, p, Some("pd", TRUE), Some("pd", TRUE))

\* Ids of rows that are about to be inserted or changed.
Taken == {job[t].row : t \in {x \in Threads : job[x] # NoJob}}

IsOpen(r) == requests[r] # Absent

MayAsk(p) == \A r \in Requests : requests[r] # p

\* request_data_deletion
AskErasure(t) ==
    \E p \in People, r \in Requests :
        /\ MayAct(p) /\ ~IsStaff(users[p]) /\ MayAsk(p)
        /\ requests[r] = Absent /\ r \notin Taken
        /\ Begins(t, Plan("ask", p, Absent, NoEntry, r))

\* admin_data_request_done
GrantErasure(t) ==
    \E by \in Admins, r \in Requests :
        /\ IsOpen(r)
        /\ IF requests[r] = Nobody
           THEN Begins(t, Plan("close", Nobody, Absent, NoEntry, r))
           ELSE ~IsStaff(users[requests[r]]) /\ Erase(t, requests[r], r)

\* admin_data_request_reject
RefuseErasure(t) ==
    \E by \in Admins, r \in Requests :
        IsOpen(r) /\ Begins(t, Plan("close", Nobody, Absent, NoEntry, r))

\* reset_password: a temporary password that is dictated by phone.
DictatePassword(t) ==
    \E by \in Admins, p \in People :
        /\ Exists(p) /\ ~users[p]["erased"]
        /\ users[p]["admin"] => p = by
        /\ Sets(t, p, Some("password", TRUE), NoEntry)

\* forgot_submit: a new link is mailed, the older ones stop working.
Forgot(t) ==
    \E p \in People, l \in Links :
        /\ Exists(p) /\ ~users[p]["erased"]
        /\ links[l] = Absent /\ l \notin Taken
        /\ Begins(t, Plan("link", p, Absent, NoEntry, l))

Works(l) == links[l] # Absent

MayReset(p) == Exists(p) /\ ~users[p]["erased"]

\* reset_submit
UseLink(t) ==
    \E l \in Links :
        /\ Works(l) /\ MayReset(links[l])
        /\ Begins(t, Plan("reset", links[l],
                          With(users[links[l]], Some("password", TRUE)), NoEntry, l))

\* _find_clients: an account is found by its number on the site, were it
\* erased; its e-mail, INN and identifier of 1C are gone.
FindsErased(p) == Exists(p) /\ users[p]["erased"]

\* sync_clients, for a line that gives a number and no e-mail: what 1C says is
\* written to the account.  (Lines about customers who are not erased set
\* columns that decide nothing here.)
SyncClient(t) ==
    \E p \in People :
        /\ FindsErased(p) /\ ~users[p]["admin"] /\ ~users[p]["bound"]
        /\ Sets(t, p, Some("bound", TRUE), NoEntry)

-----------------------------------------------------------------------------
(* The commit                                                              *)

\* The changed columns of the loaded account.
Written(p, was, new) ==
    [c \in Columns |-> IF new[c] = was[c] THEN users[p][c] ELSE new[c]]

\* record_consent, for each consent among the entries of j.
Journal(p, j) ==
    journal' = [journal EXCEPT ![p] =
        [k \in Consents |-> IF k \notin DOMAIN j.entries THEN @[k]
                            ELSE IF j.entries[k] THEN "given" ELSE "withdrawn"]]

Updates(p, j) ==
    /\ Exists(p)
    /\ users' = [users EXCEPT ![p] = Written(p, j.was, j.new)]

\* Mutant: the links of the account stay.
LinksLeftAll(p) == links

\* Password links, those of p deleted.
LinksLeft(p) == [l \in Links |-> IF links[l] = p THEN Absent ELSE links[l]]

CommitCreate(p, j) ==
    /\ users[p] = Absent        \* else: the address is taken, rollback
    /\ users' = [users EXCEPT ![p] = j.new]
    /\ Journal(p, j)
    /\ UNCHANGED <<orders, requests, links>>

CommitUpdate(p, j) ==
    /\ Updates(p, j)
    /\ Journal(p, j)
    /\ UNCHANGED <<orders, requests, links>>

Closed(r) == IF r = Absent THEN requests ELSE [requests EXCEPT ![r] = Absent]

CommitErase(p, j) ==
    /\ Updates(p, j)
    /\ Journal(p, j)
    /\ links' = LinksLeft(p)
    /\ requests' = Closed(j.row)
    /\ UNCHANGED orders

\* purge_user_refs and the DELETE, which takes the orders of the account
\* along (cascade).
CommitPurge(p, j) ==
    /\ Exists(p)
    /\ users' = [users EXCEPT ![p] = Absent]
    /\ orders' = orders \ {p}
    /\ journal' = [journal EXCEPT ![p] = [k \in Consents |-> "none"]]
    /\ requests' = [r \in Requests |-> IF requests[r] = p THEN Nobody ELSE requests[r]]
    /\ links' = LinksLeft(p)

CommitAsk(p, j) ==
    /\ Exists(p)
    /\ requests' = [requests EXCEPT ![j.row] = p]
    /\ UNCHANGED <<users, orders, journal, links>>

CommitClose(j) ==
    /\ requests' = Closed(j.row)
    /\ UNCHANGED <<users, orders, journal, links>>

\* The links of p are used up.
Outdated(p) == LinksLeft(p)

CommitLink(p, j) ==
    /\ Exists(p)
    /\ links' = [Outdated(p) EXCEPT ![j.row] = p]
    /\ UNCHANGED <<users, orders, journal, requests>>

\* The link is used up and the other links of its owner are deleted.  It
\* could be one that an erasure has deleted: StaleDataError.
CommitReset(p, j) ==
    /\ Updates(p, j) /\ ~users[p]["erased"]
    /\ links' = LinksLeft(p)
    /\ UNCHANGED <<orders, journal, requests>>

Commit(t) ==
    /\ job[t] # NoJob
    /\ LET j == job[t]
           p == job[t].whom
       IN  \/ j.do = "create" /\ CommitCreate(p, j)
           \/ j.do = "update" /\ CommitUpdate(p, j)
           \/ j.do = "erase"  /\ CommitErase(p, j)
           \/ j.do = "purge"  /\ CommitPurge(p, j)
           \/ j.do = "ask"    /\ CommitAsk(p, j)
           \/ j.do = "close"  /\ CommitClose(j)
           \/ j.do = "link"   /\ CommitLink(p, j)
           \/ j.do = "reset"  /\ CommitReset(p, j)
    /\ job' = [job EXCEPT ![t] = NoJob]

\* The transaction is refused (a deleted row, an address that is taken), or
\* the process dies.
Fail(t) ==
    /\ job[t] # NoJob
    /\ job' = [job EXCEPT ![t] = NoJob]
    /\ UNCHANGED tables

\* A customer buys: the rest of the shop.
Buy ==
    /\ Quiet
    /\ \E p \in People : MayAct(p) /\ orders' = orders \cup {p}
    /\ UNCHANGED <<users, journal, requests, links, job>>

Serve(t) ==
    \/ Register(t) \/ MakeAdmin(t) \/ Demote(t) \/ Approve(t) \/ ToggleManager(t)
    \/ Reject(t) \/ ToggleMarketing(t) \/ ConfirmConsent(t)
    \/ AskErasure(t) \/ GrantErasure(t) \/ RefuseErasure(t)
    \/ DictatePassword(t) \/ Forgot(t) \/ UseLink(t) \/ SyncClient(t)
    \/ Commit(t) \/ Fail(t)

Next == Buy \/ \E t \in Threads : Serve(t)

Spec == Init /\ [][Next]_vars

-----------------------------------------------------------------------------
(* Properties                                                              *)

\* Every variable has its type.
AccountsTypeOK ==
    /\ users \in [People -> Account \cup {Absent}]
    /\ orders \subseteq People
    /\ journal \in [People -> [Consents -> Word]]
    /\ requests \in [Requests -> People \cup {Nobody, Absent}]
    /\ links \in [Links -> People \cup {Absent}]
    /\ job \in [Threads -> Job \cup {NoJob}]

\* The shop is never without an administrator, as the guards of user_demote
\* intend (admin.py:377).  Two administrators who demote each other at once
\* break it.
SomeoneIsAdmin == Admins # {}

\* What an account says of its consents is what the journal said last: every
\* change of a flag, by the customer, by staff or by an erasure, comes with
\* its entry, and no entry with a change that is lost (record_consent).
JournalAgrees ==
    \A p \in People : Exists(p) =>
        \A k \in Consents :
            users[p][k] <=> journal[p][k] = "given"

\* Nobody can log in to an erased account again: it has no password, no link
\* that sets one works, and staff cannot dictate one (anonymize_user,
\* legal.py:370; the guards of staff.py:213 and password_reset.py:74, 141).
ErasedStaysShut ==
    \A p \in People : Exists(p) /\ users[p]["erased"] =>
        /\ ~users[p]["password"]
        /\ \A l \in Links : Works(l) => links[l] # p

\* An erased account gets no data of the person back: "связь с контрагентом 1С
\* тоже разрываем" (anonymize_user).  A line of 1C that gives its number on the
\* site and no e-mail breaks it.
ErasedStaysBare ==
    \A p \in People : Exists(p) /\ users[p]["erased"] => ~users[p]["bound"]

\* Only the latest password link of an account works (password_reset.py:84).
OneLinkWorks ==
    \A l, m \in Links :
        Works(l) /\ Works(m) /\ links[l] = links[m] => l = m

\* A customer has one open request to be erased at most (legal.py:137-143).
OneOpenRequest ==
    \A r, q \in Requests :
        requests[r] \in People /\ requests[r] = requests[q] => r = q

\* Orders outlive the account, as user_reject intends (admin.py:434-437).  A
\* customer who orders while the account is being rejected breaks it.
OrdersAreKept == [][orders \subseteq orders']_vars
=============================================================================
