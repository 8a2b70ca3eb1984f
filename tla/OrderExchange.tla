---------------------------- MODULE OrderExchange ----------------------------
(***************************************************************************)
(* Orders on their way to 1C and statuses on their way back:               *)
(* export_orders_to_1c, ack_orders and update_orders_status                *)
(* (routers/integration_1c.py).                                            *)
(*                                                                         *)
(* 1C is external and runs the job its manual describes: ask for new       *)
(* orders, make documents, confirm, send statuses; one HTTP request at a   *)
(* time, asked again when no answer came.  A request 1C has given up on    *)
(* may still be served: nothing stops the thread that serves it.  What an  *)
(* order holds of the stock is the subject of StatusChange.                *)
(***************************************************************************)
EXTENDS Integers, FiniteSets

CONSTANTS
    NOrders,     \* number of order ids the database can give out
    Limit,       \* ORDERS_MAX_PER_CALL
    MaxErrors,   \* MAX_ERRORS_IN_REPLY
    MaxLate,     \* bound on requests 1C has given up on that are still served
    Lagging,     \* kinds of requests that may outlive their time-out
    None         \* no request, no reply, no status

OrderIds == 1..NOrders
Statuses == {"live", "cancelled"}      \* all that matters of ORDER_STATUSES here
Kinds    == {"export", "ack", "status"}

ASSUME ExchangeAssumption ==
    /\ NOrders \in Nat \ {0}
    /\ Limit \in Nat \ {0}
    /\ MaxErrors \in Nat
    /\ MaxLate \in Nat
    /\ Lagging \subseteq Kinds
    /\ None \notin Statuses

VARIABLES
    row,         \* where each order row is: not inserted, open, stored, lost
    status,      \* its status
    exported,    \* exported_at is set
    documents,   \* orders 1C has a document for
    told,        \* the status 1C knows the site to have
    job,         \* where the job of 1C is
    basket,      \* orders of the reply or the batch it works on
    untouched,   \* orders nobody has changed since their batch was dealt with
    request,     \* the request it waits for
    reply,       \* the answer to it
    late         \* requests it has given up on

siteVars == <<row, status, exported, untouched>>
onecVars == <<documents, told, job, basket>>
wireVars == <<request, reply, late>>
vars == <<siteVars, onecVars, wireVars>>

\* todo: the orders of an ack or a status batch still to be settled; word: the
\* status the batch asks for; done: those settled (updated and unchanged);
\* errors: the refused ones the reply will name.
NoWord == [o \in OrderIds |-> None]
Request(kind, todo, word) ==
    [kind |-> kind, todo |-> todo, word |-> word, done |-> {}, errors |-> {}]

\* orders: those offered, confirmed or named among the errors; settled: how
\* many of a status batch were; word: what 1C has asked for.
Reply(kind, orders, settled, word) ==
    [kind |-> kind, orders |-> orders, settled |-> settled, word |-> word]

Init ==
    /\ row = [o \in OrderIds |-> "unused"]
    /\ status = [o \in OrderIds |-> "live"]
    /\ exported = {}
    /\ documents = {}
    /\ told = [o \in OrderIds |-> None]
    /\ job = "ask"
    /\ basket = {}
    /\ untouched = {}
    /\ request = None
    /\ reply = None
    /\ late = {}

Stored == {o \in OrderIds : row[o] = "stored"}

-----------------------------------------------------------------------------
(* The shop                                                                *)

\* place_order takes the next id from the sequence when it inserts; the
\* order is seen by others once its transaction commits.
Insert(o) ==
    /\ row[o] = "unused"
    /\ \A x \in OrderIds : x < o => row[x] # "unused"
    /\ row' = [row EXCEPT ![o] = "open"]
    /\ UNCHANGED <<status, exported, untouched, onecVars, wireVars>>

\* Commit, or rollback: then the id is lost.
Settle(o) ==
    /\ row[o] = "open"
    /\ \E end \in {"stored", "lost"} : row' = [row EXCEPT ![o] = end]
    /\ UNCHANGED <<status, exported, untouched, onecVars, wireVars>>

\* update_order_status: staff changes any order, whatever 1C knows of it.
StaffChanges(o) ==
    /\ o \in Stored
    /\ \E s \in Statuses : s # status[o] /\ status' = [status EXCEPT ![o] = s]
    /\ untouched' = untouched \ {o}
    /\ UNCHANGED <<row, exported, onecVars, wireVars>>

-----------------------------------------------------------------------------
(* The site serves 1C                                                      *)

\* new=1: orders without exported_at, in the order of ids, at most Limit.
Offered ==
    LET waiting == Stored \ exported
    IN  {o \in waiting : Cardinality({x \in waiting : x < o}) < Limit}

\* What threads work on: the request 1C waits for, or those it has given up on.
Served(awaited) == IF awaited THEN {request} \ {None} ELSE late

\* The thread is done with r: the answer reaches 1C only if it still waits.
Answer(r, awaited, answer) ==
    IF awaited
    THEN /\ request' = None
         /\ reply' = answer
         /\ UNCHANGED late
    ELSE /\ late' = late \ {r}
         /\ UNCHANGED <<request, reply>>

\* A request nobody waits for: what its reply would have said matters no more.
Unheard(r) == [r EXCEPT !.done = {}, !.errors = {}]

\* The thread goes on with r.
Proceed(r, awaited, rest) ==
    IF awaited
    THEN request' = rest /\ UNCHANGED late
    ELSE late' = (late \ {r}) \cup {Unheard(rest)} /\ UNCHANGED request

\* Mutant: what has been offered counts as exported at once.
ServeExportMarks(r, awaited) ==
    /\ r.kind = "export"
    /\ Answer(r, awaited, Reply("export", Offered, 0, NoWord))
    /\ exported' = exported \cup Offered
    /\ UNCHANGED <<row, status, untouched, onecVars>>

ServeExport(r, awaited) ==
    /\ r.kind = "export"
    /\ Answer(r, awaited, Reply("export", Offered, 0, NoWord))
    /\ UNCHANGED <<siteVars, onecVars>>

\* Mutant: the confirmation is answered but not committed.
ServeAckUnsaved(r, awaited) ==
    /\ r.kind = "ack"
    /\ Answer(r, awaited, Reply("ack", r.todo, 0, NoWord))
    /\ UNCHANGED <<siteVars, onecVars>>

\* ack_orders: all orders that are found, in one commit.
ServeAck(r, awaited) ==
    /\ r.kind = "ack"
    /\ exported' = exported \cup (r.todo \cap Stored)
    /\ Answer(r, awaited, Reply("ack", r.todo, 0, NoWord))
    /\ UNCHANGED <<row, status, untouched, onecVars>>

\* The order o of r gets its status.
SettleOne(r, awaited, o) ==
    /\ status' = [status EXCEPT ![o] = r.word[o]]
    /\ exported' = exported \cup {o}
    /\ Proceed(r, awaited, [r EXCEPT !.todo = @ \ {o}, !.done = @ \cup {o}])

\* A cancelled order whose goods are sold is refused and rolled back.
MayRefuse(r, o) == status[o] = "cancelled" /\ r.word[o] # "cancelled"

\* Mutant: a refused order is counted as unchanged.
RefuseOneSilently(r, awaited, o) ==
    /\ MayRefuse(r, o)
    /\ Proceed(r, awaited, [r EXCEPT !.todo = @ \ {o}, !.done = @ \cup {o}])
    /\ UNCHANGED <<status, exported>>

\* The first MaxErrors of the refused orders are named.
RefuseOne(r, awaited, o) ==
    LET named == IF Cardinality(r.errors) < MaxErrors THEN {o} ELSE {}
    IN  /\ MayRefuse(r, o)
        /\ Proceed(r, awaited, [r EXCEPT !.todo = @ \ {o}, !.errors = @ \cup named])
        /\ UNCHANGED <<status, exported>>

\* update_orders_status goes through its list and commits order by order.  A
\* batch that 1C has given up on changes orders behind its back.
ServeStatus(r, awaited) ==
    /\ r.kind = "status"
    /\ \E o \in r.todo :
        /\ SettleOne(r, awaited, o) \/ RefuseOne(r, awaited, o)
        /\ untouched' = IF awaited THEN untouched \cup {o}
                        ELSE {x \in untouched : status'[x] = status[x]}
    /\ UNCHANGED <<row, onecVars, reply>>

CloseStatus(r, awaited) ==
    /\ r.kind = "status" /\ r.todo = {}
    /\ Answer(r, awaited, Reply("status", r.errors, Cardinality(r.done), r.word))
    /\ UNCHANGED <<siteVars, onecVars>>

\* A request or its answer is lost, or the process serving it dies: what was
\* committed stays.
Lose ==
    /\ \/ request # None /\ request' = None /\ UNCHANGED <<reply, late>>
       \/ reply # None /\ reply' = None /\ UNCHANGED <<request, late>>
       \/ \E r \in late : late' = late \ {r} /\ UNCHANGED <<request, reply>>
    /\ UNCHANGED <<siteVars, onecVars>>

-----------------------------------------------------------------------------
(* 1C (external): the job of its manual, a request at a time               *)

Quiet == request = None /\ reply = None

\* GET orders/export?new=1, again and again.
AskNew ==
    /\ job = "ask" /\ Quiet
    /\ request' = Request("export", {}, NoWord)
    /\ UNCHANGED <<siteVars, onecVars, reply, late>>

TakeNew ==
    /\ reply # None /\ reply.kind = "export"
    /\ basket' = reply.orders
    /\ job' = IF reply.orders = {} THEN "tell" ELSE "load"
    /\ reply' = None
    /\ UNCHANGED <<siteVars, documents, told, request, late>>

\* A document is made unless there is one with that number.
MakeDocument(o) ==
    /\ job = "load" /\ o \in basket \ documents
    /\ documents' = documents \cup {o}
    /\ UNCHANGED <<siteVars, told, job, basket, wireVars>>

SendAck ==
    /\ job = "load" /\ Quiet /\ basket \subseteq documents
    /\ request' = Request("ack", basket, NoWord)
    /\ UNCHANGED <<siteVars, onecVars, reply, late>>

TakeAck ==
    /\ reply # None /\ reply.kind = "ack"
    /\ job' = "tell" /\ basket' = {} /\ reply' = None
    /\ UNCHANGED <<siteVars, documents, told, request, late>>

\* POST orders/status for some of its documents, with what people at 1C have
\* made of them by now.  From here on it does not know what the site has, until
\* it is answered.
SendStatus ==
    /\ job = "tell" /\ Quiet
    /\ \E set \in SUBSET documents : \E word \in [set -> Statuses] :
        /\ set # {}
        /\ request' = Request("status", set,
                        [o \in OrderIds |-> IF o \in set THEN word[o] ELSE None])
        /\ told' = [o \in OrderIds |-> IF o \in set THEN None ELSE told[o]]
        /\ untouched' = untouched \ set
        /\ basket' = set
    /\ UNCHANGED <<row, status, exported, documents, job, reply, late>>

\* The errors may have been cut: 1C takes the orders that are not named as
\* settled only if the numbers of the reply account for the whole batch.
Accounted == reply.settled + Cardinality(reply.orders) = Cardinality(basket)

TakeStatus ==
    /\ reply # None /\ reply.kind = "status"
    /\ told' = [o \in OrderIds |-> IF Accounted /\ o \in basket \ reply.orders
                                   THEN reply.word[o] ELSE told[o]]
    /\ job' = "ask" /\ basket' = {} /\ reply' = None
    /\ UNCHANGED <<siteVars, documents, request, late>>

NothingToTell ==
    /\ job = "tell" /\ Quiet
    /\ job' = "ask" /\ basket' = {}
    /\ UNCHANGED <<siteVars, documents, told, wireVars>>

\* 1C times out and will ask again; what it asked may still be served.
GiveUp ==
    /\ request # None /\ request.kind \in Lagging /\ Cardinality(late) < MaxLate
    /\ late' = late \cup {Unheard(request)}
    /\ request' = None
    /\ UNCHANGED <<siteVars, onecVars, reply>>

\* The job is stopped and starts from the beginning.
OneCStops ==
    /\ request = None /\ job # "ask"
    /\ job' = "ask" /\ basket' = {} /\ reply' = None
    /\ UNCHANGED <<siteVars, documents, told, request, late>>

-----------------------------------------------------------------------------

Shop == \E o \in OrderIds : Insert(o) \/ Settle(o) \/ StaffChanges(o)
Serve(r, awaited) ==
    \/ ServeExport(r, awaited) \/ ServeAck(r, awaited)
    \/ ServeStatus(r, awaited) \/ CloseStatus(r, awaited)
Site == \E awaited \in BOOLEAN : \E r \in Served(awaited) : Serve(r, awaited)
OneC ==
    \/ AskNew \/ TakeNew \/ SendAck \/ TakeAck \/ SendStatus \/ TakeStatus
    \/ NothingToTell \/ GiveUp \/ OneCStops
    \/ \E o \in OrderIds : MakeDocument(o)
Next == Shop \/ Site \/ OneC \/ Lose

Safety == Init /\ [][Next]_vars

\* The thread of the request 1C waits for takes a step.
ServeCurrent(kind) == \E r \in Served(TRUE) : r.kind = kind /\ Serve(r, TRUE)

\* The job always goes on, and every answer is awaited; what a loss or a stop
\* of the job can undo happens in the end: 1C asks again on its schedule.
Fairness ==
    /\ WF_vars(AskNew \/ SendStatus \/ NothingToTell)
    /\ WF_vars(ServeCurrent("status")) /\ WF_vars(TakeStatus)
    /\ SF_vars(ServeCurrent("export")) /\ SF_vars(TakeNew)
    /\ SF_vars(\E o \in OrderIds : MakeDocument(o))
    /\ SF_vars(SendAck) /\ SF_vars(ServeCurrent("ack")) /\ SF_vars(TakeAck)
    /\ SF_vars(NothingToTell)

Spec == Safety /\ Fairness

-----------------------------------------------------------------------------
(* Properties                                                              *)

Words    == Statuses \cup {None}
Requests == [kind : Kinds, todo : SUBSET OrderIds, word : [OrderIds -> Words],
             done : SUBSET OrderIds, errors : SUBSET OrderIds]
Replies  == [kind : Kinds, orders : SUBSET OrderIds, settled : 0..NOrders,
             word : [OrderIds -> Words]]

\* The values the variables may take.
ExchangeTypeOK ==
    /\ row \in [OrderIds -> {"unused", "open", "stored", "lost"}]
    /\ status \in [OrderIds -> Statuses]
    /\ exported \subseteq OrderIds
    /\ documents \subseteq OrderIds
    /\ told \in [OrderIds -> Words]
    /\ job \in {"ask", "load", "tell"}
    /\ basket \subseteq OrderIds
    /\ untouched \subseteq OrderIds
    /\ request \in Requests \cup {None}
    /\ reply \in Replies \cup {None}
    /\ late \subseteq Requests

\* An order the site does not offer to 1C any more is one 1C has
\* (export_orders_to_1c: none is lost), whatever requests, replies and jobs
\* fail on the way.
NoOrderIsForgotten == exported \subseteq documents

\* What 1C concludes from its answers about an order is what the site has,
\* until 1C sends that order again, staff changes it or a batch 1C has given up
\* on comes late (update_orders_status): however many orders were refused,
\* whatever replies are lost, an order refused is not taken for changed.
SiteFollows1C ==
    \A o \in OrderIds : told[o] # None /\ o \in untouched => status[o] = told[o]

Delivery == INSTANCE OrderDelivery
            WITH placed <- Stored, known <- documents, confirmed <- exported

\* The exchange does what OrderDelivery promises, that every order of the
\* site comes to 1C included.
ExchangeDelivers == Delivery!Spec
=============================================================================
