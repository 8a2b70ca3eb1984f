------------------------------ MODULE OrderPage ------------------------------
(***************************************************************************)
(* The exchange of orders with an administrator beside it who carries      *)
(* orders over by file on the integration page (orders_csv and orders_mark *)
(* of routers/integration_admin.py).                                       *)
(***************************************************************************)
EXTENDS OrderExchange

VARIABLE page    \* the last order id the page was made for, and the file's orders

pageVars == <<vars, page>>

NoPage == [upTo |-> 0, file |-> {}]

PageInit == Init /\ page = NoPage

\* _waiting_orders_query, up to an id.
WaitingUpTo(top) ==
    {o \in Stored \ exported : status[o] # "cancelled" /\ o <= top}

\* _page: the last of the orders waiting goes into the form.
ShowPage ==
    /\ page.upTo = 0
    /\ \E last \in WaitingUpTo(NOrders) :
        /\ \A o \in WaitingUpTo(NOrders) : o <= last
        /\ page' = [upTo |-> last, file |-> {}]
    /\ UNCHANGED vars

\* orders_csv.
DownloadFile ==
    /\ page.file = {}
    /\ page' = [page EXCEPT !.file = WaitingUpTo(page.upTo)]
    /\ UNCHANGED vars

\* The file is loaded into 1C.
LoadFile ==
    /\ documents' = documents \cup page.file
    /\ UNCHANGED <<siteVars, told, job, basket, wireVars, page>>

\* orders_mark: everything not exported up to the id of the form.
MarkExported ==
    /\ page.file # {} /\ page.file \subseteq documents
    /\ exported' = exported \cup {o \in Stored : o <= page.upTo}
    /\ page' = NoPage
    /\ UNCHANGED <<row, status, untouched, onecVars, wireVars>>

PageNext ==
    \/ Next /\ UNCHANGED page
    \/ ShowPage \/ DownloadFile \/ LoadFile \/ MarkExported

PageSpec == PageInit /\ [][PageNext]_pageVars
=============================================================================
