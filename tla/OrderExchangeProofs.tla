------------------------- MODULE OrderExchangeProofs -------------------------
(***************************************************************************)
(* What holds of the exchange of orders for any number of orders and       *)
(* requests.                                                               *)
(***************************************************************************)
EXTENDS OrderExchange, FiniteSetTheorems, TLAPS

\* What threads work on.
Waiting == Served(TRUE) \cup Served(FALSE)

\* Where orders may be on their way: what 1C works on are orders of the site,
\* what it confirms or rules on are orders it has.
OnTheWay ==
    /\ documents \subseteq Stored
    /\ basket \subseteq Stored
    /\ \A r \in Waiting :
        /\ r.todo \subseteq documents
        /\ r.kind = "status" => \A o \in r.todo : r.word[o] \in Statuses
    /\ reply # None /\ reply.kind = "export" => reply.orders \subseteq Stored

ExchangeInv == ExchangeTypeOK /\ OnTheWay /\ NoOrderIsForgotten

LEMMA ExchangeInitially == Init => ExchangeInv
  BY ExchangeAssumption
  DEF Init, ExchangeInv, ExchangeTypeOK, OnTheWay, NoOrderIsForgotten, Waiting, Served,
      Stored, Statuses, Words

LEMMA NoWordType == NoWord \in [OrderIds -> Words]
  BY DEF NoWord, Words

LEMMA ReplyType ==
  ASSUME NEW kind \in Kinds, NEW orders \in SUBSET OrderIds, NEW settled \in 0..NOrders,
         NEW word \in [OrderIds -> Words]
  PROVE  Reply(kind, orders, settled, word) \in Replies
  BY DEF Reply, Replies

\* What a thread does to the requests leaves them requests and replies.
LEMMA AnswerType ==
  ASSUME ExchangeTypeOK, NEW awaited \in BOOLEAN, NEW r \in Served(awaited),
         NEW answer \in Replies, Answer(r, awaited, answer)
  PROVE  /\ request' \in Requests \cup {None}
         /\ reply' \in Replies \cup {None}
         /\ late' \subseteq Requests
  BY DEF ExchangeTypeOK, Answer

LEMMA UnheardType ==
  ASSUME NEW r \in Requests
  PROVE  /\ Unheard(r) \in Requests
         /\ Unheard(r).kind = r.kind /\ Unheard(r).todo = r.todo /\ Unheard(r).word = r.word
  BY DEF Unheard, Requests

LEMMA ProceedType ==
  ASSUME ExchangeTypeOK, NEW awaited \in BOOLEAN, NEW r \in Served(awaited),
         NEW rest \in Requests, Proceed(r, awaited, rest)
  PROVE  request' \in Requests \cup {None} /\ late' \subseteq Requests
  BY UnheardType DEF ExchangeTypeOK, Proceed

LEMMA WaitingType == ExchangeTypeOK => Waiting \subseteq Requests
  BY DEF ExchangeTypeOK, Waiting, Served

LEMMA OrdersFinite == IsFiniteSet(OrderIds) /\ Cardinality(OrderIds) = NOrders
  BY FS_Interval, ExchangeAssumption DEF OrderIds

LEMMA SomeOrders ==
  ASSUME NEW set \in SUBSET OrderIds
  PROVE  IsFiniteSet(set) /\ Cardinality(set) \in 0..NOrders
<1>1. IsFiniteSet(set) /\ Cardinality(set) <= NOrders
  BY OrdersFinite, FS_Subset
<1>2. Cardinality(set) \in Nat
  BY <1>1, FS_CardinalityType
<1>3. QED
  BY <1>1, <1>2, ExchangeAssumption

\* One order of a status batch: what is left of the batch, and what happens
\* to the order.
LEMMA StatusOfOne ==
  ASSUME ExchangeTypeOK, NEW awaited \in BOOLEAN, NEW r \in Served(awaited),
         ServeStatus(r, awaited)
  PROVE  \E o \in r.todo, refused \in BOOLEAN, rest \in Requests :
            /\ rest.kind = "status" /\ rest.todo = r.todo \ {o} /\ rest.word = r.word
            /\ rest.done = IF refused THEN r.done ELSE r.done \cup {o}
            /\ rest.errors = r.errors \/ (refused /\ rest.errors = r.errors \cup {o})
            /\ status' = [status EXCEPT ![o] = IF refused THEN @ ELSE r.word[o]]
            /\ exported' = IF refused THEN exported ELSE exported \cup {o}
            /\ untouched' = IF awaited THEN untouched \cup {o}
                            ELSE {x \in untouched : status'[x] = status[x]}
            /\ Proceed(r, awaited, rest)
<1>1. r \in Requests /\ r.kind = "status"
  BY WaitingType DEF Waiting, ServeStatus
<1>2. PICK o \in r.todo :
        /\ SettleOne(r, awaited, o) \/ RefuseOne(r, awaited, o)
        /\ untouched' = IF awaited THEN untouched \cup {o}
                        ELSE {x \in untouched : status'[x] = status[x]}
  BY DEF ServeStatus
<1>3. CASE SettleOne(r, awaited, o)
  <2> DEFINE rest == [r EXCEPT !.todo = @ \ {o}, !.done = @ \cup {o}]
  <2>1. /\ rest \in Requests /\ rest.kind = "status" /\ rest.todo = r.todo \ {o}
        /\ rest.word = r.word /\ rest.done = r.done \cup {o} /\ rest.errors = r.errors
    BY <1>1 DEF Requests
  <2>2. /\ status' = [status EXCEPT ![o] = r.word[o]] /\ exported' = exported \cup {o}
        /\ Proceed(r, awaited, rest)
    BY <1>3 DEF SettleOne
  <2> HIDE DEF rest
  <2>3. QED
    BY <1>2, <2>1, <2>2
<1>4. CASE RefuseOne(r, awaited, o)
  <2> DEFINE named == IF Cardinality(r.errors) < MaxErrors THEN {o} ELSE {}
             rest == [r EXCEPT !.todo = @ \ {o}, !.errors = @ \cup named]
  <2>1. /\ rest \in Requests /\ rest.kind = "status" /\ rest.todo = r.todo \ {o}
        /\ rest.word = r.word /\ rest.done = r.done /\ rest.errors = r.errors \cup named
    BY <1>1 DEF Requests
  <2>2. Proceed(r, awaited, rest) /\ status' = status /\ exported' = exported
    BY <1>4 DEF RefuseOne
  <2>3. status' = [status EXCEPT ![o] = @]
    BY <1>1, <2>2 DEF ExchangeTypeOK, Requests
  <2>4. rest.errors = r.errors \/ rest.errors = r.errors \cup {o}
    BY <2>1
  <2> HIDE DEF rest
  <2>5. QED
    BY <1>2, <2>1, <2>2, <2>3, <2>4
<1>5. QED
  BY <1>2, <1>3, <1>4

\* The types survive every step.
LEMMA TypeStep == ExchangeTypeOK /\ OnTheWay /\ [Next]_vars => ExchangeTypeOK'
<1> SUFFICES ASSUME ExchangeTypeOK, OnTheWay, [Next]_vars PROVE ExchangeTypeOK'
  OBVIOUS
<1>1. CASE Shop
  BY <1>1 DEF Shop, Insert, Settle, StaffChanges, onecVars, wireVars, ExchangeTypeOK
<1>2. CASE Site
  <2>1. PICK awaited \in BOOLEAN : \E r \in Served(awaited) : Serve(r, awaited)
    BY <1>2 DEF Site
  <2>2. PICK r \in Served(awaited) : Serve(r, awaited)
    BY <2>1
  <2>3. r \in Requests /\ r \in Waiting
    BY WaitingType DEF Waiting
  <2>4. CASE ServeExport(r, awaited)
    <3>1. Offered \subseteq OrderIds
      BY DEF Offered, Stored
    <3>2. Reply("export", Offered, 0, NoWord) \in Replies
      BY <3>1, NoWordType, ReplyType, ExchangeAssumption DEF Kinds
    <3>3. QED
      BY <2>4, <3>2, AnswerType DEF ServeExport, ExchangeTypeOK, siteVars, onecVars
  <2>5. CASE ServeAck(r, awaited)
    <3>1. Reply("ack", r.todo, 0, NoWord) \in Replies
      BY <2>3, NoWordType, ReplyType, ExchangeAssumption DEF Kinds, Requests
    <3>2. QED
      BY <2>5, <3>1, AnswerType DEF ServeAck, ExchangeTypeOK, Stored, onecVars
  <2>6. CASE ServeStatus(r, awaited)
    <3>1. PICK o \in r.todo, refused \in BOOLEAN, rest \in Requests :
            /\ status' = [status EXCEPT ![o] = IF refused THEN @ ELSE r.word[o]]
            /\ exported' = IF refused THEN exported ELSE exported \cup {o}
            /\ untouched' = IF awaited THEN untouched \cup {o}
                            ELSE {x \in untouched : status'[x] = status[x]}
            /\ Proceed(r, awaited, rest)
      BY <2>6, StatusOfOne
    <3>2. o \in OrderIds /\ r.word[o] \in Words
      BY <2>3 DEF Requests
    <3>3. status' \in [OrderIds -> Statuses]
      <4>1. r.word[o] \in Statuses
        BY <2>3, <2>6, <3>1 DEF OnTheWay, ServeStatus
      <4>2. QED
        BY <3>1, <3>2, <4>1 DEF ExchangeTypeOK
    <3>4. untouched' \subseteq OrderIds /\ exported' \subseteq OrderIds
      BY <3>1, <3>2 DEF ExchangeTypeOK
    <3>5. QED
      BY <2>6, <3>1, <3>3, <3>4, ProceedType DEF ServeStatus, ExchangeTypeOK, onecVars
  <2>7. CASE CloseStatus(r, awaited)
    <3>1. Reply("status", r.errors, Cardinality(r.done), r.word) \in Replies
      BY <2>3, ReplyType, SomeOrders DEF Kinds, Requests
    <3>2. QED
      BY <2>7, <3>1, AnswerType DEF CloseStatus, ExchangeTypeOK, siteVars, onecVars
  <2>8. QED
    BY <2>2, <2>4, <2>5, <2>6, <2>7 DEF Serve
<1>3. CASE OneC
  <2>1. \A kind \in Kinds, todo \in SUBSET OrderIds, word \in [OrderIds -> Words] :
          Request(kind, todo, word) \in Requests
    BY DEF Request, Requests
  <2> USE DEF ExchangeTypeOK, siteVars, onecVars, wireVars, Quiet
  <2>2. CASE AskNew
    BY <2>1, <2>2, NoWordType DEF AskNew, Kinds
  <2>3. CASE TakeNew
    BY <2>3 DEF TakeNew, Replies
  <2>4. CASE SendAck
    BY <2>1, <2>4, NoWordType DEF SendAck, Kinds
  <2>5. CASE TakeAck
    BY <2>5 DEF TakeAck
  <2>6. CASE SendStatus
    <3>0. PICK set \in SUBSET documents : \E word \in [set -> Statuses] :
            /\ request' = Request("status", set,
                           [o \in OrderIds |-> IF o \in set THEN word[o] ELSE None])
            /\ told' = [o \in OrderIds |-> IF o \in set THEN None ELSE told[o]]
            /\ untouched' = untouched \ set
            /\ basket' = set
      BY <2>6 DEF SendStatus
    <3>1. PICK word \in [set -> Statuses] :
            request' = Request("status", set,
                           [o \in OrderIds |-> IF o \in set THEN word[o] ELSE None])
      BY <3>0
    <3>2. [o \in OrderIds |-> IF o \in set THEN word[o] ELSE None] \in [OrderIds -> Words]
      BY DEF Words
    <3>3. request' \in Requests
      BY <2>1, <3>1, <3>2 DEF Kinds
    <3>4. told' \in [OrderIds -> Words]
      BY <3>0 DEF Words
    <3>5. QED
      BY <2>6, <3>0, <3>3, <3>4 DEF SendStatus
  <2>7. CASE TakeStatus
    BY <2>7 DEF TakeStatus, Replies
  <2>8. CASE NothingToTell
    BY <2>8 DEF NothingToTell
  <2>9. CASE GiveUp
    BY <2>9, UnheardType DEF GiveUp
  <2>10. CASE OneCStops
    BY <2>10 DEF OneCStops
  <2>11. CASE \E o \in OrderIds : MakeDocument(o)
    BY <2>11 DEF MakeDocument, Words
  <2>12. QED
    BY <1>3, <2>2, <2>3, <2>4, <2>5, <2>6, <2>7, <2>8, <2>9, <2>10, <2>11 DEF OneC
<1>4. CASE Lose
  BY <1>4 DEF Lose, siteVars, onecVars, ExchangeTypeOK
<1>5. CASE UNCHANGED vars
  BY <1>5 DEF vars, siteVars, onecVars, wireVars, ExchangeTypeOK
<1>6. QED
  BY <1>1, <1>2, <1>3, <1>4, <1>5 DEF Next

\* What is left of the requests when a thread has answered one, or settled one
\* order of it.
LEMMA AnswerLeaves ==
  ASSUME NEW awaited \in BOOLEAN, NEW r \in Served(awaited), NEW answer,
         Answer(r, awaited, answer)
  PROVE  Waiting' \subseteq Waiting /\ reply' \in {reply, answer}
  BY DEF Answer, Waiting, Served

LEMMA ProceedLeaves ==
  ASSUME NEW awaited \in BOOLEAN, NEW r \in Served(awaited), NEW rest \in Requests,
         Proceed(r, awaited, rest)
  PROVE  Waiting' \subseteq Waiting \cup {rest, Unheard(rest)}
  BY DEF Proceed, Waiting, Served

\* What is on its way, and what the site takes as known to 1C, survives every
\* step: an order is confirmed only by a request about documents.
LEMMA OnTheWayStep ==
  ExchangeInv /\ [Next]_vars => OnTheWay' /\ NoOrderIsForgotten'
<1> SUFFICES ASSUME ExchangeInv, [Next]_vars PROVE OnTheWay' /\ NoOrderIsForgotten'
  OBVIOUS
<1>1. ExchangeTypeOK /\ ExchangeTypeOK'
  BY TypeStep DEF ExchangeInv
<1> USE DEF ExchangeInv, OnTheWay, NoOrderIsForgotten
<1>2. CASE Shop
  <2>1. Stored \subseteq Stored'
    BY <1>1, <1>2 DEF Shop, Insert, Settle, StaffChanges, Stored, ExchangeTypeOK
  <2>2. UNCHANGED <<exported, documents, basket, request, late, reply>>
    BY <1>2 DEF Shop, Insert, Settle, StaffChanges, onecVars, wireVars
  <2>3. Waiting' = Waiting
    BY <2>2 DEF Waiting, Served
  <2>4. QED
    BY <2>1, <2>2, <2>3
<1>3. CASE Site
  <2>1. PICK awaited \in BOOLEAN : \E r \in Served(awaited) : Serve(r, awaited)
    BY <1>3 DEF Site
  <2>2. PICK r \in Served(awaited) : Serve(r, awaited)
    BY <2>1
  <2>3. r \in Waiting
    BY DEF Waiting
  <2>4. CASE ServeExport(r, awaited)
    <3> DEFINE answer == Reply("export", Offered, 0, NoWord)
    <3>1. answer.orders \subseteq Stored
      BY DEF Offered, Reply
    <3>2. Waiting' \subseteq Waiting /\ reply' \in {reply, answer}
      BY <2>4, AnswerLeaves DEF ServeExport
    <3>3. UNCHANGED <<row, documents, basket, exported>>
      BY <2>4 DEF ServeExport, siteVars, onecVars
    <3> HIDE DEF answer
    <3>4. QED
      BY <3>1, <3>2, <3>3 DEF Stored
  <2>5. CASE ServeAck(r, awaited)
    <3> DEFINE answer == Reply("ack", r.todo, 0, NoWord)
    <3>1. answer.kind # "export"
      BY DEF Reply
    <3>2. Waiting' \subseteq Waiting /\ reply' \in {reply, answer}
      BY <2>5, AnswerLeaves DEF ServeAck
    <3>3. UNCHANGED <<row, documents, basket>> /\ exported' = exported \cup (r.todo \cap Stored)
      BY <2>5 DEF ServeAck, onecVars
    <3> HIDE DEF answer
    <3>4. QED
      BY <2>3, <3>1, <3>2, <3>3 DEF Stored
  <2>6. CASE ServeStatus(r, awaited)
    <3>1. PICK o \in r.todo, refused \in BOOLEAN, rest \in Requests :
            /\ rest.kind = "status" /\ rest.todo = r.todo \ {o} /\ rest.word = r.word
            /\ exported' = IF refused THEN exported ELSE exported \cup {o}
            /\ Proceed(r, awaited, rest)
      BY <1>1, <2>6, StatusOfOne
    <3>2. Waiting' \subseteq Waiting \cup {rest, Unheard(rest)}
      BY <3>1, ProceedLeaves
    <3>3. /\ Unheard(rest).kind = "status" /\ Unheard(rest).todo = rest.todo
          /\ Unheard(rest).word = rest.word
      BY <3>1, UnheardType
    <3>4. UNCHANGED <<row, documents, basket, reply>> /\ r.kind = "status"
      BY <2>6 DEF ServeStatus, onecVars
    <3>5. QED
      BY <2>3, <3>1, <3>2, <3>3, <3>4 DEF Stored
  <2>7. CASE CloseStatus(r, awaited)
    <3> DEFINE answer == Reply("status", r.errors, Cardinality(r.done), r.word)
    <3>1. answer.kind # "export"
      BY DEF Reply
    <3>2. Waiting' \subseteq Waiting /\ reply' \in {reply, answer}
      BY <2>7, AnswerLeaves DEF CloseStatus
    <3>3. UNCHANGED <<row, documents, basket, exported>>
      BY <2>7 DEF CloseStatus, siteVars, onecVars
    <3> HIDE DEF answer
    <3>4. QED
      BY <3>1, <3>2, <3>3 DEF Stored
  <2>8. QED
    BY <2>2, <2>4, <2>5, <2>6, <2>7 DEF Serve
<1>4. CASE OneC
  <2>1. UNCHANGED <<row, exported>>
    BY <1>4 DEF OneC, AskNew, TakeNew, SendAck, TakeAck, SendStatus, TakeStatus,
                NothingToTell, GiveUp, OneCStops, MakeDocument, siteVars
  <2>2. CASE AskNew
    BY <2>1, <2>2 DEF AskNew, onecVars, Request, Waiting, Served, Stored
  <2>3. CASE TakeNew
    BY <2>1, <2>3 DEF TakeNew, Waiting, Served, Stored
  <2>4. CASE SendAck
    BY <2>1, <2>4 DEF SendAck, onecVars, Request, Waiting, Served, Stored
  <2>5. CASE TakeAck
    BY <2>1, <2>5 DEF TakeAck, Waiting, Served, Stored
  <2>6. CASE SendStatus
    <3>0. PICK set \in SUBSET documents : \E word \in [set -> Statuses] :
            /\ request' = Request("status", set,
                           [o \in OrderIds |-> IF o \in set THEN word[o] ELSE None])
            /\ basket' = set
      BY <2>6 DEF SendStatus
    <3>1. PICK word \in [set -> Statuses] :
            /\ request' = Request("status", set,
                           [o \in OrderIds |-> IF o \in set THEN word[o] ELSE None])
            /\ basket' = set
      BY <3>0
    <3>2. \A o \in set : request'.word[o] \in Statuses
      BY <1>1, <3>1 DEF Request, ExchangeTypeOK
    <3>3. request'.todo = set /\ request'.kind = "status"
      BY <3>1 DEF Request
    <3>4. Waiting' \subseteq Waiting \cup {request'}
      BY <2>6 DEF SendStatus, Waiting, Served
    <3>5. QED
      BY <2>1, <2>6, <3>1, <3>2, <3>3, <3>4 DEF SendStatus, Stored
  <2>7. CASE TakeStatus
    BY <2>1, <2>7 DEF TakeStatus, Waiting, Served, Stored
  <2>8. CASE NothingToTell
    BY <2>1, <2>8 DEF NothingToTell, Waiting, Served, Stored, wireVars
  <2>9. CASE GiveUp
    <3>1. request \in Requests /\ request \in Waiting
      BY <1>1, <2>9 DEF GiveUp, ExchangeTypeOK, Waiting, Served
    <3>2. Waiting' \subseteq Waiting \cup {Unheard(request)}
      BY <2>9 DEF GiveUp, Waiting, Served
    <3>3. /\ Unheard(request).kind = request.kind /\ Unheard(request).todo = request.todo
          /\ Unheard(request).word = request.word
      BY <3>1, UnheardType
    <3>4. QED
      BY <2>1, <2>9, <3>1, <3>2, <3>3 DEF GiveUp, Stored, onecVars
  <2>10. CASE OneCStops
    BY <2>1, <2>10 DEF OneCStops, Waiting, Served, Stored
  <2>11. CASE \E o \in OrderIds : MakeDocument(o)
    BY <2>1, <2>11 DEF MakeDocument, Waiting, Served, Stored, wireVars
  <2>12. QED
    BY <1>4, <2>2, <2>3, <2>4, <2>5, <2>6, <2>7, <2>8, <2>9, <2>10, <2>11 DEF OneC
<1>5. CASE Lose
  <2>1. Waiting' \subseteq Waiting /\ reply' \in {reply, None}
    BY <1>5 DEF Lose, Waiting, Served
  <2>2. QED
    BY <1>5, <2>1 DEF Lose, siteVars, onecVars, Stored
<1>6. CASE UNCHANGED vars
  BY <1>6 DEF vars, siteVars, onecVars, wireVars, Waiting, Served, Stored
<1>7. QED
  BY <1>2, <1>3, <1>4, <1>5, <1>6 DEF Next

LEMMA ExchangeInvariant == Safety => []ExchangeInv
<1>1. Init => ExchangeInv
  BY ExchangeInitially
<1>2. ExchangeInv /\ [Next]_vars => ExchangeInv'
  BY TypeStep, OnTheWayStep DEF ExchangeInv
<1>3. QED
  BY <1>1, <1>2, PTL DEF Safety

\* An order the site stops offering is one 1C has (export_orders_to_1c: no
\* order is lost), for any number of orders, requests and losses, and whichever
\* requests outlive their time-out.
THEOREM OrdersAreKept == Safety => []NoOrderIsForgotten
<1>1. ExchangeInv => NoOrderIsForgotten
  BY DEF ExchangeInv
<1>2. QED
  BY <1>1, ExchangeInvariant, PTL

-----------------------------------------------------------------------------
(* The exchange implements the delivery of orders                          *)

\* Orders are confirmed by the steps that serve 1C, documents made by 1C.
LEMMA StepsOfTheSite ==
  Site => UNCHANGED <<row, documents>> /\ exported \subseteq exported'
<1> SUFFICES ASSUME NEW awaited \in BOOLEAN, NEW r \in Served(awaited), Serve(r, awaited)
             PROVE  UNCHANGED <<row, documents>> /\ exported \subseteq exported'
  BY DEF Site
<1>1. CASE ServeExport(r, awaited) \/ CloseStatus(r, awaited)
  BY <1>1 DEF ServeExport, CloseStatus, siteVars, onecVars
<1>2. CASE ServeAck(r, awaited)
  BY <1>2 DEF ServeAck, onecVars
<1>3. CASE ServeStatus(r, awaited)
  BY <1>3 DEF ServeStatus, SettleOne, RefuseOne, onecVars
<1>4. QED
  BY <1>1, <1>2, <1>3 DEF Serve

LEMMA DeliveryStep ==
  ExchangeInv /\ ExchangeInv' /\ [Next]_vars => [Delivery!Next]_(Delivery!vars)
<1> SUFFICES ASSUME ExchangeInv, ExchangeInv', [Next]_vars
             PROVE  Delivery!Next \/ UNCHANGED <<Stored, documents, exported>>
  BY DEF Delivery!vars
<1> USE DEF ExchangeInv
<1>1. CASE Shop
  <2>1. UNCHANGED <<exported, documents>>
    BY <1>1 DEF Shop, Insert, Settle, StaffChanges, onecVars
  <2>2. PICK o \in OrderIds : Insert(o) \/ Settle(o) \/ StaffChanges(o)
    BY <1>1 DEF Shop
  <2>3. Stored' = Stored \/ (o \notin Stored /\ Stored' = Stored \cup {o})
    BY <2>2 DEF Insert, Settle, StaffChanges, Stored, ExchangeTypeOK
  <2>4. Delivery!Place(o) \/ Stored' = Stored
    BY <2>1, <2>3 DEF Delivery!Place
  <2>5. QED
    BY <2>1, <2>4 DEF Delivery!Next
<1>2. CASE Site
  <2>1. UNCHANGED <<row, documents>> /\ exported \subseteq exported'
    BY <1>2, StepsOfTheSite
  <2>2. Stored' = Stored
    BY <2>1 DEF Stored
  <2>3. exported' \subseteq documents
    BY <2>1 DEF NoOrderIsForgotten
  <2> DEFINE set == exported' \ exported
  <2>4. CASE set = {}
    BY <2>1, <2>2, <2>4
  <2>5. CASE set # {}
    <3>1. Delivery!Confirm(set)
      BY <2>1, <2>2, <2>3, <2>5 DEF Delivery!Confirm
    <3>2. set \in SUBSET OrderIds
      BY DEF ExchangeTypeOK
    <3>3. QED
      BY <3>1, <3>2 DEF Delivery!Next
  <2>6. QED
    BY <2>4, <2>5
<1>3. CASE OneC
  <2>1. UNCHANGED <<row, exported>>
    BY <1>3 DEF OneC, AskNew, TakeNew, SendAck, TakeAck, SendStatus, TakeStatus,
                NothingToTell, GiveUp, OneCStops, MakeDocument, siteVars
  <2>2. Stored' = Stored
    BY <2>1 DEF Stored
  <2>3. CASE \E o \in OrderIds : MakeDocument(o)
    <3>1. PICK o \in OrderIds : MakeDocument(o)
      BY <2>3
    <3>2. Delivery!Deliver(o)
      BY <2>1, <2>2, <3>1 DEF MakeDocument, Delivery!Deliver, OnTheWay
    <3>3. QED
      BY <3>2 DEF Delivery!Next
  <2>4. CASE ~ \E o \in OrderIds : MakeDocument(o)
    <3>1. documents' = documents
      BY <1>3, <2>4 DEF OneC, AskNew, TakeNew, SendAck, TakeAck, SendStatus, TakeStatus,
                        NothingToTell, GiveUp, OneCStops, onecVars
    <3>2. QED
      BY <2>1, <2>2, <3>1
  <2>5. QED
    BY <2>3, <2>4
<1>4. CASE Lose \/ UNCHANGED vars
  BY <1>4 DEF Lose, vars, siteVars, onecVars, Stored
<1>5. QED
  BY <1>1, <1>2, <1>3, <1>4 DEF Next

\* Every behaviour of the exchange is one of the abstract delivery of orders:
\* an order comes to 1C once, and is confirmed after that and never before.
THEOREM ExchangeImplementsDelivery == Safety => Delivery!Safety
<1>1. Init => Delivery!Init
  BY DEF Init, Delivery!Init, Stored
<1>2. ExchangeInv /\ ExchangeInv' /\ [Next]_vars => [Delivery!Next]_(Delivery!vars)
  BY DeliveryStep
<1>3. QED
  BY <1>1, <1>2, ExchangeInvariant, PTL DEF Safety, Delivery!Safety

-----------------------------------------------------------------------------
(* The site follows 1C                                                     *)

\* A request about statuses, or the reply to one.
Telling(q) == q # None /\ q.kind = "status"

\* The orders of set have the status word says, save those others have changed.
Follows(set, word) == \A o \in set \cap untouched : status[o] = word[o]

\* Nothing is known of the orders of a batch on its way; those it has settled
\* follow it, and those it will name are others.
BatchFollows ==
    Telling(request) =>
        /\ basket \subseteq documents
        /\ request.todo \cup request.done \cup request.errors \subseteq basket
        /\ request.todo \cap (request.done \cup request.errors) = {}
        /\ request.done \cap request.errors = {}
        /\ \A o \in basket : told[o] = None
        /\ Follows(request.done, request.word)

\* The reply names some orders of the batch and counts others, that follow it.
ReplyFollows ==
    Telling(reply) =>
        /\ basket \subseteq documents /\ reply.orders \subseteq basket
        /\ \E done \in SUBSET (basket \ reply.orders) :
            reply.settled = Cardinality(done) /\ Follows(done, reply.word)

\* What is known of an order is known of one that 1C has.
FollowInv ==
    /\ request = None \/ reply = None
    /\ \A o \in OrderIds : told[o] # None => o \in documents
    /\ BatchFollows /\ ReplyFollows /\ SiteFollows1C

\* Numbers that account for the whole batch leave no order out.
LEMMA AllAccounted ==
  ASSUME NEW set \in SUBSET OrderIds, NEW done \in SUBSET set, NEW named \in SUBSET set,
         done \cap named = {}, Cardinality(done) + Cardinality(named) = Cardinality(set)
  PROVE  set \ named = done
<1>1. IsFiniteSet(set) /\ IsFiniteSet(done) /\ IsFiniteSet(named)
  BY SomeOrders
<1>2. Cardinality(done \cup named) = Cardinality(done) + Cardinality(named) - Cardinality({})
  BY <1>1, FS_Union
<1>3. Cardinality(done) \in Nat /\ Cardinality(named) \in Nat /\ Cardinality({}) = 0
  BY <1>1, FS_CardinalityType, FS_EmptySet
<1>4. Cardinality(done \cup named) = Cardinality(set)
  BY <1>2, <1>3
<1>5. done \cup named \subseteq set
  OBVIOUS
<1>6. done \cup named = set
  BY <1>1, <1>4, <1>5, FS_Subset
<1>7. QED
  BY <1>6

\* A thread takes a step.
LEMMA FollowSite ==
  ASSUME ExchangeInv, ExchangeTypeOK', FollowInv, Site
  PROVE  FollowInv'
<1>1. PICK awaited \in BOOLEAN : \E r \in Served(awaited) : Serve(r, awaited)
  BY DEF Site
<1>2. PICK r \in Served(awaited) : Serve(r, awaited)
  BY <1>1
<1>3. ExchangeTypeOK /\ r \in Requests /\ r \in Waiting
  BY WaitingType DEF Waiting, ExchangeInv
<1>4. awaited => r = request /\ request # None /\ reply = None
  BY <1>2 DEF Served, FollowInv
<1>5. UNCHANGED <<told, documents, basket>>
  BY <1>2 DEF Serve, ServeExport, ServeAck, ServeStatus, CloseStatus, onecVars
<1>6. CASE ServeExport(r, awaited) \/ ServeAck(r, awaited)
  <2>1. PICK answer : Answer(r, awaited, answer) /\ answer.kind # "status"
    BY <1>6 DEF ServeExport, ServeAck, Reply
  <2>2. UNCHANGED <<status, untouched>>
    BY <1>6 DEF ServeExport, ServeAck, siteVars, onecVars
  <2>3. UNCHANGED <<request, reply>> \/ (request' = None /\ reply' = answer)
    BY <2>1 DEF Answer
  <2>4. QED
    BY <1>5, <2>1, <2>2, <2>3
    DEF FollowInv, BatchFollows, ReplyFollows, SiteFollows1C, Follows, Telling
<1>7. CASE ServeStatus(r, awaited)
  <2>1. PICK o \in r.todo, refused \in BOOLEAN, rest \in Requests :
            /\ rest.kind = "status" /\ rest.todo = r.todo \ {o} /\ rest.word = r.word
            /\ rest.done = IF refused THEN r.done ELSE r.done \cup {o}
            /\ rest.errors = r.errors \/ (refused /\ rest.errors = r.errors \cup {o})
            /\ status' = [status EXCEPT ![o] = IF refused THEN @ ELSE r.word[o]]
            /\ untouched' = IF awaited THEN untouched \cup {o}
                            ELSE {x \in untouched : status'[x] = status[x]}
            /\ Proceed(r, awaited, rest)
    BY <1>3, <1>7, StatusOfOne
  <2>2. r.kind = "status" /\ reply' = reply
    BY <1>7 DEF ServeStatus
  <2>3. o \in OrderIds /\ \A x \in OrderIds : x # o => status'[x] = status[x]
    BY <1>3, <2>1 DEF ExchangeTypeOK, Requests
  <2>4. CASE ~awaited
    <3>1. request' = request
      BY <2>1, <2>4 DEF Proceed
    <3>2. untouched' = {x \in untouched : status'[x] = status[x]}
      BY <2>1, <2>4
    <3>3. QED
      BY <1>5, <2>2, <3>1, <3>2
      DEF FollowInv, BatchFollows, ReplyFollows, SiteFollows1C, Follows, Telling
  <2>5. CASE awaited
    <3>1. request' = rest /\ Telling(request) /\ r = request
      BY <1>4, <2>1, <2>2, <2>5 DEF Proceed, Telling
    <3>2. untouched' = untouched \cup {o}
      BY <2>1, <2>5
    <3>3. o \in basket /\ told[o] = None /\ o \notin r.done /\ o \notin r.errors
      BY <2>1, <3>1 DEF FollowInv, BatchFollows
    <3>4. SiteFollows1C'
      BY <1>5, <2>3, <3>2, <3>3 DEF FollowInv, SiteFollows1C
    <3>5. refused \/ status'[o] = r.word[o]
      BY <1>3, <2>1, <2>3 DEF ExchangeTypeOK
    <3>6. r.done \subseteq OrderIds
      BY <1>3 DEF Requests
    <3>7. \A x \in rest.done \cap untouched' : status'[x] = rest.word[x]
      BY <2>1, <2>3, <3>1, <3>2, <3>3, <3>5, <3>6 DEF FollowInv, BatchFollows, Follows
    <3>8. BatchFollows'
      BY <1>5, <2>1, <3>1, <3>3, <3>7 DEF FollowInv, BatchFollows, Follows
    <3>9. reply' = None
      BY <1>4, <2>2, <2>5
    <3>10. QED
      BY <1>5, <3>4, <3>8, <3>9 DEF FollowInv, ReplyFollows, Telling
  <2>6. QED
    BY <2>4, <2>5
<1>8. CASE CloseStatus(r, awaited)
  <2>1. /\ r.kind = "status" /\ UNCHANGED <<status, untouched>>
        /\ Answer(r, awaited, Reply("status", r.errors, Cardinality(r.done), r.word))
    BY <1>8 DEF CloseStatus, siteVars
  <2>2. CASE ~awaited
    BY <1>5, <2>1, <2>2
    DEF Answer, FollowInv, BatchFollows, ReplyFollows, SiteFollows1C, Follows, Telling
  <2>3. CASE awaited
    <3>1. request' = None /\ Telling(request) /\ r = request
      BY <1>4, <2>1, <2>3 DEF Answer, Telling
    <3>2. /\ reply'.orders = r.errors /\ reply'.settled = Cardinality(r.done)
          /\ reply'.word = r.word
      BY <2>1, <2>3 DEF Answer, Reply
    <3>3. /\ basket \subseteq documents /\ r.errors \subseteq basket
          /\ r.done \in SUBSET (basket \ r.errors) /\ Follows(r.done, r.word)
      BY <3>1 DEF FollowInv, BatchFollows
    <3>4. ReplyFollows'
      BY <1>5, <2>1, <3>2, <3>3 DEF ReplyFollows, Follows
    <3>5. QED
      BY <1>5, <2>1, <3>1, <3>4 DEF FollowInv, BatchFollows, SiteFollows1C, Telling
  <2>4. QED
    BY <2>2, <2>3
<1>9. QED
  BY <1>2, <1>6, <1>7, <1>8 DEF Serve

\* 1C takes a step.
LEMMA FollowOneC ==
  ASSUME ExchangeInv, ExchangeTypeOK', FollowInv, OneC
  PROVE  FollowInv'
<1> USE DEF FollowInv
<1>1. UNCHANGED status
  BY DEF OneC, AskNew, TakeNew, SendAck, TakeAck, SendStatus, TakeStatus,
         NothingToTell, GiveUp, OneCStops, MakeDocument, siteVars
<1>2. CASE AskNew \/ SendAck
  BY <1>2 DEF AskNew, SendAck, Quiet, Request, siteVars, onecVars, BatchFollows,
              ReplyFollows, SiteFollows1C, Telling
<1>3. CASE TakeNew \/ TakeAck \/ NothingToTell \/ OneCStops
  BY <1>3 DEF TakeNew, TakeAck, NothingToTell, OneCStops, Quiet, siteVars, wireVars,
              BatchFollows, ReplyFollows, SiteFollows1C, Telling
<1>4. CASE SendStatus
  <2>1. PICK set \in SUBSET documents : \E word \in [set -> Statuses] :
            /\ request' = Request("status", set,
                           [o \in OrderIds |-> IF o \in set THEN word[o] ELSE None])
            /\ told' = [o \in OrderIds |-> IF o \in set THEN None ELSE told[o]]
            /\ untouched' = untouched \ set
            /\ basket' = set
    BY <1>4 DEF SendStatus
  <2>2. request'.todo = set /\ request'.done = {} /\ request'.errors = {}
    BY <2>1 DEF Request
  <2>3. UNCHANGED <<documents, reply>> /\ reply = None
    BY <1>4 DEF SendStatus, Quiet
  <2>4. set \subseteq OrderIds
    BY DEF ExchangeInv, ExchangeTypeOK
  <2>5. \A o \in set : told'[o] = None
    BY <2>1, <2>4
  <2>6. BatchFollows'
    BY <2>1, <2>2, <2>3, <2>5 DEF BatchFollows, Follows
  <2>7. SiteFollows1C' /\ \A o \in OrderIds : told'[o] # None => o \in documents'
    BY <1>1, <2>1, <2>3 DEF SiteFollows1C
  <2>8. QED
    BY <2>3, <2>6, <2>7 DEF ReplyFollows, Telling
<1>5. CASE TakeStatus
  <2>1. Telling(reply) /\ request = None
    BY <1>5 DEF TakeStatus, Telling
  <2>2. PICK done \in SUBSET (basket \ reply.orders) :
            reply.settled = Cardinality(done) /\ Follows(done, reply.word)
    BY <2>1 DEF ReplyFollows
  <2>3. basket \subseteq documents /\ reply.orders \subseteq basket /\ basket \subseteq OrderIds
    BY <2>1 DEF ReplyFollows, ExchangeInv, ExchangeTypeOK
  <2>4. Accounted => basket \ reply.orders = done
    BY <2>2, <2>3, AllAccounted DEF Accounted
  <2>5. /\ told' = [o \in OrderIds |-> IF Accounted /\ o \in basket \ reply.orders
                                     THEN reply.word[o] ELSE told[o]]
        /\ reply' = None /\ UNCHANGED <<untouched, documents, request>>
    BY <1>5 DEF TakeStatus, siteVars
  <2>6. SiteFollows1C'
    BY <1>1, <2>2, <2>4, <2>5 DEF SiteFollows1C, Follows
  <2>7. QED
    BY <2>1, <2>3, <2>5, <2>6 DEF BatchFollows, ReplyFollows, Telling
<1>6. CASE GiveUp
  BY <1>1, <1>6 DEF GiveUp, siteVars, onecVars, BatchFollows, ReplyFollows, SiteFollows1C,
                    Follows, Telling
<1>7. CASE \E o \in OrderIds : MakeDocument(o)
  BY <1>1, <1>7 DEF MakeDocument, siteVars, wireVars, BatchFollows, ReplyFollows,
                    SiteFollows1C, Follows, Telling
<1>8. QED
  BY <1>2, <1>3, <1>4, <1>5, <1>6, <1>7 DEF OneC

LEMMA FollowStep ==
  ASSUME ExchangeInv, FollowInv, [Next]_vars
  PROVE  FollowInv'
<1>1. ExchangeTypeOK'
  BY TypeStep DEF ExchangeInv
<1>2. CASE Shop
  <2>1. UNCHANGED <<onecVars, wireVars>>
    BY <1>2 DEF Shop, Insert, Settle, StaffChanges
  <2>2. untouched' \subseteq untouched /\ \A o \in untouched' : status'[o] = status[o]
    BY <1>2 DEF Shop, Insert, Settle, StaffChanges, ExchangeInv, ExchangeTypeOK
  <2>3. QED
    BY <2>1, <2>2 DEF onecVars, wireVars, FollowInv, BatchFollows, ReplyFollows,
                      SiteFollows1C, Follows, Telling
<1>3. CASE Site
  BY <1>1, <1>3, FollowSite
<1>4. CASE OneC
  BY <1>1, <1>4, FollowOneC
<1>5. CASE Lose
  BY <1>5 DEF Lose, siteVars, onecVars, FollowInv, BatchFollows, ReplyFollows,
              SiteFollows1C, Follows, Telling
<1>6. CASE UNCHANGED vars
  BY <1>6 DEF vars, siteVars, onecVars, wireVars, FollowInv, BatchFollows, ReplyFollows,
              SiteFollows1C, Follows, Telling
<1>7. QED
  BY <1>2, <1>3, <1>4, <1>5, <1>6 DEF Next

\* What 1C concludes from the replies about statuses is what the site has
\* (update_orders_status), whatever staff does beside, whichever batches outlive
\* their time-out, and however few of the refused orders a reply has room for:
\* the order has changed since, or follows the batch.
THEOREM SiteFollows == Safety => []SiteFollows1C
<1>1. Init => FollowInv
  BY DEF Init, FollowInv, BatchFollows, ReplyFollows, SiteFollows1C, Telling
<1>2. ExchangeInv /\ FollowInv /\ [Next]_vars => FollowInv'
  BY FollowStep
<1>3. FollowInv => SiteFollows1C
  BY DEF FollowInv
<1>4. QED
  BY <1>1, <1>2, <1>3, ExchangeInvariant, PTL DEF Safety
=============================================================================
