------------------------------- MODULE Orders -------------------------------
(***************************************************************************)
(* The order context (src/src/topics/ddd/order/): the aggregate Order, the *)
(* use case PlaceOrderUseCase with its two awaits, InMemoryOrderRepository,*)
(* an event publisher, and OrderController.                                *)
(*                                                                         *)
(* The repository keeps the objects themselves, so an object found is the  *)
(* object stored.  Besides the controller's requests, domain code may call *)
(* every public method of an order it created or found.  Nothing survives  *)
(* the process, so a crash returns to Init and is left out; so is          *)
(* rehydrate, which nothing calls yet.                                     *)
(***************************************************************************)
EXTENDS Money, FiniteSets

CONSTANTS Ids, NoId, Reqs,
          UnitPrices,           \* numbers a body may carry
          Quantities,           \* the same, among them NaN: one that is missing
          Currencies,
          MaxLines,             \* bound on the lines of an order
          PublisherMayReject    \* the console adapter never does; Kafka would

ASSUME IdsAssumption == NoId \notin Ids
ASSUME CurrenciesAssumption == "USD" \in Currencies
ASSUME MaxLinesAssumption == MaxLines \in Nat
ASSUME RejectAssumption == PublisherMayReject \in BOOLEAN

VARIABLES order,      \* the objects
          store,      \* the ids in the repository's map
          call,       \* what each request awaits
          reply,      \* what each request was last answered
          pulled,     \* the events taken out of each order (history)
          published   \* those whose publication was resolved (history)

ovars == <<order, store, call, reply, pulled, published>>

Statuses == {"none", "DRAFT", "PLACED", "PAID", "CANCELLED"}
Absent == [status |-> "none", lines |-> <<>>, events |-> <<>>]
Draft(lines) == [status |-> "DRAFT", lines |-> lines, events |-> <<>>]

OrderPlaced(total) == [type |-> "order.placed", total |-> total]
OrderPaid == [type |-> "order.paid", total |-> 0]

Idle == [at |-> "idle", id |-> NoId]
Answer(code, i, total) == [code |-> code, id |-> i, total |-> total]
NoAnswer == Answer("none", NoId, 0)

OInit == /\ order = [i \in Ids |-> Absent]
         /\ store = {}
         /\ call = [r \in Reqs |-> Idle]
         /\ reply = [r \in Reqs |-> NoAnswer]
         /\ pulled = [i \in Ids |-> <<>>]
         /\ published = [i \in Ids |-> <<>>]

-----------------------------------------------------------------------------
(* The aggregate's methods, on an object *)

\* quantity <= 0 is false of NaN
Orderable(quantity) == IF quantity \in {NaN, Infinity} THEN TRUE ELSE quantity > 0

\* place() past its guards: the status is set before the total may throw
Placed(o) ==
  LET total == Total(o.lines) IN
  IF total = Throws
  THEN [o EXCEPT !.status = "PLACED"]
  ELSE [o EXCEPT !.status = "PLACED", !.events = Append(@, OrderPlaced(total.amount))]

Paid(o) == [o EXCEPT !.status = "PAID", !.events = Append(@, OrderPaid)]

-----------------------------------------------------------------------------
(* Domain code holding an order.  A call that throws changes nothing,
   except in place(). *)

Create(i) ==
  /\ order[i] = Absent
  /\ order' = [order EXCEPT ![i] = Draft(<<>>)]
  /\ UNCHANGED <<store, call, reply, pulled, published>>

\* Mutant: lines may be added at any time
AddLineAnyTime(i, line) ==
  /\ order[i].status # "none"
  /\ Orderable(line.quantity)
  /\ Len(order[i].lines) < MaxLines
  /\ order' = [order EXCEPT ![i].lines = Append(@, line)]
  /\ UNCHANGED <<store, call, reply, pulled, published>>

AddLine(i, line) ==
  /\ order[i].status = "DRAFT"
  /\ Orderable(line.quantity)
  /\ Len(order[i].lines) < MaxLines
  /\ order' = [order EXCEPT ![i].lines = Append(@, line)]
  /\ UNCHANGED <<store, call, reply, pulled, published>>

Place(i) ==
  /\ order[i].status = "DRAFT"
  /\ order[i].lines # <<>>
  /\ order' = [order EXCEPT ![i] = Placed(@)]
  /\ UNCHANGED <<store, call, reply, pulled, published>>

MarkPaid(i) ==
  /\ order[i].status = "PLACED"
  /\ order' = [order EXCEPT ![i] = Paid(@)]
  /\ UNCHANGED <<store, call, reply, pulled, published>>

Cancel(i) ==
  /\ order[i].status \notin {"none", "PAID"}
  /\ order' = [order EXCEPT ![i].status = "CANCELLED"]
  /\ UNCHANGED <<store, call, reply, pulled, published>>

\* Mutant: the events are copied but not cleared
PullEventsKeeps(i) ==
  /\ i \notin store
  /\ order[i].events # <<>>
  /\ pulled' = [pulled EXCEPT ![i] = @ \o order[i].events]
  /\ published' = [published EXCEPT ![i] = @ \o order[i].events]
  /\ UNCHANGED <<order, store, call, reply>>

\* Only the use case pulls the events of a stored order
PullEvents(i) ==
  /\ i \notin store
  /\ order[i].events # <<>>
  /\ order' = [order EXCEPT ![i].events = <<>>]
  /\ pulled' = [pulled EXCEPT ![i] = @ \o order[i].events]
  /\ published' = [published EXCEPT ![i] = @ \o order[i].events]
  /\ UNCHANGED <<store, call, reply>>

-----------------------------------------------------------------------------
(* Requests.  body is what POST /orders carries: pairs of numbers. *)

Items == [unitPrice : UnitPrices, quantity : Quantities]
Bodies == UNION {[1 .. n -> Items] : n \in 0 .. MaxLines}

Refused(body) ==
  \/ body = <<>>
  \/ \E n \in DOMAIN body : Of(body[n].unitPrice, "USD", 0) = Throws \/ ~Orderable(body[n].quantity)
Built(body) ==
  Draft([n \in DOMAIN body |-> [unitPrice |-> Of(body[n].unitPrice, "USD", 0),
                                quantity  |-> body[n].quantity]])

Fails(body) == IF Refused(body) THEN TRUE ELSE Total(Built(body).lines) = Throws

\* The in-memory repository, and the publisher
Save(i) == store' = store \cup {i}
FindById(i) == i \in store
Publish(i, events) == published' = [published EXCEPT ![i] = @ \o events]

\* execute() up to its first await; save has stored the object by then
Execute(r, i, body) ==
  /\ call[r] = Idle
  /\ order[i] = Absent
  /\ ~Fails(body)
  /\ order' = [order EXCEPT ![i] = Placed(Built(body))]
  /\ Save(i)
  /\ call' = [call EXCEPT ![r] = [at |-> "save", id |-> i]]
  /\ reply' = [reply EXCEPT ![r] = NoAnswer]
  /\ UNCHANGED <<pulled, published>>

\* ... where a throw leaves nothing behind: the new object is garbage
ExecuteThrows(r, body) ==
  /\ call[r] = Idle
  /\ Fails(body)
  /\ reply' = [reply EXCEPT ![r] = Answer("error", NoId, 0)]
  /\ UNCHANGED <<order, store, call, pulled, published>>

\* Mutant: publishAll is forgotten
PublishAllForgotten(r) ==
  /\ call[r].at = "save"
  /\ call' = [call EXCEPT ![r].at = "publish"]
  /\ UNCHANGED <<order, store, reply, pulled, published>>

\* The save is resolved: pull the events and publish them
PublishAll(r) ==
  LET i == call[r].id IN
  /\ call[r].at = "save"
  /\ order' = [order EXCEPT ![i].events = <<>>]
  /\ pulled' = [pulled EXCEPT ![i] = @ \o order[i].events]
  /\ Publish(i, order[i].events)
  /\ call' = [call EXCEPT ![r].at = "publish"]
  /\ UNCHANGED <<store, reply>>

\* The publisher rejects events that are no longer in the order
PublishRejected(r) ==
  LET i == call[r].id IN
  /\ PublisherMayReject
  /\ call[r].at = "save"
  /\ order' = [order EXCEPT ![i].events = <<>>]
  /\ pulled' = [pulled EXCEPT ![i] = @ \o order[i].events]
  /\ call' = [call EXCEPT ![r] = Idle]
  /\ reply' = [reply EXCEPT ![r] = Answer("error", i, 0)]
  /\ UNCHANGED <<store, published>>

\* publishAll is resolved: total() runs once more, for the answer
Return(r) ==
  LET i == call[r].id
      total == Total(order[i].lines) IN
  /\ call[r].at = "publish"
  /\ call' = [call EXCEPT ![r] = Idle]
  /\ reply' = [reply EXCEPT ![r] = IF total = Throws THEN Answer("error", i, 0)
                                   ELSE Answer("created", i, total.amount)]
  /\ UNCHANGED <<order, store, pulled, published>>

\* GET /orders/:id; the total is computed again for every answer
Get(r, i) ==
  LET total == Total(order[i].lines) IN
  /\ call[r] = Idle
  /\ reply' = [reply EXCEPT ![r] = IF ~FindById(i) THEN Answer("missing", i, 0)
                                   ELSE IF total = Throws THEN Answer("error", i, 0)
                                   ELSE Answer("found", i, total.amount)]
  /\ UNCHANGED <<order, store, call, pulled, published>>

-----------------------------------------------------------------------------
\* A line of domain code: any Money it could make
LineSet == [unitPrice : {Of(p, c, 0) : p \in UnitPrices, c \in Currencies}, quantity : Quantities]
Lines == {line \in LineSet : line.unitPrice # Throws}

Domain(i) == \/ Create(i) \/ Place(i) \/ MarkPaid(i) \/ Cancel(i) \/ PullEvents(i)
             \/ \E line \in Lines : AddLine(i, line)
Request(r) == \/ \E i \in Ids : Get(r, i) \/ \E body \in Bodies : Execute(r, i, body)
              \/ \E body \in Bodies : ExecuteThrows(r, body)
Continue(r) == PublishAll(r) \/ PublishRejected(r) \/ Return(r)

ONext == \/ \E i \in Ids : Domain(i)
         \/ \E r \in Reqs : Request(r) \/ Continue(r)

OSpec == OInit /\ [][ONext]_ovars

-----------------------------------------------------------------------------
Priced(o) == Total(o.lines) # Throws
Placement(o) == OrderPlaced(Total(o.lines).amount)
Recorded(o) == IF Priced(o) THEN {Placement(o), OrderPaid} ELSE {OrderPaid}

\* Types, and who waits for what: a new order is awaited by its request only,
\* its events are all in it until they are published
OTypeOK ==
  /\ order = [i \in Ids |-> order[i]]
  /\ \A i \in Ids :
       /\ order[i] \in [status : Statuses, lines : Seq(LineSet), events : Seq(Recorded(order[i]))]
       /\ pulled[i] \in Seq(Recorded(order[i])) /\ published[i] \in Seq(Recorded(order[i]))
       /\ published[i] # <<>> => pulled[i] # <<>>
  /\ pulled = [i \in Ids |-> pulled[i]] /\ published = [i \in Ids |-> published[i]]
  /\ store \subseteq Ids
  /\ call \in [Reqs -> [at : {"idle", "save", "publish"}, id : Ids \cup {NoId}]]
  /\ reply = [r \in Reqs |-> Answer(reply[r].code, reply[r].id, reply[r].total)]
OCallsOK == \A r \in Reqs : LET i == call[r].id IN
  /\ call[r].at = "idle" => i = NoId
  /\ call[r].at # "idle" => i \in store /\ \A q \in Reqs : call[q].id = i => q = r
  /\ call[r].at = "save" => pulled[i] = <<>> /\ published[i] = <<>>
  /\ call[r].at = "publish" => published[i] # <<>> /\ published[i] = pulled[i]
OrdersOK == OTypeOK /\ OCallsOK

\* The events ever recorded tell the life of the order: placed once, with the
\* total it still has, then paid once; nothing twice, nothing out of order,
\* whoever pulled them when.  Where place() threw half-way, only the payment
\* can follow.
Tells(s, o) ==
  IF Priced(o)
  THEN \/ o.status \in {"none", "DRAFT"} /\ s = <<>>
       \/ o.status = "PLACED" /\ s = <<Placement(o)>>
       \/ o.status = "PAID" /\ s = <<Placement(o), OrderPaid>>
       \/ o.status = "CANCELLED" /\ s \in {<<>>, <<Placement(o)>>}
  ELSE s = IF o.status = "PAID" THEN <<OrderPaid>> ELSE <<>>
Story(i) == pulled[i] \o order[i].events
EventsTellStory == \A i \in Ids : Tells(Story(i), order[i])

\* A stored order was placed completely, whatever domain code does to it
\* later: its total never throws, so GET /orders/:id never fails on it, and
\* its placement was recorded.
StoredCanBeShown == \A i \in store :
  /\ Priced(order[i]) /\ order[i].status \in {"PLACED", "PAID", "CANCELLED"}
  /\ Story(i) # <<>>

\* What clients were told agrees with the order and with the event: POST,
\* every GET and OrderPlaced name one total.
RepliesAgree == \A r \in Reqs :
  reply[r].code \in {"created", "found"} =>
    LET i == reply[r].id IN
    /\ i \in store /\ reply[r].total = Total(order[i].lines).amount
    /\ Story(i)[1] = OrderPlaced(reply[r].total)

\* POST is answered only after the event went out: no client knows an order
\* that the rest of the system will not hear of.
AckedMeansPublished == \A r \in Reqs :
  reply[r].code = "created" => LET i == reply[r].id IN
    i \in Ids /\ published[i] # <<>> /\ published[i][1].type = "order.placed"

\* No order is lost silently: when a request that saved one goes on, all that
\* was ever recorded of it is published, its placement with the total it still
\* has first, also when it was paid or cancelled meanwhile; or the request is
\* refused (execute saves, then awaits publishAll).
AnnouncedOrRefused == [][\A r \in Reqs :
  call[r].at = "save" /\ call'[r] # call[r] =>
    LET i == call[r].id IN
    \/ published'[i] = Story(i) /\ Head(published'[i]) = Placement(order'[i])
    \/ reply'[r] = Answer("error", i, 0)]_ovars

\* events.ts:6 says aggregates record events as they change state: an order
\* that is PLACED or PAID has recorded so (see the run half_placed).
EventsFollowStatus == \A i \in Ids :
  order[i].status \in {"PLACED", "PAID"} =>
    \E n \in DOMAIN Story(i) : Story(i)[n].type = "order.placed"
=============================================================================
