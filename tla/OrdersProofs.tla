---------------------------- MODULE OrdersProofs ----------------------------
(***************************************************************************)
(* Proofs about Orders, for any orders, requests, lines and publisher.     *)
(* Nothing is used of Total and Of: what is proved does not depend on how  *)
(* money is counted, only on when a total is taken.                        *)
(***************************************************************************)
EXTENDS Orders, TLAPS, SequenceTheorems

\* What is true of an order o with the events p pulled from it, b published
Good(o, p, b) ==
  /\ o \in [status : Statuses, lines : Seq(LineSet), events : Seq(Recorded(o))]
  /\ p \in Seq(Recorded(o)) /\ b \in Seq(Recorded(o))
  /\ b # <<>> => p # <<>>
  /\ Tells(p \o o.events, o)

Stored(o, p) == /\ Priced(o) /\ o.status \in {"PLACED", "PAID", "CANCELLED"}
                /\ p \o o.events # <<>>

\* Only empty sequences concatenate to the empty one
LEMMA ConcatEmpty ==
  ASSUME NEW S, NEW s \in Seq(S), NEW t \in Seq(S), s \o t = <<>>
  PROVE  s = <<>> /\ t = <<>>
<1>1. Len(s) + Len(t) = 0 /\ Len(s) \in Nat /\ Len(t) \in Nat
  OBVIOUS
<1>2. Len(s) = 0 /\ Len(t) = 0
  BY <1>1
<1>. QED BY <1>2

\* Appending to the second of two sequences appends to both
LEMMA ConcatAppend ==
  ASSUME NEW S, NEW s \in Seq(S), NEW t \in Seq(S), NEW e
  PROVE  s \o Append(t, e) = Append(s \o t, e)
  OBVIOUS

\* Changing the fields of an order
IsOrder(o) == o = [status |-> o.status, lines |-> o.lines, events |-> o.events]

\* An update of one field keeps the others
LEMMA Fields ==
  ASSUME NEW o, IsOrder(o), NEW x, NEW y
  PROVE  /\ [o EXCEPT !.status = x] = [status |-> x, lines |-> o.lines, events |-> o.events]
         /\ [o EXCEPT !.lines = x] = [status |-> o.status, lines |-> x, events |-> o.events]
         /\ [o EXCEPT !.events = x] = [status |-> o.status, lines |-> o.lines, events |-> x]
         /\ [o EXCEPT !.status = x, !.events = y] = [status |-> x, lines |-> o.lines, events |-> y]
<1>1. PICK u, v, w : o = [status |-> u, lines |-> v, events |-> w]
  BY DEF IsOrder
<1>2. o.status = u /\ o.lines = v /\ o.events = w
  BY <1>1
<1>3. [o EXCEPT !.status = x] = [status |-> x, lines |-> v, events |-> w]
  BY <1>1
<1>4. [o EXCEPT !.lines = x] = [status |-> u, lines |-> x, events |-> w]
  BY <1>1
<1>5. [o EXCEPT !.events = x] = [status |-> u, lines |-> v, events |-> x]
  BY <1>1
<1>6. [o EXCEPT !.status = x, !.events = y] = [[o EXCEPT !.status = x] EXCEPT !.events = y]
  OBVIOUS
<1>7. [[status |-> x, lines |-> v, events |-> w] EXCEPT !.events = y]
        = [status |-> x, lines |-> v, events |-> y]
  OBVIOUS
<1>. QED BY <1>2, <1>3, <1>4, <1>5, <1>6, <1>7

\* Appending to sequences of length zero and one
LEMMA AppendOne ==
  ASSUME NEW x, NEW y
  PROVE  Append(<<>>, x) = <<x>> /\ Append(<<x>>, y) = <<x, y>>
<1> DEFINE S == {x, y}
           s == Append(<<x>>, y)
           t == <<x, y>>
<1>1. s \in Seq(S) /\ t \in Seq(S)
  OBVIOUS
<1>2. Len(s) = 2 /\ s[1] = x /\ s[2] = y /\ Len(t) = 2 /\ t[1] = x /\ t[2] = y
  OBVIOUS
<1> HIDE DEF S, s, t
<1>3. \A k \in 1 .. Len(s) : s[k] = t[k]
  BY <1>2
<1>4. s = t
  BY <1>1, <1>2, <1>3, SeqEqual
<1>5. Append(<<>>, x) = <<x>>
  OBVIOUS
<1>. QED BY <1>4, <1>5 DEF s, t

\* A good order has the fields of an order
LEMMA GoodIsOrder ==
  ASSUME NEW o, NEW p, NEW b, Good(o, p, b)
  PROVE  IsOrder(o)
  BY DEF Good, IsOrder

\* A draft has no events, pulled or pending
LEMMA DraftSilent ==
  ASSUME NEW o, NEW p, NEW b, Good(o, p, b), o.status \in {"none", "DRAFT"}
  PROVE  p = <<>> /\ b = <<>> /\ o.events = <<>>
<1>1. p \o o.events = <<>>
  BY DEF Good, Tells
<1>2. p \in Seq(Recorded(o)) /\ o.events \in Seq(Recorded(o))
  BY DEF Good
<1>3. p = <<>> /\ o.events = <<>>
  BY <1>1, <1>2, ConcatEmpty
<1>. QED BY <1>3 DEF Good

\* An order with the same lines has the same total
LEMMA SameLines ==
  ASSUME NEW o, NEW n, n.lines = o.lines
  PROVE  (Priced(n) <=> Priced(o)) /\ Placement(n) = Placement(o) /\ Recorded(n) = Recorded(o)
  BY DEF Priced, Placement, Recorded

\* addLine() on a draft
LEMMA AddLineGood ==
  ASSUME NEW o, NEW p, NEW b, Good(o, p, b), o.status = "DRAFT", NEW line \in LineSet
  PROVE  Good([o EXCEPT !.lines = Append(@, line)], p, b)
<1> DEFINE n == [o EXCEPT !.lines = Append(@, line)]
<1>1. p = <<>> /\ b = <<>> /\ o.events = <<>>
  BY DraftSilent
<1>2. o \in [status : Statuses, lines : Seq(LineSet), events : Seq(Recorded(o))]
  BY DEF Good
<1>3. n = [status |-> "DRAFT", lines |-> Append(o.lines, line), events |-> <<>>]
  <2> DEFINE l == Append(o.lines, line)
  <2>1. IsOrder(o) /\ n = [o EXCEPT !.lines = l]
    BY GoodIsOrder
  <2> HIDE DEF l, n
  <2>2. n = [status |-> o.status, lines |-> l, events |-> o.events]
    BY <2>1, Fields
  <2>. QED BY <1>1, <2>2 DEF l
<1>4. Append(o.lines, line) \in Seq(LineSet)
  BY <1>2
<1> HIDE DEF n
<1>5. p \o n.events = <<>>
  BY <1>1, <1>3
<1>6. Tells(p \o n.events, n)
  BY <1>3, <1>5 DEF Tells
<1>7. n \in [status : Statuses, lines : Seq(LineSet), events : Seq(Recorded(n))]
  BY <1>3, <1>4 DEF Statuses
<1>8. Good(n, p, b)
  BY <1>1, <1>6, <1>7 DEF Good
<1>. QED BY <1>8 DEF n

\* create(), and a draft with its lines, have recorded nothing
LEMMA DraftGood ==
  ASSUME NEW lines \in Seq(LineSet)
  PROVE  Good(Draft(lines), <<>>, <<>>)
  BY DEF Good, Draft, Tells, Statuses

\* place() on a draft, whether total() throws or not
LEMMA PlacedGood ==
  ASSUME NEW o, NEW p, NEW b, Good(o, p, b), o.status = "DRAFT"
  PROVE  /\ Good(Placed(o), p, b) /\ Placed(o).lines = o.lines
         /\ Priced(o) => Stored(Placed(o), p)
<1> DEFINE n == Placed(o)
<1>1. p = <<>> /\ b = <<>> /\ o.events = <<>>
  BY DraftSilent
<1>2. o \in [status : Statuses, lines : Seq(LineSet), events : Seq(Recorded(o))]
  BY DEF Good
<1>3. CASE Priced(o)
  <2>1. n = [status |-> "PLACED", lines |-> o.lines, events |-> <<Placement(o)>>]
    <3>1. n = [o EXCEPT !.status = "PLACED", !.events = Append(@, Placement(o))]
      BY <1>3 DEF Placed, Priced, Placement
    <3>2. Append(o.events, Placement(o)) = <<Placement(o)>>
      BY <1>1, AppendOne
    <3> HIDE DEF n
    <3>. QED BY <1>2, <3>1, <3>2, Fields, GoodIsOrder
  <2> HIDE DEF n
  <2>2. Priced(n) /\ Placement(n) = Placement(o) /\ Recorded(n) = {Placement(o), OrderPaid}
    BY <1>3, <2>1, SameLines DEF Recorded
  <2>3. n \in [status : Statuses, lines : Seq(LineSet), events : Seq(Recorded(n))]
    BY <1>2, <2>1, <2>2 DEF Statuses
  <2>4. p \o n.events = <<Placement(o)>>
    BY <1>1, <2>1
  <2>5. Tells(p \o n.events, n)
    BY <2>1, <2>2, <2>4 DEF Tells
  <2>6. Good(n, p, b)
    BY <1>1, <2>3, <2>5 DEF Good
  <2>7. Stored(n, p)
    BY <2>1, <2>2, <2>4 DEF Stored
  <2>. QED BY <2>1, <2>6, <2>7 DEF n
<1>4. CASE ~Priced(o)
  <2>1. n = [status |-> "PLACED", lines |-> o.lines, events |-> <<>>]
    <3>1. n = [o EXCEPT !.status = "PLACED"]
      BY <1>4 DEF Placed, Priced
    <3> HIDE DEF n
    <3>. QED BY <1>1, <1>2, <3>1, Fields, GoodIsOrder
  <2> HIDE DEF n
  <2>2. ~Priced(n)
    BY <1>4, <2>1, SameLines
  <2>3. n \in [status : Statuses, lines : Seq(LineSet), events : Seq(Recorded(n))]
    BY <1>2, <2>1 DEF Statuses
  <2>4. p \o n.events = <<>>
    BY <1>1, <2>1
  <2>5. Tells(p \o n.events, n)
    BY <2>1, <2>2, <2>4 DEF Tells
  <2>6. Good(n, p, b)
    BY <1>1, <2>3, <2>5 DEF Good
  <2>. QED BY <1>4, <2>1, <2>6 DEF n
<1>. QED BY <1>3, <1>4

\* markPaid() on a placed order
LEMMA PaidGood ==
  ASSUME NEW o, NEW p, NEW b, Good(o, p, b), o.status = "PLACED"
  PROVE  /\ Good(Paid(o), p, b) /\ Paid(o).lines = o.lines
         /\ Stored(o, p) => Stored(Paid(o), p)
<1> DEFINE n == Paid(o)
<1>1. /\ o \in [status : Statuses, lines : Seq(LineSet), events : Seq(Recorded(o))]
      /\ p \in Seq(Recorded(o)) /\ b \in Seq(Recorded(o))
  BY DEF Good
<1>2. n = [status |-> "PAID", lines |-> o.lines, events |-> Append(o.events, OrderPaid)]
  <2> DEFINE e == Append(o.events, OrderPaid)
  <2>1. IsOrder(o) /\ n = [o EXCEPT !.status = "PAID", !.events = e]
    BY GoodIsOrder DEF Paid
  <2> HIDE DEF e, n
  <2>2. n = [status |-> "PAID", lines |-> o.lines, events |-> e]
    BY <2>1, Fields
  <2>. QED BY <2>2 DEF e
<1> HIDE DEF n
<1>3. (Priced(n) <=> Priced(o)) /\ Placement(n) = Placement(o) /\ Recorded(n) = Recorded(o)
  BY <1>2, SameLines
<1>4. OrderPaid \in Recorded(o)
  BY DEF Recorded
<1>5. n \in [status : Statuses, lines : Seq(LineSet), events : Seq(Recorded(n))]
  BY <1>1, <1>2, <1>3, <1>4 DEF Statuses
<1>6. p \o n.events = Append(p \o o.events, OrderPaid)
  BY <1>1, <1>2, ConcatAppend
<1>7. p \o o.events = IF Priced(o) THEN <<Placement(o)>> ELSE <<>>
  BY DEF Good, Tells
<1>8. p \o n.events = IF Priced(o) THEN <<Placement(o), OrderPaid>> ELSE <<OrderPaid>>
  <2>1. CASE Priced(o)
    BY <1>6, <1>7, <2>1, AppendOne
  <2>2. CASE ~Priced(o)
    BY <1>6, <1>7, <2>2, AppendOne
  <2>. QED BY <2>1, <2>2
<1>9. Tells(p \o n.events, n)
  BY <1>2, <1>3, <1>8 DEF Tells
<1>10. Good(n, p, b)
  BY <1>1, <1>3, <1>5, <1>9 DEF Good
<1>11. Stored(o, p) => Stored(n, p)
  <2>1. p \o n.events # <<>>
    BY <1>8
  <2>. QED BY <1>2, <1>3, <2>1 DEF Stored
<1>. QED BY <1>2, <1>10, <1>11 DEF n

\* cancel(), before payment
LEMMA CancelGood ==
  ASSUME NEW o, NEW p, NEW b, Good(o, p, b), o.status \notin {"none", "PAID"}
  PROVE  LET n == [o EXCEPT !.status = "CANCELLED"]
         IN  Good(n, p, b) /\ n.lines = o.lines /\ (Stored(o, p) => Stored(n, p))
<1> DEFINE n == [o EXCEPT !.status = "CANCELLED"]
<1>1. /\ o \in [status : Statuses, lines : Seq(LineSet), events : Seq(Recorded(o))]
      /\ p \in Seq(Recorded(o)) /\ b \in Seq(Recorded(o))
  BY DEF Good
<1>2. n = [status |-> "CANCELLED", lines |-> o.lines, events |-> o.events]
  BY <1>1, Fields, GoodIsOrder
<1> HIDE DEF n
<1>3. (Priced(n) <=> Priced(o)) /\ Placement(n) = Placement(o) /\ Recorded(n) = Recorded(o)
  BY <1>2, SameLines
<1>4. p \o o.events \in IF Priced(o) THEN {<<>>, <<Placement(o)>>} ELSE {<<>>}
  BY <1>1 DEF Good, Tells, Statuses
<1>5. Tells(p \o n.events, n)
  BY <1>2, <1>3, <1>4 DEF Tells
<1>6. n \in [status : Statuses, lines : Seq(LineSet), events : Seq(Recorded(n))]
  BY <1>1, <1>2, <1>3 DEF Statuses
<1>7. Good(n, p, b)
  BY <1>1, <1>3, <1>5, <1>6 DEF Good
<1>8. Stored(o, p) => Stored(n, p)
  BY <1>2, <1>3 DEF Stored
<1>. QED BY <1>2, <1>7, <1>8 DEF n

\* The events of o are pulled, s is all that was; c is what was published
Pulls(o, n, p, s) == n = [o EXCEPT !.events = <<>>] /\ s = p \o o.events
Sends(o, b, c) == c = b \/ c = b \o o.events

\* Pulling moves the events and changes nothing else
LEMMA PullGood ==
  ASSUME NEW o, NEW p, NEW b, Good(o, p, b), NEW n, NEW s, NEW c,
         Pulls(o, n, p, s), Sends(o, b, c)
  PROVE  Good(n, s, c) /\ n.lines = o.lines /\ (Stored(o, p) => Stored(n, s))
<1>1. /\ o \in [status : Statuses, lines : Seq(LineSet), events : Seq(Recorded(o))]
      /\ p \in Seq(Recorded(o)) /\ b \in Seq(Recorded(o))
      /\ b # <<>> => p # <<>>
  BY DEF Good
<1>2. n = [status |-> o.status, lines |-> o.lines, events |-> <<>>]
  BY <1>1, Fields, GoodIsOrder DEF Pulls
<1>3. s \in Seq(Recorded(o)) /\ c \in Seq(Recorded(o)) /\ s \o <<>> = s
  <2>1. o.events \in Seq(Recorded(o))
    BY <1>1
  <2>2. s \in Seq(Recorded(o)) /\ c \in Seq(Recorded(o))
    <3>1. p \o o.events \in Seq(Recorded(o)) /\ b \o o.events \in Seq(Recorded(o))
      BY <1>1, <2>1
    <3>. QED BY <1>1, <3>1 DEF Pulls, Sends
  <2>3. s \o <<>> = s
    BY <2>2
  <2>. QED BY <2>2, <2>3
<1>4. c # <<>> => s # <<>>
  <2>1. ASSUME p \o o.events = <<>> PROVE p = <<>> /\ o.events = <<>>
    BY <1>1, <2>1, ConcatEmpty
  <2>2. s = <<>> => c = <<>>
    BY <1>1, <2>1 DEF Pulls, Sends
  <2>. QED BY <2>2
<1>5. Tells(s, o)
  BY DEF Good, Pulls
<1>6. (Priced(n) <=> Priced(o)) /\ Placement(n) = Placement(o) /\ Recorded(n) = Recorded(o)
  BY <1>2, SameLines
<1>7. Tells(s \o n.events, n)
  BY <1>2, <1>3, <1>5, <1>6 DEF Tells
<1>8. n \in [status : Statuses, lines : Seq(LineSet), events : Seq(Recorded(n))]
  BY <1>1, <1>2, <1>6
<1>9. Good(n, s, c)
  BY <1>3, <1>4, <1>6, <1>7, <1>8 DEF Good
<1>10. Stored(o, p) => Stored(n, s)
  BY <1>2, <1>3, <1>6 DEF Stored, Pulls
<1>. QED BY <1>2, <1>9, <1>10

\* The first event of a stored order, wherever it is, is its placement
LEMMA StoryHead ==
  ASSUME NEW o, NEW p, NEW b, Good(o, p, b), Stored(o, p)
  PROVE  /\ (p \o o.events)[1] = Placement(o)
         /\ p # <<>> => p[1] = Placement(o)
<1>1. (p \o o.events)[1] = Placement(o)
  <2> DEFINE s == p \o o.events
  <2>1. Tells(s, o) /\ s # <<>> /\ Priced(o) /\ o.status \notin {"none", "DRAFT"}
    BY DEF Good, Stored
  <2> HIDE DEF s
  <2>2. s = <<Placement(o)>> \/ s = <<Placement(o), OrderPaid>>
    BY <2>1 DEF Tells
  <2>3. s[1] = Placement(o)
    BY <2>2
  <2>. QED BY <2>3 DEF s
<1>2. p \in Seq(Recorded(o)) /\ o.events \in Seq(Recorded(o))
  BY DEF Good
<1>3. p # <<>> => (p \o o.events)[1] = p[1]
  BY <1>2
<1>. QED BY <1>1, <1>3

-----------------------------------------------------------------------------
(* The inductive invariant, in three parts: the orders, the calls, the
   answers *)

Orderly ==
  /\ order = [i \in Ids |-> order[i]]
  /\ pulled = [i \in Ids |-> pulled[i]] /\ published = [i \in Ids |-> published[i]]
  /\ store \subseteq Ids
  /\ \A i \in Ids : Good(order[i], pulled[i], published[i])
  /\ \A i \in store : Stored(order[i], pulled[i])

Calling == /\ call \in [Reqs -> [at : {"idle", "save", "publish"}, id : Ids \cup {NoId}]]
           /\ OCallsOK

Telling == /\ reply = [r \in Reqs |-> Answer(reply[r].code, reply[r].id, reply[r].total)]
           /\ RepliesAgree /\ AckedMeansPublished

OInv == Orderly /\ Calling /\ Telling

\* The three parts imply what the runs check
LEMMA OrderlyMeans ==
  Orderly /\ Calling /\ Telling => OTypeOK /\ EventsTellStory /\ StoredCanBeShown
<1>. SUFFICES ASSUME Orderly, Calling, Telling
              PROVE  OTypeOK /\ EventsTellStory /\ StoredCanBeShown
  OBVIOUS
<1>1. OTypeOK
  BY DEF OTypeOK, Orderly, Calling, Telling, Good
<1>2. EventsTellStory
  BY DEF EventsTellStory, Story, Orderly, Good
<1>3. StoredCanBeShown
  BY DEF StoredCanBeShown, Story, Orderly, Stored
<1>. QED BY <1>1, <1>2, <1>3

\* A step that changes the order i only, and perhaps stores it
Others(i) == \A j \in Ids : j # i =>
  order'[j] = order[j] /\ pulled'[j] = pulled[j] /\ published'[j] = published[j]

Sets(i, n, q, c) == /\ order' = [order EXCEPT ![i] = n]
                    /\ pulled' = [pulled EXCEPT ![i] = q]
                    /\ published' = [published EXCEPT ![i] = c]

\* What such a step leaves
LEMMA Changed ==
  ASSUME Orderly, NEW i \in Ids, NEW n, NEW q, NEW c, Sets(i, n, q, c)
  PROVE  /\ order'[i] = n /\ pulled'[i] = q /\ published'[i] = c /\ Others(i)
         /\ order' = [j \in Ids |-> order'[j]] /\ pulled' = [j \in Ids |-> pulled'[j]]
         /\ published' = [j \in Ids |-> published'[j]]
<1>1. DOMAIN order = Ids /\ DOMAIN pulled = Ids /\ DOMAIN published = Ids
  BY DEF Orderly
<1>. QED BY <1>1 DEF Others, Sets

\* It keeps the orders orderly if the new one is good
LEMMA OneOrder ==
  ASSUME Orderly, NEW i \in Ids, Others(i),
         order' = [j \in Ids |-> order'[j]], pulled' = [j \in Ids |-> pulled'[j]],
         published' = [j \in Ids |-> published'[j]],
         Good(order'[i], pulled'[i], published'[i]),
         store' = store \/ store' = store \cup {i},
         i \in store' => Stored(order'[i], pulled'[i])
  PROVE  Orderly'
<1>1. store' \subseteq Ids
  BY DEF Orderly
<1>2. \A j \in Ids : Good(order'[j], pulled'[j], published'[j])
  BY DEF Orderly, Others
<1>3. \A j \in store' : Stored(order'[j], pulled'[j])
  BY <1>1 DEF Orderly, Others
<1>. QED BY <1>1, <1>2, <1>3 DEF Orderly

\* What was answered stays true: orders stay stored, with their lines, and
\* what was published of them stays.  q answers nothing new, or truly.
LEMMA Answers ==
  ASSUME Orderly, Orderly', Telling, store \subseteq store',
         \A j \in store : /\ order'[j].lines = order[j].lines
                          /\ published[j] # <<>> => published'[j] = published[j],
         reply' = [q \in Reqs |-> Answer(reply'[q].code, reply'[q].id, reply'[q].total)],
         \A q \in Reqs :
           \/ reply'[q] = reply[q]
           \/ /\ reply'[q].code \in {"created", "found"} =>
                   /\ reply'[q].id \in store'
                   /\ reply'[q].total = Total(order'[reply'[q].id].lines).amount
              /\ reply'[q].code = "created" =>
                   /\ published'[reply'[q].id] # <<>>
                   /\ published'[reply'[q].id][1].type = "order.placed"
  PROVE  Telling'
<1>1. ASSUME NEW q \in Reqs, NEW i, i = reply'[q].id, reply'[q].code \in {"created", "found"}
      PROVE  /\ i \in store' /\ reply'[q].total = Total(order'[i].lines).amount
             /\ (pulled'[i] \o order'[i].events)[1] = OrderPlaced(reply'[q].total)
  <2>1. i \in store' /\ reply'[q].total = Total(order'[i].lines).amount
    BY <1>1 DEF Telling, RepliesAgree
  <2>2. Good(order'[i], pulled'[i], published'[i]) /\ Stored(order'[i], pulled'[i])
    BY <2>1 DEF Orderly
  <2>3. (pulled'[i] \o order'[i].events)[1] = Placement(order'[i])
    BY <2>2, StoryHead
  <2>. QED BY <2>1, <2>3 DEF Placement
<1>2. RepliesAgree'
  BY <1>1 DEF RepliesAgree, Story
<1>3. ASSUME NEW q \in Reqs, reply'[q].code = "created"
      PROVE  LET i == reply'[q].id IN
             i \in Ids /\ published'[i] # <<>> /\ published'[i][1].type = "order.placed"
  <2>1. reply'[q].id \in Ids
    BY <1>1, <1>3 DEF Orderly
  <2>2. CASE reply'[q] = reply[q]
    BY <1>3, <2>1, <2>2 DEF Telling, RepliesAgree, AckedMeansPublished
  <2>3. CASE reply'[q] # reply[q]
    BY <1>3, <2>1, <2>3
  <2>. QED BY <2>2, <2>3
<1>4. AckedMeansPublished'
  BY <1>3 DEF AckedMeansPublished
<1>. QED BY <1>2, <1>4 DEF Telling

\* A step that answers nobody
LEMMA KeepsAnswers ==
  ASSUME Orderly, Orderly', Telling, reply' = reply, store \subseteq store',
         \A j \in store : /\ order'[j].lines = order[j].lines
                          /\ published[j] # <<>> => published'[j] = published[j]
  PROVE  Telling'
<1>1. reply' = [q \in Reqs |-> Answer(reply'[q].code, reply'[q].id, reply'[q].total)]
  BY DEF Telling
<1>. QED BY <1>1, Answers

\* A step that answers r truly
LEMMA NewAnswer ==
  ASSUME Orderly, Orderly', Telling, store \subseteq store',
         \A j \in store : /\ order'[j].lines = order[j].lines
                          /\ published[j] # <<>> => published'[j] = published[j],
         NEW r \in Reqs, NEW code, NEW i, NEW total,
         reply' = [reply EXCEPT ![r] = Answer(code, i, total)],
         code \in {"created", "found"} => i \in store' /\ total = Total(order'[i].lines).amount,
         code = "created" => published'[i] # <<>> /\ published'[i][1].type = "order.placed"
  PROVE  Telling'
<1>1. DOMAIN reply = Reqs
  BY DEF Telling
<1>2. /\ reply' = [q \in Reqs |-> reply'[q]] /\ reply'[r] = Answer(code, i, total)
      /\ \A q \in Reqs : q # r => reply'[q] = reply[q]
  BY <1>1
<1>3. /\ reply'[r].code = code /\ reply'[r].id = i /\ reply'[r].total = total
  BY <1>2 DEF Answer
<1>4. \A q \in Reqs : reply'[q] = Answer(reply'[q].code, reply'[q].id, reply'[q].total)
  <2>1. \A q \in Reqs : reply[q] = Answer(reply[q].code, reply[q].id, reply[q].total)
    BY DEF Telling
  <2>. QED BY <1>2, <1>3, <2>1
<1>5. reply' = [q \in Reqs |-> Answer(reply'[q].code, reply'[q].id, reply'[q].total)]
  BY <1>2, <1>4
<1>. QED BY <1>2, <1>3, <1>5, Answers

\* Domain code leaves what was pulled from a stored order, and its lines
LEMMA DomainStep ==
  ASSUME OInv, NEW i \in Ids, NEW n, NEW q, NEW c,
         Sets(i, n, q, c), UNCHANGED <<store, call, reply>>,
         Good(n, q, c),
         i \in store => /\ Stored(n, q) /\ n.lines = order[i].lines
                        /\ q = pulled[i] /\ c = published[i]
  PROVE  OInv'
<1>0. Orderly /\ Calling /\ Telling
  BY DEF OInv
<1>1. /\ order'[i] = n /\ pulled'[i] = q /\ published'[i] = c /\ Others(i)
      /\ order' = [j \in Ids |-> order'[j]] /\ pulled' = [j \in Ids |-> pulled'[j]]
      /\ published' = [j \in Ids |-> published'[j]]
  BY <1>0, Changed
<1>2. Orderly'
  BY <1>0, <1>1, OneOrder
<1>3. \A j \in store : /\ j \in Ids /\ order'[j].lines = order[j].lines
                       /\ pulled'[j] = pulled[j] /\ published'[j] = published[j]
  BY <1>0, <1>1 DEF Orderly, Others
<1>4. Calling'
  BY <1>0, <1>3 DEF Calling, OCallsOK
<1>5. Telling'
  BY <1>0, <1>2, <1>3, KeepsAnswers
<1>. QED BY <1>2, <1>4, <1>5 DEF OInv

\* The same for calls that pull nothing
LEMMA MethodStep ==
  ASSUME OInv, NEW i \in Ids, NEW n,
         order' = [order EXCEPT ![i] = n],
         UNCHANGED <<store, call, reply, pulled, published>>,
         Good(n, pulled[i], published[i]),
         i \in store => Stored(n, pulled[i]) /\ n.lines = order[i].lines
  PROVE  OInv'
<1>1. Sets(i, n, pulled[i], published[i])
  BY DEF OInv, Orderly, Sets
<1>. QED BY <1>1, DomainStep

\* What the invariant says of one order
LEMMA OrderOf ==
  ASSUME OInv, NEW i \in Ids
  PROVE  /\ Good(order[i], pulled[i], published[i])
         /\ i \in store => Stored(order[i], pulled[i])
  BY DEF OInv, Orderly

\* Domain code holding an order preserves the invariant
LEMMA DomainInv ==
  ASSUME OInv, NEW i \in Ids, Domain(i)
  PROVE  OInv'
<1> DEFINE o == order[i]
<1>0. /\ Good(o, pulled[i], published[i])
      /\ i \in store => Stored(o, pulled[i])
  BY OrderOf
<1>1. CASE Create(i)
  <2>1. o.status = "none" /\ i \notin store
    BY <1>0, <1>1 DEF Create, Absent, Stored
  <2>2. pulled[i] = <<>> /\ published[i] = <<>>
    BY <1>0, <2>1, DraftSilent
  <2>3. <<>> \in Seq(LineSet)
    OBVIOUS
  <2>4. Good(Draft(<<>>), pulled[i], published[i])
    BY <2>2, <2>3, DraftGood
  <2>. QED BY <1>1, <2>1, <2>4, MethodStep DEF Create
<1>2. CASE Place(i)
  <2>1. o.status = "DRAFT" /\ i \notin store /\ order' = [order EXCEPT ![i] = Placed(o)]
    BY <1>0, <1>2 DEF Place, Stored
  <2>2. Good(Placed(o), pulled[i], published[i])
    BY <1>0, <2>1, PlacedGood
  <2>. QED BY <1>2, <2>1, <2>2, MethodStep DEF Place
<1>3. CASE MarkPaid(i)
  <2>1. o.status = "PLACED" /\ order' = [order EXCEPT ![i] = Paid(o)]
    BY <1>3 DEF MarkPaid
  <2>2. /\ Good(Paid(o), pulled[i], published[i]) /\ Paid(o).lines = o.lines
        /\ i \in store => Stored(Paid(o), pulled[i])
    BY <1>0, <2>1, PaidGood
  <2>. QED BY <1>3, <2>1, <2>2, MethodStep DEF MarkPaid
<1>4. CASE Cancel(i)
  <2> DEFINE n == [o EXCEPT !.status = "CANCELLED"]
  <2>1. o.status \notin {"none", "PAID"} /\ order' = [order EXCEPT ![i] = n]
    BY <1>4 DEF Cancel
  <2>2. /\ Good(n, pulled[i], published[i]) /\ n.lines = o.lines
        /\ i \in store => Stored(n, pulled[i])
    BY <1>0, <2>1, CancelGood
  <2> HIDE DEF n
  <2>. QED BY <1>4, <2>1, <2>2, MethodStep DEF Cancel
<1>5. CASE PullEvents(i)
  <2> DEFINE n == [o EXCEPT !.events = <<>>]
             q == pulled[i] \o o.events
             c == published[i] \o o.events
  <2>1. i \notin store /\ Sets(i, n, q, c) /\ UNCHANGED <<store, call, reply>>
    BY <1>5 DEF PullEvents, Sets
  <2>2. Pulls(o, n, pulled[i], q) /\ Sends(o, published[i], c)
    BY DEF Pulls, Sends
  <2> HIDE DEF n, q, c
  <2>3. Good(n, q, c)
    BY <1>0, <2>2, PullGood
  <2>. QED BY <2>1, <2>3, DomainStep
<1>6. ASSUME NEW line \in Lines, AddLine(i, line) PROVE OInv'
  <2> DEFINE n == [o EXCEPT !.lines = Append(@, line)]
  <2>1. o.status = "DRAFT" /\ i \notin store /\ order' = [order EXCEPT ![i] = n]
    BY <1>0, <1>6 DEF AddLine, Stored
  <2>2. line \in LineSet
    BY DEF Lines
  <2>3. Good(n, pulled[i], published[i])
    BY <1>0, <2>1, <2>2, AddLineGood
  <2> HIDE DEF n
  <2>. QED BY <1>6, <2>1, <2>3, MethodStep DEF AddLine
<1>. QED BY <1>1, <1>2, <1>3, <1>4, <1>5, <1>6 DEF Domain

-----------------------------------------------------------------------------
(* Requests *)

\* A body that is not refused makes a draft whose lines are priced in USD
LEMMA BuiltGood ==
  ASSUME NEW body \in Bodies, ~Fails(body)
  PROVE  /\ Good(Placed(Built(body)), <<>>, <<>>)
         /\ Stored(Placed(Built(body)), <<>>)
<1> DEFINE lines == [n \in DOMAIN body |-> [unitPrice |-> Of(body[n].unitPrice, "USD", 0),
                                            quantity  |-> body[n].quantity]]
<1>1. lines \in Seq(LineSet)
  <2>1. PICK m \in 0 .. MaxLines : body \in [1 .. m -> Items]
    BY DEF Bodies
  <2>2. m \in Nat
    BY MaxLinesAssumption
  <2>3. ASSUME NEW n \in 1 .. m PROVE lines[n] \in LineSet
    <3>1. body[n].unitPrice \in UnitPrices /\ body[n].quantity \in Quantities
      BY <2>1 DEF Items
    <3>. QED BY <2>1, <3>1, CurrenciesAssumption DEF LineSet
  <2>4. lines \in [1 .. m -> LineSet]
    BY <2>1, <2>3
  <2>. QED BY <2>2, <2>4
<1>2. Built(body) = Draft(lines) /\ Draft(lines).status = "DRAFT"
  BY DEF Built, Draft
<1> HIDE DEF lines
<1>3. Good(Draft(lines), <<>>, <<>>)
  BY <1>1, DraftGood
<1>4. Priced(Draft(lines))
  BY <1>2 DEF Fails, Priced
<1>. QED BY <1>2, <1>3, <1>4, PlacedGood

\* execute() up to its first await preserves the invariant
LEMMA ExecuteInv ==
  ASSUME OInv, NEW r \in Reqs, NEW i \in Ids, NEW body \in Bodies, Execute(r, i, body)
  PROVE  OInv'
<1> DEFINE n == Placed(Built(body))
<1>0. Orderly /\ Calling /\ Telling /\ ~Fails(body) /\ order[i] = Absent
  BY DEF OInv, Execute, Save
<1>1. pulled[i] = <<>> /\ published[i] = <<>> /\ i \notin store
  <2>1. order[i].status = "none"
    BY <1>0 DEF Absent
  <2>. QED BY <2>1, OrderOf, DraftSilent DEF Stored
<1>2. Good(n, <<>>, <<>>) /\ Stored(n, <<>>)
  BY <1>0, BuiltGood
<1> HIDE DEF n
<1>3. Sets(i, n, <<>>, <<>>) /\ store' = store \cup {i}
  BY <1>0, <1>1 DEF Execute, Save, Sets, n, Orderly
<1>4. /\ Orderly' /\ Others(i)
      /\ pulled'[i] = <<>> /\ published'[i] = <<>>
  <2>1. /\ order'[i] = n /\ pulled'[i] = <<>> /\ published'[i] = <<>> /\ Others(i)
        /\ order' = [j \in Ids |-> order'[j]] /\ pulled' = [j \in Ids |-> pulled'[j]]
        /\ published' = [j \in Ids |-> published'[j]]
    BY <1>0, <1>3, Changed
  <2>. QED BY <1>0, <1>2, <1>3, <2>1, OneOrder
<1>5. Calling'
  <2>1. call' = [call EXCEPT ![r] = [at |-> "save", id |-> i]]
    BY DEF Execute, Save
  <2>2. call'[r] = [at |-> "save", id |-> i] /\ \A q \in Reqs : q # r => call'[q] = call[q]
    BY <1>0, <2>1 DEF Calling
  <2>3. \A q \in Reqs : call[q].id # i
    BY <1>0, <1>1, IdsAssumption DEF Calling, OCallsOK
  <2>4. \A q \in Reqs : call[q].at # "idle" => call[q].id \in store /\ call[q].id \in Ids
    BY <1>0 DEF Calling, OCallsOK, Orderly
  <2>5. call' \in [Reqs -> [at : {"idle", "save", "publish"}, id : Ids \cup {NoId}]]
    BY <1>0, <2>1 DEF Calling
  <2>6. OCallsOK'
    BY <1>0, <1>3, <1>4, <2>2, <2>3, <2>4 DEF Calling, OCallsOK, Others
  <2>. QED BY <2>5, <2>6 DEF Calling
<1>6. Telling'
  <2>1. reply' = [reply EXCEPT ![r] = NoAnswer]
    BY DEF Execute, Save
  <2>2. \A j \in store : /\ order'[j].lines = order[j].lines
                         /\ published[j] # <<>> => published'[j] = published[j]
    BY <1>0, <1>1, <1>4 DEF Orderly, Others
  <2>. QED BY <1>0, <1>3, <1>4, <2>1, <2>2, NewAnswer DEF NoAnswer
<1>. QED BY <1>4, <1>5, <1>6 DEF OInv

\* A step that changes only what r awaits and is answered, or only the latter
LEMMA AnswerInv ==
  ASSUME OInv, NEW r \in Reqs, NEW code, NEW i, NEW total,
         UNCHANGED <<order, store, pulled, published>>,
         call' = call \/ call' = [call EXCEPT ![r] = Idle],
         reply' = [reply EXCEPT ![r] = Answer(code, i, total)],
         code \in {"created", "found"} => i \in store /\ total = Total(order[i].lines).amount,
         code = "created" => published[i] # <<>> /\ published[i][1].type = "order.placed"
  PROVE  OInv'
<1>0. Orderly /\ Calling /\ Telling
  BY DEF OInv
<1>1. Orderly'
  BY <1>0 DEF Orderly
<1>2. Calling'
  <2>1. \A q \in Reqs : call'[q] = call[q] \/ call'[q] = [at |-> "idle", id |-> NoId]
    BY <1>0 DEF Calling, Idle
  <2>2. call' \in [Reqs -> [at : {"idle", "save", "publish"}, id : Ids \cup {NoId}]]
    BY <1>0 DEF Calling, Idle
  <2>3. OCallsOK'
    BY <1>0, <2>1, IdsAssumption DEF Calling, OCallsOK, Orderly
  <2>. QED BY <2>2, <2>3 DEF Calling
<1>3. Telling'
  BY <1>0, <1>1, NewAnswer
<1>. QED BY <1>1, <1>2, <1>3 DEF OInv

\* What a call that awaits save or publishAll knows of its order
LEMMA Awaited ==
  ASSUME OInv, NEW r \in Reqs, call[r].at # "idle"
  PROVE  LET i == call[r].id IN
         /\ i \in store /\ i \in Ids
         /\ \A q \in Reqs : call[q].id = i => q = r
         /\ call[r].at = "save" => pulled[i] = <<>> /\ published[i] = <<>>
         /\ call[r].at = "publish" => published[i] # <<>> /\ published[i] = pulled[i]
  BY DEF OInv, Calling, OCallsOK, Orderly

\* So does every request
LEMMA RequestInv ==
  ASSUME OInv, NEW r \in Reqs, Request(r)
  PROVE  OInv'
<1>1. ASSUME NEW i \in Ids, Get(r, i) PROVE OInv'
  <2> DEFINE total == Total(order[i].lines)
  <2>1. CASE i \notin store
    BY <1>1, <2>1, AnswerInv DEF Get, FindById
  <2>2. CASE i \in store /\ total = Throws
    <3>1. /\ reply' = [reply EXCEPT ![r] = Answer("error", i, 0)]
          /\ UNCHANGED <<order, store, call, pulled, published>>
      BY <1>1, <2>2 DEF Get, FindById
    <3>. QED BY <3>1, AnswerInv
  <2>3. CASE i \in store /\ total # Throws
    BY <1>1, <2>3, AnswerInv DEF Get, FindById
  <2>. QED BY <2>1, <2>2, <2>3
<1>2. ASSUME NEW body \in Bodies, ExecuteThrows(r, body) PROVE OInv'
  BY <1>2, AnswerInv DEF ExecuteThrows
<1>. QED BY <1>1, <1>2, ExecuteInv DEF Request

\* The answer of POST: its order is still there, and was published
LEMMA ReturnInv ==
  ASSUME OInv, NEW r \in Reqs, Return(r)
  PROVE  OInv'
<1> DEFINE i == call[r].id
           total == Total(order[i].lines)
<1>1. i \in store /\ published[i] # <<>> /\ published[i] = pulled[i]
  BY Awaited DEF Return
<1>2. published[i][1].type = "order.placed"
  <2>1. Good(order[i], pulled[i], published[i]) /\ Stored(order[i], pulled[i])
    BY <1>1 DEF OInv, Orderly
  <2>2. published[i][1] = Placement(order[i])
    BY <1>1, <2>1, StoryHead
  <2>. QED BY <2>2 DEF Placement, OrderPlaced
<1>3. CASE total = Throws
  BY <1>3, AnswerInv DEF Return
<1>4. CASE total # Throws
  BY <1>1, <1>2, <1>4, AnswerInv DEF Return
<1>. QED BY <1>3, <1>4

\* The events of a stored order leave it; c is what is published
LEMMA PulledByRequest ==
  ASSUME OInv, NEW i \in store, published[i] = <<>>,
         NEW n, NEW q, NEW c,
         Pulls(order[i], n, pulled[i], q), Sends(order[i], published[i], c),
         Sets(i, n, q, c), store' = store
  PROVE  /\ Orderly' /\ Others(i)
         /\ q # <<>> /\ pulled'[i] = q /\ published'[i] = c
         /\ \A j \in store : /\ order'[j].lines = order[j].lines
                             /\ published[j] # <<>> => published'[j] = published[j]
<1>1. i \in Ids /\ Orderly
  BY DEF OInv, Orderly
<1>2. Good(order[i], pulled[i], published[i]) /\ Stored(order[i], pulled[i])
  BY <1>1 DEF Orderly
<1>3. Good(n, q, c) /\ n.lines = order[i].lines /\ Stored(n, q)
  BY <1>2, PullGood
<1>4. q # <<>>
  BY <1>2 DEF Pulls, Stored
<1>5. /\ order'[i] = n /\ pulled'[i] = q /\ published'[i] = c /\ Others(i)
      /\ order' = [j \in Ids |-> order'[j]] /\ pulled' = [j \in Ids |-> pulled'[j]]
      /\ published' = [j \in Ids |-> published'[j]]
  BY <1>1, Changed
<1>6. Orderly'
  BY <1>1, <1>2, <1>3, <1>5, OneOrder
<1>7. \A j \in store : j \in Ids
  BY <1>1 DEF Orderly
<1>. QED BY <1>1, <1>3, <1>4, <1>5, <1>6, <1>7 DEF Others

\* Publishing: the events move from the order to the publisher
LEMMA PublishAllInv ==
  ASSUME OInv, NEW r \in Reqs, PublishAll(r)
  PROVE  OInv'
<1>1. PICK i, n, q : i = call[r].id /\ Pulls(order[i], n, pulled[i], q)
  BY DEF Pulls
<1>2. /\ call[r].at = "save" /\ UNCHANGED <<store, reply>>
      /\ call' = [call EXCEPT ![r].at = "publish"]
  BY <1>1 DEF PublishAll, Publish
<1>3. published[i] = <<>> /\ pulled[i] = <<>> /\ i \in Ids /\ i \in store
  BY <1>1, <1>2, Awaited
<1>4. Sends(order[i], published[i], q) /\ Sets(i, n, q, q)
  BY <1>1, <1>3 DEF PublishAll, Publish, Pulls, Sends, Sets
<1>5. /\ Orderly' /\ Others(i)
      /\ q # <<>> /\ pulled'[i] = q /\ published'[i] = q
      /\ \A j \in store : /\ order'[j].lines = order[j].lines
                          /\ published[j] # <<>> => published'[j] = published[j]
  BY <1>1, <1>2, <1>3, <1>4, PulledByRequest
<1>6. Calling'
  <2>1. Calling /\ Orderly
    BY DEF OInv
  <2>2. /\ call'[r].at = "publish" /\ call'[r].id = i
        /\ \A p \in Reqs : p # r => call'[p] = call[p]
        /\ call' \in [Reqs -> [at : {"idle", "save", "publish"}, id : Ids \cup {NoId}]]
    BY <1>1, <1>2, <2>1 DEF Calling
  <2>3. \A p \in Reqs : call[p].id = i => p = r
    BY <1>1, <1>2, Awaited
  <2>4. \A p \in Reqs : call[p].at # "idle" => call[p].id \in store /\ call[p].id \in Ids
    BY <2>1 DEF Calling, OCallsOK, Orderly
  <2>5. OCallsOK'
    BY <1>2, <1>3, <1>5, <2>1, <2>2, <2>3, <2>4 DEF Calling, OCallsOK, Others
  <2>. QED BY <2>2, <2>5 DEF Calling
<1>7. Telling'
  BY <1>2, <1>5, KeepsAnswers DEF OInv
<1>. QED BY <1>5, <1>6, <1>7 DEF OInv

\* The publisher rejects: they are gone, and the client sees a 500
LEMMA PublishRejectedInv ==
  ASSUME OInv, NEW r \in Reqs, PublishRejected(r)
  PROVE  OInv'
<1>1. PICK i, n, q : i = call[r].id /\ Pulls(order[i], n, pulled[i], q)
  BY DEF Pulls
<1>2. /\ call[r].at = "save" /\ store' = store
      /\ call' = [call EXCEPT ![r] = Idle]
      /\ reply' = [reply EXCEPT ![r] = Answer("error", i, 0)]
  BY <1>1 DEF PublishRejected
<1>3. Sends(order[i], published[i], published[i]) /\ Sets(i, n, q, published[i])
  BY <1>1 DEF PublishRejected, Pulls, Sends, Sets, OInv, Orderly
<1>4. i \in store /\ i \in Ids /\ published[i] = <<>>
  BY <1>1, <1>2, Awaited
<1>5. /\ Orderly' /\ Others(i)
      /\ \A j \in store : /\ order'[j].lines = order[j].lines
                          /\ published[j] # <<>> => published'[j] = published[j]
  BY <1>1, <1>2, <1>3, <1>4, PulledByRequest
<1>6. Calling'
  <2>1. Calling /\ Orderly
    BY DEF OInv
  <2>2. /\ call'[r] = [at |-> "idle", id |-> NoId]
        /\ \A p \in Reqs : p # r => call'[p] = call[p]
        /\ call' \in [Reqs -> [at : {"idle", "save", "publish"}, id : Ids \cup {NoId}]]
    BY <1>2, <2>1 DEF Calling, Idle
  <2>3. \A p \in Reqs : call[p].id = i => p = r
    BY <1>1, <1>2, Awaited
  <2>4. \A p \in Reqs : call[p].at # "idle" => call[p].id \in store /\ call[p].id \in Ids
    BY <2>1 DEF Calling, OCallsOK, Orderly
  <2>5. OCallsOK'
    BY <1>2, <1>5, <2>1, <2>2, <2>3, <2>4, IdsAssumption DEF Calling, OCallsOK, Others
  <2>. QED BY <2>2, <2>5 DEF Calling
<1>7. Telling'
  BY <1>2, <1>5, NewAnswer DEF OInv
<1>. QED BY <1>5, <1>6, <1>7 DEF OInv

-----------------------------------------------------------------------------
\* No orders at all
LEMMA OInitInv == OInit => OInv
<1>. SUFFICES ASSUME OInit PROVE OInv
  OBVIOUS
<1>1. Good(Absent, <<>>, <<>>)
  BY DEF Good, Absent, Tells, Statuses
<1>2. Orderly
  BY <1>1 DEF OInit, Orderly
<1>3. Calling
  BY DEF OInit, Calling, OCallsOK, Idle
<1>4. Telling
  BY DEF OInit, Telling, RepliesAgree, AckedMeansPublished, NoAnswer, Answer
<1>. QED BY <1>2, <1>3, <1>4 DEF OInv

\* Every step preserves the invariant
LEMMA ONextInv == OInv /\ [ONext]_ovars => OInv'
<1>. SUFFICES ASSUME OInv, [ONext]_ovars PROVE OInv'
  OBVIOUS
<1>1. CASE UNCHANGED ovars
  BY <1>1 DEF OInv, ovars, Orderly, Calling, OCallsOK, Telling, RepliesAgree,
              AckedMeansPublished, Story
<1>2. ASSUME NEW i \in Ids, Domain(i) PROVE OInv'
  BY <1>2, DomainInv
<1>3. ASSUME NEW r \in Reqs, Request(r) PROVE OInv'
  BY <1>3, RequestInv
<1>4. ASSUME NEW r \in Reqs, Continue(r) PROVE OInv'
  BY <1>4, PublishAllInv, PublishRejectedInv, ReturnInv DEF Continue
<1>. QED BY <1>1, <1>2, <1>3, <1>4 DEF ONext

\* The inductive invariant holds of the specification.
THEOREM OrdersInductive == OSpec => []OInv
<1>1. OInit => OInv
  BY OInitInv
<1>2. OInv /\ [ONext]_ovars => OInv'
  BY ONextInv
<1>. QED BY <1>1, <1>2, PTL DEF OSpec

\* Orders keep their types; a request awaits a stored order of its own, whose
\* events are all in it until they are published.
THEOREM OrdersTyped == OSpec => []OrdersOK
<1>1. OInv => OrdersOK
  BY OrderlyMeans DEF OInv, OrdersOK, Calling
<1>. QED BY <1>1, OrdersInductive, PTL

\* The events of an order tell its life: order.placed once, with the total it
\* still has, then order.paid once, whoever pulled them.
THEOREM StoryTold == OSpec => []EventsTellStory
<1>1. OInv => EventsTellStory
  BY OrderlyMeans DEF OInv
<1>. QED BY <1>1, OrdersInductive, PTL

\* A stored order can always be shown: its total does not throw.
THEOREM Showable == OSpec => []StoredCanBeShown
<1>1. OInv => StoredCanBeShown
  BY OrderlyMeans DEF OInv
<1>. QED BY <1>1, OrdersInductive, PTL

\* POST, GET and OrderPlaced name one total.
THEOREM OneTotal == OSpec => []RepliesAgree
<1>1. OInv => RepliesAgree
  BY DEF OInv, Telling
<1>. QED BY <1>1, OrdersInductive, PTL

\* POST is answered after the event went out.
THEOREM AckedAfterPublish == OSpec => []AckedMeansPublished
<1>1. OInv => AckedMeansPublished
  BY DEF OInv, Telling
<1>. QED BY <1>1, OrdersInductive, PTL
\* Whoever awaits save goes on by publishing, or by being refused
LEMMA GoesOn ==
  ASSUME OInv, [ONext]_ovars, NEW r \in Reqs, call[r].at = "save", call'[r] # call[r]
  PROVE  PublishAll(r) \/ PublishRejected(r)
<1>1. call \in [Reqs -> [at : {"idle", "save", "publish"}, id : Ids \cup {NoId}]]
  BY DEF OInv, Calling
<1>2. ASSUME NEW i \in Ids, Domain(i) PROVE FALSE
  BY <1>2 DEF Domain, Create, Place, MarkPaid, Cancel, PullEvents, AddLine
<1>3. ASSUME NEW q \in Reqs, Request(q) PROVE FALSE
  <2>1. call' = call \/ \E i \in Ids : call[q] = Idle /\ call' = [call EXCEPT ![q] = [at |-> "save", id |-> i]]
    BY <1>3 DEF Request, Get, Execute, ExecuteThrows
  <2>. QED BY <1>1, <2>1 DEF Idle
<1>4. ASSUME NEW q \in Reqs, Continue(q) PROVE PublishAll(r) \/ PublishRejected(r)
  <2>1. q = r
    BY <1>1, <1>4 DEF Continue, PublishAll, PublishRejected, Return
  <2>. QED BY <1>4, <2>1 DEF Continue, Return
<1>5. CASE UNCHANGED ovars
  BY <1>5 DEF ovars
<1>. QED BY <1>2, <1>3, <1>4, <1>5 DEF ONext

\* A step past save publishes all that was recorded, or refuses.
THEOREM Announced == OSpec => AnnouncedOrRefused
<1>1. ASSUME OInv, [ONext]_ovars, NEW r \in Reqs, call[r].at = "save", call'[r] # call[r]
      PROVE  LET i == call[r].id IN
             \/ published'[i] = Story(i) /\ Head(published'[i]) = Placement(order'[i])
             \/ reply'[r] = Answer("error", i, 0)
  <2> DEFINE i == call[r].id
  <2>1. /\ i \in store /\ i \in Ids /\ pulled[i] = <<>> /\ published[i] = <<>>
    BY <1>1, Awaited
  <2>2. CASE PublishRejected(r)
    BY <1>1, <2>2 DEF PublishRejected, OInv, Telling
  <2>3. CASE PublishAll(r)
    <3>1. /\ order' = [order EXCEPT ![i].events = <<>>]
          /\ published' = [published EXCEPT ![i] = @ \o order[i].events]
      BY <2>3 DEF PublishAll, Publish
    <3>2. published'[i] = Story(i)
      BY <2>1, <3>1, <1>1 DEF Story, OInv, Orderly
    <3>3. Good(order[i], pulled[i], published[i]) /\ Stored(order[i], pulled[i])
      BY <1>1, <2>1 DEF OInv, Orderly
    <3>4. Story(i)[1] = Placement(order[i])
      BY <3>3, StoryHead DEF Story
    <3>5. order'[i].lines = order[i].lines
      <4>1. DOMAIN order = Ids
        BY <1>1 DEF OInv, Orderly
      <4>2. order[i] \in [status : Statuses, lines : Seq(LineSet), events : Seq(Recorded(order[i]))]
        BY <3>3 DEF Good
      <4>. QED BY <2>1, <3>1, <4>1, <4>2
    <3>6. Placement(order'[i]) = Placement(order[i])
      BY <3>5 DEF Placement
    <3>7. Head(published'[i]) = published'[i][1]
      OBVIOUS
    <3>. QED BY <3>2, <3>4, <3>6, <3>7
  <2>. QED BY <1>1, <2>2, <2>3, GoesOn
<1>2. OInv /\ [ONext]_ovars =>
        [\A r \in Reqs : call[r].at = "save" /\ call'[r] # call[r] =>
           LET i == call[r].id IN
           \/ published'[i] = Story(i) /\ Head(published'[i]) = Placement(order'[i])
           \/ reply'[r] = Answer("error", i, 0)]_ovars
  BY <1>1
<1>. QED BY <1>2, OrdersInductive, PTL DEF OSpec, AnnouncedOrRefused
=============================================================================
