----------------------------- MODULE PostsProofs -----------------------------
(***************************************************************************)
(* Proofs about PostsService and PostsHistory, for any sets of posts and   *)
(* request slots, any bound and any set of faults.                         *)
(***************************************************************************)
EXTENDS PostsHistory, TLAPS

(***************************************************************************)
(* Where r is in the code says what it is executing.                       *)
(***************************************************************************)
LEMMA EntryCall ==
  ASSUME NEW op \in Ops, NEW i \in Ids \cup {NoId}, Room(op, i)
  PROVE  CallOK([op |-> op, id |-> i, at |-> Entry(op), post |-> None])
BY NoIdAssumption DEF CallOK, Entry, Room, Ops, Idle, None

CallTypes == call \in [Reqs -> Calls] /\ reply \in [Reqs -> Replies] /\ CallsOK

\* Going to the next await keeps the slots well typed.
LEMMA GotoTypes ==
  ASSUME CallTypes, NEW r \in Reqs, NEW point \in Points, NEW v \in Nat, Goto(r, point, v),
         CallOK([call[r] EXCEPT !.at = point, !.post = v])
  PROVE  CallTypes'
<1>1. [call[r] EXCEPT !.at = point, !.post = v] \in Calls
  BY DEF CallTypes, Calls
<1>2. call' = [call EXCEPT ![r] = [call[r] EXCEPT !.at = point, !.post = v]] /\ reply' = reply
  BY DEF Goto
<1>. QED BY <1>1, <1>2 DEF CallTypes, CallsOK

LEMMA AnswerTypes ==
  ASSUME CallTypes, TypeOK, NEW r \in Reqs, NEW code \in Codes, NEW v \in Nat, Answer(r, code, v)
  PROVE  CallTypes'
<1>1. CallOK(Idle) /\ Idle \in Calls
  BY NoIdAssumption DEF CallOK, Idle, Calls, Ops, Points, None
<1>2. [code |-> code, id |-> Id(r), ver |-> v] \in Replies
  BY DEF CallTypes, Replies, Calls, Id
<1>. QED BY <1>1, <1>2 DEF CallTypes, CallsOK, Answer

LEMMA FoundTypes ==
  ASSUME CallTypes, TypeOK, NEW r \in Reqs, call[r].at \in {"get", "fill"},
         NEW v \in Nat, Found(r, v)
  PROVE  CallTypes'
<1>1. CASE call[r].op = "get"
  <2>1. Answer(r, "found", v)
    BY <1>1 DEF Found
  <2>. QED BY <2>1, AnswerTypes DEF Codes
<1>2. CASE call[r].op # "get"
  <2>1. Goto(r, "write", None)
    BY <1>2 DEF Found
  <2>2. CallOK([call[r] EXCEPT !.at = "write", !.post = None])
    BY <1>2 DEF CallTypes, CallsOK, CallOK, Calls
  <2>. QED BY <2>1, <2>2, GotoTypes DEF Points, None
<1>. QED BY <1>1, <1>2

\* Every variable keeps its type, and every request its place in the code,
\* in every step.
LEMMA TypeStep == TypeOK /\ CallsOK /\ [Next]_vars => TypeOK' /\ CallsOK'
<1> SUFFICES ASSUME TypeOK, CallsOK, [Next]_vars PROVE TypeOK' /\ CallsOK'
  OBVIOUS
<1>0. CallTypes
  BY DEF CallTypes, TypeOK
<1> SUFFICES /\ CallTypes'
             /\ db' \in [Ids -> Rows] /\ cache' \in [Ids -> Nat] /\ enqueued' \subseteq Ids
  BY DEF CallTypes, TypeOK
<1> DEFINE Goal == /\ CallTypes'
                   /\ db' \in [Ids -> Rows]
                   /\ cache' \in [Ids -> Nat]
                   /\ enqueued' \subseteq Ids
<1>a. \A r \in Reqs : call[r] \in Calls /\ CallOK(call[r])
  BY DEF TypeOK, CallsOK
<1>1. ASSUME NEW r \in Reqs, NEW op \in Ops, NEW i \in Ids \cup {NoId}, Receive(r, op, i)
      PROVE  Goal
  <2>1. CallOK([op |-> op, id |-> i, at |-> Entry(op), post |-> None])
    BY <1>1, EntryCall DEF Receive
  <2>2. Entry(op) \in Points
    BY DEF Entry, Points, Ops
  <2>3. [op |-> op, id |-> i, at |-> Entry(op), post |-> None] \in Calls
    BY <2>2 DEF Calls, None
  <2>4. NoReply \in Replies
    BY DEF NoReply, Replies, Codes, None
  <2>. QED BY <1>1, <2>1, <2>3, <2>4 DEF Receive, TypeOK, CallTypes, CallsOK
<1>2. ASSUME NEW r \in Reqs, CacheGet(r)
      PROVE  Goal
  <2>1. UNCHANGED <<db, cache, enqueued>> /\ call[r].at = "get" /\ Id(r) \in Ids
    BY <1>2, <1>a DEF CacheGet, At, Id, CallOK
  <2>2. CASE Found(r, cache[Id(r)])
    BY <1>0, <2>1, <2>2, FoundTypes DEF TypeOK
  <2>3. CASE Goto(r, "find", None)
    <3>1. CallOK([call[r] EXCEPT !.at = "find", !.post = None])
      BY <1>a, <2>1 DEF CallOK, Calls
    <3>. QED BY <1>0, <2>1, <2>3, <3>1, GotoTypes DEF TypeOK, Points, None
  <2>. QED BY <1>2, <2>2, <2>3 DEF CacheGet
<1>3. ASSUME NEW r \in Reqs, FindFirst(r)
      PROVE  Goal
  <2>1. UNCHANGED <<db, cache, enqueued>> /\ call[r].at = "find" /\ Id(r) \in Ids
    BY <1>3, <1>a DEF FindFirst, At, Id, CallOK
  <2>2. CASE Goto(r, "fill", db[Id(r)].ver)
    <3>1. CallOK([call[r] EXCEPT !.at = "fill", !.post = db[Id(r)].ver])
      BY <1>a, <2>1 DEF CallOK, Calls
    <3>2. db[Id(r)].ver \in Nat
      BY <2>1 DEF TypeOK, Rows
    <3>. QED BY <1>0, <2>1, <2>2, <3>1, <3>2, GotoTypes DEF TypeOK, Points
  <2>3. CASE Answer(r, "notFound", None)
    BY <1>0, <2>1, <2>3, AnswerTypes DEF TypeOK, Codes, None
  <2>. QED BY <1>3, <2>2, <2>3 DEF FindFirst
<1>4. ASSUME NEW r \in Reqs, CacheSet(r)
      PROVE  Goal
  <2>1. UNCHANGED <<db, enqueued>> /\ call[r].at = "fill" /\ call[r].post \in Nat
    BY <1>4, <1>a DEF CacheSet, At, Calls
  <2>2. CallTypes'
    BY <1>0, <1>4, <2>1, FoundTypes DEF CacheSet
  <2>3. cache' \in [Ids -> Nat]
    BY <1>4, <2>1 DEF CacheSet, TypeOK
  <2>. QED BY <2>1, <2>2, <2>3 DEF TypeOK
<1>5. ASSUME NEW r \in Reqs, PrismaUpdate(r)
      PROVE  Goal
  <2>1. UNCHANGED <<cache, enqueued>> /\ call[r].at = "write" /\ Id(r) \in Ids
    BY <1>5, <1>a DEF PrismaUpdate, At, Id, CallOK
  <2>2. db[Id(r)] \in Rows /\ db[Id(r)].ver + 1 \in Nat /\ db[Id(r)].ver + 1 # None
    BY <2>1 DEF TypeOK, Rows, None
  <2>3. LiveAfter(call[r].op, db[Id(r)].live) \in BOOLEAN
    BY <1>a, <2>1, <2>2 DEF LiveAfter, CallOK, Rows
  <2>4. CallOK([call[r] EXCEPT !.at = "invalidate", !.post = db[Id(r)].ver + 1])
    BY <1>a, <2>1, <2>2 DEF CallOK, Calls
  <2>5. CallTypes'
    BY <1>0, <1>5, <2>2, <2>4, GotoTypes DEF PrismaUpdate, Points
  <2>6. db' \in [Ids -> Rows]
    BY <1>5, <2>2, <2>3 DEF PrismaUpdate, TypeOK, Rows
  <2>. QED BY <2>1, <2>5, <2>6 DEF TypeOK
<1>6. ASSUME NEW r \in Reqs, PrismaRefuse(r)
      PROVE  Goal
  BY <1>0, <1>6, AnswerTypes DEF PrismaRefuse, TypeOK, Codes, None
<1>7. ASSUME NEW r \in Reqs, Invalidate(r)
      PROVE  Goal
  <2>1. call[r].post \in Nat
    BY <1>a DEF Calls
  <2>2. CallTypes'
    BY <1>0, <1>7, <2>1, AnswerTypes DEF Invalidate, Codes
  <2>. QED BY <1>7, <2>2 DEF Invalidate, TypeOK, None
<1>8. ASSUME NEW r \in Reqs, NEW i \in Ids, PrismaCreate(r, i)
      PROVE  Goal
  <2>1. [call[r] EXCEPT !.id = i, !.at = "enqueue", !.post = 1] \in Calls
    BY <1>a DEF Calls, Points
  <2>2. CallOK([call[r] EXCEPT !.id = i, !.at = "enqueue", !.post = 1])
    BY <1>a, <1>8 DEF PrismaCreate, At, CallOK, Calls, None
  <2>3. CallTypes'
    BY <1>0, <1>8, <2>1, <2>2 DEF PrismaCreate, CallTypes, CallsOK
  <2>. QED BY <1>8, <2>3 DEF PrismaCreate, TypeOK, SeedRow, Rows
<1>9. ASSUME NEW r \in Reqs, PostCreated(r)
      PROVE  Goal
  <2>1. call[r].post \in Nat /\ Id(r) \in Ids
    BY <1>a, <1>9 DEF Calls, PostCreated, At, Id, CallOK
  <2>2. CallTypes'
    BY <1>0, <1>9, <2>1, AnswerTypes DEF PostCreated, Codes
  <2>. QED BY <1>9, <2>1, <2>2 DEF PostCreated, TypeOK
<1>10. ASSUME NEW r \in Reqs, LastEffect(r)
       PROVE  cache' \in [Ids -> Nat] /\ enqueued' \subseteq Ids
  BY <1>a, <1>10 DEF LastEffect, At, Id, Calls, CallOK, TypeOK, None
<1>11. ASSUME NEW r \in Reqs, Reject(r)
       PROVE  Goal
  <2>1. CallTypes'
    BY <1>0, <1>11, AnswerTypes DEF Reject, Codes, None
  <2>. QED BY <1>10, <1>11, <2>1 DEF Reject, TypeOK
<1>12. ASSUME NEW r \in Reqs, Crash(r)
       PROVE  Goal
  <2>1. CallOK(Idle) /\ Idle \in Calls
    BY NoIdAssumption DEF CallOK, Idle, Calls, Ops, Points, None
  <2>2. CallTypes'
    BY <1>0, <1>12, <2>1 DEF Crash, CallTypes, CallsOK
  <2>. QED BY <1>10, <1>12, <2>2 DEF Crash, TypeOK
<1>13. ASSUME NEW i \in Ids, Expire(i)
       PROVE  Goal
  BY <1>0, <1>13 DEF Expire, TypeOK, CallTypes, CallsOK, None
<1>14. CASE UNCHANGED vars
  BY <1>0, <1>14 DEF vars, TypeOK, CallTypes, CallsOK
<1>. QED
  BY <1>1, <1>2, <1>3, <1>4, <1>5, <1>6, <1>7, <1>8, <1>9, <1>11, <1>12, <1>13, <1>14
  DEF Next, Arrive, Step

-----------------------------------------------------------------------------
(***************************************************************************)
(* What one step can do to the rows, the cache, the slots and the replies, *)
(* whoever takes it.  The invariants below only use these facts.           *)
(***************************************************************************)
Committed(i) == db'[i].ver = db[i].ver + 1 /\ UNCHANGED cache

RowStep == \A i \in Ids :
  \/ db'[i] = db[i]
  \/ Committed(i) /\ \/ db[i].ver = None /\ db'[i] = SeedRow
                     \/ \E r \in Reqs : call'[r].at = "invalidate" /\ call'[r].id = i

Filled(r, i) == /\ At(r, "fill") /\ Id(r) = i /\ call'[r].at # "fill"
                /\ cache'[i] = call[r].post
                /\ UNCHANGED db

CacheStep == \A i \in Ids : \/ cache'[i] = cache[i]
                            \/ cache'[i] = None
                            \/ \E r \in Reqs : Filled(r, i)

SlotStep == \A r \in Reqs :
  /\ call'[r].at = "fill" => \/ call'[r] = call[r]
                             \/ /\ call'[r].id = Id(r) /\ Id(r) \in Ids
                                /\ db[Id(r)].live /\ call'[r].post = db[Id(r)].ver
                                /\ UNCHANGED db /\ At(r, "find")
  /\ At(r, "invalidate") => \/ call'[r] = call[r]
                            \/ /\ call'[r].at # "invalidate"
                               /\ cache'[Id(r)] = None \/ Cut(r) \/ "lost" \in Faults
  /\ \A q \in Reqs : call'[r] # call[r] /\ call'[q] # call[q] => q = r

ReplyStep == \A r \in Reqs :
  reply'[r].code = "found" =>
    \/ reply'[r] = reply[r]
    \/ /\ At(r, "get") /\ reply'[r].id = Id(r) /\ Id(r) \in Ids
       /\ reply'[r].ver = cache[Id(r)] /\ cache[Id(r)] # None
    \/ At(r, "fill") /\ reply'[r].id = Id(r) /\ reply'[r].ver = call[r].post

Shape == RowStep /\ CacheStep /\ SlotStep /\ ReplyStep

LEMMA FoundShape ==
  ASSUME TypeOK, NEW r \in Reqs, NEW v, Found(r, v)
  PROVE  /\ \A q \in Reqs : q # r => call'[q] = call[q] /\ reply'[q] = reply[q]
         /\ call'[r].at \in {"idle", "write"}
         /\ reply'[r] \in {reply[r], [code |-> "found", id |-> Id(r), ver |-> v]}
<1>1. CASE call[r].op = "get"
  BY <1>1 DEF Found, Answer, Idle, TypeOK
<1>2. CASE call[r].op # "get"
  BY <1>2 DEF Found, Goto, TypeOK, Calls
<1>. QED BY <1>1, <1>2

LEMMA StepShape == TypeOK /\ CallsOK /\ [Next]_vars => Shape
<1> SUFFICES ASSUME TypeOK, CallsOK, [Next]_vars PROVE Shape
  OBVIOUS
<1>a. \A r \in Reqs : call[r] \in Calls /\ CallOK(call[r])
  BY DEF TypeOK, CallsOK
<1> USE DEF Shape, RowStep, CacheStep, SlotStep, ReplyStep, Committed, Filled,
            Goto, Answer, At, Id, Idle, TypeOK, Calls, Rows, Replies
<1>1. ASSUME NEW r \in Reqs, NEW op \in Ops, NEW i \in Ids \cup {NoId}, Receive(r, op, i)
      PROVE  Shape
  BY <1>1 DEF Receive, Entry, NoReply, Ops
<1>2. ASSUME NEW r \in Reqs, CacheGet(r)
      PROVE  Shape
  <2>1. call[r].at = "get" /\ Id(r) \in Ids /\ UNCHANGED <<db, cache>>
    BY <1>2, <1>a DEF CacheGet, CallOK
  <2>2. CASE cache[Id(r)] # None /\ Found(r, cache[Id(r)])
    <3>1. RowStep /\ CacheStep
      BY <2>1
    <3>2. SlotStep
      BY <2>1, <2>2, FoundShape
    <3>3. ReplyStep
      BY <2>1, <2>2, FoundShape
    <3>. QED BY <3>1, <3>2, <3>3
  <2>3. CASE Goto(r, "find", None)
    BY <2>1, <2>3
  <2>. QED BY <1>2, <2>2, <2>3 DEF CacheGet
<1>3. ASSUME NEW r \in Reqs, FindFirst(r)
      PROVE  Shape
  <2>1. call[r].at = "find" /\ Id(r) \in Ids /\ UNCHANGED <<db, cache>>
    BY <1>3, <1>a DEF FindFirst, CallOK
  <2>2. CASE db[Id(r)].live /\ Goto(r, "fill", db[Id(r)].ver)
    <3>1. RowStep /\ CacheStep /\ ReplyStep
      BY <2>1, <2>2
    <3>2. SlotStep
      BY <2>1, <2>2
    <3>. QED BY <3>1, <3>2
  <2>3. CASE Answer(r, "notFound", None)
    BY <2>1, <2>3
  <2>. QED BY <1>3, <2>2, <2>3 DEF FindFirst
<1>4. ASSUME NEW r \in Reqs, CacheSet(r)
      PROVE  Shape
  <2>1. call[r].at = "fill" /\ UNCHANGED db /\ Found(r, call[r].post)
    BY <1>4 DEF CacheSet
  <2>2. call'[r].at # "fill"
    BY <2>1, FoundShape
  <2>3. RowStep /\ CacheStep
    BY <1>4, <1>a, <2>1, <2>2 DEF CacheSet, CallOK
  <2>4. SlotStep
    BY <2>1, FoundShape
  <2>5. ReplyStep
    BY <2>1, FoundShape
  <2>. QED BY <2>3, <2>4, <2>5
<1>5. ASSUME NEW r \in Reqs, PrismaUpdate(r)
      PROVE  Shape
  BY <1>5, <1>a DEF PrismaUpdate, CallOK
<1>6. ASSUME NEW r \in Reqs, PrismaRefuse(r)
      PROVE  Shape
  BY <1>6 DEF PrismaRefuse
<1>7. ASSUME NEW r \in Reqs, Invalidate(r)
      PROVE  Shape
  BY <1>7, <1>a DEF Invalidate, CallOK
<1>8. ASSUME NEW r \in Reqs, NEW i \in Ids, PrismaCreate(r, i)
      PROVE  Shape
  BY <1>8 DEF PrismaCreate, Exists, SeedRow, None
<1>9. ASSUME NEW r \in Reqs, PostCreated(r)
      PROVE  Shape
  BY <1>9 DEF PostCreated
<1>10. ASSUME NEW r \in Reqs, Reject(r)
       PROVE  Shape
  BY <1>10, <1>a DEF Reject, LastEffect, Cut
<1>11. ASSUME NEW r \in Reqs, Crash(r)
       PROVE  Shape
  BY <1>11, <1>a DEF Crash, LastEffect, Cut
<1>12. ASSUME NEW i \in Ids, Expire(i)
       PROVE  Shape
  BY <1>12 DEF Expire
<1>13. CASE UNCHANGED vars
  BY <1>13 DEF vars
<1>. QED
  BY <1>1, <1>2, <1>3, <1>4, <1>5, <1>6, <1>7, <1>8, <1>9, <1>10, <1>11, <1>12, <1>13
  DEF Next, Arrive, Step

-----------------------------------------------------------------------------
\* The inductive invariant
Inductive == HistoryOK /\ ServesCommitted /\ StaleHasCause

LEMMA InductiveInit == HInit => Inductive
<1> SUFFICES ASSUME HInit PROVE Inductive
  OBVIOUS
<1> USE DEF HInit, Init
<1>1. TypeOK
  <2>1. NoRow \in Rows /\ SeedRow \in Rows /\ Idle \in Calls /\ NoReply \in Replies
    BY DEF NoRow, SeedRow, Rows, None, Idle, NoReply, Calls, Replies, Ops, Points, Codes
  <2>. QED BY <2>1 DEF TypeOK, None
<1>2. CallsOK
  BY NoIdAssumption DEF CallsOK, CallOK, Idle
<1>3. seen \subseteq Ids \X Nat /\ RowsOK /\ SeenOK
  BY DEF RowsOK, SeenOK, NoRow, SeedRow, None
<1>4. FillsOK /\ ServesCommitted /\ StaleHasCause
  BY DEF FillsOK, ServesCommitted, StaleHasCause, Stale, At, Idle, NoReply
<1>. QED BY <1>1, <1>2, <1>3, <1>4 DEF Inductive, HistoryOK, HTypeOK

LEMMA InductiveStep == Inductive /\ [HNext]_hvars => Inductive'
<1> SUFFICES ASSUME Inductive, [HNext]_hvars PROVE Inductive'
  OBVIOUS
<1> USE DEF Inductive, HistoryOK
<1>1. CASE UNCHANGED hvars
  <2>1. UNCHANGED vars
    BY <1>1 DEF hvars, vars
  <2>. QED
    BY <1>1, <2>1 DEF hvars, HTypeOK, TypeOK, CallsOK, RowsOK, SeenOK, FillsOK,
       ServesCommitted, StaleHasCause, Stale, At, Id
<1>2. CASE HNext
  <2>0. TypeOK /\ CallsOK /\ HTypeOK
    BY DEF HTypeOK
  <2>1. Shape /\ TypeOK' /\ CallsOK'
    BY <1>2, <2>0, StepShape, TypeStep DEF HNext
  <2>2. /\ seen \subseteq seen'
        /\ \A i \in Ids : db'[i].live => <<i, db'[i].ver>> \in seen'
        /\ \A p \in seen' : p \in seen \/ \E i \in Ids : p = <<i, db'[i].ver>> /\ db'[i].live
    BY <1>2 DEF HNext, History
  <2>3. \A i \in Ids : db[i].ver \in Nat /\ db'[i].ver \in Nat /\ db[i].ver <= db'[i].ver
    BY <2>0, <2>1 DEF TypeOK, Rows, Shape, RowStep, Committed
  <2>4. HTypeOK'
    BY <1>2, <2>0, <2>1, <2>2, <2>3 DEF HTypeOK, HNext, History
  <2>5. RowsOK'
    <3> SUFFICES ASSUME NEW i \in Ids PROVE db'[i].ver = None => ~db'[i].live
      BY <2>2 DEF RowsOK
    <3>1. db'[i] = db[i] \/ db'[i].ver = db[i].ver + 1
      BY <2>1 DEF Shape, RowStep, Committed
    <3>2. CASE db'[i] = db[i]
      BY <3>2, Zenon DEF RowsOK
    <3>3. ASSUME db'[i].ver = db[i].ver + 1 PROVE db'[i].ver # None
      BY <2>3, <3>3 DEF None
    <3>. QED BY <3>1, <3>2, <3>3
  <2>6. SeenOK'
    <3> SUFFICES ASSUME NEW p \in seen' PROVE p[2] # None /\ p[2] <= db'[p[1]].ver
      BY DEF SeenOK
    <3>1. CASE p \in seen
      BY <2>0, <2>3, <3>1 DEF SeenOK, HTypeOK
    <3>2. ASSUME NEW i \in Ids, p = <<i, db'[i].ver>>, db'[i].live
          PROVE  p[2] # None /\ p[2] <= db'[p[1]].ver
      BY <2>3, <2>5, <3>2 DEF RowsOK
    <3>. QED BY <2>2, <3>1, <3>2
  <2>7. FillsOK'
    <3> SUFFICES ASSUME NEW r \in Reqs, call'[r].at = "fill"
                 PROVE  /\ <<call'[r].id, call'[r].post>> \in seen'
                        /\ r \in overtaken' \/ call'[r].post = db'[call'[r].id].ver
      BY DEF FillsOK, At, Id
    <3>1. CASE call'[r] = call[r]
      BY <1>2, <2>2, <3>1 DEF FillsOK, At, Id, HNext, History
    <3>2. CASE call'[r] # call[r]
      BY <2>1, <2>2, <3>2 DEF Shape, SlotStep, RowsOK
    <3>. QED BY <3>1, <3>2
  <2>8. ServesCommitted'
    <3>1. ASSUME NEW i \in Ids, cache'[i] # None PROVE <<i, cache'[i]>> \in seen'
      BY <2>1, <2>2, <3>1 DEF Shape, CacheStep, Filled, FillsOK, ServesCommitted
    <3>2. ASSUME NEW r \in Reqs, reply'[r].code = "found"
          PROVE  <<reply'[r].id, reply'[r].ver>> \in seen'
      BY <2>1, <2>2, <3>2 DEF Shape, ReplyStep, FillsOK, ServesCommitted
    <3>. QED BY <3>1, <3>2 DEF ServesCommitted
  <2>9. StaleHasCause'
    <3> SUFFICES ASSUME NEW i \in Ids, cache'[i] # None, cache'[i] # db'[i].ver
                 PROVE  \/ i \in suspect'
                        \/ \E r \in Reqs : call'[r].at = "invalidate" /\ call'[r].id = i
      BY DEF StaleHasCause, Stale, At, Id
    <3>1. CASE cache'[i] = cache[i] /\ db'[i] # db[i]
      <4>1. db[i].ver # None
        <5>1. <<i, cache[i]>> \in seen
          BY <3>1 DEF ServesCommitted
        <5>2. cache[i] # None /\ cache[i] <= db[i].ver
          BY <5>1 DEF SeenOK
        <5>. QED BY <2>0, <5>2 DEF TypeOK, None
      <4>. QED BY <2>1, <3>1, <4>1 DEF Shape, RowStep
    <3>2. CASE cache'[i] = cache[i] /\ db'[i] = db[i]
      <4>1. ~CleanFill(i)
        BY <3>2 DEF CleanFill
      <4>2. CASE i \in suspect \/ Accident(i)
        BY <1>2, <4>1, <4>2 DEF HNext, History
      <4>3. ASSUME NEW r \in Reqs, At(r, "invalidate"), Id(r) = i, ~Accident(i)
            PROVE  call'[r].at = "invalidate" /\ call'[r].id = i
        BY <2>1, <4>3 DEF Shape, SlotStep, Accident, Left, At, Id
      <4>. QED BY <3>2, <4>2, <4>3 DEF StaleHasCause, Stale
    <3>3. CASE cache'[i] # cache[i]
      <4>1. PICK r \in Reqs : Filled(r, i)
        BY <2>1, <3>3 DEF Shape, CacheStep
      <4>2. r \in overtaken
        BY <4>1 DEF Filled, FillsOK
      <4>3. Accident(i)
        BY <3>3, <4>1, <4>2 DEF Accident, Left, Filled
      <4>4. ~CleanFill(i)
        BY <2>1, <4>1, <4>2 DEF CleanFill, Left, Filled, Shape, SlotStep, At
      <4>. QED BY <1>2, <4>3, <4>4 DEF HNext, History
    <3>. QED BY <3>1, <3>2, <3>3
  <2>. QED BY <2>1, <2>4, <2>5, <2>6, <2>7, <2>8, <2>9
<1>. QED BY <1>1, <1>2

THEOREM InductiveInvariant == HSpec => []Inductive
<1>. QED BY InductiveInit, InductiveStep, PTL DEF HSpec

\* Type correctness of PostsService and of its history; what each await may
\* hold, and that a fill nobody overtook is fresh.
THEOREM HistoryHolds == HSpec => []HistoryOK
<1>1. Inductive => HistoryOK
  BY DEF Inductive
<1>. QED BY InductiveInvariant, <1>1, PTL

\* Nothing uncommitted or deleted is ever cached or served by findOne,
\* whatever awaits interleave and whatever fails.
THEOREM ServesOnlyCommitted == HSpec => []ServesCommitted
<1>1. Inductive => ServesCommitted
  BY DEF Inductive
<1>. QED BY InductiveInvariant, <1>1, PTL

\* A stale entry always has one of the causes StaleHasCause lists: update,
\* remove and restore leave no other, for any number of requests in flight.
THEOREM StalenessExplained == HSpec => []StaleHasCause
<1>1. Inductive => StaleHasCause
  BY DEF Inductive
<1>. QED BY InductiveInvariant, <1>1, PTL

-----------------------------------------------------------------------------
(***************************************************************************)
(* PostsService implements PostStore.                                      *)
(***************************************************************************)
WorkNow == [r \in Reqs |-> Work(call[r])]

LEMMA WorkStep ==
  ASSUME NEW r \in Reqs, NEW c, call \in [Reqs -> Calls], call' = [call EXCEPT ![r] = c]
  PROVE  WorkNow' = [WorkNow EXCEPT ![r] = Work(c)]
BY DEF WorkNow

\* A step that leaves the rows alone shows nothing new.
LEMMA SeenSame == RowsOK /\ History /\ UNCHANGED db => UNCHANGED seen
BY DEF RowsOK, History

\* Answering is finishing: the abstract slot is free again.
LEMMA AnswerFinishes ==
  ASSUME TypeOK, CallsOK, RowsOK, History, UNCHANGED db,
         NEW r \in Reqs, call[r].at # "idle", NEW code, NEW v, Answer(r, code, v)
  PROVE  Store!Finish(r, code, v)
<1>1. WorkNow' = [WorkNow EXCEPT ![r] = Work(Idle)]
  BY WorkStep DEF Answer, TypeOK
<1>2. Work(Idle) = Store!Free
  BY DEF Work, Idle, Store!Free, None
<1>3. WorkNow[r] # Store!Free /\ WorkNow[r].id = Id(r)
  <2>1. call[r].op # "none"
    BY DEF TypeOK, Calls, Ops
  <2>. QED BY <2>1 DEF WorkNow, Work, Store!Free, Id
<1>. QED BY <1>1, <1>2, <1>3, SeenSame DEF Answer, Store!Finish, WorkNow

\* A step within findOne is invisible: nothing is committed before or after.
LEMMA GotoStutters ==
  ASSUME TypeOK, CallsOK, RowsOK, History, UNCHANGED db, NEW r \in Reqs,
         call[r].at \in {"get", "find", "fill"}, NEW point \in {"find", "fill", "write"}, NEW v,
         Goto(r, point, v)
  PROVE  UNCHANGED Store!vars
<1>1. WorkNow' = [WorkNow EXCEPT ![r] = Work([call[r] EXCEPT !.at = point, !.post = v])]
  BY WorkStep DEF Goto, TypeOK
<1>2. Work([call[r] EXCEPT !.at = point, !.post = v]) = Work(call[r])
  BY DEF Work, TypeOK, Calls
<1>3. WorkNow' = WorkNow
  BY <1>1, <1>2 DEF WorkNow
<1>. QED BY <1>3, SeenSame DEF Store!vars, Goto, WorkNow

LEMMA FoundImplements ==
  ASSUME TypeOK, CallsOK, RowsOK, History, UNCHANGED db, NEW r \in Reqs,
         call[r].at \in {"get", "fill"}, NEW v \in Nat, Found(r, v), <<Id(r), v>> \in seen
  PROVE  [Store!Next]_(Store!vars)
<1>1. CASE call[r].op = "get"
  <2>1. Store!Finish(r, "found", v)
    BY <1>1, AnswerFinishes DEF Found
  <2>2. WorkNow[r].op = "get" /\ WorkNow[r].id = Id(r)
    BY <1>1 DEF WorkNow, Work, Id
  <2>3. Store!AnswerFound(r)
    BY <2>1, <2>2 DEF Store!AnswerFound, WorkNow
  <2>. QED BY <2>3 DEF Store!Next
<1>2. CASE call[r].op # "get"
  BY <1>2, GotoStutters DEF Found
<1>. QED BY <1>1, <1>2

\* Committing a row is the abstract commit, history included.
LEMMA CommitImplements ==
  ASSUME TypeOK, RowsOK, History, NEW r \in Reqs, NEW i \in Ids, NEW row \in Rows, NEW op,
         db' = [db EXCEPT ![i] = row], UNCHANGED reply,
         WorkNow[r].op = op, WorkNow[r].commit = 0,
         WorkNow' = [WorkNow EXCEPT ![r] = [op |-> op, id |-> i, commit |-> row.ver]]
  PROVE  Store!CommitRow(r, i, row)
<1>1. db'[i] = row /\ \A j \in Ids : j # i => db'[j] = db[j]
  BY DEF TypeOK
<1>2. row.live \in BOOLEAN
  BY DEF Rows
<1>3. CASE row.live
  <2>1. seen' = seen \cup {<<i, row.ver>>}
    BY <1>1, <1>3 DEF History, RowsOK
  <2>. QED BY <1>3, <2>1 DEF Store!CommitRow, WorkNow
<1>4. CASE ~row.live
  <2>1. seen' = seen
    BY <1>1, <1>4 DEF History, RowsOK
  <2>. QED BY <1>4, <2>1 DEF Store!CommitRow, WorkNow
<1>. QED BY <1>2, <1>3, <1>4

LEMMA RefinementInit == HInit => Store!Init
BY DEF HInit, Init, Store!Init, NoRow, SeedRow, NoReply, Idle, Work, None,
       Store!NoRow, Store!SeedRow, Store!NoReply, Store!Free

LEMMA RefinementStep == Inductive /\ [HNext]_hvars => [Store!Next]_(Store!vars)
<1> SUFFICES ASSUME Inductive, [HNext]_hvars PROVE [Store!Next]_(Store!vars)
  OBVIOUS
<1>0. TypeOK /\ CallsOK /\ RowsOK /\ SeenOK /\ FillsOK /\ ServesCommitted
  BY DEF Inductive, HistoryOK, HTypeOK
<1>a. \A r \in Reqs : call[r] \in Calls /\ CallOK(call[r])
  BY <1>0 DEF TypeOK, CallsOK
<1>b. CASE UNCHANGED hvars
  BY <1>b DEF hvars, Store!vars
<1>c. CASE HNext
  <2> USE <1>0
  <2>0. History
    BY <1>c DEF HNext
  <2>1. ASSUME NEW r \in Reqs, NEW op \in Ops, NEW i \in Ids \cup {NoId}, Receive(r, op, i)
        PROVE  Store!Accept(r, op, i)
    <3>1. WorkNow[r] = Store!Free
      BY <1>a, <2>1 DEF Receive, At, CallOK, WorkNow, Work, Idle, Store!Free, None
    <3>2. WorkNow' = [WorkNow EXCEPT ![r] = [op |-> op, id |-> i, commit |-> 0]]
      <4>1. Entry(op) \notin {"idle", "invalidate", "enqueue"}
        BY DEF Entry, Ops
      <4>2. Work([op |-> op, id |-> i, at |-> Entry(op), post |-> None])
              = [op |-> op, id |-> i, commit |-> 0]
        BY <4>1 DEF Work, None
      <4>. QED BY <2>1, <4>2, WorkStep DEF Receive, TypeOK
    <3>3. (op = "create") <=> (i = NoId)
      BY <2>1, NoIdAssumption DEF Receive, Room, Ops
    <3>. QED
      BY <2>0, <2>1, <3>1, <3>2, <3>3, SeenSame
      DEF Receive, Store!Accept, WorkNow, NoReply, Store!NoReply, None
  <2>2. ASSUME NEW r \in Reqs, CacheGet(r)
        PROVE  [Store!Next]_(Store!vars)
    <3>1. call[r].at = "get" /\ Id(r) \in Ids /\ UNCHANGED db
      BY <1>a, <2>2 DEF CacheGet, At, Id, CallOK
    <3>2. CASE cache[Id(r)] # None /\ Found(r, cache[Id(r)])
      BY <2>0, <3>1, <3>2, FoundImplements DEF ServesCommitted, TypeOK
    <3>3. CASE Goto(r, "find", None)
      BY <2>0, <3>1, <3>3, GotoStutters
    <3>. QED BY <2>2, <3>2, <3>3 DEF CacheGet
  <2>3. ASSUME NEW r \in Reqs, FindFirst(r)
        PROVE  [Store!Next]_(Store!vars)
    <3>1. call[r].at = "find" /\ Id(r) \in Ids /\ UNCHANGED db
      BY <1>a, <2>3 DEF FindFirst, At, Id, CallOK
    <3>2. CASE Goto(r, "fill", db[Id(r)].ver)
      BY <2>0, <3>1, <3>2, GotoStutters
    <3>3. CASE ~db[Id(r)].live /\ Answer(r, "notFound", None)
      <4>1. Store!Finish(r, "notFound", None)
        BY <2>0, <3>1, <3>3, AnswerFinishes
      <4>2. WorkNow[r].commit = 0 /\ WorkNow[r].id = Id(r)
        BY <3>1 DEF WorkNow, Work, Id, None
      <4>3. Store!AnswerNotFound(r)
        BY <3>1, <3>3, <4>1, <4>2 DEF Store!AnswerNotFound, WorkNow, None
      <4>. QED BY <4>3 DEF Store!Next
    <3>. QED BY <2>3, <3>2, <3>3 DEF FindFirst
  <2>4. ASSUME NEW r \in Reqs, CacheSet(r)
        PROVE  [Store!Next]_(Store!vars)
    <3>1. call[r].at = "fill" /\ UNCHANGED db /\ Found(r, call[r].post)
      BY <2>4 DEF CacheSet, At
    <3>2. <<Id(r), call[r].post>> \in seen /\ call[r].post \in Nat
      BY <1>a, <3>1 DEF FillsOK, At, Calls
    <3>. QED BY <2>0, <3>1, <3>2, FoundImplements
  <2>5. ASSUME NEW r \in Reqs, PrismaUpdate(r)
        PROVE  Store!Rewrite(r)
    <3> DEFINE i == Id(r)
               row == [ver |-> db[i].ver + 1, live |-> LiveAfter(call[r].op, db[i].live)]
    <3>1. call[r].at = "write" /\ i \in Ids /\ call[r].op \in {"update", "remove", "restore"}
      BY <1>a, <2>5 DEF PrismaUpdate, At, Id, CallOK
    <3>2. db[i] \in Rows
      BY <3>1 DEF TypeOK
    <3>3. db' = [db EXCEPT ![i] = row] /\ UNCHANGED reply /\ db[i].ver # None
      BY <2>5 DEF PrismaUpdate, Goto, Exists
    <3>4. row \in Rows
      <4>1. LiveAfter(call[r].op, db[i].live) \in BOOLEAN
        BY <3>1, <3>2 DEF LiveAfter, Rows
      <4>2. db[i].ver + 1 \in Nat
        BY <3>2 DEF Rows
      <4>. QED BY <4>1, <4>2 DEF Rows
    <3>5. WorkNow[r] = [op |-> call[r].op, id |-> i, commit |-> 0]
      BY <3>1 DEF WorkNow, Work, None, Id
    <3>6. WorkNow' = [WorkNow EXCEPT ![r] = [op |-> call[r].op, id |-> i, commit |-> row.ver]]
      <4>1. Work([call[r] EXCEPT !.at = "invalidate", !.post = db[i].ver + 1])
              = [op |-> call[r].op, id |-> i, commit |-> row.ver]
        BY <1>a DEF Work, Calls, Id
      <4>. QED BY <2>5, <4>1, WorkStep DEF PrismaUpdate, Goto, TypeOK
    <3>8. Store!CommitRow(r, i, row)
      <4>1. WorkNow[r].op = call[r].op /\ WorkNow[r].commit = 0
        BY <3>5
      <4> HIDE DEF i, row
      <4>. QED BY <2>0, <3>1, <3>3, <3>4, <3>6, <4>1, CommitImplements
    <3>9. /\ row.live \in BOOLEAN
          /\ call[r].op = "update" => row.live = db[i].live
          /\ call[r].op = "remove" => ~row.live
          /\ call[r].op = "restore" => row.live
      BY <3>4 DEF LiveAfter, Rows
    <3>10. db[i].ver > 0
      BY <3>2, <3>3 DEF Rows, None
    <3>. QED BY <3>1, <3>5, <3>8, <3>9, <3>10 DEF Store!Rewrite, WorkNow
  <2>6. ASSUME NEW r \in Reqs, PrismaRefuse(r)
        PROVE  Store!AnswerError(r)
    BY <2>0, <2>6, AnswerFinishes DEF PrismaRefuse, Store!AnswerError, At, None
  <2>7. ASSUME NEW r \in Reqs, call[r].at \in {"invalidate", "enqueue"},
               Answer(r, "done", call[r].post), UNCHANGED db
        PROVE  Store!AnswerDone(r)
    <3>1. WorkNow[r].commit = call[r].post /\ call[r].post # 0
      BY <1>a, <2>7 DEF WorkNow, Work, CallOK, None
    <3>2. Store!Finish(r, "done", call[r].post)
      BY <2>0, <2>7, AnswerFinishes
    <3>. QED BY <3>1, <3>2 DEF Store!AnswerDone, WorkNow
  <2>8. ASSUME NEW r \in Reqs, NEW i \in Ids, PrismaCreate(r, i)
        PROVE  Store!Insert(r, i)
    <3>1. call[r].at = "insert" /\ call[r].op = "create" /\ call[r].id = NoId
      BY <1>a, <2>8 DEF PrismaCreate, At, CallOK
    <3>2. db[i] = NoRow
      BY <2>8 DEF PrismaCreate, Exists, RowsOK, TypeOK, Rows, NoRow
    <3>3. WorkNow[r] = [op |-> "create", id |-> NoId, commit |-> 0]
      BY <3>1 DEF WorkNow, Work, None
    <3>4. WorkNow' = [WorkNow EXCEPT ![r] = [op |-> "create", id |-> i, commit |-> 1]]
      <4>1. Work([call[r] EXCEPT !.id = i, !.at = "enqueue", !.post = 1])
              = [op |-> "create", id |-> i, commit |-> 1]
        BY <1>a, <3>1 DEF Work, Calls
      <4>. QED BY <2>8, <4>1, WorkStep DEF PrismaCreate, TypeOK
    <3>6. Store!CommitRow(r, i, SeedRow)
      <4>1. SeedRow \in Rows /\ SeedRow.ver = 1
        BY DEF SeedRow, Rows
      <4>2. WorkNow[r].op = "create" /\ WorkNow[r].commit = 0
        BY <3>3
      <4>3. WorkNow' = [WorkNow EXCEPT ![r] = [op |-> "create", id |-> i, commit |-> SeedRow.ver]]
        BY <3>4, <4>1
      <4>4. db' = [db EXCEPT ![i] = SeedRow] /\ UNCHANGED reply
        BY <2>8 DEF PrismaCreate
      <4>. QED BY <2>0, <4>1, <4>2, <4>3, <4>4, CommitImplements
    <3>. QED
      BY <3>2, <3>3, <3>6
      DEF Store!Insert, WorkNow, NoRow, SeedRow, Store!NoRow, Store!SeedRow, None
  <2>9. ASSUME NEW r \in Reqs, Reject(r)
        PROVE  Store!AnswerError(r)
    BY <2>0, <2>9, AnswerFinishes DEF Reject, Store!AnswerError, At, None
  <2>10. ASSUME NEW r \in Reqs, Crash(r)
         PROVE  Store!Vanish(r)
    <3>1. WorkNow' = [WorkNow EXCEPT ![r] = Store!Free]
      <4>1. Work(Idle) = Store!Free
        BY DEF Work, Idle, Store!Free, None
      <4>. QED BY <2>10, <4>1, WorkStep DEF Crash, TypeOK
    <3>2. WorkNow[r] # Store!Free
      BY <1>a, <2>10 DEF Crash, At, WorkNow, Work, Store!Free, Calls, Ops
    <3>. QED BY <2>0, <2>10, <3>1, <3>2, SeenSame DEF Crash, Store!Vanish, WorkNow
  <2>11. ASSUME NEW i \in Ids, Expire(i)
         PROVE  UNCHANGED Store!vars
    BY <2>0, <2>11, SeenSame DEF Expire, Store!vars
  <2>12. ASSUME NEW r \in Reqs, Invalidate(r) \/ PostCreated(r)
         PROVE  Store!AnswerDone(r)
    BY <2>7, <2>12 DEF Invalidate, PostCreated, At
  <2>. QED
    BY <1>c, <2>1, <2>2, <2>3, <2>4, <2>5, <2>6, <2>8, <2>9, <2>10, <2>11, <2>12
    DEF HNext, Next, Arrive, Step, Store!Next, Ops, Store!Ops
<1>. QED BY <1>b, <1>c

\* For any number of posts and requests, and every fault: PostsService with
\* its cache, its awaits and its failures behaves as PostStore says.
THEOREM Refinement == HSpec => ImplementsStore
<1>. QED
  BY InductiveInvariant, RefinementInit, RefinementStep, PTL DEF HSpec, ImplementsStore
=============================================================================
