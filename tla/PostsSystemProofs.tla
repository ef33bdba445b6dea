-------------------------- MODULE PostsSystemProofs --------------------------
(***************************************************************************)
(* Proofs about the API and its queue together, for any posts, requests,   *)
(* workers, options and faults on either side.                             *)
(***************************************************************************)
EXTENDS PostsProofs, PostsSystem, Sequences

Ends == {"completed", "failed"}
InQueue(i) == place[i] # "none"

\* What the queue holds, runs and has sent are jobs that were added.
WorkersKnow ==
  /\ worker \in [Workers -> [job : Ids \cup {NoId}, at : {"idle", "working", "notified"}]]
  /\ \A w \in Workers : /\ worker[w].at # "idle" => worker[w].job \in Ids
                        /\ worker[w].job \in Ids => InQueue(worker[w].job)
KeptKnown ==
  /\ kept \in [Ends -> Seq(Ids)]
  /\ \A set \in Ends : \A n \in 1 .. Len(kept[set]) : InQueue(kept[set][n])
SentKnown == sent \in [Ids -> Nat] /\ \A i \in Ids : sent[i] > 0 => InQueue(i)
JobsOK == place \in [Ids -> Queue!Places] /\ WorkersKnow /\ KeptKnown /\ SentKnown

\* The queue has what PostsService enqueued, and PostsService enqueues, and
\* answers version 1 for, what it has inserted.
LinkOK ==
  /\ \A i \in Ids : InQueue(i) <=> i \in enqueued
  /\ \A i \in enqueued : Exists(i)
  /\ \A r \in Reqs : At(r, "enqueue") => Exists(Id(r))
  /\ \A r \in Reqs : At(r, "invalidate") => call[r].post > 1
  /\ \A r \in Reqs : reply[r].code = "done" /\ reply[r].ver = 1 => reply[r].id \in enqueued

SystemInv == TypeOK /\ CallsOK /\ JobsOK /\ LinkOK

-----------------------------------------------------------------------------
(***************************************************************************)
(* What a step of the API can do to what the queue relies on.              *)
(***************************************************************************)
CreateStep ==
  /\ enqueued \subseteq enqueued'
  /\ \A i \in enqueued' : i \in enqueued \/ \E r \in Reqs : At(r, "enqueue") /\ Id(r) = i
  /\ \A r \in Reqs :
       /\ call'[r].at = "enqueue" => call'[r] = call[r] \/ db'[call'[r].id].ver # None
       /\ call'[r].at = "invalidate" => call'[r] = call[r] \/ call'[r].post > 1
       /\ reply'[r].code = "done" =>
            \/ reply'[r] = reply[r]
            \/ At(r, "invalidate") /\ reply'[r].ver = call[r].post
            \/ At(r, "enqueue") /\ Id(r) \in enqueued' /\ reply'[r].id = Id(r)

LEMMA CreateShape == TypeOK /\ CallsOK /\ [Next]_vars => CreateStep
<1> SUFFICES ASSUME TypeOK, CallsOK, [Next]_vars PROVE CreateStep
  OBVIOUS
<1>a. \A r \in Reqs : call[r] \in Calls /\ CallOK(call[r])
  BY DEF TypeOK, CallsOK
<1> USE DEF CreateStep, Goto, Answer, At, Id, Idle, TypeOK, Calls, Rows, Replies
<1>1. ASSUME NEW r \in Reqs, NEW op \in Ops, NEW i \in Ids \cup {NoId}, Receive(r, op, i)
      PROVE  CreateStep
  BY <1>1 DEF Receive, Entry, NoReply, Ops
<1>2. ASSUME NEW r \in Reqs, NEW v, Found(r, v), UNCHANGED enqueued
      PROVE  CreateStep
  BY <1>2, FoundShape
<1>3. ASSUME NEW r \in Reqs, CacheGet(r) \/ CacheSet(r)
      PROVE  CreateStep
  <2>1. UNCHANGED enqueued /\ ((\E v : Found(r, v)) \/ Goto(r, "find", None))
    BY <1>3 DEF CacheGet, CacheSet
  <2>2. CASE Goto(r, "find", None)
    BY <2>1, <2>2
  <2>3. CASE \E v : Found(r, v)
    <3>1. PICK v : Found(r, v)
      BY <2>3
    <3>. QED BY <1>2, <2>1, <3>1
  <2>. QED BY <2>1, <2>2, <2>3
<1>4. ASSUME NEW r \in Reqs, FindFirst(r)
      PROVE  CreateStep
  <2>1. CASE Goto(r, "fill", db[Id(r)].ver) /\ UNCHANGED enqueued
    BY <2>1
  <2>2. CASE Answer(r, "notFound", None) /\ UNCHANGED enqueued
    BY <2>2
  <2>. QED BY <1>4, <2>1, <2>2 DEF FindFirst
<1>5. ASSUME NEW r \in Reqs, PrismaUpdate(r)
      PROVE  CreateStep
  <2>1. Id(r) \in Ids /\ db[Id(r)].ver \in Nat /\ db[Id(r)].ver # 0
    BY <1>5, <1>a DEF PrismaUpdate, CallOK, Exists, None
  <2>2. /\ UNCHANGED <<enqueued, reply>> /\ \A q \in Reqs : q # r => call'[q] = call[q]
        /\ call'[r].at = "invalidate" /\ call'[r].post = db[Id(r)].ver + 1
    BY <1>5 DEF PrismaUpdate
  <2>3. call'[r].post > 1
    BY <2>1, <2>2
  <2>4. \A q \in Reqs : q # r => call'[q] = call[q]
    BY <2>2
  <2>5. enqueued' = enqueued /\ reply' = reply /\ call'[r].at = "invalidate"
    BY <2>2
  <2>. QED BY <2>3, <2>4, <2>5
<1>6. ASSUME NEW r \in Reqs, PrismaRefuse(r)
      PROVE  CreateStep
  BY <1>6 DEF PrismaRefuse
<1>7. ASSUME NEW r \in Reqs, Invalidate(r)
      PROVE  CreateStep
  BY <1>7, <1>a DEF Invalidate, CallOK
<1>8. ASSUME NEW r \in Reqs, NEW i \in Ids, PrismaCreate(r, i)
      PROVE  CreateStep
  <2>1. /\ UNCHANGED <<enqueued, reply>> /\ \A q \in Reqs : q # r => call'[q] = call[q]
        /\ call'[r].at = "enqueue" /\ call'[r].id = i
    BY <1>8 DEF PrismaCreate
  <2>2. db'[i].ver # None
    BY <1>8 DEF PrismaCreate, SeedRow, None
  <2>. QED BY <2>1, <2>2
<1>9. ASSUME NEW r \in Reqs, PostCreated(r)
      PROVE  CreateStep
  BY <1>9 DEF PostCreated
<1>10. ASSUME NEW r \in Reqs, Reject(r)
       PROVE  CreateStep
  BY <1>10, <1>a DEF Reject, LastEffect
<1>11. ASSUME NEW r \in Reqs, Crash(r)
       PROVE  CreateStep
  BY <1>11, <1>a DEF Crash, LastEffect
<1>12. ASSUME NEW i \in Ids, Expire(i)
       PROVE  CreateStep
  BY <1>12 DEF Expire
<1>13. CASE UNCHANGED vars
  BY <1>13 DEF vars
<1>. QED
  BY <1>1, <1>3, <1>4, <1>5, <1>6, <1>7, <1>8, <1>9, <1>10, <1>11, <1>12, <1>13
  DEF Next, Arrive, Step

\* A row that exists stays.
LEMMA RowsStay ==
  ASSUME TypeOK, CallsOK, [Next]_vars, NEW i \in Ids, Exists(i)
  PROVE  Exists(i)'
<1>1. RowStep
  BY StepShape DEF Shape
<1>2. db[i].ver \in Nat
  BY DEF TypeOK, Rows
<1>. QED BY <1>1, <1>2 DEF RowStep, Committed, Exists, None

LEMMA LinkStep ==
  ASSUME TypeOK, CallsOK, LinkOK, [Next]_vars, TypeOK',
         \A i \in Ids : (place'[i] # "none") <=> i \in enqueued'
  PROVE  LinkOK'
<1>1. CreateStep
  BY CreateShape
<1>2. \A i \in Ids : Exists(i) => Exists(i)'
  BY RowsStay
<1>3. \A i \in enqueued' : i \in Ids
  BY DEF TypeOK
<1>4. \A r \in Reqs : At(r, "enqueue") => Id(r) \in Ids
  BY DEF CallsOK, CallOK, At, Id
<1>5. \A i \in enqueued' : Exists(i)'
  BY <1>1, <1>2, <1>3 DEF CreateStep, LinkOK
<1>6. ASSUME NEW r \in Reqs, call'[r].at = "enqueue" PROVE db'[call'[r].id].ver # None
  BY <1>1, <1>2, <1>4, <1>6 DEF CreateStep, LinkOK, At, Id, Exists
<1>7. ASSUME NEW r \in Reqs, call'[r].at = "invalidate" PROVE call'[r].post > 1
  BY <1>1, <1>7 DEF CreateStep, LinkOK, At
<1>8. ASSUME NEW r \in Reqs, reply'[r].code = "done", reply'[r].ver = 1
      PROVE  reply'[r].id \in enqueued'
  BY <1>1, <1>8 DEF CreateStep, LinkOK, At
<1>. QED BY <1>5, <1>6, <1>7, <1>8 DEF LinkOK, At, Id, Exists, InQueue

-----------------------------------------------------------------------------
(***************************************************************************)
(* What a step of the queue can do: nothing enters it but by Add.          *)
(***************************************************************************)
Enter == \A i \in Ids : InQueue(i)' <=> InQueue(i)

LEMMA FinishJobs ==
  ASSUME JobsOK, NEW i \in Ids, InQueue(i), NEW set \in Ends, Queue!Finish(i, set)
  PROVE  place' \in [Ids -> Queue!Places] /\ Enter /\ KeptKnown'
<1> DEFINE s == kept[set]
<1>0. place \in [Ids -> Queue!Places] /\ kept \in [Ends -> Seq(Ids)] /\ place[i] # "none"
  BY DEF JobsOK, KeptKnown, InQueue
<1>1. /\ s \in Seq(Ids) /\ Len(s) \in Nat /\ Queue!Keep(set) \in Nat \ {0}
      /\ set \in Queue!Places /\ "removed" \in Queue!Places /\ set # "none"
  BY <1>0, KeepsAssumption DEF Queue!Keep, Queue!Places, Ends
<1>2. \A n \in 1 .. Len(s) : s[n] \in Ids /\ place[s[n]] # "none"
  BY <1>1 DEF JobsOK, KeptKnown, InQueue
<1>3. ASSUME NEW t \in Seq(Ids), kept' = [kept EXCEPT ![set] = t],
             \A n \in 1 .. Len(t) : place[t[n]] # "none",
             place' \in [Ids -> Queue!Places], Enter
      PROVE  place' \in [Ids -> Queue!Places] /\ Enter /\ KeptKnown'
  <2>1. kept' \in [Ends -> Seq(Ids)] /\ kept'[set] = t
    BY <1>0, <1>3
  <2>2. ASSUME NEW o \in Ends, NEW n \in 1 .. Len(kept'[o])
        PROVE  place'[kept'[o][n]] # "none"
    <3>1. CASE o = set
      <4>1. t[n] \in Ids /\ place[t[n]] # "none"
        BY <1>3, <2>1, <2>2, <3>1
      <4>. QED BY <1>3, <2>1, <3>1, <4>1 DEF Enter, InQueue
    <3>2. CASE o # set
      <4>1. kept'[o] = kept[o] /\ kept[o] \in Seq(Ids)
        BY <1>0, <1>3, <3>2
      <4>2. kept[o][n] \in Ids /\ place[kept[o][n]] # "none"
        BY <2>2, <4>1 DEF JobsOK, KeptKnown, InQueue
      <4>. QED BY <1>3, <4>1, <4>2 DEF Enter, InQueue
    <3>. QED BY <3>1, <3>2
  <2>. QED BY <1>3, <2>1, <2>2 DEF KeptKnown, InQueue
<1>4. CASE Len(s) < Queue!Keep(set)
  <2> DEFINE t == Append(s, i)
  <2>1. kept' = [kept EXCEPT ![set] = t] /\ place' = [place EXCEPT ![i] = set]
    BY <1>4 DEF Queue!Finish
  <2>2. t \in Seq(Ids) /\ \A n \in 1 .. Len(t) : place[t[n]] # "none"
    BY <1>0, <1>1, <1>2
  <2>3. place' \in [Ids -> Queue!Places] /\ Enter
    BY <1>0, <1>1, <2>1 DEF Enter, InQueue
  <2> HIDE DEF t
  <2>. QED BY <1>3, <2>1, <2>2, <2>3
<1>5. CASE ~(Len(s) < Queue!Keep(set))
  <2> DEFINE h == Head(s)
             t == Append(Tail(s), i)
  <2>1. kept' = [kept EXCEPT ![set] = t] /\ place' = [place EXCEPT ![i] = set, ![h] = "removed"]
    BY <1>5 DEF Queue!Finish
  <2>2. Len(s) \in Nat \ {0}
    BY <1>1, <1>5
  <2>3. /\ t \in Seq(Ids) /\ h \in Ids /\ place[h] # "none"
        /\ \A n \in 1 .. Len(t) : place[t[n]] # "none"
    BY <1>0, <1>1, <1>2, <2>2
  <2> HIDE DEF h, t
  <2>4. place' \in [Ids -> Queue!Places] /\ Enter
    BY <1>0, <1>1, <2>1, <2>3 DEF Enter, InQueue
  <2>. QED BY <1>3, <2>1, <2>3, <2>4
<1>. QED BY <1>4, <1>5

\* A job moved to another set of the queue.
LEMMA MoveJobs ==
  ASSUME JobsOK, NEW i \in Ids, InQueue(i), NEW p \in {"waiting", "active", "delayed"},
         place' = [place EXCEPT ![i] = p], kept' = kept
  PROVE  place' \in [Ids -> Queue!Places] /\ Enter /\ KeptKnown'
<1>1. p \in Queue!Places /\ p # "none"
  BY DEF Queue!Places
<1>2. place' \in [Ids -> Queue!Places] /\ Enter
  BY <1>1 DEF JobsOK, Enter, InQueue
<1>3. \A o \in Ends : \A n \in 1 .. Len(kept[o]) : kept[o][n] \in Ids /\ place[kept[o][n]] # "none"
  BY DEF JobsOK, KeptKnown, InQueue
<1>. QED BY <1>2, <1>3 DEF JobsOK, KeptKnown, Enter, InQueue

\* Nothing entered and nothing left, and the workers go on or rest.
LEMMA RestJobs ==
  ASSUME JobsOK, Enter, place' \in [Ids -> Queue!Places], KeptKnown', sent' = sent,
         \/ worker' = worker
         \/ \E w \in Workers : worker' = [worker EXCEPT ![w] = Queue!Resting]
  PROVE  JobsOK'
<1>1. SentKnown'
  BY DEF JobsOK, SentKnown, Enter, InQueue
<1>2. /\ Queue!Resting \in [job : Ids \cup {NoId}, at : {"idle", "working", "notified"}]
      /\ Queue!Resting.at = "idle" /\ Queue!Resting.job \notin Ids
  BY NoIdAssumption DEF Queue!Resting
<1>3. CASE worker' = worker
  BY <1>3 DEF JobsOK, WorkersKnow, Enter, InQueue, SentKnown
<1>4. ASSUME NEW w \in Workers, worker' = [worker EXCEPT ![w] = Queue!Resting]
      PROVE  JobsOK'
  <2>1. /\ worker' \in [Workers -> [job : Ids \cup {NoId}, at : {"idle", "working", "notified"}]]
        /\ worker'[w] = Queue!Resting /\ \A v \in Workers : v # w => worker'[v] = worker[v]
    BY <1>2, <1>4 DEF JobsOK, WorkersKnow
  <2>2. WorkersKnow'
    BY <1>2, <2>1 DEF JobsOK, WorkersKnow, Enter, InQueue
  <2>. QED BY <1>1, <2>2 DEF JobsOK
<1>5. WorkersKnow'
  BY <1>3, <1>4 DEF JobsOK
<1>. QED BY <1>1, <1>5 DEF JobsOK

LEMMA QueueStepJobs ==
  ASSUME JobsOK, Queue!QueueStep
  PROVE  JobsOK' /\ Enter
<1>1. ASSUME NEW w \in Workers, NEW i \in Ids, Queue!Take(w, i)
      PROVE  JobsOK' /\ Enter
  <2>1. /\ InQueue(i) /\ place' = [place EXCEPT ![i] = "active"] /\ kept' = kept /\ sent' = sent
        /\ worker' = [worker EXCEPT ![w] = [job |-> i, at |-> "working"]]
    BY <1>1 DEF Queue!Take, InQueue
  <2>2. place' \in [Ids -> Queue!Places] /\ Enter /\ KeptKnown'
    BY <2>1, MoveJobs
  <2>3. WorkersKnow'
    BY <2>1, <2>2 DEF JobsOK, WorkersKnow, Enter, InQueue
  <2>. QED BY <2>1, <2>2, <2>3 DEF JobsOK, SentKnown, Enter, InQueue
<1>2. ASSUME NEW w \in Workers, Queue!Notify(w)
      PROVE  JobsOK' /\ Enter
  <2> DEFINE i == worker[w].job
  <2>1. /\ worker[w].at = "working" /\ worker' = [worker EXCEPT ![w].at = "notified"]
        /\ sent' = [sent EXCEPT ![i] = @ + 1] /\ place' = place /\ kept' = kept
    BY <1>2 DEF Queue!Notify
  <2>2. i \in Ids /\ InQueue(i)
    BY <2>1 DEF JobsOK, WorkersKnow
  <2>3. SentKnown'
    BY <2>1, <2>2 DEF JobsOK, SentKnown, InQueue
  <2>4. /\ worker' \in [Workers -> [job : Ids \cup {NoId}, at : {"idle", "working", "notified"}]]
        /\ worker'[w].job = i /\ \A v \in Workers : v # w => worker'[v] = worker[v]
    BY <2>1 DEF JobsOK, WorkersKnow
  <2>5. WorkersKnow'
    BY <2>1, <2>2, <2>4 DEF JobsOK, WorkersKnow, InQueue
  <2>. QED BY <2>1, <2>3, <2>5 DEF JobsOK, KeptKnown, Enter, InQueue
<1>3. ASSUME NEW w \in Workers, Queue!Complete(w) \/ Queue!Throw(w)
      PROVE  JobsOK' /\ Enter
  <2> DEFINE i == worker[w].job
  <2>1. /\ worker[w].at # "idle" /\ sent' = sent
        /\ worker' = [worker EXCEPT ![w] = Queue!Resting]
        /\ \/ \E set \in Ends : Queue!Finish(i, set)
           \/ place' = [place EXCEPT ![i] = "delayed"] /\ kept' = kept
    BY <1>3 DEF Queue!Complete, Queue!Throw, Queue!Rest, Ends
  <2>2. i \in Ids /\ InQueue(i)
    BY <2>1 DEF JobsOK, WorkersKnow
  <2>3. place' \in [Ids -> Queue!Places] /\ Enter /\ KeptKnown'
    BY <2>1, <2>2, FinishJobs, MoveJobs
  <2>. QED BY <2>1, <2>3, RestJobs
<1>4. ASSUME NEW w \in Workers, Queue!ReportRefused(w) \/ Queue!WorkerCrash(w)
      PROVE  JobsOK' /\ Enter
  <2>1. /\ sent' = sent /\ worker' = [worker EXCEPT ![w] = Queue!Resting]
        /\ place' = place /\ kept' = kept
    BY <1>4 DEF Queue!ReportRefused, Queue!WorkerCrash, Queue!Rest
  <2>2. place' \in [Ids -> Queue!Places] /\ Enter /\ KeptKnown'
    BY <2>1 DEF JobsOK, KeptKnown, Enter, InQueue
  <2>. QED BY <2>1, <2>2, RestJobs
<1>5. ASSUME NEW i \in Ids, Queue!Promote(i) \/ Queue!Stalled(i)
      PROVE  JobsOK' /\ Enter
  <2>1. /\ InQueue(i) /\ sent' = sent /\ worker' = worker
        /\ \/ \E set \in Ends : Queue!Finish(i, set)
           \/ place' = [place EXCEPT ![i] = "waiting"] /\ kept' = kept
    BY <1>5 DEF Queue!Promote, Queue!Stalled, InQueue, Ends
  <2>2. place' \in [Ids -> Queue!Places] /\ Enter /\ KeptKnown'
    BY <2>1, FinishJobs, MoveJobs
  <2>. QED BY <2>1, <2>2, RestJobs
<1>. QED BY <1>1, <1>2, <1>3, <1>4, <1>5 DEF Queue!QueueStep, Queue!WorkerStep

LEMMA AddJobs ==
  ASSUME JobsOK, NEW i \in Ids, Queue!Add(i)
  PROVE  JobsOK' /\ \A j \in Ids : InQueue(j)' <=> InQueue(j) \/ j = i
<1>1. /\ place' = [place EXCEPT ![i] = "waiting"]
      /\ kept' = kept /\ worker' = worker /\ sent' = sent
  BY DEF Queue!Add
<1>2. "waiting" \in Queue!Places
  BY DEF Queue!Places
<1>3. /\ place' \in [Ids -> Queue!Places]
      /\ \A j \in Ids : InQueue(j)' <=> InQueue(j) \/ j = i
  BY <1>1, <1>2 DEF JobsOK, InQueue
<1>4. \A o \in Ends : \A n \in 1 .. Len(kept[o]) : kept[o][n] \in Ids /\ place[kept[o][n]] # "none"
  BY DEF JobsOK, KeptKnown, InQueue
<1>5. KeptKnown'
  BY <1>1, <1>3, <1>4 DEF JobsOK, KeptKnown, InQueue
<1>6. WorkersKnow'
  BY <1>1, <1>3 DEF JobsOK, WorkersKnow, InQueue
<1>7. SentKnown'
  BY <1>1, <1>3 DEF JobsOK, SentKnown, InQueue
<1>. QED BY <1>3, <1>5, <1>6, <1>7 DEF JobsOK

-----------------------------------------------------------------------------
LEMMA SystemInit == SInit => SystemInv
<1> SUFFICES ASSUME SInit PROVE SystemInv
  OBVIOUS
<1>1. TypeOK
  <2>1. NoRow \in Rows /\ SeedRow \in Rows /\ Idle \in Calls /\ NoReply \in Replies
    BY DEF NoRow, SeedRow, Rows, None, Idle, NoReply, Calls, Replies, Ops, Points, Codes
  <2>. QED BY <2>1 DEF SInit, Init, TypeOK, None
<1>2. CallsOK
  BY DEF SInit, Init, CallsOK, CallOK, Idle
<1>3. JobsOK
  <2>1. /\ place \in [Ids -> Queue!Places] /\ SentKnown
    BY DEF SInit, Queue!QInit, Queue!Places, SentKnown
  <2>2. WorkersKnow
    BY NoIdAssumption DEF SInit, Queue!QInit, Queue!Resting, WorkersKnow
  <2>3. kept = [s \in Ends |-> <<>>]
    BY DEF SInit, Queue!QInit, Ends
  <2>4. KeptKnown
    BY <2>3 DEF KeptKnown
  <2>. QED BY <2>1, <2>2, <2>4 DEF JobsOK
<1>4. LinkOK
  BY DEF SInit, Init, Queue!QInit, LinkOK, InQueue, At, Idle, NoReply
<1>. QED BY <1>1, <1>2, <1>3, <1>4 DEF SystemInv

LEMMA SystemStep == SystemInv /\ [SNext]_svars => SystemInv'
<1> SUFFICES ASSUME SystemInv, [SNext]_svars PROVE SystemInv'
  OBVIOUS
<1>0. TypeOK /\ CallsOK /\ JobsOK /\ LinkOK
  BY DEF SystemInv
<1>1. ASSUME [Next]_vars, JobsOK', \A i \in Ids : InQueue(i)' <=> i \in enqueued'
      PROVE  SystemInv'
  <2>1. TypeOK' /\ CallsOK'
    BY <1>0, <1>1, TypeStep
  <2>2. LinkOK'
    BY <1>0, <1>1, <2>1, LinkStep DEF InQueue
  <2>. QED BY <1>1, <2>1, <2>2 DEF SystemInv
<1>2. ASSUME UNCHANGED qvars PROVE JobsOK' /\ Enter
  BY <1>0, <1>2 DEF qvars, JobsOK, WorkersKnow, KeptKnown, SentKnown, Enter, InQueue
<1>3. CASE Api(Next)
  <2>1. CASE enqueued' = enqueued /\ UNCHANGED qvars
    BY <1>0, <1>1, <1>2, <1>3, <2>1 DEF Api, Enter, LinkOK
  <2>2. ASSUME NEW i \in Ids \ enqueued, enqueued' = enqueued \cup {i}, Queue!Add(i)
        PROVE  SystemInv'
    <3>1. JobsOK' /\ \A j \in Ids : InQueue(j)' <=> InQueue(j) \/ j = i
      BY <1>0, <2>2, AddJobs
    <3>2. \A j \in Ids : InQueue(j)' <=> j \in enqueued'
      BY <1>0, <2>2, <3>1 DEF LinkOK
    <3>. QED BY <1>1, <1>3, <3>1, <3>2 DEF Api
  <2>. QED BY <1>3, <2>1, <2>2 DEF Api, HandOver
<1>4. CASE Worker(Queue!QueueStep)
  <2>1. UNCHANGED vars /\ JobsOK' /\ Enter
    BY <1>0, <1>4, QueueStepJobs DEF Worker
  <2>2. \A i \in Ids : InQueue(i)' <=> i \in enqueued'
    BY <1>0, <2>1 DEF vars, Enter, LinkOK
  <2>. QED BY <1>1, <2>1, <2>2
<1>5. CASE UNCHANGED svars
  <2>1. UNCHANGED vars /\ UNCHANGED qvars
    BY <1>5 DEF svars, vars, qvars
  <2>2. \A i \in Ids : InQueue(i)' <=> i \in enqueued'
    BY <1>0, <1>2, <2>1 DEF vars, Enter, LinkOK
  <2>. QED BY <1>1, <1>2, <2>1, <2>2
<1>. QED BY <1>3, <1>4, <1>5 DEF SNext

LEMMA SystemInvariant == SSpec => []SystemInv
BY SystemInit, SystemStep, PTL DEF SSpec

\* However API and queue interleave, crash and retry: every job, and every
\* notification sent, is for a post that is committed.
THEOREM NotifiedOnlyCommitted == SSpec => []NotifiedMeansCommitted
<1>1. SystemInv => NotifiedMeansCommitted
  <2> SUFFICES ASSUME SystemInv, NEW i \in Ids, place[i] # "none" \/ sent[i] > 0
               PROVE  Exists(i)
    BY DEF NotifiedMeansCommitted
  <2>1. InQueue(i)
    BY DEF SystemInv, JobsOK, SentKnown, InQueue
  <2>. QED BY <2>1 DEF SystemInv, LinkOK
<1>. QED BY <1>1, SystemInvariant, PTL

\* A 201 is answered only when the post's job is in Redis already.
THEOREM AckedOnlyQueued == SSpec => []AckedMeansQueued
<1>1. SystemInv => AckedMeansQueued
  BY DEF SystemInv, LinkOK, AckedMeansQueued, AckedCreate, InQueue
<1>. QED BY <1>1, SystemInvariant, PTL

\* Composed, the API still takes the steps of PostsService only and the queue
\* those of Notifications: what is proved of each alone holds of the system.
THEOREM PartsBehave ==
  SSpec => /\ Init /\ [][Next]_vars
           /\ Queue!QInit /\ [][Queue!QNext]_qvars
<1>1. SInit => Init /\ Queue!QInit
  BY DEF SInit
<1>2. [SNext]_svars => [Next]_vars /\ [Queue!QNext]_qvars
  <2> SUFFICES ASSUME [SNext]_svars PROVE [Next]_vars /\ [Queue!QNext]_qvars
    OBVIOUS
  <2>1. CASE Api(Next)
    BY <2>1 DEF Api, HandOver, Queue!QNext
  <2>2. CASE Worker(Queue!QueueStep)
    BY <2>2 DEF Worker, Queue!QNext
  <2>3. CASE UNCHANGED svars
    BY <2>3 DEF svars, vars, qvars
  <2>. QED BY <2>1, <2>2, <2>3 DEF SNext
<1>. QED BY <1>1, <1>2, PTL DEF SSpec

-----------------------------------------------------------------------------
(***************************************************************************)
(* The queue's own proofs, about the queue of the system: its assumptions  *)
(* hold of the system's constants, its steps are Notifications' steps.     *)
(***************************************************************************)
QP == INSTANCE NotificationsProofs WITH Jobs <- Ids, NoJob <- NoId

LEMMA QueueOptions ==
  /\ QP!WorkersAssumption /\ QP!NoWorkerAssumption /\ QP!AttemptsAssumption
  /\ QP!KeepAssumption /\ QP!HandlerAssumption /\ QP!QueueFaultsAssumption
<1>1. QP!WorkersAssumption
  BY QueueAssumption DEF QP!WorkersAssumption, QP!IsFiniteSet, IsFiniteSet
<1>2. QP!NoWorkerAssumption
  BY QueueAssumption, NoIdAssumption DEF QP!NoWorkerAssumption
<1>3. QP!AttemptsAssumption /\ QP!KeepAssumption
  BY QueueAssumption, KeepsAssumption DEF QP!AttemptsAssumption, QP!KeepAssumption
<1>4. QP!HandlerAssumption
  BY QueueAssumption DEF QP!HandlerAssumption
<1>5. QP!QueueFaultsAssumption
  BY QueueAssumption DEF QP!QueueFaultsAssumption
<1>. QED BY <1>1, <1>2, <1>3, <1>4, <1>5

LEMMA QueueStarts == Queue!QInit => QP!QInductive
<1>1. Queue!QInit => QP!QInit
  BY DEF Queue!QInit, QP!QInit, Queue!Resting, QP!Resting
<1>2. QP!QInit => QP!QInductive
  BY QueueOptions, QP!QInductiveInit
<1>. QED BY <1>1, <1>2

\* Queue and QP read the same formulas.
LEMMA SameNext == [Queue!QNext]_qvars => [QP!QNext]_QP!qvars
<1>a. ASSUME NEW w \in Workers, NEW i \in Ids PROVE Queue!Take(w, i) <=> QP!Take(w, i)
  BY DEF Queue!Take, QP!Take, Queue!Resting, QP!Resting
<1>b. ASSUME NEW i, NEW set PROVE Queue!Finish(i, set) <=> QP!Finish(i, set)
  BY DEF Queue!Finish, QP!Finish, Queue!Keep, QP!Keep
<1>c. ASSUME NEW w PROVE (Queue!Rest(w) <=> QP!Rest(w)) /\ (Queue!Holds(w) <=> QP!Holds(w))
  BY DEF Queue!Rest, QP!Rest, Queue!Holds, QP!Holds, Queue!Resting, QP!Resting
<1>d. ASSUME NEW w \in Workers PROVE Queue!WorkerStep(w) <=> QP!WorkerStep(w)
  <2>1. Queue!Notify(w) <=> QP!Notify(w)
    BY DEF Queue!Notify, QP!Notify
  <2>2. Queue!Complete(w) <=> QP!Complete(w)
    BY <1>b, <1>c DEF Queue!Complete, QP!Complete
  <2>3. Queue!Throw(w) <=> QP!Throw(w)
    BY <1>b, <1>c DEF Queue!Throw, QP!Throw
  <2>4. Queue!ReportRefused(w) <=> QP!ReportRefused(w)
    BY <1>c DEF Queue!ReportRefused, QP!ReportRefused
  <2>. QED BY <2>1, <2>2, <2>3, <2>4 DEF Queue!WorkerStep, QP!WorkerStep
<1>e. ASSUME NEW w \in Workers PROVE Queue!WorkerCrash(w) <=> QP!WorkerCrash(w)
  BY <1>c DEF Queue!WorkerCrash, QP!WorkerCrash, Queue!Resting, QP!Resting
<1>f. ASSUME NEW i \in Ids PROVE Queue!Promote(i) <=> QP!Promote(i)
  BY DEF Queue!Promote, QP!Promote
<1>g. ASSUME NEW i \in Ids PROVE Queue!Stalled(i) <=> QP!Stalled(i)
  BY <1>b DEF Queue!Stalled, QP!Stalled, Queue!Abandoned, QP!Abandoned
<1>h. ASSUME NEW i \in Ids PROVE Queue!Add(i) <=> QP!Add(i)
  BY DEF Queue!Add, QP!Add
<1>i. Queue!QNext <=> QP!QNext
  <2>1. Queue!QueueStep <=> QP!QueueStep
    BY <1>a, <1>d, <1>e, <1>f, <1>g DEF Queue!QueueStep, QP!QueueStep
  <2>. QED BY <1>h, <2>1 DEF Queue!QNext, QP!QNext
<1>. QED BY <1>i DEF QP!qvars, qvars

LEMMA QueueGoesOn == QP!QInductive /\ [Queue!QNext]_qvars => QP!QInductive'
<1>1. QP!QInductive /\ [QP!QNext]_QP!qvars => QP!QInductive'
  BY QueueOptions, QP!QInductiveStep
<1>. QED BY <1>1, SameNext

\* The queue's inductive invariant, in the system
LEMMA QueueInvariant == SSpec => []QP!QInductive
BY PartsBehave, QueueStarts, QueueGoesOn, PTL

LEMMA QueueMeans ==
  QP!QInductive => /\ Queue!RetentionBounded /\ Queue!BoundedNotifications
                   /\ Queue!CompletedMeansSent /\ Queue!FailedMeansExhausted
                   /\ Queue!OneRunAtATime
<1> SUFFICES ASSUME QP!QInductive
             PROVE  /\ Queue!RetentionBounded /\ Queue!BoundedNotifications
                    /\ Queue!CompletedMeansSent /\ Queue!FailedMeansExhausted
                    /\ Queue!OneRunAtATime
  OBVIOUS
<1>0. /\ QP!RetentionBounded /\ QP!BoundedNotifications /\ QP!CompletedMeansSent
      /\ QP!FailedMeansExhausted /\ QP!OneRunAtATime
  BY QueueOptions, QP!QInductiveMeans
<1>1. Queue!RetentionBounded
  BY <1>0 DEF QP!RetentionBounded, Queue!RetentionBounded, QP!Keep, Queue!Keep,
              QP!IsInjective, Queue!IsInjective, QP!Range, Queue!Range
<1>2. Queue!BoundedNotifications
  BY <1>0 DEF QP!BoundedNotifications, Queue!BoundedNotifications
<1>3. Queue!CompletedMeansSent /\ Queue!FailedMeansExhausted
  BY <1>0 DEF QP!CompletedMeansSent, Queue!CompletedMeansSent,
              QP!FailedMeansExhausted, Queue!FailedMeansExhausted
<1>4. Queue!OneRunAtATime
  BY <1>0 DEF QP!OneRunAtATime, Queue!OneRunAtATime, QP!Resting, Queue!Resting
<1>. QED BY <1>1, <1>2, <1>3, <1>4

\* No two workers of the system run one post's job at once while live workers
\* keep their locks, whatever crashes among the workers or the instances.
THEOREM OneRunInSystem == SSpec => []OneRunAtATime
<1>1. QP!QInductive => OneRunAtATime
  BY QueueMeans DEF OneRunAtATime
<1>. QED BY <1>1, QueueInvariant, PTL

\* Fed by the API, the queue keeps each of its promises: retention, bounded
\* duplicates, at least one notification, and no giving up early.
THEOREM QueueKeepsItsWord ==
  SSpec => [](/\ Queue!RetentionBounded /\ Queue!BoundedNotifications
              /\ Queue!CompletedMeansSent /\ Queue!FailedMeansExhausted)
BY QueueMeans, QueueInvariant, PTL
==============================================================================
