---------------------------- MODULE PostsService ----------------------------
(***************************************************************************)
(* PostsService (src/src/posts/posts.service.ts): posts in PostgreSQL,     *)
(* read through a Redis cache shared by every instance of the API, with a  *)
(* job enqueued for each new post.                                         *)
(*                                                                         *)
(* Requests of all instances interleave wherever the code awaits, so each  *)
(* `await` is one step: the remote call takes effect and its continuation  *)
(* runs up to the next await.  A row is abstracted to a version, which     *)
(* every UPDATE statement bumps (Post.updatedAt), and to whether its       *)
(* deletedAt is null; a cache entry to the version it is a snapshot of.    *)
(*                                                                         *)
(* Faults selects what the environment may do besides answering:           *)
(*   "crash"  an instance dies and the requests it runs disappear;         *)
(*   "reject" an awaited call rejects and the request ends with a 500;     *)
(*   "lost"   the cache client hides an unreachable Redis: a get resolves  *)
(*            as a miss, a set or del resolves without an effect.          *)
(***************************************************************************)
EXTENDS Naturals, FiniteSets

CONSTANTS Ids,     \* post ids
          NoId,    \* the id of a create that has not inserted its row yet
          Reqs,    \* slots for requests in flight, over all instances
          MaxVer,  \* bound: no request is accepted that could pass this version
          Faults

ASSUME NoIdAssumption == NoId \notin Ids
ASSUME MaxVerAssumption == MaxVer \in Nat
ASSUME FaultsAssumption == Faults \subseteq {"crash", "reject", "lost"}

VARIABLES db,        \* the posts table
          cache,     \* the keys post:<id> of Redis
          enqueued,  \* posts whose post-created job reached the queue
          call,      \* what each slot is executing
          reply      \* what each slot answered last

vars == <<db, cache, enqueued, call, reply>>

None == 0   \* no row, no cache entry, no snapshot: versions start at 1

Ops == {"get", "create", "update", "remove", "restore"}
Points == {"idle", "get", "find", "fill", "write", "invalidate", "insert", "enqueue"}
Codes == {"none", "found", "done", "notFound", "error"}

Rows == [ver : Nat, live : BOOLEAN]
Calls == [op : Ops, id : Ids \cup {NoId}, at : Points, post : Nat]
Replies == [code : Codes, id : Ids \cup {NoId}, ver : Nat]

NoRow == [ver |-> None, live |-> FALSE]
SeedRow == [ver |-> 1, live |-> TRUE]
Idle == [op |-> "get", id |-> NoId, at |-> "idle", post |-> None]
NoReply == [code |-> "none", id |-> NoId, ver |-> None]

TypeOK == /\ db \in [Ids -> Rows]
          /\ cache \in [Ids -> Nat]
          /\ enqueued \subseteq Ids
          /\ call \in [Reqs -> Calls]
          /\ reply \in [Reqs -> Replies]

Init == /\ db \in [Ids -> {NoRow, SeedRow}]
        /\ cache = [i \in Ids |-> None]
        /\ enqueued = {}
        /\ call = [r \in Reqs |-> Idle]
        /\ reply = [r \in Reqs |-> NoReply]

-----------------------------------------------------------------------------
At(r, point) == call[r].at = point
Id(r) == call[r].id
Exists(i) == db[i].ver # None

\* r awaits its next call, holding snapshot v (None when it holds no row)
Goto(r, point, v) ==
  /\ call' = [call EXCEPT ![r] = [@ EXCEPT !.at = point, !.post = v]]
  /\ UNCHANGED reply

\* r is answered, and its slot is free again
Answer(r, code, v) ==
  /\ call' = [call EXCEPT ![r] = Idle]
  /\ reply' = [reply EXCEPT ![r] = [code |-> code, id |-> Id(r), ver |-> v]]

\* findOne returned snapshot v: a GET answers it, update and remove only
\* wanted to know that the post exists
Found(r, v) == IF call[r].op = "get" THEN Answer(r, "found", v)
               ELSE Goto(r, "write", None)

-----------------------------------------------------------------------------
\* Controller: a request arrives and runs to its first await

\* Mutant: restore looks the post up with findOne like the other writes
EntryRestoreFinds(op) == IF op = "create" THEN "insert" ELSE "get"

Entry(op) == CASE op = "create" -> "insert"
               [] op = "restore" -> "write"
               [] OTHER -> "get"

\* Versions in reserve for the writes in flight, and ids for the creates
Writing(i) == {r \in Reqs : Id(r) = i /\ call[r].op # "get"}
Unused == {i \in Ids : ~Exists(i)}
Used(i) == IF Exists(i) THEN db[i].ver ELSE 1
Room(op, i) ==
  CASE op = "get" -> i \in Ids
    [] op = "create" -> i = NoId /\ Cardinality(Writing(NoId)) < Cardinality(Unused)
    [] OTHER -> i \in Ids /\ Used(i) + Cardinality(Writing(i)) < MaxVer

Receive(r, op, i) ==
  /\ At(r, "idle")
  /\ Room(op, i)
  /\ call' = [call EXCEPT ![r] = [op |-> op, id |-> i, at |-> Entry(op), post |-> None]]
  /\ reply' = [reply EXCEPT ![r] = NoReply]
  /\ UNCHANGED <<db, cache, enqueued>>

-----------------------------------------------------------------------------
\* findOne

CacheGet(r) ==
  /\ At(r, "get")
  /\ \/ cache[Id(r)] # None /\ Found(r, cache[Id(r)])
     \/ cache[Id(r)] = None /\ Goto(r, "find", None)
     \/ "lost" \in Faults /\ Goto(r, "find", None)
  /\ UNCHANGED <<db, cache, enqueued>>

\* Mutant: without `deletedAt: null`, as findUnique by id
FindUnique(r) ==
  /\ At(r, "find")
  /\ IF Exists(Id(r)) THEN Goto(r, "fill", db[Id(r)].ver)
                      ELSE Answer(r, "notFound", None)
  /\ UNCHANGED <<db, cache, enqueued>>

FindFirst(r) ==
  /\ At(r, "find")
  /\ IF db[Id(r)].live THEN Goto(r, "fill", db[Id(r)].ver)
                       ELSE Answer(r, "notFound", None)
  /\ UNCHANGED <<db, cache, enqueued>>

CacheSet(r) ==
  /\ At(r, "fill")
  /\ \/ cache' = [cache EXCEPT ![Id(r)] = call[r].post]
     \/ "lost" \in Faults /\ UNCHANGED cache
  /\ Found(r, call[r].post)
  /\ UNCHANGED <<db, enqueued>>

-----------------------------------------------------------------------------
\* update, remove, restore

\* Mutant: a PATCH writes the whole row back, deletedAt: null included
LiveAfterWholeRow(op, was) == op # "remove"

\* deletedAt is left alone by a PATCH, set by a DELETE, cleared by a restore
LiveAfter(op, was) == CASE op = "update" -> was
                        [] op = "remove" -> FALSE
                        [] op = "restore" -> TRUE

\* Mutant: restore forgets to invalidate
PrismaUpdateRestoreKeeps(r) ==
  LET row == db[Id(r)] IN
  /\ At(r, "write")
  /\ Exists(Id(r))
  /\ db' = [db EXCEPT ![Id(r)] = [ver |-> row.ver + 1,
                                  live |-> LiveAfter(call[r].op, row.live)]]
  /\ IF call[r].op = "restore" THEN Answer(r, "done", row.ver + 1)
                               ELSE Goto(r, "invalidate", row.ver + 1)
  /\ UNCHANGED <<cache, enqueued>>

PrismaUpdate(r) ==
  LET row == db[Id(r)] IN
  /\ At(r, "write")
  /\ Exists(Id(r))
  /\ db' = [db EXCEPT ![Id(r)] = [ver |-> row.ver + 1,
                                  live |-> LiveAfter(call[r].op, row.live)]]
  /\ Goto(r, "invalidate", row.ver + 1)
  /\ UNCHANGED <<cache, enqueued>>

\* PostgreSQL refuses an UPDATE of a row there is none of (P2025), and an
\* INSERT or PATCH whose userId names no user (the foreign key of author)
PrismaRefuse(r) ==
  /\ \/ At(r, "write") /\ (~Exists(Id(r)) \/ call[r].op = "update")
     \/ At(r, "insert")
  /\ Answer(r, "error", None)
  /\ UNCHANGED <<db, cache, enqueued>>

Invalidate(r) ==
  /\ At(r, "invalidate")
  /\ \/ cache' = [cache EXCEPT ![Id(r)] = None]
     \/ "lost" \in Faults /\ UNCHANGED cache
  /\ Answer(r, "done", call[r].post)
  /\ UNCHANGED <<db, enqueued>>

-----------------------------------------------------------------------------
\* create

\* Mutant: the job is added before the INSERT has resolved
PrismaCreateUnawaited(r, i) ==
  /\ At(r, "insert")
  /\ ~Exists(i)
  /\ call' = [call EXCEPT ![r] = [@ EXCEPT !.id = i, !.at = "enqueue", !.post = 1]]
  /\ UNCHANGED <<db, cache, enqueued, reply>>

PrismaCreate(r, i) ==
  /\ At(r, "insert")
  /\ ~Exists(i)
  /\ db' = [db EXCEPT ![i] = SeedRow]
  /\ call' = [call EXCEPT ![r] = [@ EXCEPT !.id = i, !.at = "enqueue", !.post = 1]]
  /\ UNCHANGED <<cache, enqueued, reply>>

\* Mutant: postCreated is not awaited, the answer does not depend on it
PostCreatedUnawaited(r) ==
  /\ At(r, "enqueue")
  /\ enqueued' \in {enqueued, enqueued \cup {Id(r)}}
  /\ Answer(r, "done", call[r].post)
  /\ UNCHANGED <<db, cache>>

PostCreated(r) ==
  /\ At(r, "enqueue")
  /\ enqueued' = enqueued \cup {Id(r)}
  /\ Answer(r, "done", call[r].post)
  /\ UNCHANGED <<db, cache>>

-----------------------------------------------------------------------------
\* Environment

\* The last call of a request that is cut short may still have taken effect
\* (an earlier call that did is the ordinary step, then the cut)
LastEffect(r) ==
  \/ UNCHANGED <<cache, enqueued>>
  \/ /\ At(r, "fill")
     /\ cache' = [cache EXCEPT ![Id(r)] = call[r].post]
     /\ UNCHANGED enqueued
  \/ /\ At(r, "invalidate")
     /\ cache' = [cache EXCEPT ![Id(r)] = None]
     /\ UNCHANGED enqueued
  \/ /\ At(r, "enqueue")
     /\ enqueued' = enqueued \cup {Id(r)}
     /\ UNCHANGED cache

Reject(r) ==
  /\ "reject" \in Faults
  /\ ~At(r, "idle")
  /\ LastEffect(r)
  /\ Answer(r, "error", None)
  /\ UNCHANGED db

Crash(r) ==
  /\ "crash" \in Faults
  /\ ~At(r, "idle")
  /\ LastEffect(r)
  /\ call' = [call EXCEPT ![r] = Idle]
  /\ UNCHANGED <<db, reply>>

\* Mutant: no ttl in the cache configuration
ExpireNever(i) == cache[i] # cache[i] /\ UNCHANGED vars

\* The 30 s default TTL of an entry runs out
Expire(i) ==
  /\ cache[i] # None
  /\ cache' = [cache EXCEPT ![i] = None]
  /\ UNCHANGED <<db, enqueued, call, reply>>

-----------------------------------------------------------------------------
\* One continuation of request r
Step(r) ==
  \/ CacheGet(r) \/ FindFirst(r) \/ CacheSet(r)
  \/ PrismaUpdate(r) \/ PrismaRefuse(r) \/ Invalidate(r)
  \/ \E i \in Ids : PrismaCreate(r, i)
  \/ PostCreated(r)

Arrive(r) == \E op \in Ops, i \in Ids \cup {NoId} : Receive(r, op, i)

Next == \/ \E r \in Reqs : Arrive(r) \/ Step(r) \/ Reject(r) \/ Crash(r)
        \/ \E i \in Ids : Expire(i)

\* Every pending call settles eventually and every TTL runs out; nothing
\* obliges clients to send requests or faults to happen
Fairness == /\ \A r \in Reqs : WF_vars(Step(r))
            /\ \A i \in Ids : WF_vars(Expire(i))

Spec == Init /\ [][Next]_vars /\ Fairness
=============================================================================
