---------------------------- MODULE PostsHistory ----------------------------
(***************************************************************************)
(* PostsService with the history its correctness is about.  The history    *)
(* variables are computed from each step of PostsService and never         *)
(* restrict it.                                                            *)
(***************************************************************************)
EXTENDS PostsService

VARIABLES seen,       \* every <<post, version>> committed while live
          overtaken,  \* slots whose post was written since they read its row
          suspect     \* posts whose current cache entry some known accident
                      \* explains: an overtaken fill, or an invalidation
                      \* that was lost, rejected or cut by a crash

hvars == <<db, cache, enqueued, call, reply, seen, overtaken, suspect>>

\* What r executes follows from where it is in the code
CallOK(c) ==
  /\ c.at = "idle" => c = Idle
  /\ c.at \in {"get", "find", "fill"} => c.id \in Ids /\ c.op \in {"get", "update", "remove"}
  /\ c.at \in {"write", "invalidate"} => c.id \in Ids /\ c.op \in {"update", "remove", "restore"}
  /\ c.at = "insert" => c.id = NoId /\ c.op = "create"
  /\ c.at = "enqueue" => c.id \in Ids /\ c.op = "create"
  /\ c.at \in {"invalidate", "enqueue"} => c.post # None
CallsOK == \A r \in Reqs : CallOK(call[r])

HTypeOK == /\ TypeOK
           /\ seen \subseteq Ids \X Nat
           /\ overtaken \subseteq Reqs
           /\ suspect \subseteq Ids

HInit == /\ Init
         /\ seen = {p \in Ids \X {1} : db[p[1]].live}
         /\ overtaken = {}
         /\ suspect = {}

\* The step just taken ended request r's wait at point, on post i
Left(r, i, point) == At(r, point) /\ Id(r) = i /\ call'[r].at # point

\* r was rejected or crashed (its reply is reset when it arrives)
Cut(r) == reply'[r] = reply[r] \/ reply'[r].code = "error"

Accident(i) ==
  \/ \E r \in overtaken : Left(r, i, "fill") /\ cache'[i] # cache[i]
  \/ \E r \in Reqs : Left(r, i, "invalidate") /\ (Cut(r) \/ "lost" \in Faults)
CleanFill(i) ==
  \E r \in Reqs \ overtaken : Left(r, i, "fill") /\ cache'[i] # cache[i]

History ==
  /\ seen' = seen \cup {p \in {<<i, db'[i].ver>> : i \in Ids} : db'[p[1]].live}
  /\ overtaken' = {r \in Reqs : /\ call'[r].at = "fill" /\ At(r, "fill")
                                /\ r \in overtaken \/ db'[Id(r)] # db[Id(r)]}
  /\ suspect' = {i \in Ids : /\ cache'[i] # None
                             /\ i \in suspect \/ Accident(i)
                             /\ ~CleanFill(i)}

HNext == Next /\ History
HSpec == HInit /\ [][HNext]_hvars /\ Fairness

-----------------------------------------------------------------------------
\* A cached snapshot is stale when the row has been written since: every
\* UPDATE statement bumps updatedAt, deletions included.
Stale(i) == cache[i] \notin {None, db[i].ver}

\* Whatever the cache holds was committed, and the post was live then: no
\* rolled-back, half-written or deleted snapshot is ever cached or served
\* (findOne caches only what `where: { id, deletedAt: null }` returned).
ServesCommitted ==
  /\ \A i \in Ids : cache[i] # None => <<i, cache[i]>> \in seen
  /\ \A r \in Reqs : reply[r].code = "found" => <<reply[r].id, reply[r].ver>> \in seen

\* Every stale entry has a cause: a writer that has committed and is about
\* to invalidate, or one of the accidents cache-aside allows.  In
\* particular invalidate() after prisma.update, in update, remove and
\* restore alike, leaves no third way to a stale entry.
StaleHasCause ==
  \A i \in Ids : Stale(i) => \/ i \in suspect
                             \/ \E r \in Reqs : At(r, "invalidate") /\ Id(r) = i

\* What else the steps preserve.  Rows that are live have been seen; nothing
\* has been seen that is newer than its row; what the cache and the pending
\* fills hold has been seen; a fill nobody overtook holds the row's version.
RowsOK == \A i \in Ids : /\ db[i].live => <<i, db[i].ver>> \in seen
                         /\ db[i].ver = None => ~db[i].live
SeenOK == \A p \in seen : p[2] # None /\ p[2] <= db[p[1]].ver
FillsOK == \A r \in Reqs : At(r, "fill") =>
             /\ <<Id(r), call[r].post>> \in seen
             /\ r \in overtaken \/ call[r].post = db[Id(r)].ver
HistoryOK == HTypeOK /\ CallsOK /\ RowsOK /\ SeenOK /\ FillsOK

\* Bounded staleness: once the writes stop, overtaken fills, lost
\* invalidations and crashes between the write and the del are all healed
\* by the TTL (docs: caching-redis.md, "TTL (bounded staleness)").
EventuallyFresh == <>[](\A i \in Ids : ~Stale(i))

\* posts.service.ts:66 invalidates to "keep cache consistent with the DB":
\* with nothing in flight, no entry differs from its row.  The code does
\* not keep this (see the run consistent_at_rest).
ConsistentAtRest == (\A r \in Reqs : At(r, "idle")) => \A i \in Ids : ~Stale(i)

\* posts.service.ts:64 reads the post first for "404 if missing": a PATCH
\* writes live posts only.  The code does not keep this either (see the run
\* update_only_live).
UpdateOnlyLive ==
  [][\A r \in Reqs : PrismaUpdate(r) /\ call[r].op = "update" => db[Id(r)].live]_hvars

-----------------------------------------------------------------------------
\* The API as its clients see it: PostStore, a request's commit being the
\* version its prisma call returned.
Work(c) == [op |-> IF c.at = "idle" THEN "none" ELSE c.op,
            id |-> c.id,
            commit |-> IF c.at \in {"invalidate", "enqueue"} THEN c.post ELSE None]

Store == INSTANCE PostStore WITH rows <- db, work <- [r \in Reqs |-> Work(call[r])]

\* Clients cannot tell PostsService from PostStore: each write commits once
\* before it is answered, each GET answers a committed live snapshot, each
\* 404 is true at the instant it is decided.
ImplementsStore == Store!Init /\ [][Store!Next]_(Store!vars)
=============================================================================
