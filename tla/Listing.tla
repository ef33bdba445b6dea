------------------------------- MODULE Listing -------------------------------
(* Lists of posts while posts come and go: GET /posts reads one page by      *)
(* offset, and 14-pagination recommends to seek after the last key instead.  *)
(* A client walks over the pages, one statement each, until one comes back   *)
(* short.  The service runs as PostsService says; here a write, be it        *)
(* GraphQL's or its own, is the instant it commits.                          *)
EXTENDS Integers, SequencesExt

CONSTANTS
  MaxId,       \* bound: ids the sequence hands out
  SeedPosts,   \* posts the seed script inserts
  MaxTake,     \* the largest page findAll serves
  Limits,      \* the _limit arguments clients send
  MaxChanges   \* bound: soft deletes, and restores, of a behaviour

ASSUME BoundsAssumption == MaxId \in Nat /\ MaxChanges \in Nat
ASSUME SeedAssumption == SeedPosts \in 0..MaxId
ASSUME TakeAssumption == MaxTake \in Nat \ {0} /\ Limits \subseteq Int

VARIABLES
  rows,      \* each id's row: "none" yet, "pending" in a transaction,
             \* "live", "hidden" by deletedAt, or a "gap" left by a refusal
  restored,  \* restores so far
  deleted,   \* soft deletes so far
  walk       \* a client going over the pages

lvars == <<rows, restored, deleted, walk>>

Ids == 1..MaxId
RowStates == {"none", "pending", "live", "hidden", "gap"}
Kinds == {"offset", "keyset"}

\* pos: the next page, or the last key; got: the ids received; stayed: those
\* live ever since the walk began; removed, appeared: what happened meanwhile.
Walks == [at : {"idle", "walking", "ended"}, kind : Kinds, limit : Limits \union {1},
          pos : Nat, got : Seq(Ids), stayed : SUBSET Ids, removed : Nat, appeared : Nat]
NoWalk == [at |-> "idle", kind |-> "offset", limit |-> 1, pos |-> 0, got |-> <<>>,
           stayed |-> {}, removed |-> 0, appeared |-> 0]

LInit ==
  /\ rows = [i \in Ids |-> IF i <= SeedPosts THEN "live" ELSE "none"]
  /\ restored = 0 /\ deleted = 0
  /\ walk = NoWalk

-----------------------------------------------------------------------------
Larger(a, b) == IF a > b THEN a ELSE b
Smaller(a, b) == IF a < b THEN a ELSE b

\* ORDER BY id: the n-th row has n - 1 before it.
Below(i, S) == {j \in S : j < i}
InOrder(S) == [n \in 1..Cardinality(S) |-> CHOOSE i \in S : Cardinality(Below(i, S)) = n - 1]
Ascending(s) == \A m, n \in DOMAIN s : m < n => s[m] < s[n]

Live == {i \in Ids : rows[i] = "live"}
Stored == {i \in Ids : rows[i] \in {"live", "hidden"}}

\* Mutants: the limit is not clamped; pages are counted from zero.
TakeUnclamped(limit) == limit
SkipFromZero(page, take) == Larger(page, 1) * take

\* PostsService.findAll.
Take(limit) == Smaller(Larger(limit, 1), MaxTake)
Skip(page, take) == (Larger(page, 1) - 1) * take
\* and, a mutant, without its filter
FindAllUnfiltered(page, limit) ==
  LET skip == Skip(page, Take(limit))
      all == InOrder(Stored)
  IN SubSeq(all, skip + 1, Smaller(skip + Take(limit), Len(all)))
FindAll(page, limit) ==
  LET take == Take(limit)
      skip == Skip(page, take)
      live == InOrder(Live)
  IN SubSeq(live, skip + 1, Smaller(skip + take, Len(live)))

\* WHERE id > cursor ORDER BY id LIMIT n, over the live rows; and the mutant
\* that takes the cursor's own row again.
SeekFrom(cursor, n) ==
  LET after == InOrder({i \in Live : i >= cursor})
  IN SubSeq(after, 1, Smaller(n, Len(after)))
Seek(cursor, n) ==
  LET after == InOrder({i \in Live : i > cursor})
  IN SubSeq(after, 1, Smaller(n, Len(after)))

-----------------------------------------------------------------------------
Become(i, state) == rows' = [rows EXCEPT ![i] = state]
Walking == walk.at = "walking"

\* A live row has come, or gone, under the walk.
Appears == walk' = [walk EXCEPT !.appeared = @ + (IF Walking THEN 1 ELSE 0)]
Vanishes(i) == walk' = [walk EXCEPT !.stayed = @ \ {i},
                                    !.removed = @ + (IF Walking THEN 1 ELSE 0)]

\* PostsService.create and PostResolver.createPost: the sequence hands out an
\* id, the row appears when the INSERT commits, in any order, or never.
Allocate(i) ==
  /\ rows[i] = "none"
  /\ \A j \in 1..(i - 1) : rows[j] # "none"
  /\ Become(i, "pending")
  /\ UNCHANGED <<restored, deleted, walk>>

Commit(i) ==
  /\ rows[i] = "pending"
  /\ Become(i, "live")
  /\ Appears
  /\ UNCHANGED <<restored, deleted>>

Refuse(i) ==
  /\ rows[i] = "pending"
  /\ Become(i, "gap")
  /\ UNCHANGED <<restored, deleted, walk>>

\* PostsService.remove and restore.
SoftDelete(i) ==
  /\ rows[i] = "live" /\ deleted < MaxChanges
  /\ Become(i, "hidden")
  /\ Vanishes(i)
  /\ deleted' = deleted + 1
  /\ UNCHANGED restored

Restore(i) ==
  /\ rows[i] = "hidden" /\ restored < MaxChanges
  /\ Become(i, "live")
  /\ Appears
  /\ restored' = restored + 1
  /\ UNCHANGED deleted

Write(i) == Allocate(i) \/ Commit(i) \/ Refuse(i) \/ SoftDelete(i) \/ Restore(i)

Start(kind, limit) ==
  /\ ~Walking
  /\ walk' = [NoWalk EXCEPT !.at = "walking", !.kind = kind, !.limit = limit,
                            !.pos = IF kind = "offset" THEN 1 ELSE 0, !.stayed = Live]
  /\ UNCHANGED <<rows, restored, deleted>>

\* One page, and whether it was the last.
Receive(page, pos) ==
  /\ walk' = [walk EXCEPT !.got = @ \o page, !.pos = pos,
                          !.at = IF Len(page) < Take(walk.limit) THEN "ended" ELSE "walking"]
  /\ UNCHANGED <<rows, restored, deleted>>

NextPage ==
  /\ Walking /\ walk.kind = "offset"
  /\ Receive(FindAll(walk.pos, walk.limit), walk.pos + 1)

NextSeek ==
  /\ Walking /\ walk.kind = "keyset"
  /\ LET page == Seek(walk.pos, Take(walk.limit))
     IN Receive(page, IF page = <<>> THEN walk.pos ELSE Last(page))

LNext ==
  \/ \E i \in Ids : Write(i)
  \/ \E kind \in Kinds, limit \in Limits : Start(kind, limit)
  \/ NextPage
  \/ NextSeek

LSpec == LInit /\ [][LNext]_lvars

-----------------------------------------------------------------------------
\* A walk never needs more pages than there are rows, each shown once more
\* for every time one came back.
LTypeOK ==
  /\ rows \in [Ids -> RowStates]
  /\ restored \in 0..MaxChanges /\ deleted \in 0..MaxChanges
  /\ walk \in Walks
  /\ walk.stayed \subseteq Live
  /\ walk.pos <= MaxId + walk.appeared + 2

Ended(kind) == walk.at = "ended" /\ walk.kind = kind

\* Pages by offset may skip a post that was there all the time, but no more of
\* them than were deleted meanwhile, and repeat one, but no more often than
\* posts came or came back; nothing else is missing or twice.
WalkAccounted ==
  Ended("offset") =>
    /\ Cardinality(walk.stayed \ ToSet(walk.got)) <= walk.removed
    /\ Len(walk.got) - Cardinality(ToSet(walk.got)) <= walk.appeared

\* Pages by key never repeat a post and never skip one that was there all the
\* time, whatever is inserted, deleted or restored meanwhile.
KeysetComplete ==
  /\ walk.kind = "keyset" => Ascending(walk.got)
  /\ Ended("keyset") => walk.stayed \subseteq ToSet(walk.got)

\* At any moment and for any _limit the pages of findAll, laid end to end, are
\* the live posts in ascending order: none missing, none twice, none hidden.
\* They are not longer than allowed, and pages below the first are the first.
PagesCoverLive ==
  \A limit \in Limits :
    LET live == InOrder(Live)
        pages == [p \in Ids |-> FindAll(p, limit)]
    IN /\ FlattenSeq(pages) = live /\ Ascending(live)
       /\ \A p \in Ids : Len(pages[p]) <= MaxTake
       /\ \A p \in {0, -1} : FindAll(p, limit) = FindAll(1, limit)
==============================================================================
