------------------------------ MODULE PostStore ------------------------------
(***************************************************************************)
(* What the posts API promises its clients, with no cache, no awaits and   *)
(* no faults by name (the contract src/src/posts/posts.service.ts is       *)
(* written to, as the code can keep it):                                   *)
(*   - a write is committed at most once, at one instant between its       *)
(*     arrival and its answer, and it is answered "done" only if it was;   *)
(*   - a GET answers a snapshot that was committed while the post was      *)
(*     live: possibly an old one, never an uncommitted or deleted one;     *)
(*   - "notFound" is answered only at an instant when the post is not      *)
(*     live, and never by a request that has written;                      *)
(*   - an error promises nothing: the write may be committed or not.       *)
(***************************************************************************)
EXTENDS Naturals

CONSTANTS Ids, NoId, Reqs

VARIABLES rows,   \* the version of each post and whether it is live
          seen,   \* every <<post, version>> committed while live
          work,   \* the request each slot is executing
          reply   \* what each slot answered last

vars == <<rows, seen, work, reply>>

Ops == {"get", "create", "update", "remove", "restore"}
Free == [op |-> "none", id |-> NoId, commit |-> 0]
NoReply == [code |-> "none", id |-> NoId, ver |-> 0]
NoRow == [ver |-> 0, live |-> FALSE]
SeedRow == [ver |-> 1, live |-> TRUE]

Init == /\ rows \in [Ids -> {NoRow, SeedRow}]
        /\ seen = {p \in Ids \X {1} : rows[p[1]].live}
        /\ work = [r \in Reqs |-> Free]
        /\ reply = [r \in Reqs |-> NoReply]

Accept(r, op, i) ==
  /\ work[r] = Free
  /\ (op = "create") <=> (i = NoId)
  /\ work' = [work EXCEPT ![r] = [op |-> op, id |-> i, commit |-> 0]]
  /\ reply' = [reply EXCEPT ![r] = NoReply]
  /\ UNCHANGED <<rows, seen>>

\* The instant a write happens
CommitRow(r, i, row) ==
  /\ work[r].commit = 0
  /\ rows' = [rows EXCEPT ![i] = row]
  /\ seen' = IF row.live THEN seen \cup {<<i, row.ver>>} ELSE seen
  /\ work' = [work EXCEPT ![r] = [op |-> work[r].op, id |-> i, commit |-> row.ver]]
  /\ UNCHANGED reply

Insert(r, i) ==
  /\ work[r].op = "create"
  /\ rows[i] = NoRow
  /\ CommitRow(r, i, SeedRow)

Rewrite(r) ==
  LET i == work[r].id IN
  /\ work[r].op \in {"update", "remove", "restore"}
  /\ rows[i].ver > 0
  /\ \E live \in BOOLEAN :
       /\ work[r].op = "update" => live = rows[i].live
       /\ work[r].op = "remove" => ~live
       /\ work[r].op = "restore" => live
       /\ CommitRow(r, i, [ver |-> rows[i].ver + 1, live |-> live])

\* The instant a request ends
Finish(r, code, v) ==
  /\ work[r] # Free
  /\ work' = [work EXCEPT ![r] = Free]
  /\ reply' = [reply EXCEPT ![r] = [code |-> code, id |-> work[r].id, ver |-> v]]
  /\ UNCHANGED <<rows, seen>>

AnswerFound(r) ==
  /\ work[r].op = "get"
  /\ \E p \in seen : p[1] = work[r].id /\ Finish(r, "found", p[2])

AnswerDone(r) == work[r].commit # 0 /\ Finish(r, "done", work[r].commit)

AnswerNotFound(r) ==
  /\ work[r].commit = 0
  /\ work[r].id \in Ids /\ ~rows[work[r].id].live
  /\ Finish(r, "notFound", 0)

AnswerError(r) == Finish(r, "error", 0)

\* The request vanishes with the instance that ran it
Vanish(r) ==
  /\ work[r] # Free
  /\ work' = [work EXCEPT ![r] = Free]
  /\ UNCHANGED <<rows, seen, reply>>

Next == \E r \in Reqs :
  \/ \E op \in Ops, i \in Ids \cup {NoId} : Accept(r, op, i)
  \/ \E i \in Ids : Insert(r, i)
  \/ Rewrite(r)
  \/ AnswerFound(r) \/ AnswerDone(r) \/ AnswerNotFound(r) \/ AnswerError(r)
  \/ Vanish(r)

Spec == Init /\ [][Next]_vars
=============================================================================
