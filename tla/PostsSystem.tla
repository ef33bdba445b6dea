---------------------------- MODULE PostsSystem ----------------------------
(***************************************************************************)
(* PostsService and the notifications queue together: the step of a create *)
(* in which queue.add resolves (enqueued grows by the post) is the step in *)
(* which the job appears in the queue.  Everything else interleaves.       *)
(***************************************************************************)
EXTENDS PostsService

CONSTANTS Workers, NoWorker, Attempts, MaxStalled, KeepCompleted, KeepFailed,
          HandlerMayThrow, QueueFaults

ASSUME KeepsAssumption == KeepCompleted \in Nat \ {0} /\ KeepFailed \in Nat \ {0}
ASSUME QueueAssumption == /\ IsFiniteSet(Workers) /\ NoWorker \notin Workers
                          /\ Attempts \in Nat \ {0} /\ MaxStalled \in Nat
                          /\ HandlerMayThrow \in BOOLEAN /\ QueueFaults \subseteq {"crash", "stall"}

VARIABLES place, made, stalls, lock, kept, worker, runs, sent

Queue == INSTANCE Notifications WITH Jobs <- Ids, NoJob <- NoId

qvars == <<place, made, stalls, lock, kept, worker, runs, sent>>
svars == <<db, cache, enqueued, call, reply, place, made, stalls, lock, kept, worker, runs, sent>>

SInit == Init /\ Queue!QInit

\* What queue.add put in Redis is what the queue receives
HandOver == \/ enqueued' = enqueued /\ UNCHANGED qvars
            \/ \E i \in Ids \ enqueued : enqueued' = enqueued \cup {i} /\ Queue!Add(i)

Api(A) == A /\ HandOver
Worker(A) == A /\ UNCHANGED vars

SNext == Api(Next) \/ Worker(Queue!QueueStep)

SFairness ==
  /\ \A r \in Reqs : WF_svars(Api(Step(r)))
  /\ \A i \in Ids : /\ WF_svars(Api(Expire(i)))
                    /\ WF_svars(Worker(Queue!Promote(i)))
                    /\ WF_svars(Worker(Queue!Recover(i)))
  /\ \A w \in Workers : /\ WF_svars(Worker(\E i \in Ids : Queue!Take(w, i)))
                        /\ WF_svars(Worker(Queue!WorkerStep(w)))

SSpec == SInit /\ [][SNext]_svars /\ SFairness

-----------------------------------------------------------------------------
\* Only a create answers version 1
AckedCreate(i) == [code |-> "done", id |-> i, ver |-> 1] \in {reply[r] : r \in Reqs}

\* Nobody is notified of a post that was never committed: the job is added
\* after prisma.post.create has resolved (create awaits it first).
NotifiedMeansCommitted ==
  \A i \in Ids : place[i] # "none" \/ sent[i] > 0 => Exists(i)

\* A client that was told its post is created can count on the job: a 201
\* is never answered before Redis has it (create awaits postCreated).
AckedMeansQueued == \A i \in Ids : AckedCreate(i) => place[i] # "none"

\* A client that was told its post is created can count on more: the job is
\* decided, whatever crashes on either side after the answer.
AckedIsFollowedUp == \A i \in Ids : AckedCreate(i) ~> Queue!Settled(i)

\* Two workers never run one post's job at once, whichever of them, or of the
\* instances that enqueue, dies: none of them loses its lock while it lives.
OneRunAtATime == Queue!OneRunAtATime
=============================================================================
