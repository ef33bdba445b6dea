--------------------------- MODULE Notifications ---------------------------
(***************************************************************************)
(* The 'notifications' queue: the producer NotificationsService.postCreated*)
(* (src/src/jobs/notifications.service.ts), the worker                     *)
(* NotificationsProcessor (src/src/jobs/notifications.processor.ts) and    *)
(* between them BullMQ, modelled from the options the producer passes and  *)
(* the behaviour the processor's header relies on.                         *)
(*                                                                         *)
(* A worker holds a lock on the job it runs; the lock is renewed while the *)
(* worker lives and lets other workers take the job over once it lapses.   *)
(* Faults: "crash" a worker process dies in process(); "stall" a live      *)
(* worker fails to renew its lock (blocked event loop, Redis unreachable). *)
(***************************************************************************)
EXTENDS Naturals, Sequences, FiniteSets, Functions

CONSTANTS Jobs,            \* one post-created job per created post
          Workers, NoWorker, NoJob,
          Attempts,        \* attempts: 3
          MaxStalled,      \* BullMQ's default maxStalledCount: 1
          KeepCompleted,   \* removeOnComplete: 100
          KeepFailed,      \* removeOnFail: 500
          HandlerMayThrow, \* may process() throw (its real work will)?
          QueueFaults

ASSUME WorkersAssumption == IsFiniteSet(Workers)
ASSUME NoWorkerAssumption == NoWorker \notin Workers /\ NoJob \notin Jobs
ASSUME AttemptsAssumption == Attempts \in Nat \ {0} /\ MaxStalled \in Nat
ASSUME KeepAssumption == KeepCompleted \in Nat \ {0} /\ KeepFailed \in Nat \ {0}
ASSUME HandlerAssumption == HandlerMayThrow \in BOOLEAN
ASSUME QueueFaultsAssumption == QueueFaults \subseteq {"crash", "stall"}

VARIABLES place,     \* the set of the queue each job is in
          made,      \* job.attemptsMade
          stalls,    \* how often the job's lock lapsed
          lock,      \* the worker whose lock on the job is the current one
          kept,      \* completed and failed jobs still in Redis, oldest first
          worker,    \* what each worker is executing
          runs,      \* how often process() started on the job (history)
          sent       \* how often the notification went out (history)

qvars == <<place, made, stalls, lock, kept, worker, runs, sent>>

Places == {"none", "waiting", "active", "delayed", "completed", "failed", "removed"}
Resting == [job |-> NoJob, at |-> "idle"]

QTypeOK == /\ place \in [Jobs -> Places]
           /\ made \in [Jobs -> 0 .. Attempts]
           /\ stalls \in [Jobs -> 0 .. MaxStalled + 1]
           /\ lock \in [Jobs -> Workers \cup {NoWorker}]
           /\ kept \in [{"completed", "failed"} -> Seq(Jobs)]
           /\ worker \in [Workers -> [job : Jobs \cup {NoJob}, at : {"idle", "working", "notified"}]]
           /\ runs \in [Jobs -> Nat]
           /\ sent \in [Jobs -> Nat]

QInit == /\ place = [j \in Jobs |-> "none"]
         /\ made = [j \in Jobs |-> 0]
         /\ stalls = [j \in Jobs |-> 0]
         /\ lock = [j \in Jobs |-> NoWorker]
         /\ kept = [s \in {"completed", "failed"} |-> <<>>]
         /\ worker = [w \in Workers |-> Resting]
         /\ runs = [j \in Jobs |-> 0]
         /\ sent = [j \in Jobs |-> 0]

-----------------------------------------------------------------------------
\* queue.add resolves: the job is in Redis
Add(j) ==
  /\ place[j] = "none"
  /\ place' = [place EXCEPT ![j] = "waiting"]
  /\ UNCHANGED <<made, stalls, lock, kept, worker, runs, sent>>

Take(w, j) ==
  /\ worker[w] = Resting
  /\ place[j] = "waiting"
  /\ place' = [place EXCEPT ![j] = "active"]
  /\ lock' = [lock EXCEPT ![j] = w]
  /\ worker' = [worker EXCEPT ![w] = [job |-> j, at |-> "working"]]
  /\ runs' = [runs EXCEPT ![j] = @ + 1]
  /\ UNCHANGED <<made, stalls, kept, sent>>

\* process(): after its slow work the notification is out
Notify(w) ==
  /\ worker[w].at = "working"
  /\ worker' = [worker EXCEPT ![w].at = "notified"]
  /\ sent' = [sent EXCEPT ![worker[w].job] = @ + 1]
  /\ UNCHANGED <<place, made, stalls, lock, kept, runs>>

Keep(set) == IF set = "completed" THEN KeepCompleted ELSE KeepFailed

\* Mutant: removeOnComplete and removeOnFail are left out
FinishKeepsAll(j, set) ==
  /\ kept' = [kept EXCEPT ![set] = Append(@, j)]
  /\ place' = [place EXCEPT ![j] = set]

\* j ends in set, which keeps its newest jobs only
Finish(j, set) ==
  IF Len(kept[set]) < Keep(set)
  THEN /\ kept' = [kept EXCEPT ![set] = Append(@, j)]
       /\ place' = [place EXCEPT ![j] = set]
  ELSE /\ kept' = [kept EXCEPT ![set] = Append(Tail(@), j)]
       /\ place' = [place EXCEPT ![j] = set, ![Head(kept[set])] = "removed"]

\* The worker's verdict counts only while its lock is the current one
Holds(w) == worker[w].job # NoJob /\ lock[worker[w].job] = w

Rest(w) == worker' = [worker EXCEPT ![w] = Resting]

\* Mutant: process() does not await its slow work
CompleteUnawaited(w) ==
  LET j == worker[w].job IN
  /\ worker[w].at \in {"working", "notified"}
  /\ Holds(w)
  /\ made' = [made EXCEPT ![j] = @ + 1]
  /\ lock' = [lock EXCEPT ![j] = NoWorker]
  /\ Finish(j, "completed")
  /\ Rest(w)
  /\ UNCHANGED <<stalls, runs, sent>>

\* process() returned { done: true }
Complete(w) ==
  LET j == worker[w].job IN
  /\ worker[w].at = "notified"
  /\ Holds(w)
  /\ made' = [made EXCEPT ![j] = @ + 1]
  /\ lock' = [lock EXCEPT ![j] = NoWorker]
  /\ Finish(j, "completed")
  /\ Rest(w)
  /\ UNCHANGED <<stalls, runs, sent>>

\* Mutants: the attempts option is left out; the last attempt is retried
ThrowOnce(w) ==
  LET j == worker[w].job IN
  /\ HandlerMayThrow
  /\ worker[w].at # "idle"
  /\ Holds(w)
  /\ made' = [made EXCEPT ![j] = @ + 1]
  /\ lock' = [lock EXCEPT ![j] = NoWorker]
  /\ Finish(j, "failed")
  /\ Rest(w)
  /\ UNCHANGED <<stalls, runs, sent>>
ThrowAgain(w) ==
  LET j == worker[w].job IN
  /\ HandlerMayThrow
  /\ worker[w].at # "idle"
  /\ Holds(w)
  /\ made' = [made EXCEPT ![j] = @ + 1]
  /\ lock' = [lock EXCEPT ![j] = NoWorker]
  /\ IF made[j] <= Attempts
     THEN place' = [place EXCEPT ![j] = "delayed"] /\ UNCHANGED kept
     ELSE Finish(j, "failed")
  /\ Rest(w)
  /\ UNCHANGED <<stalls, runs, sent>>

\* process() threw, before or after the notification went out
Throw(w) ==
  LET j == worker[w].job IN
  /\ HandlerMayThrow
  /\ worker[w].at # "idle"
  /\ Holds(w)
  /\ made' = [made EXCEPT ![j] = @ + 1]
  /\ lock' = [lock EXCEPT ![j] = NoWorker]
  /\ IF made[j] + 1 < Attempts
     THEN place' = [place EXCEPT ![j] = "delayed"] /\ UNCHANGED kept
     ELSE Finish(j, "failed")
  /\ Rest(w)
  /\ UNCHANGED <<stalls, runs, sent>>

\* A worker whose lock lapsed reports to no one
ReportRefused(w) ==
  /\ \/ worker[w].at = "notified"
     \/ worker[w].at = "working" /\ HandlerMayThrow
  /\ ~Holds(w)
  /\ Rest(w)
  /\ UNCHANGED <<place, made, stalls, lock, kept, runs, sent>>

\* The backoff of a failed attempt has elapsed
Promote(j) ==
  /\ place[j] = "delayed"
  /\ place' = [place EXCEPT ![j] = "waiting"]
  /\ UNCHANGED <<made, stalls, lock, kept, worker, runs, sent>>

\* The process of w dies and is restarted; what it ran stays active in Redis
WorkerCrash(w) ==
  /\ "crash" \in QueueFaults
  /\ worker[w] # Resting
  /\ Rest(w)
  /\ UNCHANGED <<place, made, stalls, lock, kept, runs, sent>>

\* Mutants: locks lapse although their workers live; lapses are not counted;
\* nobody looks for lapsed locks
AbandonedAnyway(j) == place[j] = "active"

\* Nobody runs j any more
Abandoned(j) == place[j] = "active" /\ worker[lock[j]].job # j

StalledUncounted(j) ==
  /\ place[j] = "active"
  /\ Abandoned(j) \/ "stall" \in QueueFaults
  /\ lock' = [lock EXCEPT ![j] = NoWorker]
  /\ place' = [place EXCEPT ![j] = "waiting"]
  /\ UNCHANGED <<made, stalls, kept, worker, runs, sent>>
StalledNever(j) == place[j] # place[j] /\ UNCHANGED qvars

\* The stalled check finds an active job whose lock has lapsed
Stalled(j) ==
  /\ place[j] = "active"
  /\ Abandoned(j) \/ "stall" \in QueueFaults
  /\ stalls' = [stalls EXCEPT ![j] = @ + 1]
  /\ lock' = [lock EXCEPT ![j] = NoWorker]
  /\ IF stalls[j] < MaxStalled
     THEN place' = [place EXCEPT ![j] = "waiting"] /\ UNCHANGED kept
     ELSE Finish(j, "failed")
  /\ UNCHANGED <<made, worker, runs, sent>>

-----------------------------------------------------------------------------
WorkerStep(w) == Notify(w) \/ Complete(w) \/ Throw(w) \/ ReportRefused(w)

QueueStep == \/ \E w \in Workers : \/ \E j \in Jobs : Take(w, j)
                                   \/ WorkerStep(w) \/ WorkerCrash(w)
             \/ \E j \in Jobs : Promote(j) \/ Stalled(j)

QNext == QueueStep \/ \E j \in Jobs : Add(j)

\* Workers run and BullMQ's timers fire; nothing obliges a job to be added,
\* a worker to crash or a live worker to lose its lock
Recover(j) == Abandoned(j) /\ Stalled(j)
QFairness == /\ \A w \in Workers : /\ WF_qvars(\E j \in Jobs : Take(w, j))
                                   /\ WF_qvars(WorkerStep(w))
             /\ \A j \in Jobs : WF_qvars(Promote(j)) /\ WF_qvars(Recover(j))

QSpec == QInit /\ [][QNext]_qvars /\ QFairness

-----------------------------------------------------------------------------
Settled(j) == place[j] \in {"completed", "failed", "removed"}

\* Duplicates are bounded: a retry or a takeover may notify again
\* (the processor's header asks for idempotent handlers), but never more
\* often than attempts and takeovers together allow.
BoundedNotifications ==
  \A j \in Jobs : sent[j] <= runs[j] /\ runs[j] <= Attempts + MaxStalled

\* At least once: no job counts as completed without its notification, and
\* none is given up while it has attempts and takeovers left.
CompletedMeansSent == \A j \in Jobs : place[j] = "completed" => sent[j] > 0
FailedMeansExhausted ==
  \A j \in Jobs : place[j] = "failed" => made[j] = Attempts \/ stalls[j] = MaxStalled + 1

\* As long as live workers keep their locks, crashes included, no job is
\* ever processed by two workers at once.
OneRunAtATime ==
  "stall" \notin QueueFaults =>
    \A v, w \in Workers : worker[v].job = worker[w].job /\ worker[v] # Resting => v = w

\* Redis stays tidy: the sets hold what they claim, no more than configured.
RetentionBounded ==
  \A set \in {"completed", "failed"} :
    /\ Len(kept[set]) <= Keep(set)
    /\ IsInjective(kept[set])
    /\ Range(kept[set]) = {j \in Jobs : place[j] = set}

\* What else the steps preserve.  Exactly the active jobs are locked; a worker
\* is idle when it has no job, and past the notification only once it went
\* out; every run ends in an attempt made or a lapse, except the current one.
LocksOK == \A j \in Jobs : place[j] = "active" <=> lock[j] # NoWorker
WorkersOK == \A w \in Workers :
  /\ worker[w].at = "idle" <=> worker[w].job = NoJob
  /\ worker[w].at = "notified" => sent[worker[w].job] > 0
  /\ "stall" \notin QueueFaults /\ worker[w] # Resting => lock[worker[w].job] = w
CountsOK == \A j \in Jobs :
  /\ place[j] \in {"none", "waiting", "active", "delayed"} =>
       made[j] < Attempts /\ stalls[j] <= MaxStalled
  /\ made[j] + stalls[j] <= Attempts + MaxStalled
  /\ runs[j] = made[j] + stalls[j] + (IF place[j] = "active" THEN 1 ELSE 0)
Unsent(j) == {w \in Workers : worker[w] = [job |-> j, at |-> "working"]}
SentOK == \A j \in Jobs : sent[j] + Cardinality(Unsent(j)) <= runs[j]
QueueOK == QTypeOK /\ LocksOK /\ WorkersOK /\ CountsOK /\ SentOK

\* Every accepted job is decided, whatever crashes: none stays active under
\* a dead worker, delayed or waiting for ever.
EveryJobSettles == \A j \in Jobs : place[j] # "none" ~> Settled(j)

=============================================================================
