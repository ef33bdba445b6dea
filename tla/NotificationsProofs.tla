------------------------- MODULE NotificationsProofs -------------------------
(***************************************************************************)
(* Proofs about Notifications, for any finite set of workers, any set of   *)
(* jobs, any options and any faults.                                       *)
(***************************************************************************)
EXTENDS Notifications, FiniteSetTheorems, TLAPS

Ends == {"completed", "failed"}

\* What a kept set claims, index by index
ByIndex(s, set, p) ==
  /\ \A m, n \in 1 .. Len(s) : s[m] = s[n] => m = n
  /\ \A i \in Jobs : p[i] = set <=> \E n \in 1 .. Len(s) : s[n] = i

LEMMA RetentionByIndex ==
  ASSUME NEW s \in Seq(Jobs), NEW set, NEW p
  PROVE  IsInjective(s) /\ Range(s) = {i \in Jobs : p[i] = set} <=> ByIndex(s, set, p)
<1>1. DOMAIN s = 1 .. Len(s) /\ \A n \in 1 .. Len(s) : s[n] \in Jobs
  OBVIOUS
<1>2. Range(s) = {i \in Jobs : p[i] = set}
        <=> \A i \in Jobs : p[i] = set <=> \E n \in 1 .. Len(s) : s[n] = i
  <2>1. Range(s) = {s[n] : n \in 1 .. Len(s)}
    BY <1>1 DEF Range
  <2>. QED BY <1>1, <2>1
<1>3. IsInjective(s) <=> \A m, n \in 1 .. Len(s) : s[m] = s[n] => m = n
  BY <1>1 DEF IsInjective
<1>. QED BY <1>2, <1>3 DEF ByIndex

(***************************************************************************)
(* What ending an active job does: it is kept, at the price of the oldest  *)
(* kept job when the set is full, and the sets still hold what they claim. *)
(***************************************************************************)
LEMMA FinishShape ==
  ASSUME QTypeOK, RetentionBounded, NEW j \in Jobs, NEW set \in Ends,
         place[j] = "active", Finish(j, set)
  PROVE  /\ place' \in [Jobs -> Places] /\ kept' \in [Ends -> Seq(Jobs)]
         /\ place'[j] = set
         /\ \A i \in Jobs : i # j => \/ place'[i] = place[i]
                                     \/ place[i] = set /\ place'[i] = "removed"
         /\ RetentionBounded'
<1> DEFINE s == kept[set]
<1>0. /\ place \in [Jobs -> Places] /\ kept \in [Ends -> Seq(Jobs)] /\ s \in Seq(Jobs)
      /\ Keep(set) \in Nat \ {0}
  BY KeepAssumption DEF QTypeOK, Ends, Keep
<1>a. ASSUME NEW o \in Ends PROVE Len(kept[o]) <= Keep(o) /\ ByIndex(kept[o], o, place)
  <2>1. kept[o] \in Seq(Jobs)
    BY <1>0
  <2>2. /\ Len(kept[o]) <= Keep(o) /\ IsInjective(kept[o])
        /\ Range(kept[o]) = {i \in Jobs : place[i] = o}
    BY DEF RetentionBounded, Ends
  <2>. QED BY <2>1, <2>2, RetentionByIndex
<1>1. /\ Len(s) <= Keep(set) /\ \A m, n \in 1 .. Len(s) : s[m] = s[n] => m = n
      /\ \A i \in Jobs : place[i] = set <=> \E n \in 1 .. Len(s) : s[n] = i
  BY <1>a DEF ByIndex
<1>2. \A n \in 1 .. Len(s) : s[n] \in Jobs /\ place[s[n]] = set /\ s[n] # j
  BY <1>0, <1>1 DEF Ends
<1> SUFFICES ASSUME NEW t \in Seq(Jobs),
                    kept' = [kept EXCEPT ![set] = t],
                    place' \in [Jobs -> Places],
                    place'[j] = set,
                    \A i \in Jobs : i # j => \/ place'[i] = place[i]
                                             \/ place[i] = set /\ place'[i] = "removed",
                    Len(t) <= Keep(set),
                    \A m, n \in 1 .. Len(t) : t[m] = t[n] => m = n,
                    \A i \in Jobs : place'[i] = set <=> \E n \in 1 .. Len(t) : t[n] = i
             PROVE  kept' \in [Ends -> Seq(Jobs)] /\ RetentionBounded'
  <2>1. CASE Len(s) < Keep(set)
    <3> DEFINE t == Append(s, j)
    <3>1. kept' = [kept EXCEPT ![set] = t] /\ place' = [place EXCEPT ![j] = set]
      BY <2>1 DEF Finish
    <3>2. /\ t \in Seq(Jobs) /\ Len(t) = Len(s) + 1 /\ t[Len(t)] = j
          /\ \A n \in 1 .. Len(s) : t[n] = s[n]
      BY <1>0
    <3>3. /\ place' \in [Jobs -> Places] /\ place'[j] = set
          /\ \A i \in Jobs : i # j => place'[i] = place[i]
      BY <1>0, <3>1 DEF Places, Ends
    <3> HIDE DEF t, s
    <3>4. Len(s) \in Nat /\ Len(t) <= Keep(set)
      BY <1>0, <2>1, <3>2
    <3>5. \A m, n \in 1 .. Len(t) : t[m] = t[n] => m = n
      BY <1>1, <1>2, <3>2, <3>4
    <3>6. \A i \in Jobs : place'[i] = set <=> \E n \in 1 .. Len(t) : t[n] = i
      <4> SUFFICES ASSUME NEW i \in Jobs
                   PROVE  place'[i] = set <=> \E n \in 1 .. Len(t) : t[n] = i
        OBVIOUS
      <4>1. CASE i = j
        BY <3>2, <3>3, <3>4, <4>1
      <4>2. CASE i # j
        <5>1. place'[i] = set <=> \E n \in 1 .. Len(s) : s[n] = i
          BY <1>1, <3>3, <4>2
        <5>2. (\E n \in 1 .. Len(s) : s[n] = i) <=> \E n \in 1 .. Len(t) : t[n] = i
          BY <3>2, <3>4, <4>2
        <5>. QED BY <5>1, <5>2
      <4>. QED BY <4>1, <4>2
    <3>. QED BY <3>1, <3>2, <3>3, <3>4, <3>5, <3>6
  <2>2. CASE ~(Len(s) < Keep(set))
    <3> DEFINE t == Append(Tail(s), j)
               h == Head(s)
    <3>0. Len(s) \in Nat \ {0} /\ Len(s) = Keep(set)
      BY <1>0, <1>1, <2>2
    <3>1. kept' = [kept EXCEPT ![set] = t] /\ place' = [place EXCEPT ![j] = set, ![h] = "removed"]
      BY <2>2 DEF Finish
    <3>2. /\ t \in Seq(Jobs) /\ Len(t) = Len(s) /\ t[Len(t)] = j
          /\ \A n \in 1 .. Len(s) - 1 : t[n] = s[n + 1]
          /\ h = s[1]
      BY <1>0, <3>0
    <3>h. h \in Jobs /\ h # j /\ place[h] = set
      BY <1>2, <3>0, <3>2
    <3>3. /\ place' \in [Jobs -> Places] /\ place'[j] = set /\ place'[h] = "removed"
          /\ \A i \in Jobs : i # j /\ i # h => place'[i] = place[i]
      BY <1>0, <3>1, <3>h DEF Places, Ends
    <3> HIDE DEF t, s, h
    <3>5. \A m, n \in 1 .. Len(t) : t[m] = t[n] => m = n
      BY <1>1, <1>2, <3>0, <3>2
    <3>6. \A i \in Jobs : place'[i] = set <=> \E n \in 1 .. Len(t) : t[n] = i
      <4> SUFFICES ASSUME NEW i \in Jobs
                   PROVE  place'[i] = set <=> \E n \in 1 .. Len(t) : t[n] = i
        OBVIOUS
      <4>1. CASE i = j
        BY <3>0, <3>2, <3>3, <4>1
      <4>2. CASE i = h
        <5>1. place'[i] # set
          BY <3>3, <4>2 DEF Ends
        <5>2. \A n \in 1 .. Len(t) : t[n] # i
          BY <1>1, <3>0, <3>2, <3>h, <4>2
        <5>. QED BY <5>1, <5>2
      <4>3. CASE i # j /\ i # h
        <5>1. place'[i] = set <=> \E n \in 1 .. Len(s) : s[n] = i
          BY <1>1, <3>3, <4>3
        <5>2. (\E n \in 1 .. Len(s) : s[n] = i) <=> \E n \in 1 .. Len(t) : t[n] = i
          <6>1. ASSUME NEW n \in 1 .. Len(s), s[n] = i PROVE \E m \in 1 .. Len(t) : t[m] = i
            <7>1. n # 1 /\ n - 1 \in 1 .. Len(s) - 1
              BY <3>0, <3>2, <4>3, <6>1
            <7>2. t[n - 1] = s[(n - 1) + 1] /\ n - 1 \in 1 .. Len(t)
              BY <3>0, <3>2, <7>1
            <7>. QED BY <6>1, <7>2
          <6>2. ASSUME NEW n \in 1 .. Len(t), t[n] = i PROVE \E m \in 1 .. Len(s) : s[m] = i
            BY <3>0, <3>2, <4>3, <6>2
          <6>. QED BY <6>1, <6>2
        <5>. QED BY <5>1, <5>2
      <4>. QED BY <4>1, <4>2, <4>3
    <3>. QED BY <1>1, <3>0, <3>1, <3>2, <3>3, <3>h, <3>5, <3>6
  <2>. QED BY <2>1, <2>2
<1>3. kept' \in [Ends -> Seq(Jobs)] /\ kept'[set] = t
      /\ \A o \in Ends : o # set => kept'[o] = kept[o]
  BY <1>0
<1>4. \A o \in Ends : o # set => \A i \in Jobs : place'[i] = o <=> place[i] = o
  BY DEF Ends
<1>6. ASSUME NEW o \in Ends
      PROVE  /\ Len(kept'[o]) <= Keep(o) /\ IsInjective(kept'[o])
             /\ Range(kept'[o]) = {i \in Jobs : place'[i] = o}
  <2>1. Len(kept'[o]) <= Keep(o) /\ ByIndex(kept'[o], o, place')
    <3>1. CASE o = set
      BY <1>3, <3>1 DEF ByIndex
    <3>2. CASE o # set
      BY <1>3, <1>4, <1>a, <3>2 DEF ByIndex
    <3>. QED BY <3>1, <3>2
  <2>2. kept'[o] \in Seq(Jobs)
    BY <1>3
  <2>. QED BY <2>1, <2>2, RetentionByIndex
<1>. QED BY <1>3, <1>6 DEF RetentionBounded, Ends

-----------------------------------------------------------------------------
(***************************************************************************)
(* The inductive invariant.                                                *)
(***************************************************************************)
QInductive ==
  QueueOK /\ CompletedMeansSent /\ FailedMeansExhausted /\ RetentionBounded

\* The workers in state c, when f gives the workers' states
In(f, c) == {v \in Workers : f[v] = c}

\* How they change when one worker, w, does.
LEMMA UnsentStep ==
  ASSUME NEW w \in Workers, NEW c,
         \A v \in Workers : v # w => worker'[v] = worker[v]
  PROVE  \E F, G \in Nat :
           /\ F = Cardinality(In(worker, c)) /\ G = Cardinality(In(worker', c))
           /\ worker'[w] # c => G <= F
           /\ worker'[w] # c /\ worker[w] = c => G = F - 1
           /\ worker'[w] = c /\ worker[w] # c => G = F + 1
           /\ worker'[w] = worker[w] => G = F
<1> DEFINE F == In(worker, c)
           G == In(worker', c)
<1>1. F \subseteq Workers /\ G \subseteq Workers
  BY DEF In
<1>2. IsFiniteSet(F) /\ IsFiniteSet(G)
  BY <1>1, WorkersAssumption, FS_Subset
<1>3. Cardinality(F) \in Nat /\ Cardinality(G) \in Nat
  BY <1>2, FS_CardinalityType
<1>4. worker'[w] # c => G \subseteq F
  BY DEF In
<1>5. worker'[w] # c => Cardinality(G) <= Cardinality(F)
  BY <1>2, <1>4, FS_Subset
<1>6. ASSUME worker'[w] # c, worker[w] = c PROVE Cardinality(G) = Cardinality(F) - 1
  <2>1. G = F \ {w} /\ w \in F
    BY <1>6 DEF In
  <2>. QED BY <1>2, <2>1, FS_RemoveElement
<1>7. ASSUME worker'[w] = c, worker[w] # c PROVE Cardinality(G) = Cardinality(F) + 1
  <2>1. G = F \cup {w} /\ w \notin F
    BY <1>7 DEF In
  <2>. QED BY <1>2, <2>1, FS_AddElement
<1>8. ASSUME worker'[w] = worker[w] PROVE Cardinality(G) = Cardinality(F)
  <2>1. G = F
    BY <1>8 DEF In
  <2>. QED BY <2>1
<1> HIDE DEF F, G
<1>9. /\ worker'[w] # c => Cardinality(G) <= Cardinality(F)
      /\ worker'[w] # c /\ worker[w] = c => Cardinality(G) = Cardinality(F) - 1
      /\ worker'[w] = c /\ worker[w] # c => Cardinality(G) = Cardinality(F) + 1
      /\ worker'[w] = worker[w] => Cardinality(G) = Cardinality(F)
  BY <1>5, <1>6, <1>7, <1>8
<1>. QED BY <1>3, <1>9 DEF F, G

LEMMA QInductiveInit == QInit => QInductive
<1> SUFFICES ASSUME QInit PROVE QInductive
  OBVIOUS
<1> USE DEF QInit
<1>1. QTypeOK
  BY AttemptsAssumption DEF QTypeOK, Places, Resting
<1>2. LocksOK /\ WorkersOK /\ CompletedMeansSent /\ FailedMeansExhausted
  BY DEF LocksOK, WorkersOK, CompletedMeansSent, FailedMeansExhausted, Resting
<1>3. CountsOK
  BY AttemptsAssumption DEF CountsOK
<1>4. SentOK
  <2> SUFFICES ASSUME NEW j \in Jobs PROVE sent[j] + Cardinality(Unsent(j)) <= runs[j]
    BY DEF SentOK
  <2>1. Unsent(j) = {}
    BY DEF Unsent, Resting
  <2>. QED BY <2>1, FS_EmptySet
<1>5. RetentionBounded
  BY KeepAssumption DEF RetentionBounded, IsInjective, Range, Keep
<1>. QED BY <1>1, <1>2, <1>3, <1>4, <1>5 DEF QInductive, QueueOK

\* SentOK only compares three things, job by job.
LEMMA SentStep ==
  ASSUME QTypeOK, SentOK, NEW w \in Workers,
         \A v \in Workers : v # w => worker'[v] = worker[v],
         \A j \in Jobs :
           /\ sent'[j] \in Nat /\ runs'[j] \in Nat
           /\ LET c == [job |-> j, at |-> "working"]
              IN  \/ worker'[w] # c /\ sent'[j] = sent[j] /\ runs'[j] = runs[j]
                  \/ worker'[w] # c /\ worker[w] = c /\ sent'[j] = sent[j] + 1 /\ runs'[j] = runs[j]
                  \/ worker'[w] = c /\ worker[w] # c /\ sent'[j] = sent[j] /\ runs'[j] = runs[j] + 1
                  \/ worker'[w] = worker[w] /\ sent'[j] = sent[j] /\ runs'[j] = runs[j]
  PROVE  SentOK'
<1> SUFFICES ASSUME NEW j \in Jobs PROVE sent'[j] + Cardinality(Unsent(j)') <= runs'[j]
  BY DEF SentOK
<1>1. PICK c : c = [job |-> j, at |-> "working"]
  OBVIOUS
<1>2. In(worker, c) = Unsent(j) /\ In(worker', c) = Unsent(j)'
  BY <1>1 DEF Unsent, In
<1>3. PICK F \in Nat, G \in Nat :
        /\ F = Cardinality(In(worker, c)) /\ G = Cardinality(In(worker', c))
        /\ worker'[w] # c => G <= F
        /\ worker'[w] # c /\ worker[w] = c => G = F - 1
        /\ worker'[w] = c /\ worker[w] # c => G = F + 1
        /\ worker'[w] = worker[w] => G = F
  BY UnsentStep
<1>4. sent[j] + F <= runs[j] /\ sent[j] \in Nat /\ runs[j] \in Nat
  BY <1>2, <1>3 DEF SentOK, QTypeOK
<1>5. \/ worker'[w] # c /\ sent'[j] = sent[j] /\ runs'[j] = runs[j]
      \/ worker'[w] # c /\ worker[w] = c /\ sent'[j] = sent[j] + 1 /\ runs'[j] = runs[j]
      \/ worker'[w] = c /\ worker[w] # c /\ sent'[j] = sent[j] /\ runs'[j] = runs[j] + 1
      \/ worker'[w] = worker[w] /\ sent'[j] = sent[j] /\ runs'[j] = runs[j]
  BY <1>1
<1>6. sent'[j] + G <= runs'[j]
  BY <1>3, <1>4, <1>5
<1>. QED BY <1>2, <1>3, <1>6

LEMMA QInductiveStep == QInductive /\ [QNext]_qvars => QInductive'
<1> SUFFICES ASSUME QInductive, [QNext]_qvars PROVE QInductive'
  OBVIOUS
<1>0. /\ QTypeOK /\ LocksOK /\ WorkersOK /\ CountsOK /\ SentOK
      /\ CompletedMeansSent /\ FailedMeansExhausted /\ RetentionBounded
  BY DEF QInductive, QueueOK
<1> USE <1>0, NoWorkerAssumption, AttemptsAssumption
<1> DEFINE Rest8 == /\ QTypeOK' /\ LocksOK' /\ WorkersOK' /\ CountsOK' /\ SentOK'
                    /\ CompletedMeansSent' /\ FailedMeansExhausted' /\ RetentionBounded'
<1>1. ASSUME NEW j \in Jobs, Add(j)
      PROVE  Rest8
  <2> USE <1>1 DEF Add
  <2>1. QTypeOK'
    BY DEF QTypeOK, Places
  <2>2. LocksOK' /\ WorkersOK' /\ CountsOK'
    BY DEF LocksOK, WorkersOK, CountsOK, QTypeOK
  <2>3. SentOK'
    BY DEF SentOK, Unsent
  <2>4. CompletedMeansSent' /\ FailedMeansExhausted'
    BY DEF CompletedMeansSent, FailedMeansExhausted, QTypeOK
  <2>5. RetentionBounded'
    BY DEF RetentionBounded, QTypeOK, Keep
  <2>. QED BY <2>1, <2>2, <2>3, <2>4, <2>5
<1>2. ASSUME NEW w \in Workers, NEW j \in Jobs, Take(w, j)
      PROVE  Rest8
  <2> USE <1>2 DEF Take
  <2>1. QTypeOK'
    BY DEF QTypeOK, Places
  <2>2. LocksOK'
    BY DEF LocksOK, QTypeOK
  <2>3. WorkersOK'
    <3>1. worker'[w] = [job |-> j, at |-> "working"] /\ j # NoJob /\ lock'[j] = w
      BY DEF QTypeOK
    <3>2. lock[j] = NoWorker
      BY DEF LocksOK
    <3>3. ASSUME NEW v \in Workers, v # w
          PROVE  /\ worker'[v] = worker[v]
                 /\ lock[worker[v].job] = v => lock'[worker[v].job] = v
      BY <3>2, <3>3 DEF QTypeOK
    <3>4. ASSUME NEW v \in Workers
          PROVE  /\ worker'[v].at = "idle" <=> worker'[v].job = NoJob
                 /\ worker'[v].at = "notified" => sent'[worker'[v].job] > 0
                 /\ "stall" \notin QueueFaults /\ worker'[v] # Resting => lock'[worker'[v].job] = v
      <4>1. CASE v = w
        BY <3>1, <4>1
      <4>2. CASE v # w
        BY <3>3, <4>2 DEF WorkersOK
      <4>. QED BY <4>1, <4>2
    <3>. QED BY <3>4 DEF WorkersOK
  <2>4. CountsOK'
    <3>1. ASSUME NEW i \in Jobs
          PROVE  /\ i = j => /\ place[i] = "waiting" /\ place'[i] = "active"
                            /\ runs'[i] = runs[i] + 1
                 /\ i # j => place'[i] = place[i] /\ runs'[i] = runs[i]
                 /\ made'[i] = made[i] /\ stalls'[i] = stalls[i]
      BY DEF QTypeOK
    <3>2. \A i \in Jobs : made[i] \in Nat /\ stalls[i] \in Nat /\ runs[i] \in Nat
      BY DEF QTypeOK
    <3> SUFFICES ASSUME NEW i \in Jobs
                 PROVE /\ place'[i] \in {"none", "waiting", "active", "delayed"} =>
                            made'[i] < Attempts /\ stalls'[i] <= MaxStalled
                       /\ made'[i] + stalls'[i] <= Attempts + MaxStalled
                       /\ runs'[i] = made'[i] + stalls'[i] + (IF place'[i] = "active" THEN 1 ELSE 0)
      BY DEF CountsOK
    <3>3. CASE i = j
      BY <3>1, <3>2, <3>3 DEF CountsOK
    <3>4. CASE i # j
      BY <3>1, <3>4 DEF CountsOK
    <3>. QED BY <3>3, <3>4
  <2>5. SentOK'
    <3>1. \A v \in Workers : v # w => worker'[v] = worker[v]
      BY DEF QTypeOK
    <3>2. worker'[w] = [job |-> j, at |-> "working"] /\ worker[w].at = "idle"
      BY DEF QTypeOK, Resting
    <3>3. sent' = sent /\ \A i \in Jobs : sent[i] \in Nat /\ runs[i] \in Nat
      BY DEF QTypeOK
    <3>4. runs'[j] = runs[j] + 1 /\ \A i \in Jobs : i # j => runs'[i] = runs[i]
      BY DEF QTypeOK
    <3>5. \A i \in Jobs : LET c == [job |-> i, at |-> "working"]
                         IN  worker[w] # c /\ (worker'[w] = c <=> i = j)
      BY <3>2
    <3>. QED BY <3>1, <3>3, <3>4, <3>5, SentStep
  <2>6. CompletedMeansSent' /\ FailedMeansExhausted'
    BY DEF CompletedMeansSent, FailedMeansExhausted, QTypeOK
  <2>7. RetentionBounded'
    BY DEF RetentionBounded, QTypeOK, Keep
  <2>. QED BY <2>1, <2>2, <2>3, <2>4, <2>5, <2>6, <2>7
<1>3. ASSUME NEW w \in Workers, Notify(w)
      PROVE  Rest8
  <2> USE <1>3 DEF Notify
  <2>0. worker[w].job \in Jobs
    BY DEF WorkersOK, QTypeOK
  <2>1. QTypeOK'
    <3>1. worker' \in [Workers -> [job : Jobs \cup {NoJob}, at : {"idle", "working", "notified"}]]
      <4>1. [worker[w] EXCEPT !.at = "notified"] =
              [job |-> worker[w].job, at |-> "notified"]
        BY DEF QTypeOK
      <4>. QED BY <2>0, <4>1 DEF QTypeOK
    <3>2. sent' \in [Jobs -> Nat]
      BY <2>0 DEF QTypeOK
    <3>. QED BY <3>1, <3>2 DEF QTypeOK
  <2>2. LocksOK' /\ CountsOK'
    BY DEF LocksOK, CountsOK
  <2>3. WorkersOK'
    BY <2>0 DEF WorkersOK, QTypeOK, Resting
  <2>5. SentOK'
    <3> DEFINE j == worker[w].job
    <3>1. \A v \in Workers : v # w => worker'[v] = worker[v]
      BY DEF QTypeOK
    <3>2. worker[w] = [job |-> j, at |-> "working"] /\ worker'[w].at = "notified"
      BY DEF QTypeOK
    <3>3. runs' = runs /\ \A i \in Jobs : sent[i] \in Nat /\ runs[i] \in Nat
      BY DEF QTypeOK
    <3>4. sent'[j] = sent[j] + 1 /\ \A i \in Jobs : i # j => sent'[i] = sent[i]
      BY <2>0 DEF QTypeOK
    <3>5. \A i \in Jobs : LET c == [job |-> i, at |-> "working"]
                         IN  worker'[w] # c /\ (worker[w] = c <=> i = j)
      BY <3>2
    <3> HIDE DEF j
    <3>. QED BY <2>0, <3>1, <3>3, <3>4, <3>5, SentStep
  <2>6. CompletedMeansSent' /\ FailedMeansExhausted'
    BY <2>0 DEF CompletedMeansSent, FailedMeansExhausted, QTypeOK
  <2>7. RetentionBounded'
    BY DEF RetentionBounded, Keep
  <2>. QED BY <2>1, <2>2, <2>3, <2>5, <2>6, <2>7
\* A worker that gives up its job changes nothing that is not about it
<1>4. ASSUME NEW w \in Workers, Rest(w), UNCHANGED <<sent, runs>>
      PROVE  SentOK'
  BY <1>4, SentStep DEF Rest, Resting, QTypeOK
<1>5. ASSUME NEW w \in Workers, worker[w] # Resting, Rest(w),
             UNCHANGED <<place, made, stalls, lock, kept, runs, sent>>
      PROVE  Rest8
  <2> USE <1>5 DEF Rest
  <2>1. QTypeOK'
    BY DEF QTypeOK, Resting
  <2>2. LocksOK' /\ CountsOK' /\ CompletedMeansSent' /\ FailedMeansExhausted' /\ RetentionBounded'
    BY DEF LocksOK, CountsOK, CompletedMeansSent, FailedMeansExhausted, RetentionBounded, Keep
  <2>3. WorkersOK'
    BY DEF WorkersOK, QTypeOK, Resting
  <2>. QED BY <1>4, <2>1, <2>2, <2>3
\* The lock holder's verdict, or the stalled check's, on an active job
<1>6. ASSUME NEW j \in Jobs, place[j] = "active", lock' = [lock EXCEPT ![j] = NoWorker],
             \/ /\ made' = [made EXCEPT ![j] = @ + 1] /\ UNCHANGED stalls
                /\ \/ Finish(j, "completed") /\ sent[j] > 0
                   \/ made[j] + 1 = Attempts /\ Finish(j, "failed")
                   \/ /\ made[j] + 1 < Attempts
                      /\ place' = [place EXCEPT ![j] = "delayed"] /\ UNCHANGED kept
             \/ /\ stalls' = [stalls EXCEPT ![j] = @ + 1] /\ UNCHANGED made
                /\ \/ stalls[j] = MaxStalled /\ Finish(j, "failed")
                   \/ /\ stalls[j] < MaxStalled
                      /\ place' = [place EXCEPT ![j] = "waiting"] /\ UNCHANGED kept,
             UNCHANGED <<runs, sent>>
      PROVE  /\ place' \in [Jobs -> Places] /\ kept' \in [Ends -> Seq(Jobs)]
             /\ made' \in [Jobs -> 0 .. Attempts] /\ stalls' \in [Jobs -> 0 .. MaxStalled + 1]
             /\ lock' \in [Jobs -> Workers \cup {NoWorker}]
             /\ LocksOK' /\ CountsOK' /\ CompletedMeansSent' /\ FailedMeansExhausted'
             /\ RetentionBounded'
  <2>1. /\ place' \in [Jobs -> Places] /\ kept' \in [Ends -> Seq(Jobs)]
        /\ place'[j] \in {"completed", "failed", "delayed", "waiting"}
        /\ \A i \in Jobs : i # j => \/ place'[i] = place[i]
                                    \/ place[i] \in Ends /\ place'[i] = "removed"
        /\ RetentionBounded'
    <3>1. CASE Finish(j, "completed") \/ Finish(j, "failed")
      BY <1>6, <3>1, FinishShape DEF Ends
    <3>2. ASSUME NEW p \in {"delayed", "waiting"}, place' = [place EXCEPT ![j] = p], UNCHANGED kept
          PROVE  /\ place' \in [Jobs -> Places] /\ kept' \in [Ends -> Seq(Jobs)]
                 /\ place'[j] \in {"completed", "failed", "delayed", "waiting"}
                 /\ \A i \in Jobs : i # j => place'[i] = place[i]
                 /\ RetentionBounded'
      <4>1. \A set \in Ends : {i \in Jobs : place'[i] = set} = {i \in Jobs : place[i] = set}
        BY <1>6, <3>2 DEF QTypeOK, Ends
      <4>2. RetentionBounded'
        BY <3>2, <4>1 DEF RetentionBounded, Keep, Ends
      <4>. QED BY <3>2, <4>2 DEF QTypeOK, Places, Ends
    <3>. QED BY <1>6, <3>1, <3>2
  <2>2. /\ place'[j] = "completed" => sent[j] > 0
        /\ place'[j] = "failed" => made'[j] = Attempts \/ stalls'[j] = MaxStalled + 1
    BY <1>6, FinishShape DEF QTypeOK, Ends
  <2>3. /\ made[j] < Attempts /\ stalls[j] <= MaxStalled /\ runs[j] = made[j] + stalls[j] + 1
        /\ made[j] \in Nat /\ stalls[j] \in Nat /\ runs[j] \in Nat
    BY <1>6 DEF CountsOK, QTypeOK
  <2>4. /\ \/ made'[j] = made[j] + 1 /\ stalls'[j] = stalls[j]
           \/ made'[j] = made[j] /\ stalls'[j] = stalls[j] + 1
        /\ place'[j] \in {"delayed", "waiting"} => made'[j] < Attempts /\ stalls'[j] <= MaxStalled
    <3>1. CASE made' = [made EXCEPT ![j] = @ + 1] /\ UNCHANGED stalls
      <4>1. made'[j] = made[j] + 1
        BY <3>1 DEF QTypeOK
      <4>2. place'[j] = "delayed" => made[j] + 1 < Attempts
        BY <1>6, <2>3, <3>1, FinishShape, <4>1 DEF Ends
      <4>3. place'[j] # "waiting"
        BY <1>6, <2>3, <3>1, FinishShape, <4>1 DEF QTypeOK, Ends
      <4>. QED BY <2>3, <3>1, <4>1, <4>2, <4>3
    <3>2. CASE stalls' = [stalls EXCEPT ![j] = @ + 1] /\ UNCHANGED made
      <4>1. stalls'[j] = stalls[j] + 1
        BY <3>2 DEF QTypeOK
      <4>2. place'[j] = "waiting" => stalls[j] < MaxStalled
        BY <1>6, <2>3, <3>2, FinishShape, <4>1 DEF Ends
      <4>3. place'[j] # "delayed"
        <5>1. made' # [made EXCEPT ![j] = @ + 1]
          BY <2>3, <3>2 DEF QTypeOK
        <5>2. \/ stalls[j] = MaxStalled /\ Finish(j, "failed")
              \/ place' = [place EXCEPT ![j] = "waiting"]
          BY <1>6, <5>1
        <5>. QED BY <1>6, <5>2, FinishShape DEF QTypeOK, Ends
      <4>4. made'[j] = made[j]
        BY <3>2
      <4>5. place'[j] \in {"delayed", "waiting"} => stalls'[j] <= MaxStalled
        BY <2>3, <4>1, <4>2, <4>3
      <4>. QED BY <2>3, <4>1, <4>4, <4>5
    <3>. QED BY <1>6, <3>1, <3>2
  <2>5. \A i \in Jobs : i # j => made'[i] = made[i] /\ stalls'[i] = stalls[i] /\ lock'[i] = lock[i]
    BY <1>6 DEF QTypeOK
  <2>6. made' \in [Jobs -> 0 .. Attempts] /\ stalls' \in [Jobs -> 0 .. MaxStalled + 1]
        /\ lock' \in [Jobs -> Workers \cup {NoWorker}] /\ lock'[j] = NoWorker
    <3>1. lock' \in [Jobs -> Workers \cup {NoWorker}] /\ lock'[j] = NoWorker
      BY <1>6 DEF QTypeOK
    <3>2. made[j] + 1 \in 0 .. Attempts /\ stalls[j] + 1 \in 0 .. MaxStalled + 1
      BY <2>3
    <3>3. made' = made \/ made' = [made EXCEPT ![j] = @ + 1]
      BY <1>6
    <3>4. stalls' = stalls \/ stalls' = [stalls EXCEPT ![j] = @ + 1]
      BY <1>6
    <3>5. made' \in [Jobs -> 0 .. Attempts]
      BY <3>2, <3>3 DEF QTypeOK
    <3>6. stalls' \in [Jobs -> 0 .. MaxStalled + 1]
      BY <3>2, <3>4 DEF QTypeOK
    <3>. QED BY <3>1, <3>5, <3>6
  <2>7. LocksOK'
    BY <2>1, <2>5, <2>6 DEF LocksOK, Ends
  <2>8. CountsOK'
    <3> SUFFICES ASSUME NEW i \in Jobs
                 PROVE /\ place'[i] \in {"none", "waiting", "active", "delayed"} =>
                            made'[i] < Attempts /\ stalls'[i] <= MaxStalled
                       /\ made'[i] + stalls'[i] <= Attempts + MaxStalled
                       /\ runs'[i] = made'[i] + stalls'[i] + (IF place'[i] = "active" THEN 1 ELSE 0)
      BY DEF CountsOK
    <3>0. runs'[i] = runs[i] /\ place'[j] # "active"
      BY <1>6, <2>1
    <3>1. CASE i = j
      <4>1. place'[j] \in {"none", "waiting", "active", "delayed"} =>
              place'[j] \in {"delayed", "waiting"}
        BY <3>0, <2>1
      <4>2. /\ made'[j] + stalls'[j] = made[j] + stalls[j] + 1
            /\ made[j] + stalls[j] + 1 <= Attempts + MaxStalled
        BY <2>3, <2>4
      <4>3. runs'[j] = made'[j] + stalls'[j]
        BY <2>3, <3>0, <3>1, <4>2
      <4>4. place'[j] \in {"none", "waiting", "active", "delayed"} =>
              made'[j] < Attempts /\ stalls'[j] <= MaxStalled
        BY <2>4, <4>1
      <4>5. made'[j] + stalls'[j] <= Attempts + MaxStalled
        BY <4>2
      <4>6. runs'[j] = made'[j] + stalls'[j] + (IF place'[j] = "active" THEN 1 ELSE 0)
        BY <2>3, <2>4, <3>0, <4>3
      <4>. QED BY <3>1, <4>4, <4>5, <4>6
    <3>2. CASE i # j
      BY <1>6, <2>1, <2>5, <3>2 DEF CountsOK, Ends
    <3>. QED BY <3>1, <3>2
  <2>9. CompletedMeansSent' /\ FailedMeansExhausted'
    BY <1>6, <2>1, <2>2, <2>5 DEF CompletedMeansSent, FailedMeansExhausted, Ends
  <2>. QED BY <2>1, <2>6, <2>7, <2>8, <2>9
\* ... given by a worker, which is then idle
<1>7. ASSUME NEW w \in Workers, Complete(w) \/ Throw(w)
      PROVE  Rest8
  <2> DEFINE j == worker[w].job
  <2>1. j \in Jobs /\ lock[j] = w
    BY <1>7 DEF Complete, Throw, Holds, WorkersOK, QTypeOK
  <2>2. place[j] = "active"
    BY <2>1 DEF LocksOK
  <2>3. /\ lock' = [lock EXCEPT ![j] = NoWorker]
        /\ made' = [made EXCEPT ![j] = @ + 1]
        /\ Rest(w)
        /\ UNCHANGED <<stalls, runs, sent>>
    BY <1>7 DEF Complete, Throw
  <2>4. made[j] < Attempts /\ made[j] \in Nat
    BY <2>1, <2>2 DEF CountsOK, QTypeOK
  <2>5. \/ Finish(j, "completed") /\ sent[j] > 0
        \/ made[j] + 1 = Attempts /\ Finish(j, "failed")
        \/ /\ made[j] + 1 < Attempts
           /\ place' = [place EXCEPT ![j] = "delayed"] /\ UNCHANGED kept
    <3>1. CASE Complete(w)
      BY <3>1 DEF Complete, WorkersOK
    <3>2. CASE Throw(w)
      BY <2>4, <3>2 DEF Throw
    <3>. QED BY <1>7, <3>1, <3>2
  <2>6. /\ place' \in [Jobs -> Places] /\ kept' \in [Ends -> Seq(Jobs)]
        /\ made' \in [Jobs -> 0 .. Attempts] /\ stalls' \in [Jobs -> 0 .. MaxStalled + 1]
        /\ lock' \in [Jobs -> Workers \cup {NoWorker}]
        /\ LocksOK' /\ CountsOK' /\ CompletedMeansSent' /\ FailedMeansExhausted'
        /\ RetentionBounded'
    <3> HIDE DEF j
    <3>. QED BY <1>6, <2>1, <2>2, <2>3, <2>5
  <2>7. worker' = [worker EXCEPT ![w] = Resting]
    BY <2>3 DEF Rest
  <2>8. WorkersOK'
    BY <2>1, <2>3, <2>7 DEF WorkersOK, QTypeOK, Resting
  <2>9. QTypeOK'
    BY <2>3, <2>6, <2>7 DEF QTypeOK, Resting, Ends
  <2>. QED BY <1>4, <2>3, <2>6, <2>8, <2>9
<1>8. ASSUME NEW j \in Jobs, Stalled(j)
      PROVE  Rest8
  <2>1. /\ place[j] = "active" /\ lock' = [lock EXCEPT ![j] = NoWorker]
        /\ stalls' = [stalls EXCEPT ![j] = @ + 1]
        /\ UNCHANGED <<made, worker, runs, sent>>
    BY <1>8 DEF Stalled
  <2>2. stalls[j] <= MaxStalled /\ stalls[j] \in Nat
    BY <2>1 DEF CountsOK, QTypeOK
  <2>3. \/ stalls[j] = MaxStalled /\ Finish(j, "failed")
        \/ /\ stalls[j] < MaxStalled
           /\ place' = [place EXCEPT ![j] = "waiting"] /\ UNCHANGED kept
    BY <1>8, <2>2 DEF Stalled
  <2>4. /\ place' \in [Jobs -> Places] /\ kept' \in [Ends -> Seq(Jobs)]
        /\ made' \in [Jobs -> 0 .. Attempts] /\ stalls' \in [Jobs -> 0 .. MaxStalled + 1]
        /\ lock' \in [Jobs -> Workers \cup {NoWorker}]
        /\ LocksOK' /\ CountsOK' /\ CompletedMeansSent' /\ FailedMeansExhausted'
        /\ RetentionBounded'
    BY <1>6, <2>1, <2>3
  <2>5. QTypeOK'
    BY <2>1, <2>4 DEF QTypeOK, Ends
  <2>6. SentOK'
    BY <2>1 DEF SentOK, Unsent
  <2>7. WorkersOK'
    <3> SUFFICES ASSUME NEW w \in Workers, "stall" \notin QueueFaults, worker[w] # Resting
                 PROVE  lock'[worker[w].job] = w
      BY <2>1 DEF WorkersOK
    <3>1. worker[lock[j]].job # j
      BY <1>8 DEF Stalled, Abandoned
    <3>2. worker[w].job # j
      BY <3>1 DEF WorkersOK
    <3>3. worker[w].job \in Jobs
      BY DEF WorkersOK, QTypeOK, Resting
    <3>. QED BY <2>1, <3>2, <3>3 DEF WorkersOK, QTypeOK
  <2>. QED BY <2>4, <2>5, <2>6, <2>7
<1>9. ASSUME NEW j \in Jobs, Promote(j)
      PROVE  Rest8
  <2> USE <1>9 DEF Promote
  <2>1. QTypeOK'
    BY DEF QTypeOK, Places
  <2>2. LocksOK' /\ WorkersOK' /\ CountsOK'
    BY DEF LocksOK, WorkersOK, CountsOK, QTypeOK
  <2>3. SentOK'
    BY DEF SentOK, Unsent
  <2>4. CompletedMeansSent' /\ FailedMeansExhausted'
    BY DEF CompletedMeansSent, FailedMeansExhausted, QTypeOK
  <2>5. RetentionBounded'
    BY DEF RetentionBounded, QTypeOK, Keep
  <2>. QED BY <2>1, <2>2, <2>3, <2>4, <2>5
<1>10. ASSUME NEW w \in Workers, ReportRefused(w) \/ WorkerCrash(w)
       PROVE  Rest8
  BY <1>5, <1>10 DEF ReportRefused, WorkerCrash, Resting
<1>11. CASE UNCHANGED qvars
  <2>1. /\ place' = place /\ made' = made /\ stalls' = stalls /\ lock' = lock
        /\ kept' = kept /\ worker' = worker /\ runs' = runs /\ sent' = sent
    BY <1>11 DEF qvars
  <2>2. QTypeOK' /\ LocksOK' /\ WorkersOK' /\ CountsOK'
    BY <2>1 DEF QTypeOK, LocksOK, WorkersOK, CountsOK
  <2>3. SentOK' /\ CompletedMeansSent' /\ FailedMeansExhausted' /\ RetentionBounded'
    BY <2>1 DEF SentOK, Unsent, CompletedMeansSent, FailedMeansExhausted, RetentionBounded, Keep
  <2>. QED BY <2>2, <2>3 DEF QInductive, QueueOK
<1>. QED
  BY <1>1, <1>2, <1>3, <1>7, <1>8, <1>9, <1>10, <1>11
  DEF QNext, QueueStep, WorkerStep, QInductive, QueueOK

THEOREM QInductiveInvariant == QSpec => []QInductive
<1>. QED BY QInductiveInit, QInductiveStep, PTL DEF QSpec

\* What the invariant says of the promises the queue makes.
LEMMA QInductiveMeans ==
  QInductive => /\ QueueOK /\ RetentionBounded /\ BoundedNotifications
                /\ CompletedMeansSent /\ FailedMeansExhausted /\ OneRunAtATime
<1> SUFFICES ASSUME QInductive PROVE BoundedNotifications /\ OneRunAtATime
  BY DEF QInductive
<1>1. BoundedNotifications
  <2> SUFFICES ASSUME NEW j \in Jobs
               PROVE  sent[j] <= runs[j] /\ runs[j] <= Attempts + MaxStalled
    BY DEF BoundedNotifications
  <2>1. /\ made[j] \in Nat /\ stalls[j] \in Nat /\ runs[j] \in Nat /\ sent[j] \in Nat
        /\ runs[j] = made[j] + stalls[j] + (IF place[j] = "active" THEN 1 ELSE 0)
        /\ made[j] + stalls[j] <= Attempts + MaxStalled
        /\ place[j] = "active" => made[j] < Attempts /\ stalls[j] <= MaxStalled
    BY DEF QInductive, QueueOK, QTypeOK, CountsOK
  <2>2. sent[j] + Cardinality(Unsent(j)) <= runs[j]
    BY DEF QInductive, QueueOK, SentOK
  <2>3. Cardinality(Unsent(j)) \in Nat
    BY WorkersAssumption, FS_Subset, FS_CardinalityType DEF Unsent
  <2>. QED BY <2>1, <2>2, <2>3, AttemptsAssumption
<1>2. OneRunAtATime
  <2> SUFFICES ASSUME "stall" \notin QueueFaults, NEW v \in Workers, NEW w \in Workers,
                      worker[v].job = worker[w].job, worker[v] # Resting
               PROVE  v = w
    BY DEF OneRunAtATime
  <2>1. worker[w] # Resting
    BY DEF QInductive, QueueOK, WorkersOK, QTypeOK, Resting
  <2>. QED BY <2>1 DEF QInductive, QueueOK, WorkersOK
<1>. QED BY <1>1, <1>2

\* The sets of the queue stay within their limits and hold what they claim.
THEOREM Retained == QSpec => []RetentionBounded
BY QInductiveInvariant, QInductiveMeans, PTL

\* A job runs, and notifies, at most Attempts + MaxStalled times: with the
\* producer's options and BullMQ's default, four times.
THEOREM NotificationsBounded == QSpec => []BoundedNotifications
BY QInductiveInvariant, QInductiveMeans, PTL

\* Types; who holds which lock, what each run is accounted for by, and what
\* was sent in it.
THEOREM QueueHolds == QSpec => []QueueOK
BY QInductiveInvariant, QInductiveMeans, PTL

\* No job completes before its notification went out.
THEOREM AtLeastOnce == QSpec => []CompletedMeansSent
BY QInductiveInvariant, QInductiveMeans, PTL

\* No job is given up before its attempts or its takeovers are used up.
THEOREM GivesUpLast == QSpec => []FailedMeansExhausted
BY QInductiveInvariant, QInductiveMeans, PTL

\* While live workers keep their locks, crashes do not make two of them run
\* one job at once.
THEOREM OneRun == QSpec => []OneRunAtATime
BY QInductiveInvariant, QInductiveMeans, PTL
=============================================================================
