--------------------------- MODULE SchedulerProofs ---------------------------
(* Theorems about Scheduler, for every value of its constants.             *)
EXTENDS Scheduler, TLAPS, FiniteSetTheorems, SequenceTheorems

USE LaunchesAssumption, MaxRunnersAssumption, FloorsAssumption, MaxJobsAssumption,
    HasRemoverAssumption

-----------------------------------------------------------------------------
(* Facts about the pure parts.                                             *)

\* Sets of launches are finite, so their cardinalities are numbers.
LEMMA LaunchSets ==
    ASSUME NEW S \in SUBSET Launches
    PROVE  IsFiniteSet(S) /\ Cardinality(S) \in Nat
  BY FS_Subset, FS_CardinalityType

\* plan never asks for a negative number of launches, nor for more than there
\* is room for.
LEMMA PlanBounds ==
    ASSUME NEW d \in Int, NEW live \in Int, NEW run \in Int
    PROVE  /\ Plan(d, live, run) \in Nat
           /\ run <= MaxRunners => run + Plan(d, live, run) <= MaxRunners
           /\ run > MaxRunners => Plan(d, live, run) = 0
  BY DEF Plan, Larger, Smaller

\* live() is a number, which may be negative.
LEMMA LiveType ==
    ASSUME TypeOK, NEW run \in Int, NEW u \in SUBSET Launches
    PROVE  Live(run, u) \in Int
  BY LaunchSets DEF TypeOK, Live

\* A commit moves only launches that were nowhere.
LEMMA CommitTypes ==
    ASSUME NEW n \in Int, NEW from \in [Launches -> Locations], NEW run \in Int,
           NEW at \in {"decided", "spawned"}, pending \in Int,
           Commit(n, from, run, at)
    PROVE  /\ pc' \in [Launches -> Locations]
           /\ \A l \in Launches : from[l] # "none" => pc'[l] = from[l]
           /\ \A l \in Launches : pc'[l] = from[l] \/ pc'[l] = at
           /\ running' = run + n /\ pending' = pending + n
           /\ running' \in Int /\ pending' \in Int
  BY DEF Commit, Free, Locations

\* ScaleDown touches idle handles only and keeps the queue a queue.
LEMMA ScaleDownTypes ==
    ASSUME TypeOK, NEW keep \in Int, NEW q \in Seq(Launches), NEW r \in SUBSET removing,
           ScaleDown(keep, q, r)
    PROVE  /\ removeQ' \in Seq(Launches)
           /\ removing' \subseteq r \cup Idle(r)
           /\ cancelled \subseteq cancelled' /\ cancelled' \subseteq cancelled \cup Idle(r)
           /\ remover' \in {remover, "top"}
  <1> DEFINE excess == Live(running, Unusable(cancelled, r, completed)) - keep
             k == Larger(0, Smaller(excess, Cardinality(Idle(r))))
  <1>1. Cardinality(Idle(r)) \in Nat
    BY LaunchSets DEF Idle, Active, At
  <1>2. Unusable(cancelled, r, completed) \in SUBSET Launches
    BY DEF TypeOK, Unusable, Active, At
  <1>3. excess \in Int
    BY <1>2, LiveType DEF TypeOK
  <1>4. k \in Nat
    BY <1>1, <1>3 DEF Larger, Smaller
  <1> HIDE DEF k, excess
  <1>5. PICK picked \in [1..k -> Idle(r)] :
          /\ IF HasRemover
             THEN /\ removing' = r \cup Range(picked)
                  /\ removeQ' = q \o picked
                  /\ cancelled' = cancelled
             ELSE /\ removing' = r
                  /\ removeQ' = q
                  /\ cancelled' = cancelled \cup Range(picked)
          /\ remover' = IF excess > 0 /\ removeQ' # <<>> /\ remover = "off"
                        THEN "top" ELSE remover
    BY DEF ScaleDown, k, excess
  <1>6. Range(picked) \subseteq Idle(r)
    BY DEF Range
  <1>7. picked \in Seq(Launches)
    <2>1. Idle(r) \subseteq Launches
      BY DEF Idle, Active, At
    <2>2. picked \in [1..k -> Launches]
      BY <2>1
    <2> QED BY <2>2, <1>4
  <1>8. removeQ' \in Seq(Launches)
    <2>1. CASE HasRemover
      <3>1. removeQ' = q \o picked
        BY <2>1, <1>5
      <3>2. q \o picked \in Seq(Launches)
        BY <1>7
      <3> QED BY <3>1, <3>2
    <2>2. CASE ~HasRemover
      BY <2>2, <1>5
    <2> QED BY <2>1, <2>2
  <1> QED BY <1>5, <1>6, <1>8

\* reclaimQueued keeps a prefix of the queue and clears no other flag.
LEMMA ReclaimTypes ==
    ASSUME TypeOK, NEW k \in 0..Len(removeQ), NEW returnable
    PROVE  /\ SubSeq(removeQ, 1, k) \in Seq(Launches)
           /\ Reclaimed(k, returnable) \subseteq returnable
  <1>1. \A i \in 1..k : removeQ[i] \in Launches
    BY DEF TypeOK
  <1>2. SubSeq(removeQ, 1, k) \in Seq(Launches)
    BY <1>1 DEF TypeOK
  <1> QED BY <1>2 DEF Reclaimed

\* A reconcile starts launches or scales down; either way it moves no launch
\* that exists and marks or cancels idle handles only.
LEMMA ReconcileLockedTypes ==
    ASSUME TypeOK, NEW jobs \in Nat, NEW m \in Nat, ReconcileLocked(jobs, m)
    PROVE  /\ pc' \in [Launches -> Locations]
           /\ \A l \in Launches : pc[l] # "none" => pc'[l] = pc[l]
           /\ \A l \in Launches : pc'[l] = pc[l] \/ pc'[l] = "decided"
           /\ running' \in Int /\ pending' \in Int
           /\ removeQ' \in Seq(Launches)
           /\ removing' \subseteq Active
           /\ cancelled \subseteq cancelled' /\ cancelled' \subseteq Active
           /\ (cancelled' \ cancelled) \cap busy = {}
           /\ remover' \in {"off", "top", "calling", "pause"}
  <1> DEFINE desired == jobs + m
             keep == Larger(desired, m)
             back(k) == Reclaimed(k, removing \ cancelled)
             r(k) == removing \ back(k)
             live(k) == Live(running, Unusable(cancelled, r(k), completed))
             n(k) == IF draining THEN 0 ELSE Plan(desired, live(k), running)
  <1>1. PICK k \in 0..Len(removeQ) :
          \/ /\ n(k) > 0
             /\ Commit(n(k), pc, running, "decided")
             /\ removing' = r(k)
             /\ removeQ' = SubSeq(removeQ, 1, k)
             /\ UNCHANGED <<cancelled, remover>>
          \/ /\ n(k) = 0
             /\ ScaleDown(keep, SubSeq(removeQ, 1, k), r(k))
             /\ UNCHANGED <<pc, running, pending>>
    BY DEF ReconcileLocked
  <1>2. SubSeq(removeQ, 1, k) \in Seq(Launches)
    BY ReclaimTypes
  <1>3. r(k) \in SUBSET removing
    OBVIOUS
  <1>4. keep \in Int
    BY DEF Larger
  <1>5. live(k) \in Int
    <2>1. Unusable(cancelled, r(k), completed) \in SUBSET Launches
      BY DEF TypeOK, Unusable, Active, At
    <2> QED BY <2>1, LiveType DEF TypeOK
  <1>6. n(k) \in Int
    BY <1>5, PlanBounds DEF TypeOK
  <1> HIDE DEF keep, r, n, live
  <1>7. CASE Commit(n(k), pc, running, "decided") /\ removing' = r(k)
             /\ removeQ' = SubSeq(removeQ, 1, k) /\ UNCHANGED <<cancelled, remover>>
    <2>1. /\ pc' \in [Launches -> Locations]
          /\ \A l \in Launches : pc[l] # "none" => pc'[l] = pc[l]
          /\ \A l \in Launches : pc'[l] = pc[l] \/ pc'[l] = "decided"
          /\ running' \in Int /\ pending' \in Int
      BY <1>6, <1>7, CommitTypes DEF TypeOK
    <2> QED BY <2>1, <1>2, <1>3, <1>7 DEF TypeOK
  <1>8. CASE ScaleDown(keep, SubSeq(removeQ, 1, k), r(k)) /\ UNCHANGED <<pc, running, pending>>
    <2>1. /\ removeQ' \in Seq(Launches)
          /\ removing' \subseteq r(k) \cup Idle(r(k))
          /\ cancelled \subseteq cancelled' /\ cancelled' \subseteq cancelled \cup Idle(r(k))
          /\ remover' \in {remover, "top"}
      BY <1>2, <1>3, <1>4, <1>8, ScaleDownTypes
    <2> QED BY <2>1, <1>3, <1>8 DEF TypeOK, Idle
  <1> QED BY <1>1, <1>7, <1>8

\* finish() moves l to its tail, starts at most new launches, and only clears
\* removing flags.
LEMMA FinishTypes ==
    ASSUME TypeOK, NEW l \in Launches, pc[l] # "none", NEW done \in BOOLEAN,
           NEW r \in SUBSET Launches, NEW u \in SUBSET Launches,
           Finish(l, done, r, u)
    PROVE  /\ pc' \in [Launches -> Locations]
           /\ pc'[l] = "tail"
           /\ \A x \in Launches \ {l} : pc[x] # "none" => pc'[x] = pc[x]
           /\ \A x \in Launches \ {l} : pc'[x] = pc[x] \/ pc'[x] = "spawned"
           /\ running' \in Int /\ pending' \in Int
           /\ removeQ' \in Seq(Launches)
           /\ removing' \subseteq r
  <1> DEFINE after == [pc EXCEPT ![l] = "tail"]
             run == running - 1
             desired == lastJobs + floor
             live == Live(run, u \cup r)
             back(k) == Reclaimed(k, r \ cancelled)
             n(k) == IF back(k) # {} THEN 0 ELSE ReplanCount(desired, live, run)
  <1>1. after \in [Launches -> Locations]
    BY DEF TypeOK, Locations
  <1>2. live \in Int /\ desired \in Int /\ run \in Int
    BY LiveType DEF TypeOK
  <1> HIDE DEF live, desired, run
  <1>3. ASSUME NEW k \in 0..Len(removeQ)
        PROVE  n(k) \in Int
    BY <1>2, PlanBounds DEF ReplanCount, Smaller
  <1> HIDE DEF after
  <1>4. ASSUME NEW c \in Int, Commit(c, after, run, "spawned")
        PROVE  /\ pc' \in [Launches -> Locations]
               /\ pc'[l] = "tail"
               /\ \A x \in Launches \ {l} : pc[x] # "none" => pc'[x] = pc[x]
               /\ \A x \in Launches \ {l} : pc'[x] = pc[x] \/ pc'[x] = "spawned"
               /\ running' \in Int /\ pending' \in Int
    <2>1. /\ pc' \in [Launches -> Locations]
          /\ \A x \in Launches : after[x] # "none" => pc'[x] = after[x]
          /\ \A x \in Launches : pc'[x] = after[x] \/ pc'[x] = "spawned"
          /\ running' \in Int /\ pending' \in Int
      BY <1>1, <1>2, <1>4, CommitTypes DEF TypeOK
    <2>2. after[l] = "tail" /\ \A x \in Launches \ {l} : after[x] = pc[x]
      BY DEF after, TypeOK
    <2> QED BY <2>1, <2>2
  <1>5. CASE done /\ hasDesired /\ ~draining /\ ~ctxDone
    <2>1. PICK k \in 0..Len(removeQ) :
             /\ removeQ' = SubSeq(removeQ, 1, k)
             /\ removing' = r \ back(k)
             /\ Commit(n(k), after, run, "spawned")
      BY <1>5 DEF Finish, LeavesRunning, after, live, desired, run
    <2> QED BY <2>1, <1>3, <1>4, ReclaimTypes
  <1>6. CASE ~(done /\ hasDesired /\ ~draining /\ ~ctxDone)
    <2>1. removing' = r /\ Commit(0, after, run, "spawned") /\ removeQ' = removeQ
      BY <1>6 DEF Finish, LeavesRunning, after, run
    <2> QED BY <2>1, <1>4 DEF TypeOK
  <1> QED BY <1>5, <1>6

-----------------------------------------------------------------------------
(* Type correctness.                                                       *)

\* Whichever launches start while l's VM exits, the flags of the other
\* handles stay the flags of handles.
LEMMA LaunchReturnsTypes ==
    ASSUME TypeOK, NEW l \in Launches, NEW ok \in BOOLEAN, LaunchReturns(l, ok)
    PROVE  TypeOK'
  <1>1. /\ l \in Active /\ pc[l] = "vm"
        /\ busy' = busy \ {l} /\ cancelled' = cancelled \ {l}
        /\ completed' = completed \ {l} /\ seen' = seen \ {l}
        /\ UNCHANGED <<backingOff, remover, removal, planVars, stopVars>>
    BY DEF LaunchReturns, DropsFlag, Active, At
  <1>2. CASE /\ Finish(l, JobDone(l), removing \ {l}, (cancelled \cup completed) \ {l})
             /\ UNCHANGED jobDone
    <2>1. JobDone(l) \in BOOLEAN
      BY DEF JobDone
    <2>2. removing \ {l} \in SUBSET Launches /\ (cancelled \cup completed) \ {l} \in SUBSET Launches
      BY DEF TypeOK, Active, At
    <2>3. /\ pc' \in [Launches -> Locations]
          /\ pc'[l] = "tail"
          /\ \A x \in Launches \ {l} : pc[x] # "none" => pc'[x] = pc[x]
          /\ running' \in Int /\ pending' \in Int
          /\ removeQ' \in Seq(Launches)
          /\ removing' \subseteq removing \ {l}
      <3> DEFINE d == JobDone(l)
                 r == removing \ {l}
                 u == (cancelled \cup completed) \ {l}
      <3>1. d \in BOOLEAN /\ r \in SUBSET Launches /\ u \in SUBSET Launches
        BY <2>1, <2>2
      <3>2. Finish(l, d, r, u) /\ pc[l] # "none"
        BY <1>1, <1>2
      <3> HIDE DEF d, r, u
      <3>3. /\ pc' \in [Launches -> Locations]
            /\ pc'[l] = "tail"
            /\ \A x \in Launches \ {l} : pc[x] # "none" => pc'[x] = pc[x]
            /\ running' \in Int /\ pending' \in Int
            /\ removeQ' \in Seq(Launches)
            /\ removing' \subseteq r
        BY <3>1, <3>2, FinishTypes
      <3> QED BY <3>3 DEF r
    <2>4. Active \ {l} \subseteq Active'
      BY <2>3 DEF Active, At
    <2>5. jobDone' \subseteq At({"failed", "backoff", "finish"})'
      BY <1>1, <1>2, <2>3 DEF TypeOK, At
    <2> QED BY <1>1, <2>3, <2>4, <2>5 DEF TypeOK, planVars, stopVars
  <1>3. CASE /\ pc' = [pc EXCEPT ![l] = "failed"]
             /\ jobDone' = IF JobDone(l) THEN jobDone \cup {l} ELSE jobDone
             /\ removing' = removing \ {l}
             /\ UNCHANGED <<running, pending, removeQ>>
    <2>1. pc' \in [Launches -> Locations]
      BY <1>3 DEF TypeOK, Locations
    <2>2. Active \ {l} \subseteq Active' /\ pc'[l] = "failed"
      BY <1>3 DEF Active, At, TypeOK
    <2>3. jobDone' \subseteq At({"failed", "backoff", "finish"})'
      BY <1>1, <1>3, <2>2 DEF TypeOK, At
    <2> QED BY <1>1, <1>3, <2>1, <2>2, <2>3 DEF TypeOK, planVars, stopVars
  <1> QED BY <1>2, <1>3 DEF LaunchReturns

LEMMA DeferredFinishTypes ==
    ASSUME TypeOK, NEW l \in Launches, DeferredFinish(l)
    PROVE  TypeOK'
  <1>1. /\ pc[l] = "finish" /\ l \notin Active
        /\ jobDone' = jobDone \ {l}
        /\ UNCHANGED <<backingOff, busy, cancelled, completed, seen, remover, removal,
                       planVars, stopVars>>
    BY DEF DeferredFinish, Active, At
  <1>2. removing \in SUBSET Launches /\ cancelled \cup completed \in SUBSET Launches
    BY DEF TypeOK, Active, At
  <1>3. (l \in jobDone) \in BOOLEAN
    OBVIOUS
  <1>4. Finish(l, l \in jobDone, removing, cancelled \cup completed)
    BY DEF DeferredFinish
  <1>5. /\ pc' \in [Launches -> Locations]
        /\ pc'[l] = "tail"
        /\ \A x \in Launches \ {l} : pc[x] # "none" => pc'[x] = pc[x]
        /\ running' \in Int /\ pending' \in Int
        /\ removeQ' \in Seq(Launches)
        /\ removing' \subseteq removing
    BY <1>1, <1>2, <1>3, <1>4, FinishTypes
  <1>6. Active \subseteq Active'
    BY <1>1, <1>5 DEF Active, At
  <1>7. jobDone' \subseteq At({"failed", "backoff", "finish"})'
    BY <1>1, <1>5 DEF TypeOK, At
  <1> QED BY <1>1, <1>5, <1>6, <1>7 DEF TypeOK, planVars, stopVars

\* maintainMinimum moves launches that are nowhere.
LEMMA MaintainMinimumTypes ==
    ASSUME TypeOK, NEW from \in [Launches -> Locations], NEW at \in {"decided", "spawned"},
           MaintainMinimum(from, at)
    PROVE  /\ pc' \in [Launches -> Locations]
           /\ \A l \in Launches : from[l] # "none" => pc'[l] = from[l]
           /\ running' \in Int /\ pending' \in Int
  <1> DEFINE n == IF draining \/ floor <= 0 THEN 0 ELSE Plan(floor, running, running)
  <1>1. n \in Int
    BY PlanBounds DEF TypeOK
  <1>2. Commit(n, from, running, at)
    BY DEF MaintainMinimum
  <1> HIDE DEF n
  <1> QED BY <1>1, <1>2, CommitTypes DEF TypeOK

\* Launches that move without touching a handle keep every flag in place.
LEMMA MovesKeepTypes ==
    ASSUME TypeOK, pc' \in [Launches -> Locations],
           \A l \in Launches : pc[l] \in {"vm", "failed", "backoff"} \/ l \in jobDone
                                 => pc'[l] \in {pc[l]} \cup
                                       (IF pc[l] = "vm" THEN {} ELSE {"failed", "backoff", "finish"}),
           running' \in Int, pending' \in Int, backingOff' \in Int,
           UNCHANGED <<jobDone, handleVars, removerVars, stopVars>>,
           lastJobs' \in Nat, floor' \in Nat, hasDesired' \in BOOLEAN, toppingUp' \in BOOLEAN
    PROVE  TypeOK'
  <1>1. Active \subseteq Active'
    BY DEF Active, At
  <1>2. At({"failed", "backoff", "finish"}) \cap jobDone \subseteq At({"failed", "backoff", "finish"})'
    BY DEF At
  <1> QED BY <1>1, <1>2 DEF TypeOK, handleVars, removerVars, stopVars

LEMMA TypeInit == Init => TypeOK
  <1> SUFFICES ASSUME Init PROVE TypeOK
    OBVIOUS
  <1>1. pc \in [Launches -> Locations]
    BY DEF Init, Locations
  <1>2. removeQ \in Seq(Launches)
    BY DEF Init
  <1>3. floor \in Nat
    BY DEF Init
  <1>4. /\ remover \in {"off", "top", "calling", "pause"}
        /\ removal \in Launches \cup {NoLaunch}
        /\ running \in Int /\ pending \in Int /\ backingOff \in Int /\ lastJobs \in Nat
    BY DEF Init
  <1>5. /\ hasDesired \in BOOLEAN /\ toppingUp \in BOOLEAN
        /\ ctxDone \in BOOLEAN /\ draining \in BOOLEAN /\ drained \in BOOLEAN
    BY DEF Init
  <1>6. /\ busy \subseteq Active /\ cancelled \subseteq Active /\ removing \subseteq Active
        /\ completed \subseteq busy /\ seen \subseteq completed
        /\ jobDone \subseteq At({"failed", "backoff", "finish"})
    BY DEF Init
  <1> QED BY <1>1, <1>2, <1>3, <1>4, <1>5, <1>6 DEF TypeOK

LEMMA LaunchStepTypes ==
    ASSUME TypeOK, NEW l \in Launches, LaunchStep(l)
    PROVE  TypeOK'
  <1> USE DEF launchVars, handleVars, removerVars, planVars, stopVars
  <1>1. CASE Spawn(l)
    BY <1>1, MovesKeepTypes DEF Spawn, TypeOK, Locations, At
  <1>2. CASE StartLaunch(l)
    BY <1>2, MovesKeepTypes DEF StartLaunch, Enter, TypeOK, Locations, At
  <1>3. ASSUME NEW ok \in BOOLEAN, GenerateReturns(l, ok)
        PROVE  TypeOK'
    BY <1>3, MovesKeepTypes DEF GenerateReturns, Enter, TypeOK, Locations, At
  <1>4. CASE Track(l)
    BY <1>4, MovesKeepTypes DEF Track, TypeOK, Locations, At
  <1>5. ASSUME NEW ok \in BOOLEAN, LaunchReturns(l, ok)
        PROVE  TypeOK'
    BY <1>5, LaunchReturnsTypes
  <1>6. CASE BackoffStarts(l)
    BY <1>6, MovesKeepTypes DEF BackoffStarts, TypeOK, Locations, At
  <1>7. CASE BackoffEnds(l)
    BY <1>7, MovesKeepTypes DEF BackoffEnds, TypeOK, Locations, At
  <1>8. CASE DeferredFinish(l)
    BY <1>8, DeferredFinishTypes
  <1>9. CASE TailCheck(l)
    BY <1>9, MovesKeepTypes DEF TailCheck, TypeOK, Locations, At
  <1>10. CASE TailTopUp(l)
    <2> DEFINE from == [pc EXCEPT ![l] = "none"]
    <2>1. from \in [Launches -> Locations] /\ pc[l] = "topup"
      BY <1>10 DEF TailTopUp, TypeOK, Locations
    <2>2. MaintainMinimum(from, "spawned")
      BY <1>10 DEF TailTopUp
    <2> HIDE DEF from
    <2>3. /\ pc' \in [Launches -> Locations]
          /\ \A x \in Launches : from[x] # "none" => pc'[x] = from[x]
          /\ running' \in Int /\ pending' \in Int
      BY <2>1, <2>2, MaintainMinimumTypes
    <2>4. \A x \in Launches \ {l} : from[x] = pc[x]
      BY DEF from, TypeOK
    <2>5. \A x \in Launches : pc[x] \in {"vm", "failed", "backoff", "finish"} => pc'[x] = pc[x]
      BY <2>1, <2>3, <2>4
    <2> QED BY <1>10, <2>3, <2>5, MovesKeepTypes DEF TailTopUp, TypeOK, At
  <1> QED BY <1>1, <1>2, <1>3, <1>4, <1>5, <1>6, <1>7, <1>8, <1>9, <1>10 DEF LaunchStep

LEMMA HandleStepTypes ==
    ASSUME TypeOK, NEW l \in Launches, HandleStep(l)
    PROVE  TypeOK'
  <1> USE DEF launchVars, removerVars, planVars, stopVars
  <1>1. Active' = Active /\ At({"failed", "backoff", "finish"})' = At({"failed", "backoff", "finish"})
    BY DEF HandleStep, MarkBusy, MarkCompleted, CancelIfIdle, CancelLost, Active, At
  <1>2. CASE MarkBusy(l)
    BY <1>1, <1>2 DEF MarkBusy, TypeOK
  <1>3. CASE MarkCompleted(l)
    BY <1>1, <1>3 DEF MarkCompleted, TypeOK
  <1>4. CASE CancelIfIdle(l)
    BY <1>1, <1>4 DEF CancelIfIdle, Cancellable, TypeOK
  <1>5. CASE CancelLost(l)
    BY <1>1, <1>5 DEF CancelLost, Idle, TypeOK
  <1> QED BY <1>2, <1>3, <1>4, <1>5 DEF HandleStep

\* removeLoop takes entries off the front of its queue, or puts the one it
\* holds back on.
LEMMA RemoverTypes ==
    ASSUME TypeOK,
           NextRemoval \/ (\E answer \in Answers : SettleRemoval(answer)) \/ RemoverResumes
    PROVE  TypeOK'
  <1> USE DEF launchVars, handleVars, removerVars, planVars, stopVars
  <1>1. Active' = Active /\ At({"failed", "backoff", "finish"})' = At({"failed", "backoff", "finish"})
    BY DEF NextRemoval, SettleRemoval, RemoverResumes, Active, At
  <1>2. CASE NextRemoval
    <2>1. ASSUME NEW k \in 1..Len(removeQ)
          PROVE  removeQ[k] \in Launches /\ SubSeq(removeQ, k + 1, Len(removeQ)) \in Seq(Launches)
      BY DEF TypeOK
    <2>2. removeQ' \in Seq(Launches) /\ removal' \in Launches \cup {NoLaunch}
          /\ remover' \in {"off", "top", "calling", "pause"}
      <3>1. CASE removeQ' = <<>> /\ remover' = "off" /\ removal' = removal
        BY <3>1 DEF TypeOK
      <3>2. ASSUME NEW k \in 1..Len(removeQ),
                   removeQ' = SubSeq(removeQ, k + 1, Len(removeQ)),
                   remover' = "calling", removal' = removeQ[k]
            PROVE  removeQ' \in Seq(Launches) /\ removal' \in Launches \cup {NoLaunch}
                   /\ remover' \in {"off", "top", "calling", "pause"}
        BY <3>2, <2>1
      <3>3. CASE ctxDone
        BY <1>2, <3>1, <3>3 DEF NextRemoval
      <3>4. CASE ~ctxDone
        <4>1. PICK k \in 1..Len(removeQ) + 1 :
                \/ /\ k <= Len(removeQ)
                   /\ removeQ' = SubSeq(removeQ, k + 1, Len(removeQ))
                   /\ remover' = "calling" /\ removal' = removeQ[k]
                \/ removeQ' = <<>> /\ remover' = "off" /\ removal' = removal
          BY <1>2, <3>4 DEF NextRemoval
        <4>2. Len(removeQ) \in Nat
          BY DEF TypeOK
        <4> QED BY <4>1, <4>2, <3>1, <3>2
      <3> QED BY <3>3, <3>4
    <2>3. removing' \subseteq removing
      BY <1>2 DEF NextRemoval
    <2>4. UNCHANGED <<launchVars, busy, cancelled, completed, seen, planVars, stopVars>>
      BY <1>2 DEF NextRemoval
    <2> QED BY <1>1, <2>2, <2>3, <2>4 DEF TypeOK
  <1>3. ASSUME NEW answer \in Answers, SettleRemoval(answer)
        PROVE  TypeOK'
    <2>1. removeQ' \in Seq(Launches)
      BY <1>3 DEF SettleRemoval, Requeue, TypeOK, Active, At
    <2>2. /\ removal' = NoLaunch /\ remover' \in {"off", "top", "calling", "pause"}
          /\ removing' \subseteq removing
          /\ busy \subseteq busy' /\ busy' \subseteq busy \cup (Active \cap {removal})
          /\ cancelled' \subseteq cancelled \cup (Active \cap {removal})
      BY <1>3 DEF SettleRemoval, TypeOK
    <2>3. UNCHANGED <<launchVars, completed, seen, planVars, stopVars>>
      BY <1>3 DEF SettleRemoval
    <2> QED BY <1>1, <2>1, <2>2, <2>3 DEF TypeOK
  <1>4. CASE RemoverResumes
    BY <1>1, <1>4 DEF RemoverResumes, TypeOK
  <1> QED BY <1>2, <1>3, <1>4

\* What ReconcileLocked does keeps the types, with the rest of Reconcile or
\* SetMin around it.
LEMMA ReconcilesTypes ==
    ASSUME TypeOK, NEW jobs \in Nat, NEW m \in Nat, ReconcileLocked(jobs, m),
           seen' \subseteq completed,
           UNCHANGED <<backingOff, jobDone, busy, completed, removal, toppingUp, stopVars>>,
           lastJobs' \in Nat, floor' \in Nat, hasDesired' \in BOOLEAN
    PROVE  TypeOK'
  <1>1. /\ pc' \in [Launches -> Locations]
        /\ \A l \in Launches : pc[l] # "none" => pc'[l] = pc[l]
        /\ running' \in Int /\ pending' \in Int
        /\ removeQ' \in Seq(Launches)
        /\ removing' \subseteq Active
        /\ cancelled' \subseteq Active
        /\ remover' \in {"off", "top", "calling", "pause"}
    BY ReconcileLockedTypes
  <1>2. Active \subseteq Active'
    BY <1>1 DEF Active, At
  <1>3. At({"failed", "backoff", "finish"}) \subseteq At({"failed", "backoff", "finish"})'
    BY <1>1 DEF At
  <1> QED BY <1>1, <1>2, <1>3 DEF TypeOK, stopVars

LEMMA TypeNext == TypeOK /\ [Next]_vars => TypeOK'
  <1> SUFFICES ASSUME TypeOK, [Next]_vars PROVE TypeOK'
    OBVIOUS
  <1>1. ASSUME NEW jobs \in 0..MaxJobs, Reconcile(jobs)
        PROVE  TypeOK'
    <2>1. jobs \in Nat /\ floor \in Nat
      BY DEF TypeOK
    <2>2. /\ ReconcileLocked(jobs, floor) /\ seen' = completed
          /\ lastJobs' = jobs /\ hasDesired' = TRUE
          /\ UNCHANGED <<backingOff, jobDone, busy, completed, removal, floor, toppingUp, stopVars>>
      BY <1>1 DEF Reconcile
    <2> QED BY <2>1, <2>2, ReconcilesTypes DEF TypeOK
  <1>2. ASSUME NEW m \in Floors, SetMin(m)
        PROVE  TypeOK'
    <2>1. m \in Nat /\ lastJobs \in Nat
      BY DEF TypeOK
    <2>2. CASE ReconcileLocked(lastJobs, m) /\ UNCHANGED toppingUp
      <3>1. /\ floor' = m
            /\ UNCHANGED <<backingOff, jobDone, busy, completed, seen, removal, lastJobs,
                           hasDesired, stopVars>>
        BY <1>2 DEF SetMin
      <3> QED BY <2>1, <2>2, <3>1, ReconcilesTypes DEF TypeOK
    <2>3. CASE /\ toppingUp' = (m > floor /\ ~ctxDone)
               /\ UNCHANGED <<pc, running, pending, cancelled, removing, removeQ, remover>>
      BY <1>2, <2>1, <2>3 DEF SetMin, TypeOK, Active, At, stopVars
    <2> QED BY <1>2, <2>2, <2>3 DEF SetMin
  <1>3. CASE SetMinTopUp
    <2>1. pc' \in [Launches -> Locations] /\ running' \in Int /\ pending' \in Int
          /\ \A l \in Launches : pc[l] # "none" => pc'[l] = pc[l]
      BY <1>3, MaintainMinimumTypes DEF SetMinTopUp, TypeOK
    <2> QED BY <1>3, <2>1, MovesKeepTypes DEF SetMinTopUp, TypeOK, At
  <1>4. ASSUME NEW l \in Launches, LaunchStep(l) \/ HandleStep(l)
        PROVE  TypeOK'
    BY <1>4, LaunchStepTypes, HandleStepTypes
  <1>5. CASE NextRemoval \/ (\E answer \in Answers : SettleRemoval(answer)) \/ RemoverResumes
    BY <1>5, RemoverTypes
  <1>6. CASE Shutdown \/ Drain \/ DrainReturns
    BY <1>6 DEF Shutdown, Drain, DrainReturns, TypeOK, Active, At, launchVars, handleVars,
                removerVars, planVars
  <1>7. CASE UNCHANGED vars
    BY <1>7 DEF vars, TypeOK, Active, At, launchVars, handleVars, removerVars, planVars, stopVars
  <1> QED BY <1>1, <1>2, <1>3, <1>4, <1>5, <1>6, <1>7 DEF Next

\* The fields of Scheduler and vmHandle stay what they are declared to be:
\* flags belong to handles in active, a completed VM is a busy one, and a
\* launch remembers jobDone only between its failure and its exit.
THEOREM TypeCorrect == Spec => []TypeOK
  BY TypeInit, TypeNext, PTL DEF Spec

-----------------------------------------------------------------------------
(* Busy VMs are never cancelled.                                           *)

\* No path to a cancel picks a VM known to be busy: scaleDown and the
\* reconciler pick idle ones, cancelIfIdle and settleRemoval look again under
\* the lock.
LEMMA CancelSparesBusy ==
    ASSUME TypeOK, Next
    PROVE  (cancelled' \ cancelled) \cap busy = {}
  <1>1. ASSUME NEW jobs \in 0..MaxJobs, Reconcile(jobs)
        PROVE  (cancelled' \ cancelled) \cap busy = {}
    <2>1. ReconcileLocked(jobs, floor) /\ floor \in Nat /\ jobs \in Nat
      BY <1>1 DEF Reconcile, TypeOK
    <2> QED BY <2>1, ReconcileLockedTypes
  <1>2. ASSUME NEW m \in Floors, SetMin(m)
        PROVE  (cancelled' \ cancelled) \cap busy = {}
    <2>1. ReconcileLocked(lastJobs, m) \/ cancelled' = cancelled
      BY <1>2 DEF SetMin
    <2>2. m \in Nat /\ lastJobs \in Nat
      BY DEF TypeOK
    <2> QED BY <2>1, <2>2, ReconcileLockedTypes
  <1>3. ASSUME NEW l \in Launches, LaunchStep(l)
        PROVE  cancelled' \subseteq cancelled
    BY <1>3 DEF LaunchStep, Spawn, StartLaunch, GenerateReturns, Track, LaunchReturns, DropsFlag,
                BackoffStarts, BackoffEnds, DeferredFinish, TailCheck, TailTopUp, handleVars
  <1>4. ASSUME NEW l \in Launches, HandleStep(l)
        PROVE  (cancelled' \ cancelled) \cap busy = {}
    BY <1>4 DEF HandleStep, MarkBusy, MarkCompleted, CancelIfIdle, CancelLost, Cancellable, Idle
  <1>5. ASSUME NEW answer \in Answers, SettleRemoval(answer)
        PROVE  (cancelled' \ cancelled) \cap busy = {}
    BY <1>5 DEF SettleRemoval
  <1>6. CASE \/ SetMinTopUp \/ NextRemoval \/ RemoverResumes
             \/ Shutdown \/ Drain \/ DrainReturns
    BY <1>6 DEF SetMinTopUp, NextRemoval, RemoverResumes, Shutdown, Drain, DrainReturns, handleVars
  <1> QED BY <1>1, <1>2, <1>3, <1>4, <1>5, <1>6 DEF Next

\* "Busy VMs are never cancelled": no step of any goroutine cancels a VM whose
\* busy flag is set, with or without a Remover, for any number of launches.
THEOREM BusySpared == Spec => BusyNeverCancelled
  <1>1. TypeOK /\ [Next]_vars => [\A l \in busy : l \in cancelled' => l \in cancelled]_vars
    BY CancelSparesBusy
  <1> QED BY <1>1, TypeCorrect, PTL DEF Spec, BusyNeverCancelled

-----------------------------------------------------------------------------
(* Drain.                                                                  *)

QuietLocations == {"none", "decided", "spawned", "finish", "tail"}

\* DrainedIsQuiet, strengthened by the order of the three events of a
\* shutdown and said of each launch.
QuietInv ==
    /\ drained => draining
    /\ draining => ctxDone
    /\ drained => \A l \in Launches : pc[l] \in QuietLocations

\* Once ctx has ended no step takes a launch out of the quiet locations: a
\* goroutine that starts late bails out at its check of ctx, and its exit
\* neither re-plans nor tops up.
LEMMA CtxDoneStaysQuiet ==
    ASSUME TypeOK, Next, ctxDone, \A l \in Launches : pc[l] \in QuietLocations
    PROVE  \A l \in Launches : pc'[l] \in QuietLocations
  <1>1. ASSUME NEW jobs \in 0..MaxJobs, Reconcile(jobs)
        PROVE  \A l \in Launches : pc'[l] \in QuietLocations
    <2>1. ReconcileLocked(jobs, floor) /\ floor \in Nat /\ jobs \in Nat
      BY <1>1 DEF Reconcile, TypeOK
    <2> QED BY <2>1, ReconcileLockedTypes DEF QuietLocations
  <1>2. ASSUME NEW m \in Floors, SetMin(m)
        PROVE  \A l \in Launches : pc'[l] \in QuietLocations
    BY <1>2 DEF SetMin
  <1>3. CASE SetMinTopUp
    <2>1. \A l \in Launches : pc'[l] = pc[l] \/ pc'[l] = "decided"
      BY <1>3 DEF SetMinTopUp, MaintainMinimum, Commit
    <2> QED BY <2>1 DEF QuietLocations
  <1>4. ASSUME NEW l \in Launches, LaunchStep(l)
        PROVE  \A x \in Launches : pc'[x] \in QuietLocations
    <2>1. pc[l] \in QuietLocations
      OBVIOUS
    <2>2. CASE Spawn(l) \/ StartLaunch(l) \/ TailCheck(l)
      BY <2>2 DEF Spawn, StartLaunch, Enter, TailCheck, TypeOK, QuietLocations
    <2>3. CASE DeferredFinish(l)
      <3>1. Commit(0, [pc EXCEPT ![l] = "tail"], running - 1, "spawned")
        BY <2>3 DEF DeferredFinish, Finish, LeavesRunning
      <3>2. \A x \in Launches : pc'[x] \in {pc[x], "tail", "spawned"}
        BY <3>1 DEF Commit, TypeOK
      <3> QED BY <3>2 DEF QuietLocations
    <2> QED BY <1>4, <2>1, <2>2, <2>3
            DEF LaunchStep, GenerateReturns, Track, LaunchReturns, BackoffStarts, BackoffEnds,
                TailTopUp, QuietLocations
  <1>5. CASE pc' = pc
    BY <1>5
  <1>6. ASSUME NEW l \in Launches, HandleStep(l)
        PROVE  pc' = pc
    BY <1>6 DEF HandleStep, MarkBusy, MarkCompleted, CancelIfIdle, CancelLost, launchVars
  <1>7. CASE \/ NextRemoval \/ RemoverResumes \/ \E answer \in Answers : SettleRemoval(answer)
             \/ Shutdown \/ Drain \/ DrainReturns
    BY <1>7, <1>5 DEF NextRemoval, RemoverResumes, SettleRemoval, Shutdown, Drain, DrainReturns,
                      launchVars
  <1> QED BY <1>1, <1>2, <1>3, <1>4, <1>5, <1>6, <1>7 DEF Next

\* Only Shutdown, Drain and DrainReturns touch the three flags.
LEMMA StopOrder ==
    ASSUME Next
    PROVE  \/ UNCHANGED stopVars
           \/ Shutdown \/ Drain \/ DrainReturns
  <1>1. ASSUME NEW l \in Launches, LaunchStep(l) \/ HandleStep(l)
        PROVE  UNCHANGED stopVars
    BY <1>1 DEF LaunchStep, HandleStep, Spawn, StartLaunch, GenerateReturns, Track, LaunchReturns,
                BackoffStarts, BackoffEnds, DeferredFinish, TailCheck, TailTopUp, MarkBusy,
                MarkCompleted, CancelIfIdle, CancelLost
  <1> QED BY <1>1 DEF Next, Reconcile, SetMin, SetMinTopUp, NextRemoval, SettleRemoval,
                      RemoverResumes

LEMMA QuietNext == TypeOK /\ QuietInv /\ [Next]_vars => QuietInv'
  <1> SUFFICES ASSUME TypeOK, QuietInv, [Next]_vars PROVE QuietInv'
    OBVIOUS
  <1>1. CASE UNCHANGED vars
    BY <1>1 DEF vars, launchVars, stopVars, QuietInv
  <1>2. CASE Next /\ UNCHANGED stopVars
    BY <1>2, CtxDoneStaysQuiet DEF QuietInv, stopVars
  <1>3. CASE Shutdown \/ Drain
    BY <1>3 DEF Shutdown, Drain, launchVars, QuietInv
  <1>4. CASE DrainReturns
    <2>1. \A l \in Launches : pc[l] \in {"none", "decided"}
      BY <1>4 DEF DrainReturns, At
    <2> QED BY <1>4, <2>1 DEF DrainReturns, launchVars, QuietInv, QuietLocations
  <1> QED BY <1>1, <1>2, <1>3, <1>4, StopOrder

\* When Drain has returned, no runner is being registered and no VM runs,
\* whatever Reconcile or SetMin decided before it and starts only now.
THEOREM DrainIsQuiet == Spec => []DrainedIsQuiet
  <1>1. Init => QuietInv
    BY DEF Init, QuietInv
  <1>2. QuietInv => DrainedIsQuiet
    BY DEF QuietInv, DrainedIsQuiet, At, QuietLocations
  <1> QED BY <1>1, <1>2, TypeCorrect, QuietNext, PTL DEF Spec

-----------------------------------------------------------------------------
(* The counters.                                                           *)

\* At(L) for any assignment of places.
Standing(places, L) == {x \in Launches : places[x] \in L}

\* g is f with l moved.
Moves(f, g, l, to) == g[l] = to /\ \A x \in Launches \ {l} : g[x] = f[x]

Weight(place, L) == IF place \in L THEN 1 ELSE 0

\* One launch that moves changes the number at L by at most itself.
LEMMA MoveCounts ==
    ASSUME NEW f, NEW l \in Launches, NEW to,
           NEW L \in SUBSET Locations, NEW g, Moves(f, g, l, to)
    PROVE  /\ Cardinality(Standing(f, L)) \in Nat
           /\ Cardinality(Standing(g, L)) =
                Cardinality(Standing(f, L)) + Weight(to, L) - Weight(f[l], L)
  <1>1. g[l] = to /\ \A x \in Launches \ {l} : g[x] = f[x]
    BY DEF Moves
  <1>2. Standing(g, L) \ {l} = Standing(f, L) \ {l}
    BY <1>1 DEF Standing
  <1>3. ASSUME NEW h, NEW S, S = Standing(h, L)
        PROVE  /\ Cardinality(S) \in Nat
               /\ Cardinality(S) = Cardinality(S \ {l}) + Weight(h[l], L)
    <2>1. IsFiniteSet(S) /\ Cardinality(S) \in Nat /\ S \in SUBSET Launches
      BY <1>3, LaunchSets DEF Standing
    <2>2. Cardinality(S \ {l}) = IF l \in S THEN Cardinality(S) - 1 ELSE Cardinality(S)
      BY <2>1, FS_RemoveElement
    <2>3. (l \in S) <=> h[l] \in L
      BY <1>3 DEF Standing
    <2> QED BY <2>1, <2>2, <2>3 DEF Weight
  <1>4. /\ Cardinality(Standing(f, L)) \in Nat
        /\ Cardinality(Standing(f, L)) = Cardinality(Standing(f, L) \ {l}) + Weight(f[l], L)
    BY <1>3
  <1>5. Cardinality(Standing(g, L)) = Cardinality(Standing(g, L) \ {l}) + Weight(to, L)
    <2>1. Cardinality(Standing(g, L)) = Cardinality(Standing(g, L) \ {l}) + Weight(g[l], L)
      BY <1>3
    <2> QED BY <1>1, <2>1
  <1>6. /\ Cardinality(Standing(f, L) \ {l}) \in Nat
        /\ Weight(to, L) \in Int /\ Weight(f[l], L) \in Int
    BY LaunchSets DEF Standing, Weight
  <1>7. Cardinality(Standing(g, L) \ {l}) = Cardinality(Standing(f, L) \ {l})
    BY <1>2
  <1> DEFINE cf == Cardinality(Standing(f, L))
             cg == Cardinality(Standing(g, L))
             rest == Cardinality(Standing(f, L) \ {l})
             wf == Weight(f[l], L)
             wt == Weight(to, L)
  <1>8. /\ cf \in Nat /\ cf = rest + wf
        /\ rest \in Nat /\ wt \in Int /\ wf \in Int
        /\ cg = rest + wt
    BY <1>4, <1>5, <1>6, <1>7
  <1> HIDE DEF cf, cg, rest, wf, wt
  <1>9. cf \in Nat /\ cg = cf + wt - wf
    BY <1>8
  <1> QED BY <1>9 DEF cf, cg, wf, wt

\* A commit of n launches adds n to the number at L, if they start at L.
LEMMA CommitCounts ==
    ASSUME NEW n \in Int, NEW from \in [Launches -> Locations], NEW run \in Int,
           NEW at \in {"decided", "spawned"}, Commit(n, from, run, at),
           NEW L \in SUBSET Locations, "none" \notin L
    PROVE  Cardinality(Standing(pc', L)) =
             Cardinality(Standing(from, L)) + (IF at \in L THEN n ELSE 0)
  <1>1. PICK new \in SUBSET Free(from) :
          /\ Cardinality(new) = n
          /\ pc' = [l \in Launches |-> IF l \in new THEN at ELSE from[l]]
    BY DEF Commit
  <1>2. new \in SUBSET Launches /\ \A l \in new : from[l] = "none"
    BY DEF Free
  <1>3. /\ IsFiniteSet(Standing(from, L)) /\ Cardinality(Standing(from, L)) \in Nat
        /\ IsFiniteSet(new)
    BY <1>2, LaunchSets DEF Standing
  <1>4. CASE at \in L
    <2>1. Standing(pc', L) = Standing(from, L) \cup new
      BY <1>1, <1>2, <1>4 DEF Standing
    <2>2. Standing(from, L) \cap new = {}
      BY <1>2 DEF Standing
    <2>3. Cardinality(Standing(from, L) \cup new) = Cardinality(Standing(from, L)) + n - Cardinality({})
      BY <1>1, <1>3, <2>2, FS_Union
    <2> QED BY <1>3, <1>4, <2>1, <2>3, FS_EmptySet
  <1>5. CASE at \notin L
    <2>1. Standing(pc', L) = Standing(from, L)
      BY <1>1, <1>2, <1>5 DEF Standing
    <2> QED BY <1>3, <1>5, <2>1
  <1> QED BY <1>4, <1>5

CountedAt == Locations \ {"none", "tail", "topup"}
PendingAt == {"decided", "spawned", "jit"}

\* PlacesHeld for any places and counts.
Tally(places, run, pend, back) ==
    /\ run = Cardinality(Standing(places, CountedAt))
    /\ pend = Cardinality(Standing(places, PendingAt))
    /\ back = Cardinality(Standing(places, {"backoff"}))
    /\ run <= MaxRunners

LEMMA PlacesTally ==
    PlacesHeld <=> Tally(pc, running, pending, backingOff)
  BY DEF PlacesHeld, Tally, Standing, Counted, Sleeping, At, CountedAt, PendingAt

LEMMA PlacesTallyPrimed ==
    PlacesHeld' <=> Tally(pc', running', pending', backingOff')
  BY DEF PlacesHeld, Tally, Standing, Counted, Sleeping, At, CountedAt, PendingAt

\* A move of one launch, with the counters changed as it demands.
LEMMA MoveTally ==
    ASSUME NEW f, NEW l \in Launches, NEW to, NEW g, Moves(f, g, l, to),
           NEW run, NEW pend, NEW back, Tally(f, run, pend, back),
           NEW run2 \in Int, run2 <= MaxRunners, NEW pend2, NEW back2,
           run2 = run + Weight(to, CountedAt) - Weight(f[l], CountedAt),
           pend2 = pend + Weight(to, PendingAt) - Weight(f[l], PendingAt),
           back2 = back + Weight(to, {"backoff"}) - Weight(f[l], {"backoff"})
    PROVE  Tally(g, run2, pend2, back2)
  <1>1. CountedAt \in SUBSET Locations /\ PendingAt \in SUBSET Locations /\ {"backoff"} \in SUBSET Locations
    BY DEF CountedAt, PendingAt, Locations
  <1>2. ASSUME NEW L \in SUBSET Locations
        PROVE  Cardinality(Standing(g, L)) =
                 Cardinality(Standing(f, L)) + Weight(to, L) - Weight(f[l], L)
    BY MoveCounts
  <1>3. /\ Cardinality(Standing(g, CountedAt)) = run2
        /\ Cardinality(Standing(g, PendingAt)) = pend2
    BY <1>1, <1>2 DEF Tally
  <1>4. Cardinality(Standing(g, {"backoff"})) = back2
    BY <1>1, <1>2 DEF Tally
  <1> QED BY <1>3, <1>4 DEF Tally

\* A commit that stays within MaxRunners keeps the tally.
LEMMA CommitTally ==
    ASSUME NEW n \in Int, NEW from \in [Launches -> Locations], NEW run \in Int,
           NEW at \in {"decided", "spawned"}, pending \in Int, backingOff' = backingOff,
           Commit(n, from, run, at), Tally(from, run, pending, backingOff),
           run + n <= MaxRunners
    PROVE  PlacesHeld'
  <1>1. /\ CountedAt \in SUBSET Locations /\ PendingAt \in SUBSET Locations
        /\ {"backoff"} \in SUBSET Locations
        /\ "none" \notin CountedAt /\ "none" \notin PendingAt /\ "none" \notin {"backoff"}
        /\ at \in CountedAt /\ at \in PendingAt /\ at \notin {"backoff"}
    BY DEF CountedAt, PendingAt, Locations
  <1>2. running' = run + n /\ pending' = pending + n
    BY DEF Commit
  <1>3. Cardinality(Standing(pc', CountedAt)) = run + n
    BY <1>1, CommitCounts DEF Tally
  <1>4. Cardinality(Standing(pc', PendingAt)) = pending + n
    BY <1>1, CommitCounts DEF Tally
  <1>5. Cardinality(Standing(pc', {"backoff"})) = Cardinality(Standing(from, {"backoff"}))
    <2>1. Cardinality(Standing(from, {"backoff"})) \in Nat
      BY LaunchSets DEF Standing
    <2>2. Cardinality(Standing(pc', {"backoff"})) = Cardinality(Standing(from, {"backoff"})) + 0
      BY <1>1, CommitCounts
    <2> QED BY <2>1, <2>2
  <1>6. Tally(pc', running', pending', backingOff')
    BY <1>2, <1>3, <1>4, <1>5 DEF Tally
  <1> QED BY <1>6, PlacesTallyPrimed

\* The same for a step of one launch that starts no other.
LEMMA StepTally ==
    ASSUME TypeOK, PlacesHeld, NEW l \in Launches, NEW to \in Locations,
           Moves(pc, pc', l, to), running' = running, backingOff' \in Int,
           pending' = pending + Weight(to, PendingAt) - Weight(pc[l], PendingAt),
           backingOff' = backingOff + Weight(to, {"backoff"}) - Weight(pc[l], {"backoff"}),
           Weight(to, CountedAt) = Weight(pc[l], CountedAt)
    PROVE  PlacesHeld'
  <1>2. Tally(pc, running, pending, backingOff)
    BY PlacesTally
  <1>3. running' \in Int /\ running' <= MaxRunners
    BY <1>2 DEF TypeOK, Tally
  <1>4. running' = running + Weight(to, CountedAt) - Weight(pc[l], CountedAt)
    BY DEF TypeOK, Weight
  <1>5. Tally(pc', running', pending', backingOff')
    BY <1>2, <1>3, <1>4, MoveTally
  <1> QED BY <1>5, PlacesTallyPrimed

\* finish() gives one place back and re-plans for at most one.
LEMMA FinishTally ==
    ASSUME TypeOK, PlacesHeld, NEW l \in Launches, pc[l] \in {"vm", "finish"},
           NEW done \in BOOLEAN, NEW r \in SUBSET Launches, NEW u \in SUBSET Launches,
           Finish(l, done, r, u), backingOff' = backingOff
    PROVE  PlacesHeld'
  <1> DEFINE after == [pc EXCEPT ![l] = "tail"]
             run == running - 1
             desired == lastJobs + floor
             live == Live(run, u \cup r)
             back(k) == Reclaimed(k, r \ cancelled)
             n(k) == IF back(k) # {} THEN 0 ELSE ReplanCount(desired, live, run)
  <1>1. after \in [Launches -> Locations] /\ Moves(pc, after, l, "tail")
    BY DEF TypeOK, Locations, Moves
  <1>2. /\ live \in Int /\ desired \in Int /\ run \in Int /\ pending \in Int
        /\ running \in Int /\ backingOff \in Int
    BY LiveType DEF TypeOK
  <1>3. Tally(pc, running, pending, backingOff)
    BY PlacesTally
  <1>4. run <= MaxRunners
    BY <1>2, <1>3 DEF Tally
  <1>5. Tally(after, run, pending, backingOff)
    <2>1. /\ run = running + Weight("tail", CountedAt) - Weight(pc[l], CountedAt)
          /\ pending = pending + Weight("tail", PendingAt) - Weight(pc[l], PendingAt)
          /\ backingOff = backingOff + Weight("tail", {"backoff"}) - Weight(pc[l], {"backoff"})
      BY <1>2 DEF Weight, CountedAt, PendingAt, Locations
    <2> HIDE DEF after, run
    <2> QED BY <1>1, <1>2, <1>3, <1>4, <2>1, MoveTally
  <1> HIDE DEF live, desired, run, after
  <1>6. ASSUME NEW k \in 0..Len(removeQ)
        PROVE  n(k) \in Int /\ run + n(k) <= MaxRunners
    <2>1. /\ Plan(desired, live, run) \in Nat
          /\ run + Plan(desired, live, run) <= MaxRunners
      BY <1>2, <1>4, PlanBounds
    <2> QED BY <1>2, <1>4, <2>1 DEF ReplanCount, Smaller
  <1>7. CASE done /\ hasDesired /\ ~draining /\ ~ctxDone
    <2>1. PICK k \in 0..Len(removeQ) : Commit(n(k), after, run, "spawned")
      BY <1>7 DEF Finish, LeavesRunning, after, live, desired, run
    <2> HIDE DEF n
    <2> QED BY <2>1, <1>1, <1>2, <1>5, <1>6, CommitTally
  <1>8. CASE ~(done /\ hasDesired /\ ~draining /\ ~ctxDone)
    <2>1. Commit(0, after, run, "spawned")
      BY <1>8 DEF Finish, LeavesRunning, after, run
    <2>2. run + 0 <= MaxRunners
      BY <1>2, <1>4
    <2> QED BY <2>1, <2>2, <1>1, <1>2, <1>5, CommitTally
  <1> QED BY <1>7, <1>8

\* maintainMinimum tops up to the floor within Max.
LEMMA MaintainMinimumTally ==
    ASSUME TypeOK, NEW from \in [Launches -> Locations], NEW at \in {"decided", "spawned"},
           Tally(from, running, pending, backingOff), MaintainMinimum(from, at),
           backingOff' = backingOff
    PROVE  PlacesHeld'
  <1> DEFINE n == IF draining \/ floor <= 0 THEN 0 ELSE Plan(floor, running, running)
  <1>1. running \in Int /\ pending \in Int /\ running <= MaxRunners
    BY DEF TypeOK, Tally
  <1>2. n \in Int /\ running + n <= MaxRunners
    <2>1. Plan(floor, running, running) \in Nat /\ running + Plan(floor, running, running) <= MaxRunners
      <3>1. floor \in Int
        BY DEF TypeOK
      <3> QED BY <1>1, <3>1, PlanBounds
    <2> QED BY <1>1, <2>1
  <1>3. Commit(n, from, running, at)
    BY DEF MaintainMinimum
  <1> HIDE DEF n
  <1> QED BY <1>1, <1>2, <1>3, CommitTally

\* A reconcile launches within Max or moves no launch.
LEMMA ReconcileLockedTally ==
    ASSUME TypeOK, PlacesHeld, NEW jobs \in Nat, NEW m \in Nat, ReconcileLocked(jobs, m),
           backingOff' = backingOff
    PROVE  PlacesHeld'
  <1> DEFINE r(k) == removing \ Reclaimed(k, removing \ cancelled)
             live(k) == Live(running, Unusable(cancelled, r(k), completed))
             n(k) == IF draining THEN 0 ELSE Plan(jobs + m, live(k), running)
  <1>1. PICK k \in 0..Len(removeQ) :
          Commit(n(k), pc, running, "decided") \/ UNCHANGED <<pc, running, pending>>
    BY DEF ReconcileLocked
  <1>2. Tally(pc, running, pending, backingOff)
    BY PlacesTally
  <1>3. running \in Int /\ pending \in Int /\ running <= MaxRunners
    BY <1>2 DEF TypeOK, Tally
  <1>4. live(k) \in Int
    <2>1. Unusable(cancelled, r(k), completed) \in SUBSET Launches
      BY DEF TypeOK, Unusable, Active, At
    <2> QED BY <2>1, LiveType DEF TypeOK
  <1>5. n(k) \in Int /\ running + n(k) <= MaxRunners
    <2> HIDE DEF live
    <2>1. Plan(jobs + m, live(k), running) \in Nat /\ running + Plan(jobs + m, live(k), running) <= MaxRunners
      <3>1. jobs + m \in Int
        OBVIOUS
      <3> QED BY <1>3, <1>4, <3>1, PlanBounds
    <2> QED BY <1>3, <2>1
  <1> HIDE DEF n
  <1>6. CASE Commit(n(k), pc, running, "decided")
    BY <1>2, <1>3, <1>5, <1>6, CommitTally DEF TypeOK
  <1>7. CASE UNCHANGED <<pc, running, pending>>
    BY <1>2, <1>7, PlacesTallyPrimed
  <1> QED BY <1>1, <1>6, <1>7

\* What each place weighs in each of the three counters.
LEMMA Weights ==
    /\ Weight("none", CountedAt) = 0  /\ Weight("decided", CountedAt) = 1  /\ Weight("spawned", CountedAt) = 1
    /\ Weight("jit", CountedAt) = 1  /\ Weight("entered", CountedAt) = 1  /\ Weight("vm", CountedAt) = 1
    /\ Weight("failed", CountedAt) = 1  /\ Weight("backoff", CountedAt) = 1  /\ Weight("finish", CountedAt) = 1
    /\ Weight("tail", CountedAt) = 0  /\ Weight("topup", CountedAt) = 0
    /\ Weight("none", PendingAt) = 0  /\ Weight("decided", PendingAt) = 1  /\ Weight("spawned", PendingAt) = 1
    /\ Weight("jit", PendingAt) = 1  /\ Weight("entered", PendingAt) = 0  /\ Weight("vm", PendingAt) = 0
    /\ Weight("failed", PendingAt) = 0  /\ Weight("backoff", PendingAt) = 0  /\ Weight("finish", PendingAt) = 0
    /\ Weight("tail", PendingAt) = 0  /\ Weight("topup", PendingAt) = 0
    /\ Weight("none", {"backoff"}) = 0  /\ Weight("decided", {"backoff"}) = 0  /\ Weight("spawned", {"backoff"}) = 0
    /\ Weight("jit", {"backoff"}) = 0  /\ Weight("entered", {"backoff"}) = 0  /\ Weight("vm", {"backoff"}) = 0
    /\ Weight("failed", {"backoff"}) = 0  /\ Weight("backoff", {"backoff"}) = 1  /\ Weight("finish", {"backoff"}) = 0
    /\ Weight("tail", {"backoff"}) = 0  /\ Weight("topup", {"backoff"}) = 0
  BY DEF Weight, CountedAt, PendingAt, Locations

LEMMA LaunchStepTally ==
    ASSUME TypeOK, PlacesHeld, NEW l \in Launches, LaunchStep(l)
    PROVE  PlacesHeld'
  <1>1. running \in Int /\ pending \in Int /\ backingOff \in Int
    BY DEF TypeOK
  <1>2. CASE Spawn(l)
    <2>1. "spawned" \in Locations
      BY DEF Locations
    <2> QED BY <1>1, <1>2, <2>1, Weights, StepTally
            DEF Moves, TypeOK, Spawn
  <1>3. CASE StartLaunch(l)
    <2>1. "finish" \in Locations /\ "jit" \in Locations
      BY DEF Locations
    <2> QED BY <1>1, <1>3, <2>1, Weights, StepTally
            DEF Moves, TypeOK, StartLaunch, Enter
  <1>4. ASSUME NEW ok \in BOOLEAN, GenerateReturns(l, ok)
        PROVE  PlacesHeld'
    <2>1. "entered" \in Locations /\ "failed" \in Locations
      BY DEF Locations
    <2> QED BY <1>1, <1>4, <2>1, Weights, StepTally
            DEF Moves, TypeOK, GenerateReturns, Enter
  <1>5. CASE Track(l)
    <2>1. "vm" \in Locations
      BY DEF Locations
    <2> QED BY <1>1, <1>5, <2>1, Weights, StepTally
            DEF Moves, TypeOK, Track
  <1>6. ASSUME NEW ok \in BOOLEAN, LaunchReturns(l, ok)
        PROVE  PlacesHeld'
    <2>1. pc[l] = "vm" /\ backingOff' = backingOff
      BY <1>6 DEF LaunchReturns
    <2>2. CASE Finish(l, JobDone(l), removing \ {l}, (cancelled \cup completed) \ {l})
      <3> DEFINE d == JobDone(l)
                 r == removing \ {l}
                 u == (cancelled \cup completed) \ {l}
      <3>1. d \in BOOLEAN /\ r \in SUBSET Launches /\ u \in SUBSET Launches
        BY DEF TypeOK, Active, At, JobDone
      <3>2. Finish(l, d, r, u)
        BY <2>2
      <3> HIDE DEF d, r, u
      <3> QED BY <2>1, <3>1, <3>2, FinishTally
    <2>3. CASE pc' = [pc EXCEPT ![l] = "failed"] /\ UNCHANGED <<running, pending>>
      <3>1. "failed" \in Locations
        BY DEF Locations
      <3> QED BY <1>1, <2>1, <2>3, <3>1, Weights, StepTally DEF Moves, TypeOK
    <2> QED BY <1>6, <2>2, <2>3 DEF LaunchReturns
  <1>7. CASE BackoffStarts(l)
    <2>1. "finish" \in Locations /\ "backoff" \in Locations
      BY DEF Locations
    <2> QED BY <1>1, <1>7, <2>1, Weights, StepTally
            DEF Moves, TypeOK, BackoffStarts
  <1>8. CASE BackoffEnds(l)
    <2>1. "finish" \in Locations
      BY DEF Locations
    <2> QED BY <1>1, <1>8, <2>1, Weights, StepTally
            DEF Moves, TypeOK, BackoffEnds
  <1>9. CASE DeferredFinish(l)
    <2>1. /\ removing \in SUBSET Launches /\ cancelled \cup completed \in SUBSET Launches
          /\ (l \in jobDone) \in BOOLEAN
      BY DEF TypeOK, Active, At
    <2>2. /\ pc[l] = "finish" /\ backingOff' = backingOff
          /\ Finish(l, l \in jobDone, removing, cancelled \cup completed)
      BY <1>9 DEF DeferredFinish
    <2> QED BY <2>1, <2>2, FinishTally
  <1>10. CASE TailCheck(l)
    <2>1. "none" \in Locations /\ "topup" \in Locations
      BY DEF Locations
    <2> QED BY <1>1, <1>10, <2>1, Weights, StepTally
            DEF Moves, TypeOK, TailCheck
  <1>11. CASE TailTopUp(l)
    <2> DEFINE from == [pc EXCEPT ![l] = "none"]
    <2>1. from \in [Launches -> Locations] /\ Moves(pc, from, l, "none") /\ pc[l] = "topup"
      BY <1>11 DEF TailTopUp, TypeOK, Locations, Moves
    <2>2. MaintainMinimum(from, "spawned") /\ backingOff' = backingOff
      BY <1>11 DEF TailTopUp
    <2> HIDE DEF from
    <2>3. Tally(pc, running, pending, backingOff)
      BY PlacesTally
    <2>4. /\ running = running + Weight("none", CountedAt) - Weight(pc[l], CountedAt)
          /\ pending = pending + Weight("none", PendingAt) - Weight(pc[l], PendingAt)
          /\ backingOff = backingOff + Weight("none", {"backoff"}) - Weight(pc[l], {"backoff"})
          /\ running <= MaxRunners
      BY <1>1, <2>1, <2>3, Weights DEF Tally
    <2>5. Tally(from, running, pending, backingOff)
      BY <1>1, <2>1, <2>3, <2>4, MoveTally
    <2> QED BY <2>1, <2>2, <2>5, MaintainMinimumTally
  <1> QED BY <1>2, <1>3, <1>4, <1>5, <1>6, <1>7, <1>8, <1>9, <1>10, <1>11 DEF LaunchStep

LEMMA PlacesNext == TypeOK /\ PlacesHeld /\ [Next]_vars => PlacesHeld'
  <1> SUFFICES ASSUME TypeOK, PlacesHeld, [Next]_vars PROVE PlacesHeld'
    OBVIOUS
  <1>1. ASSUME NEW jobs \in 0..MaxJobs, Reconcile(jobs)
        PROVE  PlacesHeld'
    <2>1. jobs \in Nat /\ floor \in Nat /\ ReconcileLocked(jobs, floor) /\ backingOff' = backingOff
      BY <1>1 DEF Reconcile, TypeOK
    <2> QED BY <2>1, ReconcileLockedTally
  <1>2. CASE UNCHANGED <<pc, running, pending, backingOff>>
    BY <1>2 DEF PlacesHeld, Counted, Sleeping, At
  <1>3. ASSUME NEW m \in Floors, SetMin(m)
        PROVE  PlacesHeld'
    <2>1. m \in Nat /\ lastJobs \in Nat /\ backingOff' = backingOff
      BY <1>3 DEF SetMin, TypeOK
    <2> QED BY <1>2, <1>3, <2>1, ReconcileLockedTally DEF SetMin
  <1>4. CASE SetMinTopUp
    <2>1. Tally(pc, running, pending, backingOff) /\ backingOff' = backingOff
      BY <1>4, PlacesTally DEF SetMinTopUp
    <2> QED BY <1>2, <1>4, <2>1, MaintainMinimumTally DEF SetMinTopUp, TypeOK
  <1>5. ASSUME NEW l \in Launches, LaunchStep(l)
        PROVE  PlacesHeld'
    BY <1>5, LaunchStepTally
  <1>6. ASSUME NEW l \in Launches, HandleStep(l)
        PROVE  PlacesHeld'
    BY <1>2, <1>6 DEF HandleStep, MarkBusy, MarkCompleted, CancelIfIdle, CancelLost, launchVars
  <1>7. CASE \/ NextRemoval \/ RemoverResumes \/ \E answer \in Answers : SettleRemoval(answer)
             \/ Shutdown \/ Drain \/ DrainReturns \/ UNCHANGED vars
    BY <1>2, <1>7 DEF NextRemoval, RemoverResumes, SettleRemoval, Shutdown, Drain, DrainReturns,
                      vars, launchVars
  <1> QED BY <1>1, <1>3, <1>4, <1>5, <1>6, <1>7 DEF Next

\* The counters kept by hand across launchOne's exits are the launches they
\* stand for, and running never passes Max, whichever of Reconcile, SetMin,
\* replan and maintainMinimum commits, for any number of launches and any Max.
THEOREM CountersHold == Spec => []PlacesHeld
  <1>1. Init => PlacesHeld
    <2> SUFFICES ASSUME Init PROVE PlacesHeld
      OBVIOUS
    <2>1. Counted = {} /\ At({"decided", "spawned", "jit"}) = {} /\ Sleeping = {}
      BY DEF Init, Counted, Sleeping, At
    <2>2. Cardinality({}) = 0
      BY FS_EmptySet
    <2>3. /\ Cardinality(Counted) = 0 /\ Cardinality(Sleeping) = 0
          /\ Cardinality(At({"decided", "spawned", "jit"})) = 0
      BY <2>1, <2>2
    <2>4. running = 0 /\ pending = 0 /\ backingOff = 0
      BY DEF Init
    <2> QED BY <2>3, <2>4 DEF PlacesHeld
  <1> QED BY <1>1, TypeCorrect, PlacesNext, PTL DEF Spec

-----------------------------------------------------------------------------
(* What a step leaves where it is: a launch moves only by its own steps.   *)

Stays(x) == pc[x] # "none" => pc'[x] = pc[x]

LEMMA CommitLeaves ==
    ASSUME NEW n, NEW from, NEW run, NEW at, Commit(n, from, run, at),
           NEW x \in Launches, from[x] # "none"
    PROVE  pc'[x] = from[x]
  BY DEF Commit, Free

LEMMA FinishLeaves ==
    ASSUME TypeOK, NEW l \in Launches, NEW done, NEW r, NEW u, Finish(l, done, r, u),
           NEW x \in Launches, x # l
    PROVE  Stays(x)
<1> DEFINE after == [pc EXCEPT ![l] = "tail"]
<1>1. after[x] = pc[x]
  BY DEF TypeOK
<1>2. \E n, run : Commit(n, after, run, "spawned")
  BY DEF Finish
<1> HIDE DEF after
<1> QED
  BY <1>1, <1>2, CommitLeaves DEF Stays

LEMMA LaunchStepLeaves ==
    ASSUME TypeOK, NEW l \in Launches, LaunchStep(l), NEW x \in Launches, x # l
    PROVE  Stays(x)
<1>1. ASSUME NEW to, pc' = [pc EXCEPT ![l] = to] PROVE Stays(x)
  BY <1>1 DEF TypeOK, Stays
<1>2. CASE \/ Spawn(l) \/ StartLaunch(l) \/ Track(l) \/ BackoffStarts(l) \/ BackoffEnds(l)
           \/ TailCheck(l) \/ \E ok \in BOOLEAN : GenerateReturns(l, ok)
  <2>1. \E to : pc' = [pc EXCEPT ![l] = to]
    BY <1>2 DEF Spawn, StartLaunch, Enter, Track, BackoffStarts, BackoffEnds, TailCheck,
       GenerateReturns
  <2> QED
    BY <1>1, <2>1
<1>3. CASE DeferredFinish(l) \/ \E ok \in BOOLEAN : LaunchReturns(l, ok)
  <2>1. (\E done, r, u : Finish(l, done, r, u)) \/ pc' = [pc EXCEPT ![l] = "failed"]
    BY <1>3 DEF DeferredFinish, LaunchReturns
  <2> QED
    BY <1>1, <2>1, FinishLeaves
<1>4. CASE TailTopUp(l)
  <2> DEFINE from == [pc EXCEPT ![l] = "none"]
  <2>1. from[x] = pc[x]
    BY DEF TypeOK
  <2>2. \E n : Commit(n, from, running, "spawned")
    BY <1>4 DEF TailTopUp, MaintainMinimum
  <2> HIDE DEF from
  <2> QED
    BY <2>1, <2>2, CommitLeaves DEF Stays
<1> QED
  BY <1>2, <1>3, <1>4 DEF LaunchStep

LEMMA PlanningLeaves ==
    ASSUME \/ \E jobs \in 0..MaxJobs : Reconcile(jobs)
           \/ \E m \in Floors : SetMin(m)
           \/ SetMinTopUp,
           NEW x \in Launches
    PROVE  Stays(x)
<1>1. pc' = pc \/ \E n, at : Commit(n, pc, running, at)
  BY DEF Reconcile, SetMin, SetMinTopUp, ReconcileLocked, MaintainMinimum
<1> QED
  BY <1>1, CommitLeaves DEF Stays

-----------------------------------------------------------------------------
(* Queues without duplicates.                                              *)

Distinct(q) == \A i, j \in DOMAIN q : q[i] = q[j] => i = j

\* What follows the first k entries of q.
Rest(q, k) == {q[i] : i \in {j \in 1..Len(q) : j > k}}

\* What reclaimQueued leaves of the queue.
LEMMA Prefix ==
  ASSUME NEW q \in Seq(Launches), Distinct(q), NEW k \in 0..Len(q)
  PROVE  LET p == SubSeq(q, 1, k)
         IN /\ p \in Seq(Launches) /\ Distinct(p)
            /\ Range(p) \cap Rest(q, k) = {} /\ Range(p) \cup Rest(q, k) = Range(q)
            /\ p # <<>> => q # <<>>
<1> DEFINE p == SubSeq(q, 1, k)
<1>1. Len(q) \in Nat /\ DOMAIN q = 1..Len(q) /\ k \in Nat
  BY LenProperties
<1>2. \A i \in 1..k : q[i] \in Launches
  BY <1>1, ElementOfSeq
<1>3. p \in Seq(Launches) /\ Len(p) = k /\ \A i \in 1..k : p[i] = q[i]
  BY <1>1, <1>2
<1> HIDE DEF p
<1>4. DOMAIN p = 1..k
  BY <1>3, LenProperties
<1>5. Distinct(p)
  BY <1>1, <1>3, <1>4 DEF Distinct
<1>6. Range(p) = {q[i] : i \in 1..k}
  BY <1>3, <1>4 DEF Range
<1>7. Range(p) \cap Rest(q, k) = {}
  BY <1>1, <1>6 DEF Rest, Distinct
<1>8. Range(p) \cup Rest(q, k) = Range(q)
  <2>1. \A i \in 1..Len(q) : i \in 1..k \/ i > k
    BY <1>1
  <2>2. \A i \in 1..k : i \in 1..Len(q)
    BY <1>1
  <2> QED
    BY <1>1, <1>6, <2>1, <2>2 DEF Rest, Range
<1>9. p # <<>> => q # <<>>
  <2> SUFFICES ASSUME p # <<>>, q = <<>> PROVE FALSE
    OBVIOUS
  <2>1. Len(q) = 0
    OBVIOUS
  <2>2. Len(p) = 0
    BY <1>1, <1>3, <2>1
  <2> QED
    BY <1>3, <2>2, EmptySeq
<1> QED
  BY <1>3, <1>5, <1>7, <1>8, <1>9 DEF p

\* What nextRemoval leaves of it.
LEMMA Suffix ==
  ASSUME NEW q \in Seq(Launches), Distinct(q), NEW k \in 1..Len(q)
  PROVE  LET p == SubSeq(q, k + 1, Len(q))
         IN /\ p \in Seq(Launches) /\ Distinct(p)
            /\ Range(p) = Rest(q, k) /\ q[k] \notin Rest(q, k) /\ q[k] \in Launches
<1> DEFINE p == SubSeq(q, k + 1, Len(q))
           m == Len(q) - k
<1>1. Len(q) \in Nat /\ DOMAIN q = 1..Len(q) /\ k \in Nat /\ k >= 1 /\ m \in Nat
  BY LenProperties
<1>2. \A i \in 1..Len(q) : q[i] \in Launches
  BY <1>1, ElementOfSeq
<1>3. p \in Seq(Launches) /\ Len(p) = m /\ \A i \in 1..m : p[i] = q[k + i]
  <2>1. \A i \in k + 1..Len(q) : q[i] \in Launches
    BY <1>1, <1>2
  <2>2. k + 1 \in Int /\ Len(q) \in Int
    BY <1>1
  <2>3. /\ p \in Seq(Launches) /\ Len(p) = IF k + 1 <= Len(q) THEN Len(q) - (k + 1) + 1 ELSE 0
        /\ \A i \in 1..Len(q) - (k + 1) + 1 : p[i] = q[(k + 1) + i - 1]
    BY <2>1, <2>2, SubSeqProperties
  <2>4. Len(q) - (k + 1) + 1 = m /\ (k + 1 <= Len(q) \/ m = 0)
    <3> DEFINE n == Len(q)
    <3>1. n \in Nat /\ k \in Nat /\ n - k \in Nat
      BY <1>1
    <3> HIDE DEF n
    <3>2. n - (k + 1) + 1 = n - k /\ (k + 1 <= n \/ n - k = 0)
      BY <3>1
    <3> QED
      BY <3>2 DEF n
  <2>5. ASSUME NEW i \in 1..m PROVE p[i] = q[k + i]
    <3>1. (k + 1) + i - 1 = k + i
      BY <1>1
    <3>2. p[i] = q[(k + 1) + i - 1]
      BY <2>3, <2>4
    <3> QED
      BY <3>1, <3>2
  <2> HIDE DEF p, m
  <2> QED
    BY <2>3, <2>4, <2>5
<1> HIDE DEF p
<1>4. DOMAIN p = 1..m
  BY <1>3, LenProperties
<1>5. Distinct(p)
  <2> SUFFICES ASSUME NEW i \in 1..m, NEW j \in 1..m, p[i] = p[j] PROVE i = j
    BY <1>4 DEF Distinct
  <2>1. q[k + i] = q[k + j] /\ k + i \in DOMAIN q /\ k + j \in DOMAIN q
    BY <1>1, <1>3
  <2>2. k + i = k + j
    BY <2>1 DEF Distinct
  <2> QED
    BY <1>1, <2>2
<1>6. Range(p) = Rest(q, k)
  <2>1. ASSUME NEW i \in 1..m PROVE p[i] \in Rest(q, k)
    BY <1>1, <1>3 DEF Rest
  <2>2. ASSUME NEW j \in 1..Len(q), j > k PROVE q[j] \in Range(p)
    <3>1. j - k \in 1..m /\ k + (j - k) = j
      BY <1>1, <2>2
    <3>2. p[j - k] = q[j]
      BY <1>3, <3>1
    <3> QED
      BY <1>4, <3>1, <3>2 DEF Range
  <2> QED
    BY <1>4, <2>1, <2>2 DEF Range, Rest
<1>7. q[k] \notin Rest(q, k)
  BY <1>1 DEF Rest, Distinct
<1> QED
  BY <1>2, <1>3, <1>5, <1>6, <1>7 DEF p

\* What scaleDown and a removal to be tried again append.
LEMMA Joined ==
  ASSUME NEW q \in Seq(Launches), Distinct(q), NEW p \in Seq(Launches), Distinct(p),
         Range(q) \cap Range(p) = {}
  PROVE  /\ q \o p \in Seq(Launches) /\ Distinct(q \o p)
         /\ Range(q \o p) = Range(q) \cup Range(p)
<1> DEFINE s == q \o p
           n == Len(q)
           m == Len(p)
<1>1. /\ n \in Nat /\ m \in Nat /\ DOMAIN q = 1..n /\ DOMAIN p = 1..m
  BY LenProperties
<1>2. /\ s \in Seq(Launches) /\ Len(s) = n + m
      /\ \A i \in 1..n + m : s[i] = IF i <= n THEN q[i] ELSE p[i - n]
  BY ConcatProperties
<1> HIDE DEF s
<1>3. DOMAIN s = 1..n + m
  BY <1>2, LenProperties
<1>4. \A i \in 1..n + m : IF i <= n THEN i \in 1..n /\ s[i] = q[i]
                                    ELSE i - n \in 1..m /\ s[i] = p[i - n]
  BY <1>1, <1>2
<1>5. Distinct(s)
  <2> SUFFICES ASSUME NEW i \in 1..n + m, NEW j \in 1..n + m, s[i] = s[j] PROVE i = j
    BY <1>3 DEF Distinct
  <2>1. CASE i <= n /\ j <= n
    BY <1>1, <1>4, <2>1 DEF Distinct
  <2>2. CASE ~(i <= n) /\ ~(j <= n)
    <3>1. i - n \in DOMAIN p /\ j - n \in DOMAIN p /\ p[i - n] = p[j - n]
      BY <1>1, <1>4, <2>2
    <3>2. i - n = j - n
      BY <3>1 DEF Distinct
    <3> QED
      BY <1>1, <3>2
  <2>3. CASE (i <= n) # (j <= n)
    <3>1. ASSUME NEW x \in 1..n + m, NEW y \in 1..n + m, x <= n, ~(y <= n), s[x] = s[y] PROVE FALSE
      <4>1. s[x] \in Range(q)
        BY <1>1, <1>4, <3>1 DEF Range
      <4>2. s[y] \in Range(p)
        BY <1>1, <1>4, <3>1 DEF Range
      <4> QED
        BY <3>1, <4>1, <4>2
    <3> QED
      BY <2>3, <3>1
  <2> QED
    BY <2>1, <2>2, <2>3
<1>6. Range(s) = Range(q) \cup Range(p)
  <2>1. \A i \in 1..n + m : s[i] \in Range(q) \cup Range(p)
    BY <1>1, <1>4 DEF Range
  <2>2. \A i \in 1..n : q[i] \in Range(s)
    <3>1. \A i \in 1..n : i \in 1..n + m /\ i <= n
      BY <1>1
    <3> QED
      BY <1>3, <1>4, <3>1 DEF Range
  <2>3. \A i \in 1..m : p[i] \in Range(s)
    <3>1. \A i \in 1..m : n + i \in 1..n + m /\ ~(n + i <= n) /\ (n + i) - n = i
      BY <1>1
    <3> QED
      BY <1>3, <1>4, <3>1 DEF Range
  <2> QED
    BY <1>1, <1>3, <2>1, <2>2, <2>3 DEF Range
<1> QED
  BY <1>2, <1>5, <1>6 DEF s

\* A queue of one.
LEMMA Single ==
  ASSUME NEW l \in Launches
  PROVE  <<l>> \in Seq(Launches) /\ Distinct(<<l>>) /\ Range(<<l>>) = {l}
BY DEF Distinct, Range

LEMMA NoQueue == <<>> \in Seq(Launches) /\ Distinct(<<>>) /\ Range(<<>>) = {}
BY DEF Distinct, Range

-----------------------------------------------------------------------------
(* RemovalOwned is not inductive: scaleDown could queue again the handle   *)
(* whose removal is in flight, and a name still queued could come back as  *)
(* another launch's handle.                                                *)

\* removeLoop has a name in hand only while it calls the Remover; its handle is
\* marked, unless it is gone or cancelled.
OneInFlight ==
    /\ remover # "calling" => removal = NoLaunch
    /\ removal \in Active \ cancelled => removal \in removing

Held == Range(removeQ) \cup {removal}
Early == {"decided", "spawned", "jit", "entered"}

\* A name is in no launch's hands before its handle is.
NamesOld == \A l \in Launches : l \in Held => pc[l] \notin Early

OwnInv == RemovalOwned /\ OneInFlight /\ NamesOld

LEMMA OwnFacts ==
  ASSUME TypeOK, OwnInv
  PROVE  /\ removeQ \in Seq(Launches) /\ Distinct(removeQ) /\ Range(removeQ) \subseteq Launches
         /\ removal \notin Range(removeQ)
         /\ removing \subseteq Active /\ Active \subseteq Launches /\ NoLaunch \notin Launches
<1>1. removeQ \in Seq(Launches) /\ removing \subseteq Active /\ Active \subseteq Launches
  BY DEF TypeOK, Active, At
<1>2. DOMAIN removeQ = 1..Len(removeQ) /\ \A i \in 1..Len(removeQ) : removeQ[i] \in Launches
  BY <1>1, LenProperties, ElementOfSeq
<1> QED
  BY <1>1, <1>2, LaunchesAssumption DEF OwnInv, RemovalOwned, Distinct, Range

\* reclaimQueued takes marks off together with the queue's end.
LEMMA ReclaimOwned ==
  ASSUME TypeOK, OwnInv, NEW k \in 0..Len(removeQ), NEW R \in SUBSET removing
  PROVE  LET q == SubSeq(removeQ, 1, k)
             r == R \ Reclaimed(k, R \ cancelled)
         IN /\ q \in Seq(Launches) /\ Distinct(q) /\ Range(q) \subseteq Range(removeQ)
            /\ q # <<>> => removeQ # <<>>
            /\ \A l \in R : l \in Range(q) \/ l = removal \/ l \in cancelled => l \in r
            /\ ~ctxDone => r \ cancelled \subseteq Range(q) \cup {removal}
<1> DEFINE q == SubSeq(removeQ, 1, k)
           r == R \ Reclaimed(k, R \ cancelled)
<1>1. /\ q \in Seq(Launches) /\ Distinct(q)
      /\ Range(q) \cap Rest(removeQ, k) = {} /\ Range(q) \cup Rest(removeQ, k) = Range(removeQ)
      /\ q # <<>> => removeQ # <<>>
  BY OwnFacts, Prefix
<1>2. Reclaimed(k, R \ cancelled) = Rest(removeQ, k) \cap (R \ cancelled)
  BY DEF Reclaimed, Popped, Rest
<1>3. removal \notin Rest(removeQ, k)
  BY <1>1, OwnFacts
<1>4. ~ctxDone => removing \ cancelled \subseteq Range(removeQ) \cup {removal}
  BY DEF OwnInv, RemovalOwned
<1> HIDE DEF q
<1> QED
  BY <1>1, <1>2, <1>3, <1>4 DEF q

\* A commit gives no name away that is still held.
LEMMA CommitHeld ==
  ASSUME NEW n, NEW from \in [Launches -> Locations], NEW run, NEW at,
         Commit(n, from, run, at), NEW l \in Launches, l \in Held
  PROVE  pc'[l] = from[l]
BY DEF Commit, Free, Held

\* The removal state is left alone, but for marks and cancels of handles.
LEMMA Untouched ==
  ASSUME TypeOK, OwnInv, UNCHANGED <<removeQ, remover, removal>>, ctxDone => ctxDone',
         \A l \in Launches : l \in Held =>
            /\ pc'[l] \notin Early
            /\ pc'[l] = "vm" /\ l \notin cancelled' =>
                  pc[l] = "vm" /\ l \notin cancelled /\ (l \in removing => l \in removing'),
         removing' \ cancelled' \subseteq removing \ cancelled
  PROVE  OwnInv'
<1>1. Range(removeQ) \subseteq Launches /\ Held' = Held
  BY OwnFacts DEF Held
<1>2. RemovalOwned'
  BY <1>1 DEF OwnInv, RemovalOwned, Active, At, Held
<1>3. OneInFlight'
  BY DEF OwnInv, OneInFlight, Active, At, Held
<1> QED
  BY <1>1, <1>2, <1>3 DEF OwnInv, NamesOld

\* A reclaim on the way, as in reconcileLocked and in finish's replan.
LEMMA Requeued ==
  ASSUME TypeOK, OwnInv, UNCHANGED <<remover, removal, ctxDone>>,
         NEW k \in 0..Len(removeQ), NEW R \in SUBSET removing,
         removeQ' = SubSeq(removeQ, 1, k),
         removing' = R \ Reclaimed(k, R \ cancelled),
         \A l \in Launches : l \in Held =>
            /\ pc'[l] \notin Early
            /\ pc'[l] = "vm" /\ l \notin cancelled' =>
                  pc[l] = "vm" /\ l \notin cancelled /\ (l \in removing => l \in R),
         \A l \in R : l \in cancelled => l \in cancelled'
  PROVE  OwnInv'
<1>1. /\ Distinct(removeQ') /\ Range(removeQ') \subseteq Range(removeQ)
      /\ removeQ' # <<>> => removeQ # <<>>
      /\ \A l \in R : l \in Range(removeQ') \/ l = removal \/ l \in cancelled => l \in removing'
      /\ ~ctxDone => removing' \ cancelled \subseteq Range(removeQ') \cup {removal}
  BY ReclaimOwned
<1>2. Range(removeQ) \subseteq Launches /\ removal \notin Range(removeQ)
  BY OwnFacts
<1>3. removing' \subseteq R
  OBVIOUS
<1>4. \A l \in Range(removeQ') \cup {removal} :
         l \in Active' /\ l \notin cancelled' => l \in removing'
  <2> SUFFICES ASSUME NEW l \in Range(removeQ') \cup {removal}, l \in Active', l \notin cancelled'
               PROVE  l \in removing'
    OBVIOUS
  <2>1. l \in Launches /\ pc'[l] = "vm" /\ l \in Held
    BY <1>1 DEF Active, At, Held
  <2>2. pc[l] = "vm" /\ l \notin cancelled /\ (l \in removing => l \in R)
    BY <2>1
  <2>3. l \in removing
    BY <2>1, <2>2 DEF OwnInv, RemovalOwned, OneInFlight, Held, Active, At
  <2> QED
    BY <1>1, <2>2, <2>3
<1>5. RemovalOwned'
  <2>1. ~ctxDone' => removing' \ cancelled' \subseteq Range(removeQ)' \cup {removal'}
    BY <1>1, <1>3
  <2>2. removeQ' # <<>> => remover' # "off"
    BY <1>1 DEF OwnInv, RemovalOwned
  <2> QED
    BY <1>1, <1>2, <1>4, <2>1, <2>2 DEF RemovalOwned, Distinct
<1>6. OneInFlight' /\ NamesOld'
  BY <1>1, <1>4 DEF OwnInv, OneInFlight, NamesOld, Held
<1> QED
  BY <1>5, <1>6 DEF OwnInv

\* scaleDown marks and queues handles that are neither queued nor in flight.
LEMMA ScaleDownOwned ==
  ASSUME TypeOK, OwnInv, NEW keep \in Int, NEW k \in 0..Len(removeQ),
         ScaleDown(keep, SubSeq(removeQ, 1, k), removing \ Reclaimed(k, removing \ cancelled)),
         UNCHANGED <<pc, removal, ctxDone>>
  PROVE  OwnInv'
<1> DEFINE q == SubSeq(removeQ, 1, k)
           r == removing \ Reclaimed(k, removing \ cancelled)
           excess == Live(running, Unusable(cancelled, r, completed)) - keep
           n == Larger(0, Smaller(excess, Cardinality(Idle(r))))
<1>1. /\ q \in Seq(Launches) /\ Distinct(q) /\ Range(q) \subseteq Range(removeQ)
      /\ q # <<>> => removeQ # <<>>
      /\ \A l \in removing : l \in Range(q) \/ l = removal \/ l \in cancelled => l \in r
      /\ ~ctxDone => r \ cancelled \subseteq Range(q) \cup {removal}
      /\ r \subseteq removing
  BY ReclaimOwned
<1>2. n \in Nat /\ excess \in Int
  <2>1. Cardinality(Idle(r)) \in Nat
    BY LaunchSets DEF Idle, Active, At
  <2>2. Unusable(cancelled, r, completed) \in SUBSET Launches
    BY DEF TypeOK, Unusable, Active, At
  <2>3. Live(running, Unusable(cancelled, r, completed)) \in Int
    <3> HIDE DEF r
    <3> QED
      BY <2>2, LiveType DEF TypeOK
  <2> HIDE DEF r
  <2> QED
    BY <2>1, <2>3 DEF Larger, Smaller
<1> HIDE DEF q
<1>3. PICK picked \in [1..n -> Idle(r)] :
        /\ \A i, j \in 1..n : picked[i] = picked[j] => i = j
        /\ IF HasRemover
           THEN /\ removing' = r \cup Range(picked)
                /\ removeQ' = q \o picked
                /\ cancelled' = cancelled
           ELSE /\ removing' = r
                /\ removeQ' = q
                /\ cancelled' = cancelled \cup Range(picked)
        /\ remover' = IF excess > 0 /\ removeQ' # <<>> /\ remover = "off" THEN "top" ELSE remover
  BY DEF ScaleDown, q
<1>4. excess <= 0 => n = 0
  BY <1>2, LaunchSets DEF Larger, Smaller, Idle, Active, At
<1> HIDE DEF r, n, excess
<1>5. DOMAIN picked = 1..n /\ Range(picked) \subseteq Idle(r) /\ Idle(r) \subseteq Launches
  BY DEF Range, Idle, Active, At
<1>6. picked \in Seq(Launches) /\ Distinct(picked) /\ (n = 0 => picked = <<>>)
  <2>1. picked \in [1..n -> Launches]
    BY <1>5
  <2>2. picked \in Seq(Launches) /\ Len(picked) = n
    BY <1>2, <2>1
  <2>3. n = 0 => picked = <<>>
    BY <2>2, EmptySeq
  <2> QED
    BY <1>3, <1>5, <2>2, <2>3 DEF Distinct
<1>7. \A l \in Idle(r) : l \in Active \ cancelled /\ l \notin r /\ l \notin Range(q) /\ l # removal
  <2> SUFFICES ASSUME NEW l \in Idle(r) PROVE l \notin Range(q) /\ l # removal
    BY DEF Idle
  <2>1. l \in Active \ cancelled /\ l \notin r
    BY DEF Idle
  <2>2. l \in Range(q) \/ l = removal => l \in removing
    BY <1>1, <2>1 DEF OwnInv, RemovalOwned, OneInFlight
  <2> QED
    BY <1>1, <2>1, <2>2
<1>8. \A l \in Range(q) \cup {removal} : l \in Active \ cancelled => l \in r
  BY <1>1 DEF OwnInv, RemovalOwned, OneInFlight
<1>9. removal \notin Range(q) /\ Active' = Active /\ Range(q) \subseteq Launches
  BY <1>1, OwnFacts DEF Active, At
<1>10. remover = "calling" <=> remover' = "calling"
  BY <1>3 DEF TypeOK
<1>11. q # <<>> => remover # "off"
  BY <1>1 DEF OwnInv, RemovalOwned
<1>12. CASE HasRemover
  <2>1. removing' = r \cup Range(picked) /\ removeQ' = q \o picked /\ cancelled' = cancelled
    BY <1>3, <1>12
  <2>2. Distinct(removeQ') /\ Range(removeQ') = Range(q) \cup Range(picked)
    <3>1. Range(q) \cap Range(picked) = {}
      BY <1>5, <1>7
    <3> QED
      BY <1>1, <1>6, <2>1, <3>1, Joined
  <2>3. removeQ' # <<>> => remover' # "off"
    <3>1. CASE excess > 0
      BY <1>3, <3>1
    <3>2. CASE ~(excess > 0)
      <4>1. picked = <<>>
        BY <1>2, <1>4, <1>6, <3>2
      <4>2. removeQ' = q
        BY <1>1, <2>1, <4>1, ConcatEmptySeq
      <4> QED
        BY <1>3, <1>11, <3>2, <4>2
    <3> QED
      BY <3>1, <3>2
  <2>4. removal' \notin Range(removeQ')
    BY <1>5, <1>7, <1>9, <2>2
  <2>5. Range(removeQ') \cap (Active' \ cancelled') \subseteq removing'
    BY <1>8, <1>9, <2>1, <2>2
  <2>6. ~ctxDone' => removing' \ cancelled' \subseteq Range(removeQ') \cup {removal'}
    BY <1>1, <2>1, <2>2
  <2>7. RemovalOwned'
    BY <2>2, <2>3, <2>4, <2>5, <2>6 DEF RemovalOwned, Distinct
  <2>8. OneInFlight'
    BY <1>8, <1>9, <1>10, <2>1 DEF OwnInv, OneInFlight
  <2>9. NamesOld'
    <3>1. \A l \in Range(picked) : pc[l] = "vm"
      BY <1>5, <1>7 DEF Active, At
    <3> QED
      BY <1>1, <2>2, <3>1 DEF OwnInv, NamesOld, Held, Early
  <2> QED
    BY <2>7, <2>8, <2>9 DEF OwnInv
<1>13. CASE ~HasRemover
  <2>1. removing' = r /\ removeQ' = q /\ cancelled' = cancelled \cup Range(picked)
    BY <1>3, <1>13
  <2>2. removeQ' # <<>> => remover' # "off"
    BY <1>3, <1>11, <2>1
  <2>3. RemovalOwned'
    BY <1>1, <1>8, <1>9, <2>1, <2>2 DEF RemovalOwned, Distinct
  <2>4. OneInFlight' /\ NamesOld'
    BY <1>1, <1>8, <1>9, <1>10, <2>1 DEF OwnInv, OneInFlight, NamesOld, Held
  <2> QED
    BY <2>3, <2>4 DEF OwnInv
<1> QED
  BY <1>12, <1>13

LEMMA ReconcileOwned ==
  ASSUME TypeOK, OwnInv, NEW jobs \in Nat, NEW m \in Nat, ReconcileLocked(jobs, m),
         UNCHANGED <<removal, ctxDone>>
  PROVE  OwnInv'
<1> DEFINE keep == Larger(jobs + m, m)
           r(k) == removing \ Reclaimed(k, removing \ cancelled)
<1>1. PICK k \in 0..Len(removeQ), n \in Int :
        \/ /\ Commit(n, pc, running, "decided")
           /\ removing' = r(k) /\ removeQ' = SubSeq(removeQ, 1, k)
           /\ UNCHANGED <<cancelled, remover>>
        \/ /\ ScaleDown(keep, SubSeq(removeQ, 1, k), r(k))
           /\ UNCHANGED <<pc, running, pending>>
  <2>1. PICK k \in 0..Len(removeQ) :
          LET live == Live(running, Unusable(cancelled, r(k), completed))
              n == IF draining THEN 0 ELSE Plan(jobs + m, live, running)
          IN \/ /\ Commit(n, pc, running, "decided")
                /\ removing' = r(k) /\ removeQ' = SubSeq(removeQ, 1, k)
                /\ UNCHANGED <<cancelled, remover>>
             \/ /\ ScaleDown(keep, SubSeq(removeQ, 1, k), r(k))
                /\ UNCHANGED <<pc, running, pending>>
    BY DEF ReconcileLocked
  <2>2. Live(running, Unusable(cancelled, r(k), completed)) \in Int
    <3>1. Unusable(cancelled, r(k), completed) \in SUBSET Launches
      BY DEF TypeOK, Unusable, Active, At
    <3> HIDE DEF r
    <3> QED
      BY <3>1, LiveType DEF TypeOK
  <2>3. Plan(jobs + m, Live(running, Unusable(cancelled, r(k), completed)), running) \in Int
    <3> HIDE DEF r
    <3> QED
      BY <2>2, PlanBounds DEF TypeOK
  <2> HIDE DEF r, keep
  <2> QED
    BY <2>1, <2>3
<1>2. CASE /\ Commit(n, pc, running, "decided")
           /\ removing' = r(k) /\ removeQ' = SubSeq(removeQ, 1, k)
           /\ UNCHANGED <<cancelled, remover>>
  <2>1. \A l \in Launches : l \in Held => pc'[l] = pc[l]
    BY <1>2, CommitHeld DEF TypeOK
  <2> QED
    BY <1>2, <2>1, Requeued DEF OwnInv, NamesOld
<1>3. CASE /\ ScaleDown(keep, SubSeq(removeQ, 1, k), r(k))
           /\ UNCHANGED <<pc, running, pending>>
  <2>1. keep \in Int
    BY DEF Larger
  <2> QED
    BY <1>3, <2>1, ScaleDownOwned
<1> QED
  BY <1>1, <1>2, <1>3

\* finish, with the flags of l's handle gone when it had one.
LEMMA FinishOwned ==
  ASSUME TypeOK, OwnInv, NEW l \in Launches, NEW done \in BOOLEAN,
         NEW r \in {removing, removing \ {l}}, NEW u, Finish(l, done, r, u),
         UNCHANGED <<remover, removal, ctxDone>>, l \notin r,
         cancelled' = cancelled \ {l}
  PROVE  OwnInv'
<1> DEFINE after == [pc EXCEPT ![l] = "tail"]
<1>1. after \in [Launches -> Locations] /\ after[l] = "tail"
      /\ \A x \in Launches \ {l} : after[x] = pc[x]
  BY DEF TypeOK, Locations
<1>2. PICK n, run : Commit(n, after, run, "spawned")
  BY DEF Finish
<1>3. \A x \in Launches : x \in Held => pc'[x] = after[x]
  BY <1>1, <1>2, CommitHeld
<1> HIDE DEF after
<1>4. \A x \in Launches : x \in Held =>
         /\ pc'[x] \notin Early
         /\ pc'[x] = "vm" /\ x \notin cancelled' =>
               pc[x] = "vm" /\ x \notin cancelled /\ (x \in removing => x \in r)
  BY <1>1, <1>3 DEF OwnInv, NamesOld, Early
<1>5. \/ UNCHANGED removeQ /\ removing' = r
      \/ \E k \in 0..Len(removeQ) :
            removeQ' = SubSeq(removeQ, 1, k) /\ removing' = r \ Reclaimed(k, r \ cancelled)
  BY DEF Finish
<1>6. CASE UNCHANGED removeQ /\ removing' = r
  BY <1>4, <1>6, Untouched
<1>7. ASSUME NEW k \in 0..Len(removeQ), removeQ' = SubSeq(removeQ, 1, k),
             removing' = r \ Reclaimed(k, r \ cancelled)
      PROVE  OwnInv'
  BY <1>4, <1>7, Requeued
<1> QED
  BY <1>5, <1>6, <1>7

LEMMA LaunchStepOwned ==
  ASSUME TypeOK, OwnInv, NEW l \in Launches, LaunchStep(l)
  PROVE  OwnInv'
<1>1. CASE \/ Spawn(l) \/ StartLaunch(l) \/ Track(l) \/ BackoffStarts(l) \/ BackoffEnds(l) \/ TailCheck(l)
           \/ \E ok \in BOOLEAN : GenerateReturns(l, ok)
  <2>1. /\ UNCHANGED <<handleVars, removerVars, stopVars>>
        /\ \E to \in Locations : pc' = [pc EXCEPT ![l] = to] /\ (to \in Early \cup {"vm"} => pc[l] \in Early)
    BY <1>1 DEF Spawn, StartLaunch, Track, BackoffStarts, BackoffEnds, TailCheck, GenerateReturns,
       Enter, Early, Locations
  <2>2. \A x \in Launches : x \in Held =>
           pc'[x] \notin Early /\ (pc'[x] = "vm" => pc[x] = "vm")
    BY <2>1 DEF OwnInv, NamesOld, TypeOK
  <2> QED
    BY <2>1, <2>2, Untouched DEF handleVars, removerVars, stopVars
<1>2. ASSUME NEW ok \in BOOLEAN, LaunchReturns(l, ok) PROVE OwnInv'
  <2>1. /\ cancelled' = cancelled \ {l} /\ UNCHANGED <<remover, removal, ctxDone>>
        /\ \/ Finish(l, JobDone(l), removing \ {l}, (cancelled \cup completed) \ {l})
           \/ pc' = [pc EXCEPT ![l] = "failed"] /\ removing' = removing \ {l} /\ UNCHANGED removeQ
    BY <1>2 DEF LaunchReturns, DropsFlag, stopVars
  <2>2. CASE Finish(l, JobDone(l), removing \ {l}, (cancelled \cup completed) \ {l})
    <3>1. JobDone(l) \in BOOLEAN
      BY DEF JobDone
    <3>2. l \notin removing \ {l}
      OBVIOUS
    <3> QED
      BY <2>1, <2>2, <3>1, <3>2, FinishOwned
  <2>3. CASE pc' = [pc EXCEPT ![l] = "failed"] /\ removing' = removing \ {l} /\ UNCHANGED removeQ
    <3>1. pc'[l] = "failed" /\ \A x \in Launches \ {l} : pc'[x] = pc[x]
      BY <2>3 DEF TypeOK
    <3>2. \A x \in Launches : x \in Held =>
            /\ pc'[x] \notin Early
            /\ pc'[x] = "vm" /\ x \notin cancelled' =>
                  pc[x] = "vm" /\ x \notin cancelled /\ (x \in removing => x \in removing')
      BY <2>1, <2>3, <3>1 DEF OwnInv, NamesOld, Early
    <3> QED
      BY <2>1, <2>3, <3>2, Untouched
  <2> QED
    BY <2>1, <2>2, <2>3
<1>3. CASE DeferredFinish(l)
  <2>1. /\ Finish(l, l \in jobDone, removing, cancelled \cup completed) /\ pc[l] = "finish"
        /\ UNCHANGED <<cancelled, remover, removal, ctxDone>>
    BY <1>3 DEF DeferredFinish, stopVars
  <2>2. l \notin removing /\ l \notin cancelled /\ (l \in jobDone) \in BOOLEAN
    BY <2>1 DEF TypeOK, Active, At
  <2>3. cancelled' = cancelled \ {l}
    BY <2>1, <2>2
  <2> QED
    BY <2>1, <2>2, <2>3, FinishOwned
<1>4. CASE TailTopUp(l)
  <2> DEFINE from == [pc EXCEPT ![l] = "none"]
  <2>1. /\ UNCHANGED <<handleVars, removerVars, stopVars>> /\ from \in [Launches -> Locations]
        /\ \A x \in Launches \ {l} : from[x] = pc[x]
        /\ from[l] = "none"
    BY <1>4 DEF TailTopUp, TypeOK, Locations
  <2>2. \A x \in Launches : x \in Held => pc'[x] = from[x]
    BY <1>4, <2>1, CommitHeld DEF TailTopUp, MaintainMinimum
  <2> HIDE DEF from
  <2> QED
    BY <2>1, <2>2, Untouched DEF handleVars, removerVars, stopVars, OwnInv, NamesOld, Early
<1> QED
  BY <1>1, <1>2, <1>3, <1>4 DEF LaunchStep

LEMMA NextRemovalOwned == TypeOK /\ OwnInv /\ NextRemoval => OwnInv'
<1> SUFFICES ASSUME TypeOK, OwnInv, NextRemoval PROVE OwnInv'
  OBVIOUS
<1>1. /\ removal = NoLaunch /\ NoLaunch \notin Launches
      /\ UNCHANGED <<pc, busy, cancelled, ctxDone>> /\ Active' = Active
      /\ removing \subseteq Active /\ Active \subseteq Launches
      /\ Distinct(removeQ) /\ removeQ \in Seq(Launches) /\ Range(removeQ) \subseteq Launches
  BY OwnFacts DEF NextRemoval, OwnInv, OneInFlight, launchVars, stopVars, Active, At
<1>2. /\ Range(removeQ) \cap (Active \ cancelled) \subseteq removing
      /\ ~ctxDone => removing \ cancelled \subseteq Range(removeQ)
      /\ \A l \in Range(removeQ) : pc[l] \notin Early
  BY <1>1 DEF OwnInv, RemovalOwned, NamesOld, Held
<1>3. CASE ctxDone /\ removeQ' = <<>> /\ remover' = "off" /\ UNCHANGED <<removing, removal>>
  BY <1>1, <1>3, NoQueue DEF OwnInv, RemovalOwned, Distinct, OneInFlight, NamesOld, Held
<1>4. ASSUME NEW k \in 1..Len(removeQ) + 1,
             \A i \in 1..k - 1 : removeQ[i] \notin Waiting,
             removing' = removing \ ({removeQ[i] : i \in 1..k - 1} \cap (busy \ cancelled)),
             \/ /\ k <= Len(removeQ)
                /\ removeQ[k] \in Waiting
                /\ removeQ' = SubSeq(removeQ, k + 1, Len(removeQ))
                /\ remover' = "calling"
                /\ removal' = removeQ[k]
             \/ /\ k = Len(removeQ) + 1
                /\ removeQ' = <<>>
                /\ remover' = "off"
                /\ UNCHANGED removal
      PROVE  OwnInv'
  <2> DEFINE first == {removeQ[i] : i \in 1..k - 1}
  <2>1. Len(removeQ) \in Nat /\ k \in Nat /\ k >= 1 /\ DOMAIN removeQ = 1..Len(removeQ)
    BY <1>1, LenProperties
  <2>2. \A l \in first : l \in removing \ cancelled => l \in busy
    BY <1>4 DEF Waiting
  <2>3. removing' \cap first \subseteq cancelled /\ removing' \subseteq removing
        /\ \A l \in removing \ first : l \in removing'
    BY <1>4, <2>2
  <2>4. CASE /\ k <= Len(removeQ)
             /\ removeQ[k] \in Waiting
             /\ removeQ' = SubSeq(removeQ, k + 1, Len(removeQ))
             /\ remover' = "calling"
             /\ removal' = removeQ[k]
    <3>1. k \in 1..Len(removeQ)
      BY <2>1, <2>4
    <3>2. /\ Distinct(removeQ') /\ Range(removeQ') = Rest(removeQ, k)
          /\ removal' \notin Range(removeQ') /\ removal' \in Launches
      BY <1>1, <2>4, <3>1, Suffix
    <3>3. /\ \A l \in Range(removeQ) : l \in first \/ l = removal' \/ l \in Range(removeQ')
          /\ Range(removeQ') \subseteq Range(removeQ) /\ removal' \in Range(removeQ)
      <4>1. \A i \in 1..Len(removeQ) : i \in 1..k - 1 \/ i = k \/ i > k
        BY <2>1
      <4>2. \A i \in 1..Len(removeQ) : removeQ[i] \in first \/ i = k \/ removeQ[i] \in Rest(removeQ, k)
        BY <4>1 DEF Rest
      <4>3. Rest(removeQ, k) \subseteq Range(removeQ) /\ removeQ[k] \in Range(removeQ)
        BY <2>1, <3>1 DEF Range, Rest
      <4> QED
        BY <2>1, <2>4, <3>2, <4>2, <4>3 DEF Range
    <3>4. \A l \in Range(removeQ') \cup {removal'} : l \notin first
      <4>1. removal' \notin first
        BY <1>1, <2>1, <2>4, <3>1 DEF Distinct
      <4>2. \A j \in 1..Len(removeQ), i \in 1..k - 1 : j > k => removeQ[j] # removeQ[i]
        BY <1>1, <2>1, <3>1 DEF Distinct
      <4> QED
        BY <3>2, <4>1, <4>2 DEF Rest
    <3>5. \A l \in Range(removeQ') \cup {removal'} : l \in Active \ cancelled => l \in removing'
      BY <1>2, <2>3, <3>3, <3>4
    <3>6. ~ctxDone => removing' \ cancelled \subseteq Range(removeQ') \cup {removal'}
      BY <1>2, <2>3, <3>3
    <3>7. RemovalOwned'
      BY <1>1, <2>4, <3>2, <3>5, <3>6 DEF RemovalOwned, Distinct
    <3>8. OneInFlight' /\ NamesOld'
      BY <1>1, <1>2, <2>4, <3>3, <3>5 DEF OneInFlight, NamesOld, Held
    <3> QED
      BY <3>7, <3>8 DEF OwnInv
  <2>5. CASE k = Len(removeQ) + 1 /\ removeQ' = <<>> /\ remover' = "off" /\ UNCHANGED removal
    <3>1. Range(removeQ) \subseteq first
      BY <2>1, <2>5 DEF Range
    <3>2. ~ctxDone => removing' \subseteq cancelled
      BY <1>2, <2>3, <3>1
    <3> QED
      BY <1>1, <2>5, <3>2, NoQueue DEF OwnInv, RemovalOwned, Distinct, OneInFlight, NamesOld, Held
  <2> QED
    BY <1>4, <2>4, <2>5
<1> QED
  BY <1>3, <1>4 DEF NextRemoval

LEMMA SettleOwned ==
  ASSUME TypeOK, OwnInv, NEW answer \in Answers, SettleRemoval(answer)
  PROVE  OwnInv'
<1>1. /\ removal' = NoLaunch /\ NoLaunch \notin Launches
      /\ UNCHANGED <<pc, ctxDone>> /\ Active' = Active
      /\ removing \subseteq Active /\ Active \subseteq Launches
      /\ Distinct(removeQ) /\ removeQ \in Seq(Launches) /\ Range(removeQ) \subseteq Launches
      /\ removal \notin Range(removeQ)
  BY OwnFacts DEF SettleRemoval, launchVars, stopVars, Active, At
<1>2. /\ Range(removeQ) \cap (Active \ cancelled) \subseteq removing
      /\ ~ctxDone => removing \ cancelled \subseteq Range(removeQ) \cup {removal}
      /\ removal \in Active \ cancelled => removal \in removing
      /\ \A l \in Launches : l \in Range(removeQ) \/ l = removal => pc[l] \notin Early
  BY DEF OwnInv, RemovalOwned, OneInFlight, NamesOld, Held
<1>3. CASE /\ removal \notin Active \/ removal \in cancelled
           /\ remover' = "top" /\ UNCHANGED <<removeQ, removing, busy, cancelled>>
  <2>1. ~ctxDone' => removing' \ cancelled' \subseteq Range(removeQ') \cup {removal'}
    BY <1>1, <1>2, <1>3
  <2> QED
    BY <1>1, <1>2, <1>3, <2>1 DEF OwnInv, RemovalOwned, Distinct, OneInFlight, NamesOld, Held
<1>4. CASE /\ removal \in Active \ cancelled
           /\ removeQ' = Requeue(removeQ, removal) /\ remover' = "pause"
           /\ UNCHANGED <<removing, busy, cancelled>>
  <2>1. removal \in Launches
    BY <1>1, <1>4
  <2>2. removeQ' = removeQ \o <<removal>>
    BY <1>1, <1>4, <2>1, AppendIsConcat DEF Requeue
  <2>3. Distinct(removeQ') /\ Range(removeQ') = Range(removeQ) \cup {removal}
    <3>1. /\ <<removal>> \in Seq(Launches) /\ Distinct(<<removal>>)
          /\ Range(<<removal>>) = {removal}
      BY <2>1, Single
    <3>2. Range(removeQ) \cap Range(<<removal>>) = {}
      BY <1>1, <3>1
    <3> QED
      BY <1>1, <2>2, <3>1, <3>2, Joined
  <2>4. RemovalOwned'
    BY <1>1, <1>2, <1>4, <2>3 DEF RemovalOwned, Distinct
  <2> QED
    BY <1>1, <1>2, <1>4, <2>3, <2>4 DEF OwnInv, OneInFlight, NamesOld, Held
<1>5. CASE /\ removal \in Active \ cancelled
           /\ removing' = removing \ {removal} /\ cancelled \subseteq cancelled'
           /\ remover' = "top" /\ UNCHANGED removeQ
  <2>1. RemovalOwned'
    BY <1>1, <1>2, <1>5 DEF RemovalOwned, Distinct
  <2> QED
    BY <1>1, <1>2, <1>5, <2>1 DEF OwnInv, OneInFlight, NamesOld, Held
<1> QED
  BY <1>3, <1>4, <1>5 DEF SettleRemoval

LEMMA OwnInit == Init => OwnInv
  BY LaunchesAssumption, NoQueue DEF Init, OwnInv, RemovalOwned, OneInFlight, NamesOld, Held,
     Active, At,
     Distinct

LEMMA NextOwned == TypeOK /\ OwnInv /\ [Next]_vars => OwnInv'
<1> SUFFICES ASSUME TypeOK, OwnInv, [Next]_vars PROVE OwnInv'
  OBVIOUS
<1>1. ASSUME UNCHANGED <<pc, removing, removeQ, remover, removal>>, cancelled \subseteq cancelled',
             ctxDone => ctxDone'
      PROVE  OwnInv'
  BY <1>1, Untouched DEF OwnInv, NamesOld
<1>2. CASE \/ Shutdown \/ Drain \/ DrainReturns \/ UNCHANGED vars
           \/ \E l \in Launches : HandleStep(l)
  BY <1>1, <1>2 DEF Shutdown, Drain, DrainReturns, vars, HandleStep, MarkBusy, MarkCompleted,
     CancelIfIdle, CancelLost, launchVars, handleVars, removerVars, stopVars
<1>3. CASE RemoverResumes
  <2>1. /\ remover = "pause" /\ remover' = "top"
        /\ UNCHANGED <<pc, cancelled, removing, removeQ, removal, ctxDone>>
    BY <1>3 DEF RemoverResumes, launchVars, handleVars, stopVars
  <2> QED
    BY <2>1 DEF OwnInv, RemovalOwned, OneInFlight, NamesOld, Held, Active, At
<1>4. ASSUME NEW jobs \in 0..MaxJobs, Reconcile(jobs) PROVE OwnInv'
  <2>1. jobs \in Nat /\ floor \in Nat
    BY <1>4 DEF TypeOK
  <2> QED
    BY <1>4, <2>1, ReconcileOwned DEF Reconcile, stopVars
<1>5. ASSUME NEW m \in Floors, SetMin(m) PROVE OwnInv'
  <2>1. m \in Nat /\ lastJobs \in Nat
    BY FloorsAssumption DEF TypeOK
  <2>2. UNCHANGED <<removal, ctxDone>>
    BY <1>5 DEF SetMin, stopVars
  <2>3. \/ ReconcileLocked(lastJobs, m)
        \/ UNCHANGED <<pc, cancelled, removing, removeQ, remover>>
    BY <1>5 DEF SetMin
  <2> QED
    BY <1>1, <2>1, <2>2, <2>3, ReconcileOwned
<1>6. CASE SetMinTopUp
  <2>1. UNCHANGED <<handleVars, removerVars, stopVars>> /\ (MaintainMinimum(pc, "decided") \/ UNCHANGED pc)
    BY <1>6 DEF SetMinTopUp
  <2>2. \A l \in Launches : l \in Held => pc'[l] = pc[l]
    BY <2>1, CommitHeld DEF MaintainMinimum, TypeOK
  <2> QED
    BY <2>1, <2>2, Untouched DEF OwnInv, NamesOld, handleVars, removerVars, stopVars
<1> QED
  BY <1>2, <1>3, <1>4, <1>5, <1>6, LaunchStepOwned, NextRemovalOwned, SettleOwned DEF Next

\* A VM marked removing is in one place until it is settled, once in the queue or
\* in the one attempt in flight, and a queue has a loop to serve it: scaleDown,
\* reclaimQueued, nextRemoval and settleRemoval, whatever exits, reports, cancels
\* and re-used places fall between them.
THEOREM RemovalsHeld == Spec => []RemovalOwned
<1>1. OwnInv => RemovalOwned
  BY DEF OwnInv
<1> QED
  BY <1>1, OwnInit, NextOwned, TypeCorrect, PTL DEF Spec

-----------------------------------------------------------------------------
(* What scaling down leaves.                                               *)

\* What is left of some launches when a part of them is taken away.
LEMMA TakenAway ==
  ASSUME NEW whole, NEW part, whole \subseteq Launches, part \subseteq whole
  PROVE  Cardinality(whole \ part) = Cardinality(whole) - Cardinality(part)
<1>1. IsFiniteSet(whole)
  BY LaunchSets
<1>2. whole \cap part = part
  OBVIOUS
<1>3. Cardinality(whole \ part) = Cardinality(whole) - Cardinality(whole \cap part)
  BY <1>1, FS_Difference
<1> QED
  BY <1>2, <1>3

\* live() with the marks r counts the launches that are neither asleep nor spoken
\* for: the counters are those of the launches themselves.
LEMMA LiveCounts ==
  ASSUME TypeOK, PlacesHeld, NEW r \in SUBSET Active
  PROVE  Live(running, Unusable(cancelled, r, completed)) =
           Cardinality(Counted \ (Sleeping \cup cancelled \cup r \cup completed))
<1> DEFINE out == cancelled \cup r \cup completed
<1>1. /\ Sleeping \subseteq Counted /\ out \subseteq Active
      /\ Active \subseteq Counted /\ Active \cap Sleeping = {} /\ Counted \subseteq Launches
  BY DEF TypeOK, Active, Sleeping, Counted, At, Locations
<1>2. /\ running = Cardinality(Counted) /\ backingOff = Cardinality(Sleeping)
  BY DEF PlacesHeld
<1> HIDE DEF out
<1>3. Cardinality(Counted \ Sleeping) = Cardinality(Counted) - Cardinality(Sleeping)
  BY <1>1, TakenAway
<1>4. Cardinality((Counted \ Sleeping) \ out) = Cardinality(Counted \ Sleeping) - Cardinality(out)
  <2>1. Counted \ Sleeping \subseteq Launches /\ out \subseteq Counted \ Sleeping
    BY <1>1
  <2> QED
    BY <2>1, TakenAway
<1>5. (Counted \ Sleeping) \ out = Counted \ (Sleeping \cup cancelled \cup r \cup completed)
  BY DEF out
<1>6. Live(running, Unusable(cancelled, r, completed)) = running - backingOff - Cardinality(out)
  BY DEF Live, Unusable, out
<1> QED
  BY <1>2, <1>3, <1>4, <1>5, <1>6

\* scaleDown takes no more than live() has above what is wanted, or nothing.
LEMMA ScaleDownTakes ==
  ASSUME TypeOK, PlacesHeld, NEW keep \in Int, NEW q \in Seq(Launches), NEW r \in SUBSET removing,
         ScaleDown(keep, q, r), UNCHANGED <<pc, completed>>
  PROVE  \/ Cardinality(Usable') >= keep
         \/ UNCHANGED cancelled /\ removing' = r /\ removeQ' = q
<1> DEFINE live == Live(running, Unusable(cancelled, r, completed))
           excess == live - keep
           k == Larger(0, Smaller(excess, Cardinality(Idle(r))))
           able == Counted \ (Sleeping \cup cancelled \cup r \cup completed)
<1>1. r \in SUBSET Active /\ Idle(r) \subseteq Launches /\ able \subseteq Launches
  BY DEF TypeOK, Idle, Active, At, Counted
<1>2. live = Cardinality(able) /\ Cardinality(able) \in Nat /\ Cardinality(Idle(r)) \in Nat
  BY <1>1, LiveCounts, LaunchSets
<1>3. PICK picked \in [1..k -> Idle(r)] :
        IF HasRemover
        THEN removing' = r \cup Range(picked) /\ cancelled' = cancelled /\ removeQ' = q \o picked
        ELSE removing' = r /\ cancelled' = cancelled \cup Range(picked) /\ removeQ' = q
  BY DEF ScaleDown
<1> HIDE DEF live, able
<1>4. k \in Nat /\ (k = 0 \/ k <= live - keep)
  BY <1>2 DEF Larger, Smaller
<1> HIDE DEF k
<1>5. Range(picked) \subseteq Idle(r) /\ picked \in Surjection(1..k, Range(picked))
  BY DEF Range, Surjection
<1>6. Cardinality(Range(picked)) <= k /\ Cardinality(Range(picked)) \in Nat
  <2>1. IsFiniteSet(1..k) /\ Cardinality(1..k) = k
    BY <1>4, FS_Interval
  <2>2. Range(picked) \in SUBSET Launches
    BY <1>1, <1>5
  <2> QED
    BY <1>5, <2>1, <2>2, FS_Surjection, LaunchSets
<1>7. CASE k = 0
  <2>1. 1..k = {}
    BY <1>7
  <2>2. Range(picked) = {}
    BY <2>1 DEF Range
  <2>4. picked = <<>>
    BY <1>7
  <2>3. q \o <<>> = q
    BY ConcatEmptySeq
  <2> QED
    BY <1>3, <2>2, <2>3, <2>4
<1>8. Usable' = able \ Range(picked)
  <2>1. Counted' = Counted /\ Sleeping' = Sleeping
    BY DEF Counted, Sleeping, At
  <2>2. cancelled' \cup removing' = cancelled \cup r \cup Range(picked)
    BY <1>3
  <2> QED
    BY <2>1, <2>2 DEF Usable, able
<1>9. Cardinality(able \ Range(picked)) = Cardinality(able) - Cardinality(able \cap Range(picked))
  BY <1>1, LaunchSets, FS_Difference
<1>10. /\ Cardinality(able \cap Range(picked)) <= Cardinality(Range(picked))
       /\ Cardinality(able \cap Range(picked)) \in Nat
  <2>1. Range(picked) \in SUBSET Launches
    BY <1>1, <1>5
  <2>2. able \cap Range(picked) \in SUBSET Range(picked) /\ able \cap Range(picked) \in SUBSET Launches
    BY <2>1
  <2> QED
    BY <2>1, <2>2, LaunchSets, FS_Subset
<1> QED
  BY <1>2, <1>4, <1>6, <1>7, <1>8, <1>9, <1>10

LEMMA ScaleDownKeeps ==
  ASSUME TypeOK, PlacesHeld, NEW keep \in Int, NEW q \in Seq(Launches), NEW r \in SUBSET removing,
         ScaleDown(keep, q, r), UNCHANGED <<pc, completed>>,
         (removing' \ removing) \cup (cancelled' \ cancelled) # {}
  PROVE  Cardinality(Usable') >= keep
  BY ScaleDownTakes

LEMMA ReconcileKeeps ==
  ASSUME TypeOK, PlacesHeld, NEW jobs \in Nat, NEW m \in Nat, ReconcileLocked(jobs, m),
         UNCHANGED completed, (removing' \ removing) \cup (cancelled' \ cancelled) # {}
  PROVE  Cardinality(Usable') >= jobs + m
<1> DEFINE keep == Larger(jobs + m, m)
           r(k) == removing \ Reclaimed(k, removing \ cancelled)
<1>1. PICK k \in 0..Len(removeQ) :
        \/ removing' = r(k) /\ UNCHANGED cancelled
        \/ ScaleDown(keep, SubSeq(removeQ, 1, k), r(k)) /\ UNCHANGED pc
  BY DEF ReconcileLocked
<1>2. ScaleDown(keep, SubSeq(removeQ, 1, k), r(k)) /\ UNCHANGED pc
  BY <1>1
<1>3. SubSeq(removeQ, 1, k) \in Seq(Launches) /\ keep \in Int /\ keep = jobs + m
  BY ReclaimTypes DEF Larger
<1>4. r(k) \in SUBSET removing
  OBVIOUS
<1> HIDE DEF r, keep
<1> QED
  BY <1>2, <1>3, <1>4, ScaleDownKeeps

\* reconcileLocked never marks or cancels a VM unless those left that can serve a
\* job are as many as the jobs and the floor ask for: live() and the counters
\* behind it do not drift from the launches there are.
THEOREM DemandKept == Spec => ScaleDownKeepsDemand
<1> DEFINE Keeping == (\/ \E jobs \in 0..MaxJobs : Reconcile(jobs)
                       \/ \E m \in Floors : SetMin(m))
                      /\ (removing' \ removing) \cup (cancelled' \ cancelled) # {}
                      => Cardinality(Usable') >= lastJobs' + floor'
<1>1. TypeOK /\ PlacesHeld /\ [Next]_vars => [Keeping]_vars
  <2> SUFFICES ASSUME TypeOK, PlacesHeld,
                      \/ \E jobs \in 0..MaxJobs : Reconcile(jobs)
                      \/ \E m \in Floors : SetMin(m),
                      (removing' \ removing) \cup (cancelled' \ cancelled) # {}
               PROVE  Cardinality(Usable') >= lastJobs' + floor'
    OBVIOUS
  <2>1. ASSUME NEW jobs \in 0..MaxJobs, Reconcile(jobs)
        PROVE  Cardinality(Usable') >= lastJobs' + floor'
    <3>1. /\ jobs \in Nat /\ floor \in Nat /\ ReconcileLocked(jobs, floor)
          /\ lastJobs' = jobs /\ UNCHANGED <<completed, floor>>
      BY <2>1, MaxJobsAssumption DEF Reconcile, TypeOK
    <3> QED
      BY <3>1, ReconcileKeeps
  <2>2. ASSUME NEW m \in Floors, SetMin(m)
        PROVE  Cardinality(Usable') >= lastJobs' + floor'
    <3>1. /\ m \in Nat /\ lastJobs \in Nat
          /\ lastJobs' = lastJobs /\ floor' = m /\ UNCHANGED completed
      BY <2>2, FloorsAssumption DEF SetMin, TypeOK
    <3>2. ReconcileLocked(lastJobs, m)
      BY <2>2 DEF SetMin
    <3> QED
      BY <3>1, <3>2, ReconcileKeeps
  <2> QED
    BY <2>1, <2>2
<1> QED
  BY <1>1, TypeCorrect, CountersHold, PTL DEF ScaleDownKeepsDemand, Spec

-----------------------------------------------------------------------------
(* What an exit starts.                                                    *)

\* Steps that commit nothing.
LEMMA CommitsNothing ==
  ASSUME TypeOK, NEW n, n = 0, NEW from, NEW run \in Int, NEW at, Commit(n, from, run, at)
  PROVE  running' = run
BY DEF Commit

\* No commit sends a launch to its tail.
LEMMA CommitTails ==
  ASSUME NEW n, NEW from \in [Launches -> Locations], NEW run, NEW at,
         Commit(n, from, run, at), NEW l \in Launches, from[l] # "none"
  PROVE  pc'[l] = from[l]
BY DEF Commit, Free

\* reconcileLocked and maintainMinimum start nothing once the drain has begun, and
\* end no launch.
LEMMA PlanQuiet ==
  ASSUME TypeOK,
         \/ \E jobs \in Nat, m \in Nat : ReconcileLocked(jobs, m)
         \/ \E at \in {"decided", "spawned"} : MaintainMinimum(pc, at)
         \/ UNCHANGED <<pc, running>>
  PROVE  /\ draining => running' = running
         /\ \A l \in Launches : pc[l] \in {"vm", "finish"} => pc'[l] = pc[l]
<1>1. running \in Int /\ pc \in [Launches -> Locations]
  BY DEF TypeOK
<1>2. UNCHANGED <<pc, running>> \/
      \E n, at : Commit(n, pc, running, at) /\ (draining => n = 0)
  BY DEF ReconcileLocked, MaintainMinimum
<1> QED
  BY <1>1, <1>2, CommitsNothing, CommitTails

LEMMA FinishShrinks ==
  ASSUME TypeOK, NEW l \in Launches, NEW done \in BOOLEAN, NEW r \in SUBSET Launches,
         NEW u \in SUBSET Launches, Finish(l, done, r, u)
  PROVE  running' <= running
<1> DEFINE after == [pc EXCEPT ![l] = "tail"]
           run == running - 1
           live == Live(run, u \cup r)
           replan == ReplanCount(lastJobs + floor, live, run)
<1>1. running \in Int /\ run \in Int
  BY DEF TypeOK
<1>2. replan \in Int /\ replan <= 1
  <2>1. live \in Int
    BY LiveType DEF TypeOK
  <2>2. lastJobs + floor \in Int
    BY DEF TypeOK
  <2> HIDE DEF live, run
  <2>3. Plan(lastJobs + floor, live, run) \in Nat
    BY <1>1, <2>1, <2>2, PlanBounds
  <2> QED
    BY <2>3 DEF ReplanCount, Smaller
<1> HIDE DEF after, live, replan
<1>3. \E n \in {0, replan} : Commit(n, after, run, "spawned")
  BY DEF Finish, LeavesRunning, after, live, replan
<1>4. \E n \in {0, replan} : running' = run + n
  BY <1>3 DEF Commit
<1> QED
  BY <1>1, <1>2, <1>4

\* finish frees one place and replan takes at most that one; and once Drain has
\* begun, nothing adds to what it waits for.
THEOREM ExitsShrink == Spec => ExitNeverGrows
<1> DEFINE Shrinking == draining \/ (\E l \in Launches : pc[l] \in {"vm", "finish"} /\ pc'[l] = "tail")
                          => running' <= running
<1>1. TypeOK /\ [Next]_vars => [Shrinking]_vars
  <2> SUFFICES ASSUME TypeOK, Next,
                      draining \/ \E l \in Launches : pc[l] \in {"vm", "finish"} /\ pc'[l] = "tail"
               PROVE  running' <= running
    OBVIOUS
  <2>1. running \in Int
    BY DEF TypeOK
  <2>2. ASSUME \/ \E jobs \in Nat, m \in Nat : ReconcileLocked(jobs, m)
               \/ \E at \in {"decided", "spawned"} : MaintainMinimum(pc, at)
               \/ UNCHANGED <<pc, running>>
        PROVE  running' <= running
    BY <2>1, <2>2, PlanQuiet
  <2>3. ASSUME NEW jobs \in 0..MaxJobs, Reconcile(jobs) PROVE running' <= running
    BY <2>2, <2>3, MaxJobsAssumption DEF Reconcile, TypeOK
  <2>4. ASSUME NEW m \in Floors, SetMin(m) PROVE running' <= running
    <3>1. m \in Nat /\ lastJobs \in Nat
      BY FloorsAssumption DEF TypeOK
    <3> QED
      BY <2>2, <2>4, <3>1 DEF SetMin
  <2>5. CASE SetMinTopUp
    BY <2>2, <2>5 DEF SetMinTopUp
  <2>6. ASSUME NEW l \in Launches, LaunchStep(l) PROVE running' <= running
    <3>1. CASE \/ Spawn(l) \/ StartLaunch(l) \/ Track(l) \/ BackoffStarts(l) \/ BackoffEnds(l)
               \/ TailCheck(l) \/ \E ok \in BOOLEAN : GenerateReturns(l, ok)
      <4>1. UNCHANGED running
        BY <3>1 DEF Spawn, StartLaunch, Track, BackoffStarts, BackoffEnds, TailCheck,
           GenerateReturns
      <4> QED
        BY <2>1, <4>1
    <3>2. ASSUME NEW ok \in BOOLEAN, LaunchReturns(l, ok) PROVE running' <= running
      <4>1. CASE Finish(l, JobDone(l), removing \ {l}, (cancelled \cup completed) \ {l})
        <5>1. /\ JobDone(l) \in BOOLEAN /\ removing \ {l} \in SUBSET Launches
              /\ (cancelled \cup completed) \ {l} \in SUBSET Launches
          BY DEF JobDone, TypeOK, Active, At
        <5> QED
          BY <4>1, <5>1, FinishShrinks
      <4>2. CASE UNCHANGED running
        BY <2>1, <4>2
      <4> QED
        BY <3>2, <4>1, <4>2 DEF LaunchReturns
    <3>3. CASE DeferredFinish(l)
      <4>1. /\ removing \in SUBSET Launches /\ cancelled \cup completed \in SUBSET Launches
            /\ (l \in jobDone) \in BOOLEAN
        BY DEF TypeOK, Active, At
      <4> QED
        BY <3>3, <4>1, FinishShrinks DEF DeferredFinish
    <3>4. CASE TailTopUp(l)
      <4> DEFINE from == [pc EXCEPT ![l] = "none"]
                 n == IF draining \/ floor <= 0 THEN 0 ELSE Plan(floor, running, running)
      <4>1. /\ from \in [Launches -> Locations] /\ pc[l] = "topup"
            /\ \A x \in Launches \ {l} : from[x] = pc[x]
            /\ Commit(n, from, running, "spawned")
        BY <3>4 DEF TailTopUp, MaintainMinimum, TypeOK, Locations
      <4>2. \A x \in Launches : pc[x] \in {"vm", "finish"} => pc'[x] = pc[x]
        BY <4>1, CommitTails
      <4>3. draining /\ n = 0
        BY <4>2
      <4> QED
        BY <2>1, <4>1, <4>3, CommitsNothing
    <3> QED
      BY <2>6, <3>1, <3>2, <3>3, <3>4 DEF LaunchStep
  <2>7. CASE \/ \E l \in Launches : HandleStep(l)
             \/ NextRemoval \/ RemoverResumes \/ \E answer \in Answers : SettleRemoval(answer)
             \/ Shutdown \/ Drain \/ DrainReturns
    <3>1. UNCHANGED running
      BY <2>7 DEF HandleStep, MarkBusy, MarkCompleted, CancelIfIdle, CancelLost, NextRemoval,
         RemoverResumes, SettleRemoval, Shutdown, Drain, DrainReturns, launchVars
    <3> QED
      BY <2>1, <3>1
  <2> QED
    BY <2>3, <2>4, <2>5, <2>6, <2>7 DEF Next
<1> QED
  BY <1>1, TypeCorrect, PTL DEF ExitNeverGrows, Spec
-----------------------------------------------------------------------------
(* What a plan, or an exit, leaves for the demand.                         *)

\* The VMs that can serve a job, with the marks r.
Able(r) == Counted \ (Sleeping \cup cancelled \cup r \cup completed)

\* reclaimQueued counts entries of the queue; no two are of one VM.
LEMMA ReclaimedCounts ==
  ASSUME TypeOK, OwnInv, NEW k \in 0..Len(removeQ), NEW back, NEW S \in SUBSET Launches,
         back = Reclaimed(k, S)
  PROVE  Cardinality({i \in Popped(k) : removeQ[i] \in S}) = Cardinality(back)
<1> DEFINE entries == {i \in Popped(k) : removeQ[i] \in S}
           f == [i \in entries |-> removeQ[i]]
<1>1. removeQ \in Seq(Launches) /\ DOMAIN removeQ = 1..Len(removeQ) /\ Len(removeQ) \in Nat
  BY OwnFacts, LenProperties
<1>2. entries \subseteq 1..Len(removeQ) /\ IsFiniteSet(entries)
  <2>1. entries \subseteq 1..Len(removeQ)
    BY DEF Popped
  <2>2. IsFiniteSet(1..Len(removeQ))
    BY <1>1, FS_Interval
  <2> QED
    BY <2>1, <2>2, FS_Subset
<1>3. f \in Surjection(entries, back)
  BY DEF Surjection, Reclaimed
<1>4. f \in Injection(entries, back)
  BY <1>1, <1>2, <1>3, OwnFacts DEF Surjection, Injection, IsInjective, Distinct
<1> HIDE DEF f
<1> QED
  BY <1>2, <1>3, <1>4, FS_Surjection

\* It stops once it has as many as it needs, or the queue is empty.
LEMMA ReclaimsEnough ==
  ASSUME TypeOK, OwnInv, NEW k \in 0..Len(removeQ), NEW S \in SUBSET Launches,
         NEW need \in Int, Keeps(k, need, S)
  PROVE  k = 0 \/ Cardinality(Reclaimed(k, S)) >= need
  BY ReclaimedCounts DEF Keeps

\* What it returns can serve again, but for those whose job is over.
LEMMA AbleAgain ==
  ASSUME TypeOK, NEW back \in SUBSET (removing \ cancelled)
  PROVE  Cardinality(Able(removing \ back)) =
           Cardinality(Able(removing)) + Cardinality(back) - Cardinality(back \cap completed)
<1>1. /\ removing \subseteq Active /\ Active \subseteq Counted /\ Active \cap Sleeping = {}
      /\ Counted \subseteq Launches
  BY DEF TypeOK, Active, Sleeping, Counted, At, Locations
<1> DEFINE more == back \ completed
<1>2. Able(removing \ back) = Able(removing) \cup more /\ Able(removing) \cap more = {}
  BY <1>1 DEF Able
<1>3. Able(removing) \in SUBSET Launches /\ more \in SUBSET Launches /\ back \in SUBSET Launches
  BY <1>1 DEF Able
<1>4. Cardinality(more) = Cardinality(back) - Cardinality(back \cap completed)
  BY <1>3, LaunchSets, FS_Difference
<1>5. /\ Cardinality(back \cap completed) \in Nat /\ Cardinality(Able(removing)) \in Nat
      /\ Cardinality(back) \in Nat
  <2>1. back \cap completed \in SUBSET Launches
    BY <1>3
  <2> QED
    BY <1>3, <2>1, LaunchSets
<1> HIDE DEF more
<1>6. Cardinality(Able(removing) \cup more) = Cardinality(Able(removing)) + Cardinality(more) - Cardinality({})
  BY <1>2, <1>3, LaunchSets, FS_Union
<1>7. Cardinality(Able(removing \ back)) = Cardinality(Able(removing)) + Cardinality(more)
  <2>1. Cardinality({}) = 0 /\ Cardinality(more) \in Int
    BY <1>4, <1>5, FS_EmptySet
  <2>2. Cardinality(Able(removing) \cup more) = Cardinality(Able(removing)) + Cardinality(more)
    BY <1>5, <1>6, <2>1
  <2> QED
    BY <1>2, <2>2
<1> QED
  BY <1>4, <1>5, <1>7

\* After reclaimQueued, the able VMs and those wrongly counted meet the demand, or
\* the queue is empty.
LEMMA ReclaimMeets ==
  ASSUME TypeOK, PlacesHeld, OwnInv, NEW k \in 0..Len(removeQ), NEW keep \in Int,
         NEW back, back = Reclaimed(k, removing \ cancelled),
         Keeps(k, keep - Live(running, Unusable(cancelled, removing, completed)), removing \ cancelled)
  PROVE  \/ k = 0
         \/ Cardinality(Able(removing \ back)) + Cardinality(back \cap completed) >= keep
<1>1. removing \in SUBSET Active /\ removing \ cancelled \in SUBSET Launches
  BY DEF TypeOK, Active, At
<1>2. Live(running, Unusable(cancelled, removing, completed)) = Cardinality(Able(removing))
  BY <1>1, LiveCounts DEF Able
<1>3. Able(removing) \in SUBSET Launches /\ back \in SUBSET (removing \ cancelled)
  BY DEF Able, Counted, At, Reclaimed
<1>4. back \cap completed \in SUBSET Launches /\ back \in SUBSET Launches
  BY <1>1, <1>3
<1>5. /\ Cardinality(Able(removing)) \in Nat /\ Cardinality(back \cap completed) \in Nat
      /\ Cardinality(back) \in Nat
  BY <1>3, <1>4, LaunchSets
<1>6. k = 0 \/ Cardinality(back) >= keep - Cardinality(Able(removing))
  BY <1>1, <1>2, <1>5, ReclaimsEnough
<1>7. Cardinality(Able(removing \ back)) =
         Cardinality(Able(removing)) + Cardinality(back) - Cardinality(back \cap completed)
  BY <1>3, AbleAgain
<1> QED
  BY <1>5, <1>6, <1>7

LEMMA ReconcileMeets ==
  ASSUME TypeOK, PlacesHeld, OwnInv, NEW jobs \in Nat, NEW m \in Nat, ReconcileLocked(jobs, m),
         UNCHANGED <<completed, backingOff>>, ~draining
  PROVE  \/ Cardinality(Usable') + Cardinality(Forgone) >= jobs + m
         \/ running' = MaxRunners /\ removeQ' = <<>>
<1> DEFINE desired == jobs + m
           keep == Larger(desired, m)
           back(k) == Reclaimed(k, removing \ cancelled)
           r(k) == removing \ back(k)
           live(k) == Live(running, Unusable(cancelled, r(k), completed))
           n(k) == Plan(desired, live(k), running)
<1>1. PICK k \in 0..Len(removeQ) :
        /\ Keeps(k, keep - Live(running, Unusable(cancelled, removing, completed)), removing \ cancelled)
        /\ \/ /\ n(k) > 0
              /\ Commit(n(k), pc, running, "decided")
              /\ removing' = r(k) /\ removeQ' = SubSeq(removeQ, 1, k) /\ UNCHANGED cancelled
           \/ /\ n(k) = 0
              /\ ScaleDown(keep, SubSeq(removeQ, 1, k), r(k))
              /\ UNCHANGED <<pc, running>>
  BY DEF ReconcileLocked
<1>2. keep = desired /\ keep \in Int
  BY DEF Larger
<1>3. \/ k = 0
      \/ Cardinality(Able(r(k))) + Cardinality(back(k) \cap completed) >= desired
  BY <1>1, <1>2, ReclaimMeets
<1>4. back(k) \in SUBSET removing /\ r(k) \in SUBSET Active /\ Able(r(k)) \in SUBSET Launches
  BY DEF Reclaimed, TypeOK, Able, Counted, At
<1>5. live(k) = Cardinality(Able(r(k))) /\ Cardinality(Able(r(k))) \in Nat
  BY <1>4, LiveCounts, LaunchSets DEF Able
<1>6. running \in Int /\ running <= MaxRunners /\ Cardinality(Forgone) \in Nat
  <2>1. Forgone \in SUBSET Launches
    BY DEF Forgone, TypeOK, Active, At
  <2> QED
    BY <2>1, LaunchSets DEF TypeOK, PlacesHeld
<1>7. SubSeq(removeQ, 1, k) \in Seq(Launches) /\ (k = 0 => SubSeq(removeQ, 1, k) = <<>>)
  BY ReclaimTypes DEF TypeOK
<1>8. removing' = r(k) => Forgone = back(k) \cap completed
  BY <1>4 DEF Forgone
<1> HIDE DEF back, r, live, n, keep
<1>9. ASSUME NEW cap \in Int, Cardinality(Usable') = cap, cap >= Cardinality(Able(r(k))),
             cap >= desired \/ running' = MaxRunners,
             removing' = r(k), removeQ' = SubSeq(removeQ, 1, k)
      PROVE  \/ Cardinality(Usable') + Cardinality(Forgone) >= jobs + m
             \/ running' = MaxRunners /\ removeQ' = <<>>
  <2>1. CASE cap >= desired
    BY <1>6, <1>9, <2>1
  <2>2. CASE ~(cap >= desired) /\ k = 0
    BY <1>7, <1>9, <2>2
  <2>3. CASE k # 0
    <3>1. Cardinality(Able(r(k))) + Cardinality(Forgone) >= desired
      BY <1>3, <1>8, <1>9, <2>3
    <3> QED
      BY <1>5, <1>6, <1>9, <3>1
  <2> QED
    BY <2>1, <2>2, <2>3
<1>10. CASE /\ n(k) > 0
            /\ Commit(n(k), pc, running, "decided")
            /\ removing' = r(k) /\ removeQ' = SubSeq(removeQ, 1, k) /\ UNCHANGED cancelled
  <2>1. /\ n(k) \in Int /\ (n(k) >= desired - Cardinality(Able(r(k))) \/ running + n(k) = MaxRunners)
    BY <1>5, <1>6, <1>10 DEF Plan, Larger, Smaller, n, live
  <2>2. PICK new \in SUBSET Free(pc) :
          /\ Cardinality(new) = n(k)
          /\ pc' = [l \in Launches |-> IF l \in new THEN "decided" ELSE pc[l]]
    BY <1>10 DEF Commit
  <2>3. new \in SUBSET Launches /\ new \cap Counted = {} /\ new \cap Active = {}
    BY <2>2 DEF Free, Counted, Active, At
  <2>4. Usable' = Able(r(k)) \cup new /\ Able(r(k)) \cap new = {}
    <3>1. Counted' = Counted \cup new /\ Sleeping' = Sleeping
      BY <2>2, <2>3 DEF Counted, Sleeping, At, Locations, Free
    <3>2. cancelled \cup r(k) \cup completed \subseteq Active /\ Sleeping \cap new = {}
      BY <1>4, <2>2 DEF TypeOK, Sleeping, At, Free
    <3> QED
      BY <1>10, <2>3, <3>1, <3>2 DEF Usable, Able
  <2>5. Cardinality(Able(r(k)) \cup new) = Cardinality(Able(r(k))) + n(k)
    <3>1. Cardinality(Able(r(k)) \cup new) = Cardinality(Able(r(k))) + Cardinality(new) - Cardinality({})
      <4>1. IsFiniteSet(Able(r(k))) /\ IsFiniteSet(new)
        BY <1>4, <2>3, LaunchSets
      <4> QED
        BY <2>4, <4>1, FS_Union
    <3> QED
      BY <1>5, <2>1, <2>2, <3>1, FS_EmptySet
  <2>6. running' = running + n(k)
    BY <1>10 DEF Commit
  <2>7. Cardinality(Usable') = Cardinality(Able(r(k))) + n(k)
    BY <2>4, <2>5
  <2>8. \/ Cardinality(Able(r(k))) + n(k) >= desired
        \/ running' = MaxRunners
    <3>1. CASE n(k) >= desired - Cardinality(Able(r(k)))
      BY <1>5, <2>1, <3>1
    <3>2. CASE running + n(k) = MaxRunners
      BY <2>6, <3>2
    <3> QED
      BY <2>1, <3>1, <3>2
  <2>9. /\ Cardinality(Able(r(k))) + n(k) \in Int
        /\ Cardinality(Able(r(k))) + n(k) >= Cardinality(Able(r(k)))
    BY <1>5, <1>10, <2>1
  <2> QED
    BY <1>9, <1>10, <2>7, <2>8, <2>9
<1>11. CASE /\ n(k) = 0
            /\ ScaleDown(keep, SubSeq(removeQ, 1, k), r(k))
            /\ UNCHANGED <<pc, running>>
  <2>1. r(k) \in SUBSET removing
    BY DEF r
  <2>2. \/ Cardinality(Usable') >= keep
        \/ UNCHANGED cancelled /\ removing' = r(k) /\ removeQ' = SubSeq(removeQ, 1, k)
    BY <1>2, <1>7, <1>11, <2>1, ScaleDownTakes
  <2>3. CASE Cardinality(Usable') >= keep
    <3>1. Usable' \in SUBSET Launches
      BY DEF Usable, Counted, At
    <3> QED
      BY <1>2, <1>6, <2>3, <3>1, LaunchSets
  <2>4. CASE UNCHANGED cancelled /\ removing' = r(k) /\ removeQ' = SubSeq(removeQ, 1, k)
    <3>1. Usable' = Able(r(k))
      BY <1>11, <2>4 DEF Usable, Able, Counted, Sleeping, At
    <3>2. Cardinality(Able(r(k))) >= desired \/ running' = MaxRunners
      BY <1>5, <1>6, <1>11 DEF Plan, Larger, Smaller, n, live
    <3> QED
      BY <1>5, <1>9, <2>4, <3>1, <3>2
  <2> QED
    BY <2>2, <2>3, <2>4
<1> QED
  BY <1>1, <1>10, <1>11

\* finish and replan: the place of the VM that exits is used, made up for, or not needed.
LEMMA FinishMeets ==
  ASSUME TypeOK, PlacesHeld, NEW l \in Counted \ Sleeping, hasDesired, ~ctxDone, ~draining,
         Finish(l, TRUE, removing \ {l}, (cancelled \cup completed) \ {l}),
         cancelled' = cancelled \ {l}, completed' = completed \ {l}
  PROVE  \/ Cardinality(Usable') >= lastJobs + floor
         \/ running' = running
         \/ removing' # removing \ {l}
<1> DEFINE r == removing \ {l}
           u == (cancelled \cup completed) \ {l}
           after == [pc EXCEPT ![l] = "tail"]
           run == running - 1
           desired == lastJobs + floor
           live == Live(run, u \cup r)
           n == ReplanCount(desired, live, run)
<1>1. PICK k \in 0..Len(removeQ) :
        LET back == Reclaimed(k, r \ cancelled)
        IN  /\ removing' = r \ back
            /\ Commit(IF back # {} THEN 0 ELSE n, after, run, "spawned")
  BY DEF Finish, LeavesRunning
<1> DEFINE back == Reclaimed(k, r \ cancelled)
<1>2. CASE back # {}
  <2>1. back \subseteq r
    BY DEF Reclaimed
  <2> QED
    BY <1>1, <1>2, <2>1
<1>3. CASE back = {}
  <2>1. Commit(n, after, run, "spawned") /\ removing' = r
    BY <1>1, <1>3
  <2>2. /\ Sleeping \subseteq Counted /\ u \cup r \subseteq Active
        /\ Active \subseteq Counted /\ Active \cap Sleeping = {} /\ Counted \subseteq Launches
    BY DEF TypeOK, Active, Sleeping, Counted, At, Locations
  <2> DEFINE awake == Counted \ Sleeping
             out == u \cup r \cup {l}
  <2>3. l \notin u \cup r /\ out \subseteq awake /\ awake \subseteq Launches
    BY <2>2
  <2>4. Cardinality(awake) = running - backingOff /\ running \in Int /\ backingOff \in Int
    BY <2>2, TakenAway DEF PlacesHeld, TypeOK
  <2>5. Cardinality(awake \ out) = Cardinality(awake) - Cardinality(out)
    BY <2>3, TakenAway
  <2>6. Cardinality(out) = Cardinality(u \cup r) + 1 /\ Cardinality(u \cup r) \in Nat
    <3>1. u \cup r \in SUBSET Launches
      BY <2>2
    <3> QED
      BY <2>3, <3>1, LaunchSets, FS_AddElement
  <2>7. live = Cardinality(awake \ out) /\ live \in Int
    BY <2>4, <2>5, <2>6 DEF Live
  <2>8. desired \in Int /\ run \in Int /\ run < MaxRunners
    BY <2>4 DEF TypeOK, PlacesHeld
  <2> HIDE DEF live, desired, run
  <2>9. n \in {0, 1} /\ (n = 0 => live >= desired)
    BY <2>7, <2>8 DEF ReplanCount, Plan, Larger, Smaller
  <2>10. CASE n = 1
    <3>1. running' = run + 1
      BY <2>1, <2>10 DEF Commit
    <3> QED
      BY <2>4, <3>1 DEF run
  <2>11. CASE n = 0
    <3>1. PICK new \in SUBSET Free(after) :
            /\ Cardinality(new) = 0
            /\ pc' = [x \in Launches |-> IF x \in new THEN "spawned" ELSE after[x]]
      BY <2>1, <2>11 DEF Commit
    <3>2. new = {}
      <4>1. new \in SUBSET Launches
        BY <3>1 DEF Free
      <4> QED
        BY <3>1, <4>1, LaunchSets, FS_EmptySet
    <3>3. pc' = after /\ after \in [Launches -> Locations] /\ after[l] = "tail"
          /\ \A x \in Launches \ {l} : after[x] = pc[x]
      BY <2>2, <3>1, <3>2 DEF TypeOK, Locations
    <3>4. Counted' = Counted \ {l} /\ Sleeping' = Sleeping
      BY <2>2, <3>3 DEF Counted, Sleeping, At, Locations
    <3>5. Usable' = awake \ out
      BY <2>1, <3>4 DEF Usable
    <3> QED
      BY <2>7, <2>9, <2>11, <3>5 DEF desired
  <2> QED
    BY <2>9, <2>10, <2>11
<1> QED
  BY <1>2, <1>3

\* The exit of a VM whose job is done, whichever finish it leaves by.
LEMMA ExitMeets ==
  ASSUME TypeOK, PlacesHeld, Next, hasDesired, ~ctxDone, ~draining,
         NEW l \in seen \cup jobDone, pc'[l] = "tail"
  PROVE  \/ Cardinality(Usable') >= lastJobs + floor
         \/ running' = running
         \/ removing' # removing \ {l}
<1>1. /\ l \in Launches /\ pc[l] \in {"vm", "failed", "backoff", "finish"}
      /\ pc \in [Launches -> Locations] /\ l \in Counted /\ (pc[l] # "backoff" => l \notin Sleeping)
  BY DEF TypeOK, Active, At, Counted, Sleeping, Locations
<1>2. ~Stays(l)
  BY <1>1 DEF Stays
<1>3. LaunchStep(l)
  <2>1. CASE \/ NextRemoval \/ RemoverResumes \/ \E answer \in Answers : SettleRemoval(answer)
             \/ Shutdown \/ Drain \/ DrainReturns \/ \E x \in Launches : HandleStep(x)
    <3>1. pc' = pc
      BY <2>1 DEF HandleStep, MarkBusy, MarkCompleted, CancelIfIdle, CancelLost, NextRemoval,
         RemoverResumes, SettleRemoval, Shutdown, Drain, DrainReturns, launchVars
    <3> QED
      BY <1>2, <3>1 DEF Stays
  <2> QED
    BY <1>1, <1>2, <2>1, PlanningLeaves, LaunchStepLeaves DEF Next
<1>4. CASE /\ pc[l] = "vm"
           /\ Finish(l, JobDone(l), removing \ {l}, (cancelled \cup completed) \ {l})
           /\ cancelled' = cancelled \ {l} /\ completed' = completed \ {l}
  <2>1. l \in seen
    BY <1>4 DEF TypeOK, At
  <2> QED
    BY <1>1, <1>4, <2>1, FinishMeets DEF JobDone
<1>5. CASE DeferredFinish(l)
  <2>1. l \notin Active /\ l \in jobDone
    BY <1>5 DEF DeferredFinish, TypeOK, Active, At
  <2>2. /\ removing \ {l} = removing /\ cancelled \ {l} = cancelled /\ completed \ {l} = completed
        /\ (cancelled \cup completed) \ {l} = cancelled \cup completed
    BY <2>1 DEF TypeOK
  <2>3. /\ pc[l] = "finish" /\ Finish(l, TRUE, removing, cancelled \cup completed)
        /\ UNCHANGED <<cancelled, completed>>
    BY <1>5, <2>1 DEF DeferredFinish
  <2> QED
    BY <1>1, <2>2, <2>3, FinishMeets
<1>6. CASE TailTopUp(l) \/ TailCheck(l) \/ Spawn(l) \/ StartLaunch(l) \/ Track(l)
           \/ BackoffStarts(l) \/ BackoffEnds(l) \/ (\E ok \in BOOLEAN : GenerateReturns(l, ok))
  <2>1. ASSUME NEW to, pc' = [pc EXCEPT ![l] = to], to # "tail" PROVE FALSE
    BY <1>1, <2>1
  <2>2. ~TailTopUp(l)
    BY <1>1 DEF TailTopUp
  <2> QED
    BY <1>6, <2>1, <2>2 DEF TailCheck, Spawn, StartLaunch, Track, BackoffStarts, BackoffEnds,
       GenerateReturns, Enter
<1>7. ASSUME NEW ok \in BOOLEAN, LaunchReturns(l, ok)
      PROVE  /\ pc[l] = "vm"
             /\ Finish(l, JobDone(l), removing \ {l}, (cancelled \cup completed) \ {l})
             /\ cancelled' = cancelled \ {l} /\ completed' = completed \ {l}
  <2>1. ~(pc' = [pc EXCEPT ![l] = "failed"])
    BY <1>1
  <2> QED
    BY <1>7, <2>1 DEF LaunchReturns, DropsFlag
<1> QED
  BY <1>3, <1>4, <1>5, <1>6, <1>7 DEF LaunchStep

\* A Reconcile, a SetMin and the exit of a VM whose job is done each leave the
\* demand met as far as Max allows.
THEOREM DemandIsMet == Spec => DemandMet
<1> DEFINE Planned == (\/ \E jobs \in 0..MaxJobs : Reconcile(jobs)
                       \/ hasDesired /\ ~ctxDone /\ \E m \in Floors : SetMin(m))
                      /\ ~draining
                      => \/ Cardinality(Usable') + Cardinality(Forgone) >= lastJobs' + floor'
                         \/ running' = MaxRunners /\ removeQ' = <<>>
           Exited == hasDesired /\ ~ctxDone /\ ~draining
                     => \A l \in seen \cup jobDone : pc'[l] = "tail"
                          => \/ Cardinality(Usable') >= lastJobs + floor
                             \/ running' = running
                             \/ removing' # removing \ {l}
<1>1. TypeOK /\ PlacesHeld /\ OwnInv /\ [Next]_vars => [Planned]_vars
  <2> SUFFICES ASSUME TypeOK, PlacesHeld, OwnInv, ~draining,
                      \/ \E jobs \in 0..MaxJobs : Reconcile(jobs)
                      \/ hasDesired /\ ~ctxDone /\ \E m \in Floors : SetMin(m)
               PROVE  \/ Cardinality(Usable') + Cardinality(Forgone) >= lastJobs' + floor'
                      \/ running' = MaxRunners /\ removeQ' = <<>>
    OBVIOUS
  <2>1. ASSUME NEW jobs \in 0..MaxJobs, Reconcile(jobs)
        PROVE  \/ Cardinality(Usable') + Cardinality(Forgone) >= lastJobs' + floor'
               \/ running' = MaxRunners /\ removeQ' = <<>>
    <3>1. /\ jobs \in Nat /\ floor \in Nat /\ ReconcileLocked(jobs, floor)
          /\ lastJobs' = jobs /\ floor' = floor /\ UNCHANGED <<completed, backingOff>>
      BY <2>1, MaxJobsAssumption DEF Reconcile, TypeOK
    <3> QED
      BY <3>1, ReconcileMeets
  <2>2. ASSUME NEW m \in Floors, SetMin(m), hasDesired, ~ctxDone
        PROVE  \/ Cardinality(Usable') + Cardinality(Forgone) >= lastJobs' + floor'
               \/ running' = MaxRunners /\ removeQ' = <<>>
    <3>1. /\ m \in Nat /\ lastJobs \in Nat /\ ReconcileLocked(lastJobs, m)
          /\ lastJobs' = lastJobs /\ floor' = m /\ UNCHANGED <<completed, backingOff>>
      BY <2>2, FloorsAssumption DEF SetMin, TypeOK
    <3> QED
      BY <3>1, ReconcileMeets
  <2> QED
    BY <2>1, <2>2
<1>2. TypeOK /\ PlacesHeld /\ [Next]_vars => [Exited]_vars
  BY ExitMeets
<1> QED
  BY <1>1, <1>2, TypeCorrect, CountersHold, OwnInit, NextOwned, PTL DEF DemandMet, Spec
=============================================================================
