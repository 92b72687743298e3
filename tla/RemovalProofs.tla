---------------------------- MODULE RemovalProofs -----------------------------
(***************************************************************************)
(* Theorems about taking runners away (Removal.tla), for every value of    *)
(* its constants.                                                          *)
(***************************************************************************)
EXTENDS Removal, SchedulerProofs

-----------------------------------------------------------------------------
(* Removal is the scheduler in one environment.                            *)

LEMMA StepsAreSteps == [RemovalNext]_allVars => [Next]_vars
<1> SUFFICES ASSUME [RemovalNext]_allVars PROVE [Next]_vars
  OBVIOUS
<1>1. CASE UNCHANGED allVars
  BY <1>1 DEF allVars
<1>2. ASSUME NEW l \in Launches, LaunchSteps(l) PROVE [Next]_vars
  <2>1. LaunchStep(l) \/ CancelIfIdle(l)
    BY <1>2 DEF LaunchSteps, JITGenerated, VMExits, LaunchStep
  <2> QED
    BY <2>1 DEF Next, HandleStep
<1>3. ASSUME NEW l \in Launches, RunnerSteps(l) PROVE [Next]_vars
  <2>1. UNCHANGED vars \/ MarkBusy(l) \/ MarkCompleted(l)
    BY <1>3 DEF RunnerSteps, Assign, GuestDequeues, JobEnds, RunnerLost, JobStarted, JobCompleted
  <2> QED
    BY <2>1 DEF Next, HandleStep
<1>4. ASSUME NEW l \in Launches, RepairLost(l) PROVE [Next]_vars
  BY <1>4 DEF RepairLost, Next, HandleStep
<1>5. CASE RemoverSteps
  <2>1. UNCHANGED vars \/ NextRemoval \/ RemoverResumes \/ \E answer \in Answers : SettleRemoval(answer)
    BY <1>5 DEF RemoverSteps, StartsRemoval, LookUp, Delete, Verify, RemovalAnswered
  <2> QED
    BY <2>1 DEF Next
<1>6. ASSUME NEW jobs \in 0..MaxJobs, Reconcile(jobs) PROVE [Next]_vars
  BY <1>6 DEF Next
<1>7. ASSUME NEW m \in Floors, SetMin(m) PROVE [Next]_vars
  BY <1>7 DEF Next
<1>8. CASE SetMinTopUp
  BY <1>8 DEF Next
<1> QED
  BY <1>1, <1>2, <1>3, <1>4, <1>5, <1>6, <1>7, <1>8 DEF RemovalNext

\* The requests of RemoveRunner, the repair of lost runners and what GitHub does
\* to a runner are steps of the open scheduler or leave it as it is, so whatever
\* is proved of the scheduler holds here.
LEMMA RemovalIsScheduler == RemovalSpec => Spec
<1>1. RemovalInit => Init
  BY DEF RemovalInit
<1> QED
  BY <1>1, StepsAreSteps, PTL DEF RemovalSpec, Spec

-----------------------------------------------------------------------------
(* A VM with a job at GitHub is not cancelled.                             *)

RemovalTypes ==
    /\ gh \in [Launches -> Registrations]
    /\ call \in Answers \cup {"none", "lookup", "delete", "verify"}

Serving == ~ctxDone

\* A runner has its job in its VM.
JobsInVMs == \A l \in OnJob : pc[l] = "vm"

\* RemoveRunner works on a name; and once it has found the runner gone or has
\* deregistered it, GitHub gives that runner no more jobs.
CallInFlight ==
    /\ call # "none" => remover = "calling" /\ removal \in Launches
    /\ call = "ok" => gh[removal] \notin Known

RemovalInv == RemovalTypes /\ Serving /\ JobsInVMs /\ CallInFlight

\* Steps of the scheduler alone, which leave GitHub and the loop's attempt.
LEMMA SchedulerSteps ==
    ASSUME RemovalInv, UNCHANGED <<github, ctxDone, removal>>,
           call = "none" \/ remover' = remover,
           \A l \in Launches : pc[l] = "vm" => pc'[l] = "vm"
    PROVE  RemovalInv'
<1>1. RemovalTypes' /\ Serving'
  BY DEF RemovalInv, RemovalTypes, Serving, github
<1>2. JobsInVMs'
  BY DEF RemovalInv, JobsInVMs, OnJob, github
<1>3. CallInFlight'
  BY DEF RemovalInv, CallInFlight, github
<1> QED
  BY <1>1, <1>2, <1>3 DEF RemovalInv

\* GitHub's steps on one runner, which leave the scheduler.
LEMMA RunnerChanges ==
    ASSUME RemovalInv, NEW l \in Launches, NEW to \in Registrations,
           gh' = [gh EXCEPT ![l] = to],
           call' = call, UNCHANGED <<ctxDone, removal, remover, pc>>,
           to \in {"assigned", "running"} => pc[l] = "vm",
           to \in Known => gh[l] \in Known
    PROVE  RemovalInv'
<1> USE DEF RemovalInv
<1>1. \A x \in Launches : gh'[x] = IF x = l THEN to ELSE gh[x]
  BY DEF RemovalTypes
<1>2. RemovalTypes' /\ Serving'
  BY DEF RemovalTypes, Serving
<1>3. JobsInVMs'
  BY <1>1 DEF JobsInVMs, OnJob
<1>4. CallInFlight'
  BY <1>1 DEF CallInFlight
<1> QED
  BY <1>2, <1>3, <1>4

LEMMA RunnerStepsKeep ==
    ASSUME RemovalInv, NEW l \in Launches, RunnerSteps(l)
    PROVE  RemovalInv'
<1>1. CASE Assign(l)
  BY <1>1, RunnerChanges DEF Assign, Registrations, Known, vars, launchVars, removerVars, stopVars
<1>2. CASE GuestDequeues(l)
  BY <1>2, RunnerChanges DEF GuestDequeues, Registrations, Known, vars, launchVars, removerVars,
     stopVars
<1>3. CASE JobEnds(l)
  BY <1>3, RunnerChanges DEF JobEnds, Registrations, Known, vars, launchVars, removerVars, stopVars
<1>4. CASE RunnerLost(l)
  BY <1>4, RunnerChanges DEF RunnerLost, Registrations, Known, vars, launchVars, removerVars,
     stopVars
<1>5. CASE JobStarted(l)
  BY <1>5, SchedulerSteps DEF JobStarted, MarkBusy, launchVars, removerVars, stopVars
<1>6. CASE JobCompleted(l)
  BY <1>6, SchedulerSteps DEF JobCompleted, MarkCompleted, launchVars, removerVars, stopVars
<1> QED
  BY <1>1, <1>2, <1>3, <1>4, <1>5, <1>6 DEF RunnerSteps

\* The attempt in flight; GitHub takes no job from a runner, and gives none, to
\* settle it.
LEMMA RemoverStepsKeep ==
    ASSUME TypeOK, RemovalInv, RemoverSteps
    PROVE  RemovalInv'
<1> USE DEF RemovalInv
<1>1. CASE StartsRemoval
  <2>1. call' \in {"none", "lookup"} /\ UNCHANGED <<gh, pc, ctxDone>>
    BY <1>1 DEF StartsRemoval, NextRemoval, launchVars, stopVars
  <2>2. call' # "none" => remover' = "calling" /\ removal' \in Launches
    <3>1. ASSUME call' # "none" PROVE remover' = "calling" /\ removal' \in Launches
      <4>1. remover' = "calling"
        BY <1>1, <3>1 DEF StartsRemoval
      <4>2. PICK k \in 1..Len(removeQ) + 1 : k <= Len(removeQ) /\ removal' = removeQ[k]
        BY <1>1, <4>1 DEF StartsRemoval, NextRemoval
      <4>3. removeQ \in Seq(Launches) /\ k \in 1..Len(removeQ)
        BY <4>2 DEF TypeOK
      <4> QED
        BY <4>1, <4>2, <4>3, ElementOfSeq
    <3> QED
      BY <3>1
  <2> QED
    BY <2>1, <2>2 DEF RemovalTypes, Serving, JobsInVMs, OnJob, CallInFlight
<1>2. CASE LookUp
  <2>1. call = "lookup" /\ call' \in {"error", "delete", "ok"} /\ (call' = "ok" => gh[removal] \notin Known)
    BY <1>2 DEF LookUp, LookUpAnswers
  <2>2. UNCHANGED <<gh, pc, ctxDone, remover, removal>>
    BY <1>2 DEF LookUp, vars, launchVars, removerVars, stopVars
  <2> QED
    BY <2>1, <2>2 DEF RemovalTypes, Serving, JobsInVMs, OnJob, CallInFlight, Answers
<1>3. CASE Verify
  <2>1. call = "verify" /\ call' \in {"unknown", "error", "ok"} /\ (call' = "ok" => gh[removal] \notin Known)
    BY <1>3 DEF Verify, VerifyAnswers
  <2>2. UNCHANGED <<gh, pc, ctxDone, remover, removal>>
    BY <1>3 DEF Verify, vars, launchVars, removerVars, stopVars
  <2> QED
    BY <2>1, <2>2 DEF RemovalTypes, Serving, JobsInVMs, OnJob, CallInFlight, Answers
<1>4. CASE Delete
  <2>1. UNCHANGED <<pc, ctxDone, remover, removal>> /\ call = "delete" /\ removal \in Launches
    BY <1>4 DEF Delete, vars, launchVars, removerVars, stopVars, CallInFlight
  <2>2. remover = "calling"
    BY <2>1 DEF CallInFlight
  <2>3. CASE gh' = [gh EXCEPT ![removal] = "removed"] /\ call' \in {"ok", "verify"}
    <3>1. \A x \in Launches : gh'[x] = IF x = removal THEN "removed" ELSE gh[x]
      BY <2>1, <2>3 DEF RemovalTypes
    <3>2. RemovalTypes' /\ Serving'
      BY <2>1, <2>3 DEF RemovalTypes, Serving, Registrations, Answers
    <3>3. JobsInVMs'
      BY <2>1, <3>1 DEF JobsInVMs, OnJob
    <3>4. CallInFlight'
      BY <2>1, <2>2, <3>1 DEF CallInFlight, Known
    <3> QED
      BY <3>2, <3>3, <3>4
  <2>4. CASE gh' = gh /\ call' \in {"ok", "busy", "verify"} /\ (call' = "ok" => gh[removal] \notin Known)
    BY <2>1, <2>2, <2>4 DEF RemovalTypes, Serving, JobsInVMs, OnJob, CallInFlight, Answers
  <2> QED
    BY <1>4, <2>3, <2>4 DEF Delete, DeleteAnswers
<1>5. CASE RemovalAnswered
  <2>1. call' = "none" /\ UNCHANGED <<gh, pc, ctxDone>>
    BY <1>5 DEF RemovalAnswered, SettleRemoval, launchVars, stopVars
  <2> QED
    BY <2>1 DEF RemovalTypes, Serving, JobsInVMs, OnJob, CallInFlight
<1>6. CASE RemoverResumes /\ UNCHANGED github
  <2>1. call = "none" /\ UNCHANGED <<pc, ctxDone, removal>>
    BY <1>6 DEF RemoverResumes, CallInFlight, launchVars, stopVars
  <2> QED
    BY <1>6, <2>1, SchedulerSteps
<1> QED
  BY <1>1, <1>2, <1>3, <1>4, <1>5, <1>6 DEF RemoverSteps

\* A launch registers a new runner only under a name that no attempt works on,
\* and the VM of a job leaves only with its registration.
LEMMA LaunchStepsKeep ==
    ASSUME TypeOK, OwnInv, RemovalInv, NEW l \in Launches, LaunchSteps(l)
    PROVE  RemovalInv'
<1> USE DEF RemovalInv
<1>1. ASSUME NEW ok \in BOOLEAN, JITGenerated(l, ok) PROVE RemovalInv'
  <2>1. /\ pc[l] = "jit" /\ UNCHANGED <<ctxDone, remover, removal, call>>
        /\ \A x \in Launches : pc[x] = "vm" => pc'[x] = "vm"
    BY <1>1 DEF JITGenerated, GenerateReturns, Enter, removerVars, stopVars, TypeOK
  <2>2. call # "none" => l # removal
    BY <2>1 DEF OwnInv, NamesOld, Held, Early
  <2>3. \A x \in Launches : gh'[x] = gh[x] \/ (x = l /\ gh'[x] = "registered")
    BY <1>1 DEF JITGenerated, RemovalTypes
  <2>4. RemovalTypes' /\ Serving'
    BY <1>1, <2>1 DEF JITGenerated, RemovalTypes, Registrations, Serving
  <2>5. JobsInVMs'
    BY <2>1, <2>3 DEF JobsInVMs, OnJob
  <2>6. CallInFlight'
    BY <2>1, <2>2, <2>3 DEF CallInFlight
  <2> QED
    BY <2>4, <2>5, <2>6
<1>2. ASSUME NEW ok \in BOOLEAN, VMExits(l, ok) PROVE RemovalInv'
  <2>1. UNCHANGED <<ctxDone, remover, removal, call>>
    BY <1>2 DEF VMExits, LaunchReturns, stopVars
  <2>2. \A x \in Launches : x # l /\ pc[x] = "vm" => pc'[x] = "vm"
    BY <1>2, LaunchStepLeaves DEF VMExits, LaunchStep, Stays
  <2>3. \A x \in Launches : gh'[x] = IF x = l THEN "absent" ELSE gh[x]
    BY <1>2 DEF VMExits, RemovalTypes
  <2>4. RemovalTypes' /\ Serving'
    BY <1>2, <2>1 DEF VMExits, RemovalTypes, Registrations, Serving
  <2>5. JobsInVMs'
    BY <2>2, <2>3 DEF JobsInVMs, OnJob
  <2>6. CallInFlight'
    BY <2>1, <2>3 DEF CallInFlight, Known
  <2> QED
    BY <2>4, <2>5, <2>6
<1>3. ASSUME UNCHANGED github,
             \/ Spawn(l) \/ StartLaunch(l) \/ Track(l) \/ BackoffStarts(l) \/ BackoffEnds(l)
             \/ DeferredFinish(l) \/ TailCheck(l) \/ TailTopUp(l) \/ CancelIfIdle(l)
      PROVE  RemovalInv'
  <2>1. UNCHANGED <<ctxDone, remover, removal>>
    BY <1>3 DEF Spawn, StartLaunch, Track, BackoffStarts, BackoffEnds, DeferredFinish, TailCheck,
       TailTopUp, CancelIfIdle, removerVars, stopVars
  <2>2. \A x \in Launches : pc[x] = "vm" => pc'[x] = "vm"
    <3>1. ASSUME NEW x \in Launches, pc[x] = "vm" PROVE pc'[x] = "vm"
      <4>1. CASE CancelIfIdle(l)
        BY <3>1, <4>1 DEF CancelIfIdle, launchVars
      <4>2. CASE x = l /\ ~CancelIfIdle(l)
        BY <1>3, <3>1, <4>2 DEF Spawn, StartLaunch, Track, BackoffStarts, BackoffEnds,
           DeferredFinish,
           TailCheck, TailTopUp
      <4>3. CASE x # l /\ ~CancelIfIdle(l)
        BY <1>3, <3>1, <4>3, LaunchStepLeaves DEF LaunchStep, Stays
      <4> QED
        BY <4>1, <4>2, <4>3
    <3> QED
      BY <3>1
  <2> QED
    BY <1>3, <2>1, <2>2, SchedulerSteps
<1> QED
  BY <1>1, <1>2, <1>3 DEF LaunchSteps

\* What planning does under the lock to the loop and, with a Remover, to handles.
LoopServes ==
    /\ remover = "calling" => remover' = remover
    /\ HasRemover => cancelled' = cancelled

LEMMA PlanningMarks ==
    ASSUME \/ \E jobs \in 0..MaxJobs : Reconcile(jobs)
           \/ \E m \in Floors : SetMin(m)
           \/ SetMinTopUp
    PROVE  LoopServes
<1>1. ASSUME NEW keep, NEW q, NEW r, ScaleDown(keep, q, r) PROVE LoopServes
  BY <1>1 DEF ScaleDown, LoopServes
<1>2. ASSUME UNCHANGED <<cancelled, remover>> PROVE LoopServes
  BY <1>2 DEF LoopServes
<1>3. ASSUME NEW jobs, NEW m, ReconcileLocked(jobs, m) PROVE LoopServes
  <2>1. UNCHANGED <<cancelled, remover>> \/ \E keep, q, r : ScaleDown(keep, q, r)
    BY <1>3 DEF ReconcileLocked
  <2> QED
    BY <1>1, <1>2, <2>1
<1>4. CASE \E jobs \in 0..MaxJobs : Reconcile(jobs)
  <2>1. \E jobs : ReconcileLocked(jobs, floor)
    BY <1>4 DEF Reconcile
  <2> QED
    BY <1>3, <2>1
<1>5. CASE \E m \in Floors : SetMin(m)
  <2>1. UNCHANGED <<cancelled, remover>> \/ \E m : ReconcileLocked(lastJobs, m)
    BY <1>5 DEF SetMin
  <2> QED
    BY <1>2, <1>3, <2>1
<1>6. CASE SetMinTopUp
  BY <1>2, <1>6 DEF SetMinTopUp, handleVars, removerVars
<1> QED
  BY <1>4, <1>5, <1>6

\* What plans under the lock commits launches and leaves VMs.
LEMMA PlanningKeeps ==
    ASSUME TypeOK, RemovalInv, UNCHANGED github,
           \/ \E jobs \in 0..MaxJobs : Reconcile(jobs)
           \/ \E m \in Floors : SetMin(m)
           \/ SetMinTopUp
    PROVE  RemovalInv'
<1>1. UNCHANGED <<ctxDone, removal>>
  BY DEF Reconcile, SetMin, SetMinTopUp, removerVars, stopVars
<1>2. remover = "calling" => remover' = remover
  BY PlanningMarks DEF LoopServes
<1>3. \A x \in Launches : pc[x] = "vm" => pc'[x] = "vm"
  BY PlanningLeaves DEF Stays
<1> QED
  BY <1>1, <1>2, <1>3, SchedulerSteps DEF RemovalInv, CallInFlight

LEMMA RemovalStep == TypeOK /\ OwnInv /\ RemovalInv /\ [RemovalNext]_allVars => RemovalInv'
<1> SUFFICES ASSUME TypeOK, OwnInv, RemovalInv, [RemovalNext]_allVars PROVE RemovalInv'
  OBVIOUS
<1>1. CASE UNCHANGED allVars
  BY <1>1, SchedulerSteps DEF allVars, vars, launchVars, removerVars, stopVars
<1>2. ASSUME NEW l \in Launches, RepairLost(l) PROVE RemovalInv'
  BY <1>2, SchedulerSteps DEF RepairLost, CancelLost, launchVars, removerVars, stopVars
<1> QED
  BY <1>1, <1>2, LaunchStepsKeep, RunnerStepsKeep, RemoverStepsKeep, PlanningKeeps DEF RemovalNext

\* With a Remover, what cancels a VM is an attempt that found or made its runner
\* unknown to GitHub, or the reconciler, which looks first.
LEMMA CancelsSpareJobs ==
    ASSUME HasRemover, TypeOK, RemovalInv, [RemovalNext]_allVars,
           NEW l \in OnJob, l \in cancelled'
    PROVE  l \in cancelled
<1> USE DEF RemovalInv
<1>0. l \in Launches /\ l \notin {x \in Launches : gh[x] \notin Known}
  BY DEF OnJob, Known
<1>1. CASE UNCHANGED allVars
  BY <1>1 DEF allVars, vars, handleVars
<1>2. ASSUME NEW x \in Launches, LaunchSteps(x) PROVE cancelled' \subseteq cancelled
  <2>1. ~CancelIfIdle(x)
    BY DEF CancelIfIdle, Serving
  <2> QED
    BY <1>2, <2>1 DEF LaunchSteps, JITGenerated, VMExits, GenerateReturns, LaunchReturns,
       DropsFlag, Spawn,
       StartLaunch, Track, BackoffStarts, BackoffEnds, DeferredFinish, TailCheck, TailTopUp,
       handleVars
<1>3. ASSUME NEW x \in Launches, RunnerSteps(x) PROVE cancelled' = cancelled
  BY <1>3 DEF RunnerSteps, Assign, GuestDequeues, JobEnds, RunnerLost, JobStarted, MarkBusy,
     JobCompleted, MarkCompleted, vars, handleVars
<1>4. ASSUME NEW x \in Launches, RepairLost(x) PROVE l \in cancelled
  BY <1>0, <1>4 DEF RepairLost, CancelLost
<1>5. CASE RemoverSteps
  <2>1. CASE RemovalAnswered
    <3>1. cancelled' = cancelled \/ (call = "ok" /\ cancelled' = cancelled \cup {removal})
      BY <2>1 DEF RemovalAnswered, SettleRemoval
    <3> QED
      BY <1>0, <3>1 DEF CallInFlight
  <2>2. ~RemovalAnswered => cancelled' = cancelled
    BY <1>5 DEF RemoverSteps, StartsRemoval, NextRemoval, LookUp, Delete, Verify, RemoverResumes,
       vars, handleVars
  <2> QED
    BY <2>1, <2>2
<1>6. CASE (\E jobs \in 0..MaxJobs : Reconcile(jobs)) \/ (\E m \in Floors : SetMin(m)) \/ SetMinTopUp
  BY <1>6, PlanningMarks DEF LoopServes
<1> QED
  BY <1>1, <1>2, <1>3, <1>4, <1>5, <1>6 DEF RemovalNext

\* Scale-down, settleRemoval and CancelLost never cancel a VM that GitHub has
\* given a job, even before the guest dequeues it: what RunnerRemover is for,
\* so it is assumed to be set.
THEOREM JobsSafe ==
    ASSUME HasRemover
    PROVE  RemovalSpec => JobNeverStranded
<1>1. RemovalInit => RemovalInv
  BY DEF RemovalInit, Init, RemovalInv, RemovalTypes, Registrations, Answers, Serving, JobsInVMs,
     OnJob, CallInFlight
<1>2. TypeOK /\ RemovalInv /\ [RemovalNext]_allVars
        => [\A l \in OnJob : l \in cancelled' => l \in cancelled]_allVars
  BY CancelsSpareJobs
<1>3. Init => OwnInv
  BY OwnInit
<1> QED
  BY <1>1, <1>2, <1>3, RemovalIsScheduler, TypeCorrect, NextOwned, RemovalStep, PTL
     DEF RemovalSpec, Spec, JobNeverStranded
=============================================================================
