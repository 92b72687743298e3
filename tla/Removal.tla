------------------------------- MODULE Removal -------------------------------
(***************************************************************************)
(* Taking idle runners away: the scheduler (Scheduler.tla) with            *)
(*  - JITSource.RemoveRunner (internal/listener/scaleset.go), which makes  *)
(*    a removal out of up to three requests to GitHub;                     *)
(*  - the reconciler's repair of runners GitHub no longer knows            *)
(*    (internal/reconcile/reconcile.go);                                   *)
(*  - GitHub's side of a runner: its registration and its job.             *)
(* Job counts stay open: GitHub may send any at any time.  A shutdown is   *)
(* left to Demand.tla: it cancels without deregistering.                   *)
(***************************************************************************)
EXTENDS Scheduler

VARIABLES
    gh,        \* GitHub's view of each launch's runner
    call       \* where RemoveRunner is, and its answer

github == <<gh, call>>
allVars == <<vars, github>>

Registrations ==
    {"absent",      \* no runner of that name
     "registered",
     "assigned",    \* GitHub chose it for a job its guest has not dequeued
     "running",
     "over",        \* the job ended, and GitHub dropped the one-shot runner
     "removed",     \* deregistered by RemoveRunner
     "lost"}        \* dropped by GitHub
Known == {"registered", "assigned", "running"}
OnJob == {l \in Launches : gh[l] \in {"assigned", "running"}}

RemovalTypeOK ==
    /\ TypeOK
    /\ gh \in [Launches -> Registrations]
    /\ call \in Answers \cup {"none", "lookup", "delete", "verify"}

-----------------------------------------------------------------------------
(* GitHub and the guests.                                                  *)

\* A connected runner gets a job, and its guest dequeues it some time later.
Assign(l) ==
    /\ gh[l] = "registered" /\ pc[l] = "vm"
    /\ gh' = [gh EXCEPT ![l] = "assigned"]
    /\ UNCHANGED <<vars, call>>

GuestDequeues(l) ==
    /\ gh[l] = "assigned" /\ pc[l] = "vm" /\ l \notin cancelled
    /\ gh' = [gh EXCEPT ![l] = "running"]
    /\ UNCHANGED <<vars, call>>

JobEnds(l) ==
    /\ gh[l] = "running" /\ pc[l] = "vm"
    /\ gh' = [gh EXCEPT ![l] = "over"]
    /\ UNCHANGED <<vars, call>>

RunnerLost(l) ==
    /\ gh[l] = "registered" /\ pc[l] = "vm"
    /\ gh' = [gh EXCEPT ![l] = "lost"]
    /\ UNCHANGED <<vars, call>>

\* The console marker or HandleJobStarted, after the guest dequeued the job;
\* HandleJobCompleted, after the job ended.
JobStarted(l) == gh[l] \in {"running", "over"} /\ MarkBusy(l) /\ UNCHANGED github
JobCompleted(l) == gh[l] = "over" /\ MarkCompleted(l) /\ UNCHANGED github

-----------------------------------------------------------------------------
(* JITSource.RemoveRunner, called by removeLoop for `removal`.             *)

StartsRemoval ==
    /\ NextRemoval
    /\ call' = IF remover' = "calling" THEN "lookup" ELSE "none"
    /\ UNCHANGED gh

\* GetRunnerByName fails, or says whether GitHub knows the runner.
LookUpAnswers(known) == {"error", IF known THEN "delete" ELSE "ok"}

LookUp ==
    /\ call = "lookup"
    /\ call' \in LookUpAnswers(gh[removal] \in Known)
    /\ UNCHANGED <<vars, gh>>

\* Wrong: takes a lost response for success.
LostAnswerIsSuccess(answer) == {answer, "ok"}

\* What RemoveRunner makes of a DELETE: a lost response must be verified.
DeleteAnswers(answer) == {answer, "verify"}

\* GitHub applies a DELETE, refuses it for a job, or never gets it; and its
\* response may be lost.
Delete ==
    /\ call = "delete"
    /\ \/ /\ gh[removal] = "registered"
          /\ gh' = [gh EXCEPT ![removal] = "removed"]
          /\ call' \in DeleteAnswers("ok")
       \/ /\ removal \in OnJob
          /\ call' \in DeleteAnswers("busy")
          /\ gh' = gh
       \/ /\ gh[removal] \notin Known
          /\ call' \in DeleteAnswers("ok")
          /\ gh' = gh
       \/ /\ gh[removal] \in Known
          /\ call' = "verify"
          /\ gh' = gh
    /\ UNCHANGED vars

\* The second GetRunnerByName, on a fresh budget.
VerifyAnswers(known) == {"unknown", IF known THEN "error" ELSE "ok"}

Verify ==
    /\ call = "verify"
    /\ call' \in VerifyAnswers(gh[removal] \in Known)
    /\ UNCHANGED <<vars, gh>>

RemovalAnswered ==
    /\ call \in Answers
    /\ SettleRemoval(call)
    /\ call' = "none"
    /\ UNCHANGED gh

-----------------------------------------------------------------------------
(* The scheduler's own steps, with what they change at GitHub.             *)

\* Reconciler.Check: IdleRunners, a lookup of each, and CancelLost.  A runner
\* GitHub does not know never comes back, so the lookup and CancelLost's own
\* check of the handle are one step.
RepairLost(l) ==
    /\ gh[l] \notin Known
    /\ CancelLost(l)
    /\ UNCHANGED github

JITGenerated(l, ok) ==
    /\ GenerateReturns(l, ok)
    /\ gh' = IF ok THEN [gh EXCEPT ![l] = "registered"] ELSE gh
    /\ UNCHANGED call

\* A VM exits: its job is over, it was cancelled, it failed or it gave up.
\* GitHub drops the registration of a runner that is gone.
VMExits(l, ok) ==
    /\ LaunchReturns(l, ok)
    /\ gh' = [gh EXCEPT ![l] = "absent"]
    /\ UNCHANGED call

LaunchSteps(l) ==
    \/ \E ok \in BOOLEAN : JITGenerated(l, ok) \/ VMExits(l, ok)
    \/ /\ \/ Spawn(l) \/ StartLaunch(l) \/ Track(l)
          \/ BackoffStarts(l) \/ BackoffEnds(l) \/ DeferredFinish(l)
          \/ TailCheck(l) \/ TailTopUp(l)
          \/ CancelIfIdle(l)
       /\ UNCHANGED github

RunnerSteps(l) ==
    \/ Assign(l) \/ GuestDequeues(l) \/ JobEnds(l) \/ RunnerLost(l)
    \/ JobStarted(l) \/ JobCompleted(l)

RemoverSteps ==
    \/ StartsRemoval \/ LookUp \/ Delete \/ Verify \/ RemovalAnswered
    \/ RemoverResumes /\ UNCHANGED github

RemovalInit ==
    /\ Init
    /\ gh = [l \in Launches |-> "absent"]
    /\ call = "none"

RemovalNext ==
    \/ \E l \in Launches : LaunchSteps(l) \/ RunnerSteps(l) \/ RepairLost(l)
    \/ RemoverSteps
    \/ \E jobs \in 0..MaxJobs : Reconcile(jobs) /\ UNCHANGED github
    \/ \E m \in Floors : SetMin(m) /\ UNCHANGED github
    \/ SetMinTopUp /\ UNCHANGED github

RemovalSpec == RemovalInit /\ [][RemovalNext]_allVars

\* removeLoop goes on; GitHub answers a lookup and a DELETE of a runner some of
\* the times it is asked again and again; and the reconciler finds a runner it
\* cannot see any more idle at some of its looks.
FairRemovalSpec ==
    /\ RemovalSpec
    /\ WF_allVars(RemoverSteps)
    /\ \A l \in Launches :
          /\ SF_allVars(removal = l /\ LookUp /\ call' # "error")
          /\ SF_allVars(removal = l /\ Delete /\ call' # "verify")
          /\ SF_allVars(RepairLost(l))

-----------------------------------------------------------------------------
(* Properties.                                                             *)

\* Scale-down, a settled removal and the reconciler never cancel a VM GitHub
\* has given a job, even in the seconds before the guest dequeues it and
\* MarkBusy runs (the race RunnerRemover exists to close).
JobNeverStranded ==
    [][ \A l \in OnJob : l \in cancelled' => l \in cancelled ]_allVars

\* Every removal settles: the VM goes back to the pool, is cancelled or exits,
\* however often GitHub leaves the outcome unknown in between.
RemovalSettles ==
    \A l \in Launches : l \in removing ~> l \notin removing \ cancelled

\* A VM this program deregistered, or GitHub dropped, does not hold its place
\* for ever, by whichever path it escaped the removal queue.
UnknownRunnerGoes ==
    \A l \in Launches :
        gh[l] \in {"removed", "lost"} ~> l \notin Active \ cancelled
=============================================================================
