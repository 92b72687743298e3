-------------------------------- MODULE Demand -------------------------------
(***************************************************************************)
(* Serving jobs: the scheduler (Scheduler.tla) with the scale set's queue  *)
(* of jobs at GitHub, the messages of the long poll and the listener that  *)
(* applies them (internal/listener/scaleset.go), and the guests, which     *)
(* take a job, run it and shut down.                                       *)
(*                                                                         *)
(* A message carries the runners whose jobs completed, and the number of   *)
(* jobs assigned to the scale set: those queued and those on the runners   *)
(* of `counts`.  It is acted on some time after GitHub made it up.         *)
(* Removals are answered in one step here; Removal.tla has their detail.   *)
(* The floor keeps the value it starts with: SetMin is in the other two.   *)
(***************************************************************************)
EXTENDS Scheduler

CONSTANTS
    JobsLeave,    \* a queued job may be cancelled or taken by a sibling scale set
    BootsFail,    \* a launch may fail, and a VM may exit without a job
    Stops         \* the tier may be shut down

ASSUME DemandAssumption == {JobsLeave, BootsFail, Stops} \subseteq BOOLEAN

VARIABLES
    gh,        \* GitHub's view of each launch's runner
    queued,    \* jobs waiting for a runner of this scale set
    inbox,     \* the message the listener is applying, a set of at most one
    counted    \* history: the runners whose jobs lastJobs counts

github == <<gh, queued>>
demandVars == <<gh, queued, inbox, counted>>
allVars == <<vars, demandVars>>

Registrations ==
    {"absent",      \* no such runner, or one of no interest any more
     "registered",
     "running",     \* it has a job
     "done"}        \* its job is over, and no message has said so yet
OnJob == {l \in Launches : gh[l] = "running"}

Message == [done : SUBSET Launches, queued : 0..MaxJobs, counts : SUBSET Launches]

DemandTypeOK ==
    /\ TypeOK
    /\ gh \in [Launches -> Registrations]
    /\ queued \in 0..MaxJobs
    /\ inbox \subseteq Message /\ Cardinality(inbox) <= 1
    /\ counted \subseteq Launches

-----------------------------------------------------------------------------
(* GitHub and the guests.                                                  *)

\* MaxJobs bounds the jobs outstanding at once, not the jobs of a behaviour.
JobArrives ==
    /\ queued + Cardinality(OnJob) < MaxJobs
    /\ queued' = queued + 1
    /\ UNCHANGED <<vars, gh, inbox, counted>>

JobLeaves ==
    /\ JobsLeave /\ queued > 0
    /\ queued' = queued - 1
    /\ UNCHANGED <<vars, gh, inbox, counted>>

Assign(l) ==
    /\ queued > 0 /\ gh[l] = "registered"
    /\ pc[l] = "vm" /\ l \notin cancelled
    /\ gh' = [gh EXCEPT ![l] = "running"]
    /\ queued' = queued - 1
    /\ UNCHANGED <<vars, inbox, counted>>

\* The job ends with its VM, or a little before.
JobEnds(l) ==
    /\ gh[l] = "running"
    /\ gh' = [gh EXCEPT ![l] = "done"]
    /\ UNCHANGED <<vars, queued, inbox, counted>>

\* The long poll returns a message; a new session's statistics come alone.
SendMessage ==
    /\ ~ctxDone /\ inbox = {}
    /\ \E reports \in {{l \in Launches : gh[l] = "done"}, {}} :
          /\ inbox' = {[done |-> reports, queued |-> queued, counts |-> OnJob]}
          /\ gh' = [l \in Launches |-> IF l \in reports THEN "absent" ELSE gh[l]]
    /\ UNCHANGED <<vars, queued, counted>>

-----------------------------------------------------------------------------
(* The listener.                                                           *)

Reported == UNION {m.done : m \in inbox}

Unread(l) == {[m EXCEPT !.done = @ \ {l}] : m \in inbox}

\* HandleJobCompleted, for each completion before the desired count.
HandleJobCompleted(l) ==
    /\ l \in Reported
    /\ inbox' = Unread(l)
    /\ MarkCompleted(l)
    /\ UNCHANGED <<github, counted>>

\* HandleDesiredRunnerCount, last in the message.
HandleDesiredRunnerCount ==
    /\ Reported = {}
    /\ \E m \in inbox :
          /\ Reconcile(m.queued + Cardinality(m.counts))
          /\ counted' = m.counts
    /\ inbox' = {}
    /\ UNCHANGED github

\* The console marker, or HandleJobStarted: either may come first, or late.
JobStarted(l) ==
    /\ gh[l] \in {"running", "done"} \/ l \in Reported
    /\ MarkBusy(l)
    /\ UNCHANGED demandVars

-----------------------------------------------------------------------------
(* The scheduler's own steps, with what they change at GitHub.             *)

JITGenerated(l, ok) ==
    /\ ok \/ BootsFail
    /\ GenerateReturns(l, ok)
    /\ gh' = IF ok THEN [gh EXCEPT ![l] = "registered"] ELSE gh
    /\ UNCHANGED <<queued, inbox, counted>>

\* A VM goes.  A job it was on ends with it.  Its completion, if GitHub reports it
\* from here on, finds no handle and changes nothing, so it is dropped.
VMGoes(l, ok) ==
    /\ LaunchReturns(l, ok)
    /\ gh' = [gh EXCEPT ![l] = "absent"]
    /\ inbox' = Unread(l)
    /\ UNCHANGED <<queued, counted>>

\* It exits once its job is over or it is cancelled.
VMExits(l, ok) ==
    /\ \/ l \in cancelled
       \/ ok /\ gh[l] \in {"done", "absent"}
    /\ VMGoes(l, ok)

\* It may also fail, or exit on its own, at any time.
VMFails(l, ok) == BootsFail /\ VMGoes(l, ok)

\* removeLoop's attempt: GitHub refuses while a job runs, and a runner whose
\* job is over is gone.
RemovalAnswered(answer) ==
    /\ answer = "ok" => removal \notin OnJob
    /\ answer = "busy" => removal \in OnJob
    /\ SettleRemoval(answer)
    /\ gh' = IF answer = "ok" /\ gh[removal] = "registered"
             THEN [gh EXCEPT ![removal] = "absent"] ELSE gh
    /\ UNCHANGED <<queued, inbox, counted>>

\* The listener has returned before main.go drains.
Drains == inbox = {} /\ Drain

-----------------------------------------------------------------------------
LaunchProgress(l) ==
    \/ \E ok \in BOOLEAN : JITGenerated(l, ok) \/ VMExits(l, ok)
    \/ /\ \/ Spawn(l) \/ StartLaunch(l) \/ Track(l)
          \/ BackoffStarts(l) \/ BackoffEnds(l) \/ DeferredFinish(l)
          \/ TailCheck(l) \/ TailTopUp(l)
          \/ CancelIfIdle(l)
       /\ UNCHANGED demandVars

ListenerProgress ==
    \/ \E l \in Launches : HandleJobCompleted(l)
    \/ HandleDesiredRunnerCount

RemoverProgress ==
    \/ (NextRemoval \/ RemoverResumes) /\ UNCHANGED demandVars
    \/ \E answer \in Answers : RemovalAnswered(answer)

StopProgress == Stops /\ (Drains \/ DrainReturns) /\ UNCHANGED demandVars

DemandInit ==
    /\ Init
    /\ gh = [l \in Launches |-> "absent"]
    /\ queued = 0 /\ inbox = {} /\ counted = {}

DemandNext ==
    \/ JobArrives \/ JobLeaves \/ SendMessage
    \/ \E l \in Launches : Assign(l) \/ JobEnds(l) \/ JobStarted(l) \/ LaunchProgress(l)
    \/ \E l \in Launches, ok \in BOOLEAN : VMFails(l, ok)
    \/ ListenerProgress
    \/ RemoverProgress
    \/ StopProgress
    \/ Stops /\ Shutdown /\ UNCHANGED demandVars

DemandSpec == DemandInit /\ [][DemandNext]_allVars

\* Goroutines that can run do, GitHub hands a queued job to a connected runner,
\* jobs end, and a runner whose job is over shuts down.
Fairness ==
    /\ \A l \in Launches : /\ WF_allVars(LaunchProgress(l))
                          /\ WF_allVars(Assign(l))
                          /\ WF_allVars(JobEnds(l))
    /\ WF_allVars(ListenerProgress)
    /\ WF_allVars(RemoverProgress)
    /\ WF_allVars(StopProgress)

FairDemandSpec == DemandSpec /\ Fairness

-----------------------------------------------------------------------------
(* Properties.                                                             *)

Replans(l) == /\ pc[l] \in {"vm", "finish"} /\ pc'[l] = "tail"
              /\ pending' > pending

\* A re-plan uses a desired count that leaves out the job of the VM whose exit
\* triggered it: it never launches a runner for that job.
ReplanLeavesOutOwnJob ==
    [][ \A l \in Launches : Replans(l) => l \notin counted ]_allVars

\* A launch fails, or a VM exits on its own before its job is over.
Failure(l) ==
    \/ pc[l] = "jit" /\ pc'[l] = "failed"
    \/ /\ pc[l] = "vm" /\ pc'[l] # "vm"
       /\ l \notin cancelled
       /\ gh[l] \in {"registered", "running"}

\* While the tier serves and the long poll keeps returning, a queue never stands
\* still, however many boots failed before and whatever their backoffs and exits
\* left in the counters: each message's Reconcile sees to it that a VM able to
\* take the job exists or is on its way, unless boots go on failing for ever.
QueueMoves ==
    WF_allVars(SendMessage) /\ <>[][\A l \in Launches : ~Failure(l)]_allVars
        => []<><<queued' # queued>>_allVars \/ []<>(queued = 0 \/ ctxDone)

\* VMs that wait for a job.
Ready == {l \in Active \ cancelled : gh[l] = "registered"}

\* Without another message, the exit of a VM whose completion was reported starts the
\* job queued behind it: "a job queued at Max starts when a slot frees rather
\* than at the next message".  A runner comes up for it, or its boot fails.
SlotServesQueue ==
    \A k \in 1..MaxJobs :
        (/\ queued = k /\ inbox = {} /\ seen \cap Active # {}
         /\ lastJobs >= queued + Cardinality(OnJob \cup counted))
        ~> (queued # k \/ ctxDone \/ Ready # {} \/ At({"failed"}) # {})

\* Shutdown completes: idle VMs are cancelled, busy ones finish, nothing new
\* starts, and Drain returns, with a removal, a backoff or a top-up in progress too.
ShutdownDrains == []<>(ctxDone => drained)
=============================================================================
