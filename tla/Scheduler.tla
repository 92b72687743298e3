------------------------------ MODULE Scheduler ------------------------------
(***************************************************************************)
(* internal/scheduler/scheduler.go: one tier's scheduler.  It turns the    *)
(* job counts GitHub sends (Reconcile) and a warm-pool floor (SetMin) into *)
(* launches of one-shot microVMs, at most MaxRunners of them, and takes    *)
(* idle ones away again through a removal queue.                           *)
(*                                                                         *)
(* Each action is one critical section of Scheduler.mu, or one step of a   *)
(* goroutine between two of them.  The environment is open: any job count  *)
(* may arrive, any microVM may turn busy, complete, fail or exit at any    *)
(* time, and GitHub may give a removal any answer.  Removal.tla and        *)
(* Demand.tla close it with GitHub, the listener and the guests.           *)
(*                                                                         *)
(* A launch is an element of Launches.  Its goroutine is at pc[l]; an      *)
(* identifier is used again once nothing in the program holds the (random) *)
(* runner name it stood for.  The map active is the set of launches at     *)
(* "vm", and the fields of their vmHandle are the sets busy, cancelled,    *)
(* removing, completed and seen (completed, and a Reconcile since: the     *)
(* only use of completedAt and reconciles).                                *)
(***************************************************************************)
EXTENDS Integers, FiniteSets, Sequences, Functions

CONSTANTS
    Launches,     \* identifiers of launch goroutines (bounds how many exist at once)
    NoLaunch,     \* not a launch
    MaxRunners,   \* Options.Max
    Floors,       \* the values Options.Min and SetMin take
    MaxJobs,      \* bound on the job counts GitHub sends
    HasRemover    \* Options.Remover is set

ASSUME LaunchesAssumption == IsFiniteSet(Launches) /\ NoLaunch \notin Launches
ASSUME MaxRunnersAssumption == MaxRunners \in Nat
ASSUME FloorsAssumption == Floors \subseteq Nat
ASSUME MaxJobsAssumption == MaxJobs \in Nat
ASSUME HasRemoverAssumption == HasRemover \in BOOLEAN

VARIABLES
    pc,          \* where each launch goroutine is
    busy,        \* vmHandle.busy
    cancelled,   \* vmHandle.cancelled, and its context cancelled
    removing,    \* vmHandle.removing
    completed,   \* vmHandle.completed
    seen,        \* completed, and s.reconciles > completedAt
    jobDone,     \* launchOne's jobDone, kept through backoff
    running, pending, backingOff,
    removeQ,
    remover,     \* where removeLoop is; "off" is removerActive = false
    removal,     \* the name removeLoop is removing
    lastJobs, hasDesired,
    floor,       \* opts.Min
    toppingUp,   \* SetMin is about to call maintainMinimum's critical section
    ctxDone,     \* the tier's context is cancelled
    draining,
    drained      \* Drain has returned

launchVars == <<pc, running, pending, backingOff, jobDone>>
handleVars == <<busy, cancelled, removing, completed, seen>>
removerVars == <<removeQ, remover, removal>>
planVars == <<lastJobs, hasDesired, floor, toppingUp>>
stopVars == <<ctxDone, draining, drained>>
vars == <<launchVars, handleVars, removerVars, planVars, stopVars>>

Locations ==
    {"none",      \* no such launch
     "decided",   \* committed to running; its goroutine is not yet started
     "spawned",   \* started, before the check of ctx
     "jit",       \* waiting for JIT.Generate
     "entered",   \* enter() has run; not yet tracked
     "vm",        \* tracked in active, inside Provisioner.Launch
     "failed",    \* Generate or Launch failed, before backoff
     "backoff",   \* sleeping in backoff
     "finish",    \* about to leave running
     "tail",      \* out of running, before maintainMinimum
     "topup"}     \* in maintainMinimum, past its check of ctx

At(locations) == {l \in Launches : pc[l] \in locations}
Active == At({"vm"})

\* A handle's flags go with the handle.
TypeOK ==
    /\ pc \in [Launches -> Locations]
    /\ busy \subseteq Active /\ cancelled \subseteq Active /\ removing \subseteq Active
    /\ completed \subseteq busy /\ seen \subseteq completed
    /\ jobDone \subseteq At({"failed", "backoff", "finish"})
    /\ running \in Int /\ pending \in Int /\ backingOff \in Int
    /\ removeQ \in Seq(Launches)
    /\ remover \in {"off", "top", "calling", "pause"}
    /\ removal \in Launches \cup {NoLaunch}
    /\ lastJobs \in Nat /\ floor \in Nat
    /\ hasDesired \in BOOLEAN /\ toppingUp \in BOOLEAN
    /\ ctxDone \in BOOLEAN /\ draining \in BOOLEAN /\ drained \in BOOLEAN

\* The names a new launch may have, given where the other launches are.
Free(places) == {l \in Launches : places[l] = "none" /\ l # removal /\ l \notin Range(removeQ)}

Larger(a, b) == IF a >= b THEN a ELSE b
Smaller(a, b) == IF a <= b THEN a ELSE b

-----------------------------------------------------------------------------
(* The pure parts: plan, live, and the choices of reclaimQueued.           *)

\* Wrong: forgets Max.
PlanPastMax(desired, live, run) == Larger(0, desired - live)

\* plan: how many launches meet desired, without passing MaxRunners.
Plan(desired, live, run) == Larger(0, Smaller(desired - live, MaxRunners - run))

\* Wrong: takes a completed VM for a live one.
CountsCompleted(c, r, d) == c \cup r

\* The handles live() leaves out, given the sets cancelled, removing, completed.
Unusable(c, r, d) == c \cup r \cup d

\* live(): running, less the launches in backoff and the unusable handles.
Live(run, unusable) == run - backingOff - Cardinality(unusable)

\* reclaimQueued pops from the back of removeQ until `need` handles of
\* `returnable` are off it or it is empty: it keeps the first k entries.
Popped(k) == {i \in 1..Len(removeQ) : i > k}
Keeps(k, need, returnable) ==
    /\ k = 0 \/ Cardinality({i \in Popped(k) : removeQ[i] \in returnable}) >= need
    /\ \A j \in 0..Len(removeQ) :
          j > k => Cardinality({i \in Popped(j) : removeQ[i] \in returnable}) < need
Reclaimed(k, returnable) == {removeQ[i] : i \in Popped(k)} \cap returnable

-----------------------------------------------------------------------------
(* Reconcile, SetMin and what they do under the lock.                      *)

\* commit: n launches enter running and pending; they start out at `at`.
Commit(n, from, run, at) ==
    /\ \E new \in SUBSET Free(from) :
          /\ Cardinality(new) = n
          /\ pc' = [l \in Launches |-> IF l \in new THEN at ELSE from[l]]
    /\ running' = run + n
    /\ pending' = pending + n

\* The handles scaleDown may pick.
Idle(r) == Active \ (busy \cup cancelled \cup r)

\* scaleDown, with q and r the removal queue and removing set so far.  The
\* map of handles is ranged over in any order.
ScaleDown(keep, q, r) ==
    LET excess == Live(running, Unusable(cancelled, r, completed)) - keep
        k == Larger(0, Smaller(excess, Cardinality(Idle(r))))
    IN  \E picked \in [1..k -> Idle(r)] :
          /\ \A i, j \in 1..k : picked[i] = picked[j] => i = j
          /\ IF HasRemover
             THEN /\ removing' = r \cup Range(picked)
                  /\ removeQ' = q \o picked
                  /\ cancelled' = cancelled
             ELSE /\ removing' = r
                  /\ removeQ' = q
                  /\ cancelled' = cancelled \cup Range(picked)
          /\ remover' = IF excess > 0 /\ removeQ' # <<>> /\ remover = "off"
                        THEN "top" ELSE remover

\* reconcileLocked for `jobs` jobs and a floor of m.
ReconcileLocked(jobs, m) ==
    LET desired == jobs + m
        keep == Larger(desired, m)
        returnable == removing \ cancelled
    IN  \E k \in 0..Len(removeQ) :
          LET r == removing \ Reclaimed(k, returnable)
              q == SubSeq(removeQ, 1, k)
              live == Live(running, Unusable(cancelled, r, completed))
              n == IF draining THEN 0 ELSE Plan(desired, live, running)
          IN  /\ Keeps(k, keep - Live(running, Unusable(cancelled, removing, completed)),
                       returnable)
              /\ \/ /\ n > 0
                    /\ Commit(n, pc, running, "decided")
                    /\ removing' = r
                    /\ removeQ' = q
                    /\ UNCHANGED <<cancelled, remover>>
                 \/ /\ n = 0
                    /\ ScaleDown(keep, q, r)
                    /\ UNCHANGED <<pc, running, pending>>

Reconcile(jobs) ==
    /\ lastJobs' = jobs
    /\ hasDesired' = TRUE
    /\ seen' = completed
    /\ ReconcileLocked(jobs, floor)
    /\ UNCHANGED <<backingOff, jobDone, busy, completed, removal, floor, toppingUp, stopVars>>

\* The goroutine that committed a launch starts it after releasing the lock.
Spawn(l) ==
    /\ pc[l] = "decided"
    /\ pc' = [pc EXCEPT ![l] = "spawned"]
    /\ UNCHANGED <<running, pending, backingOff, jobDone, handleVars, removerVars, planVars, stopVars>>

SetMin(m) ==
    /\ ~toppingUp
    /\ m # floor
    /\ floor' = m
    /\ \/ /\ hasDesired /\ ~ctxDone
          /\ ReconcileLocked(lastJobs, m)
          /\ UNCHANGED toppingUp
       \/ /\ ~(hasDesired /\ ~ctxDone)
          /\ toppingUp' = (m > floor /\ ~ctxDone)
          /\ UNCHANGED <<pc, running, pending, cancelled, removing, removeQ, remover>>
    /\ UNCHANGED <<backingOff, jobDone, busy, completed, seen, removal, lastJobs, hasDesired, stopVars>>

\* maintainMinimum's critical section, for the launches `from` and starting its own at `at`.
MaintainMinimum(from, at) ==
    Commit(IF draining \/ floor <= 0 THEN 0 ELSE Plan(floor, running, running), from, running, at)

\* SetMin before the first Reconcile: the top-up, or none if ctx ended meanwhile.
SetMinTopUp ==
    /\ toppingUp
    /\ toppingUp' = FALSE
    /\ \/ MaintainMinimum(pc, "decided")
       \/ ctxDone /\ UNCHANGED <<pc, running, pending>>
    /\ UNCHANGED <<backingOff, jobDone, handleVars, removerVars, lastJobs, hasDesired, floor, stopVars>>

-----------------------------------------------------------------------------
(* launchOne.                                                              *)

\* enter(): the launch stops being pending.  The count shared by the tiers
\* follows at once; the gap between the two is in Host.tla.
Enter(l, to) ==
    /\ pc' = [pc EXCEPT ![l] = to]
    /\ pending' = pending - 1

\* Wrong: starts whether or not ctx has ended.
StartUnchecked(l) ==
    /\ pc[l] = "spawned"
    /\ pc' = [pc EXCEPT ![l] = "jit"]
    /\ UNCHANGED <<pending, running, backingOff, jobDone, handleVars, removerVars, planVars, stopVars>>

\* The check of ctx: a launch that starts after shutdown boots nothing.
StartLaunch(l) ==
    /\ pc[l] = "spawned"
    /\ \/ /\ ctxDone
          /\ Enter(l, "finish")
       \/ /\ ~ctxDone
          /\ pc' = [pc EXCEPT ![l] = "jit"]
          /\ pending' = pending
    /\ UNCHANGED <<running, backingOff, jobDone, handleVars, removerVars, planVars, stopVars>>

\* JIT.Generate returns, with a registered runner or an error.
GenerateReturns(l, ok) ==
    /\ pc[l] = "jit"
    /\ Enter(l, IF ok THEN "entered" ELSE "failed")
    /\ UNCHANGED <<running, backingOff, jobDone, handleVars, removerVars, planVars, stopVars>>

\* track: the handle becomes visible, idle.
Track(l) ==
    /\ pc[l] = "entered"
    /\ pc' = [pc EXCEPT ![l] = "vm"]
    /\ UNCHANGED <<running, pending, backingOff, jobDone, handleVars, removerVars, planVars, stopVars>>

\* Wrong: re-plans for the whole demand.
ReplanAll(desired, live, run) == Plan(desired, live, run)

\* replan starts at most one launch.
ReplanCount(desired, live, run) == Smaller(1, Plan(desired, live, run))

\* Wrong: never gives its place back.
KeepsPlace(run) == run

LeavesRunning(run) == run - 1

\* finish(): l leaves running and, if its job is done, replan runs in the
\* same critical section.  r and u are removing and the other unusable
\* handles once l's handle is gone.
Finish(l, done, r, u) ==
    LET after == [pc EXCEPT ![l] = "tail"]
        run == LeavesRunning(running)
        desired == lastJobs + floor
        live == Live(run, u \cup r)
        returnable == r \ cancelled
    IN  \/ /\ done /\ hasDesired /\ ~draining /\ ~ctxDone
           /\ \E k \in 0..Len(removeQ) :
                LET back == Reclaimed(k, returnable)
                IN  /\ Keeps(k, Larger(desired, floor) - live, returnable)
                    /\ removeQ' = SubSeq(removeQ, 1, k)
                    /\ removing' = r \ back
                    /\ Commit(IF back # {} THEN 0 ELSE ReplanCount(desired, live, run),
                              after, run, "spawned")
        \/ /\ ~(done /\ hasDesired /\ ~draining /\ ~ctxDone)
           /\ removing' = r
           /\ Commit(0, after, run, "spawned")
           /\ UNCHANGED removeQ

\* Wrong: a flag outlives its handle.
LeavesFlag(flags, l) == flags

DropsFlag(flags, l) == flags \ {l}

\* Wrong: before the Reconcile that leaves the job out; and not at all.
ReplansAtOnce(l) == l \in completed
NeverReplans(l) == FALSE

\* jobDone: GitHub reported the job completed and a Reconcile has run since.
JobDone(l) == l \in seen

\* Provisioner.Launch returns: one critical section drops the handle and,
\* unless the launch failed by itself, takes it out of running.
LaunchReturns(l, ok) ==
    /\ pc[l] = "vm"
    /\ busy' = DropsFlag(busy, l)
    /\ cancelled' = DropsFlag(cancelled, l)
    /\ completed' = DropsFlag(completed, l)
    /\ seen' = DropsFlag(seen, l)
    /\ \/ /\ ok \/ l \in cancelled
          /\ Finish(l, JobDone(l), removing \ {l}, (cancelled \cup completed) \ {l})
          /\ UNCHANGED jobDone
       \/ /\ ~ok /\ l \notin cancelled
          /\ pc' = [pc EXCEPT ![l] = "failed"]
          /\ jobDone' = IF JobDone(l) THEN jobDone \cup {l} ELSE jobDone
          /\ removing' = removing \ {l}
          /\ UNCHANGED <<running, pending, removeQ>>
    /\ UNCHANGED <<backingOff, remover, removal, planVars, stopVars>>

\* backoff: skipped on shutdown; else l sleeps outside live.
BackoffStarts(l) ==
    /\ pc[l] = "failed"
    /\ \/ /\ ctxDone
          /\ pc' = [pc EXCEPT ![l] = "finish"]
          /\ backingOff' = backingOff
       \/ /\ ~ctxDone
          /\ pc' = [pc EXCEPT ![l] = "backoff"]
          /\ backingOff' = backingOff + 1
    /\ UNCHANGED <<running, pending, jobDone, handleVars, removerVars, planVars, stopVars>>

BackoffEnds(l) ==
    /\ pc[l] = "backoff"
    /\ pc' = [pc EXCEPT ![l] = "finish"]
    /\ backingOff' = backingOff - 1
    /\ UNCHANGED <<running, pending, jobDone, handleVars, removerVars, planVars, stopVars>>

\* The deferred finish() of a launch that bailed out or backed off.
DeferredFinish(l) ==
    /\ pc[l] = "finish"
    /\ Finish(l, l \in jobDone, removing, cancelled \cup completed)
    /\ jobDone' = jobDone \ {l}
    /\ UNCHANGED <<backingOff, busy, cancelled, completed, seen, remover, removal, planVars, stopVars>>

\* maintainMinimum's check of ctx, which it makes before taking the lock.
TailCheck(l) ==
    /\ pc[l] = "tail"
    /\ pc' = [pc EXCEPT ![l] = IF ctxDone THEN "none" ELSE "topup"]
    /\ UNCHANGED <<running, pending, backingOff, jobDone, handleVars, removerVars, planVars, stopVars>>

\* The rest of maintainMinimum, and wg.Done after its launches are started.
TailTopUp(l) ==
    /\ pc[l] = "topup"
    /\ MaintainMinimum([pc EXCEPT ![l] = "none"], "spawned")
    /\ UNCHANGED <<backingOff, jobDone, handleVars, removerVars, planVars, stopVars>>

-----------------------------------------------------------------------------
(* The handle's flags.                                                     *)

MarkBusy(l) ==
    /\ l \in Active \ busy
    /\ busy' = busy \cup {l}
    /\ UNCHANGED <<launchVars, cancelled, removing, completed, seen, removerVars, planVars, stopVars>>

MarkCompleted(l) ==
    /\ l \in Active
    /\ busy' = busy \cup {l}
    /\ completed' = completed \cup {l}
    /\ seen' = seen \ {l}
    /\ UNCHANGED <<launchVars, cancelled, removing, removerVars, planVars, stopVars>>

\* Wrong: busy VMs too; and not those being removed.
CancelsBusy == Active \ cancelled
SparesRemoving == Active \ (busy \cup cancelled \cup removing)

\* The handles cancelIfIdle may cancel: a removal in progress does not stop it.
Cancellable == Active \ (busy \cup cancelled)

\* cancelIfIdle, from the watcher goroutine that waits for ctx.
CancelIfIdle(l) ==
    /\ ctxDone
    /\ l \in Cancellable
    /\ cancelled' = cancelled \cup {l}
    /\ UNCHANGED <<launchVars, busy, removing, completed, seen, removerVars, planVars, stopVars>>

\* CancelLost, from the reconciler.
CancelLost(l) ==
    /\ l \in Idle(removing)
    /\ cancelled' = cancelled \cup {l}
    /\ UNCHANGED <<launchVars, busy, removing, completed, seen, removerVars, planVars, stopVars>>

-----------------------------------------------------------------------------
(* removeLoop.                                                             *)

\* nextRemoval takes the first entry still waiting to be removed; a busy one
\* before it leaves the queue for good.
Waiting == removing \ (cancelled \cup busy)
NextRemoval ==
    /\ remover = "top"
    /\ \/ /\ ctxDone
          /\ removeQ' = <<>>
          /\ remover' = "off"
          /\ UNCHANGED <<removing, removal>>
       \/ /\ ~ctxDone
          /\ \E k \in 1..Len(removeQ) + 1 :
               /\ \A i \in 1..k - 1 : removeQ[i] \notin Waiting
               /\ removing' = removing \ ({removeQ[i] : i \in 1..k - 1} \cap (busy \ cancelled))
               /\ \/ /\ k <= Len(removeQ)
                     /\ removeQ[k] \in Waiting
                     /\ removeQ' = SubSeq(removeQ, k + 1, Len(removeQ))
                     /\ remover' = "calling"
                     /\ removal' = removeQ[k]
                  \/ /\ k = Len(removeQ) + 1
                     /\ removeQ' = <<>>
                     /\ remover' = "off"
                     /\ UNCHANGED removal
    /\ UNCHANGED <<launchVars, busy, cancelled, completed, seen, planVars, stopVars>>

Answers == {"ok", "busy", "error", "unknown"}

\* Wrong: an unknown outcome is dropped.
RequeueForgotten(q, name) == q

\* An unknown outcome is tried again, after the others in the queue.
Requeue(q, name) == Append(q, name)

\* settleRemoval acts on the answer of Remover.RemoveRunner.
SettleRemoval(answer) ==
    /\ remover = "calling"
    /\ removal' = NoLaunch
    /\ \/ /\ removal \notin Active \/ removal \in cancelled
          /\ remover' = "top"
          /\ UNCHANGED <<removeQ, removing, busy, cancelled>>
       \/ /\ removal \in Active \ cancelled
          /\ answer = "unknown" /\ removal \notin busy
          /\ removeQ' = Requeue(removeQ, removal)
          /\ remover' = "pause"
          /\ UNCHANGED <<removing, busy, cancelled>>
       \/ /\ removal \in Active \ cancelled
          /\ ~(answer = "unknown" /\ removal \notin busy)
          /\ removing' = removing \ {removal}
          /\ busy' = IF answer = "busy" THEN busy \cup {removal} ELSE busy
          /\ cancelled' = IF answer = "ok" /\ removal \notin busy
                          THEN cancelled \cup {removal} ELSE cancelled
          /\ remover' = "top"
          /\ UNCHANGED removeQ
    /\ UNCHANGED <<launchVars, completed, seen, planVars, stopVars>>

\* The retry delay ends, or shutdown cuts it short.
RemoverResumes ==
    /\ remover = "pause"
    /\ remover' = "top"
    /\ UNCHANGED <<launchVars, handleVars, removeQ, removal, planVars, stopVars>>

-----------------------------------------------------------------------------
(* Shutdown.  main.go cancels the context of every tier before it drains.  *)

Shutdown ==
    /\ ~ctxDone
    /\ ctxDone' = TRUE
    /\ UNCHANGED <<launchVars, handleVars, removerVars, planVars, draining, drained>>

Drain ==
    /\ ctxDone /\ ~draining
    /\ draining' = TRUE
    /\ UNCHANGED <<launchVars, handleVars, removerVars, planVars, ctxDone, drained>>

\* wg.Wait returns: no launch goroutine is left.
DrainReturns ==
    /\ draining /\ ~drained
    /\ At({"none", "decided"}) = Launches
    /\ drained' = TRUE
    /\ UNCHANGED <<launchVars, handleVars, removerVars, planVars, ctxDone, draining>>

-----------------------------------------------------------------------------
Init ==
    /\ pc = [l \in Launches |-> "none"]
    /\ busy = {} /\ cancelled = {} /\ removing = {} /\ completed = {} /\ seen = {}
    /\ jobDone = {}
    /\ running = 0 /\ pending = 0 /\ backingOff = 0
    /\ removeQ = <<>> /\ remover = "off" /\ removal = NoLaunch
    /\ lastJobs = 0 /\ hasDesired = FALSE
    /\ floor \in Floors
    /\ toppingUp = FALSE
    /\ ctxDone = FALSE /\ draining = FALSE /\ drained = FALSE

LaunchStep(l) ==
    \/ Spawn(l)
    \/ StartLaunch(l)
    \/ \E ok \in BOOLEAN : GenerateReturns(l, ok)
    \/ Track(l)
    \/ \E ok \in BOOLEAN : LaunchReturns(l, ok)
    \/ BackoffStarts(l)
    \/ BackoffEnds(l)
    \/ DeferredFinish(l)
    \/ TailCheck(l)
    \/ TailTopUp(l)

HandleStep(l) ==
    \/ MarkBusy(l)
    \/ MarkCompleted(l)
    \/ CancelIfIdle(l)
    \/ CancelLost(l)

Next ==
    \/ \E jobs \in 0..MaxJobs : Reconcile(jobs)
    \/ \E m \in Floors : SetMin(m)
    \/ SetMinTopUp
    \/ \E l \in Launches : LaunchStep(l) \/ HandleStep(l)
    \/ NextRemoval
    \/ \E answer \in Answers : SettleRemoval(answer)
    \/ RemoverResumes
    \/ Shutdown
    \/ Drain
    \/ DrainReturns

Spec == Init /\ [][Next]_vars

-----------------------------------------------------------------------------
(* Properties.                                                             *)

Counted == At(Locations \ {"none", "tail", "topup"})
Sleeping == At({"backoff"})

\* The counters kept by hand across launchOne's exits (finish, enter, backoff,
\* commit) are the launches they stand for, and running never passes Max
\* whichever of Reconcile, SetMin, replan and maintainMinimum commits.
PlacesHeld ==
    /\ running = Cardinality(Counted)
    /\ pending = Cardinality(At({"decided", "spawned", "jit"}))
    /\ backingOff = Cardinality(Sleeping)
    /\ running <= MaxRunners

\* scaleDown, reclaimQueued, removeLoop and settleRemoval between them keep
\* every VM marked removing in exactly one place until it is settled: once in
\* the queue or in the one attempt in flight; and a queue has a loop to serve it.
RemovalOwned ==
    /\ \A i, j \in DOMAIN removeQ : removeQ[i] = removeQ[j] => i = j
    /\ removal \notin Range(removeQ)
    /\ Range(removeQ) \cap (Active \ cancelled) \subseteq removing
    /\ ~ctxDone => removing \ cancelled \subseteq Range(removeQ) \cup {removal}
    /\ removeQ # <<>> => remover # "off"

\* No cancel reaches a VM known to run a job, whether it comes from scale-down,
\* a settled removal, the reconciler or the shutdown watcher ("busy VMs are
\* never cancelled").
BusyNeverCancelled == [][\A l \in busy : l \in cancelled' => l \in cancelled]_vars

Usable == Counted \ (Sleeping \cup cancelled \cup removing \cup completed)

\* Scaling down never takes the VMs that can serve a job below
\* desired, the queue and the floor together, counting each VM on its own rather than by live().
ScaleDownKeepsDemand ==
    [][ (\/ \E jobs \in 0..MaxJobs : Reconcile(jobs)
         \/ \E m \in Floors : SetMin(m))
        /\ (removing' \ removing) \cup (cancelled' \ cancelled) # {}
        => Cardinality(Usable') >= lastJobs' + floor' ]_vars

\* VMs taken out of the removal queue whose job is over: reclaimQueued takes them
\* for VMs that serve again, though live() does not count them (README).
Forgone == (removing \ removing') \cap completed'

\* The demand is met as far as Max allows.  When a Reconcile or SetMin is done,
\* the VMs that can serve a job are as many as the jobs and the floor ask for, or
\* every place is taken and no VM is left to be removed; and the exit of a VM
\* whose job is done leaves as many, or is made up for by one launched or one
\* returned.
DemandMet ==
    /\ [][ (\/ \E jobs \in 0..MaxJobs : Reconcile(jobs)
            \/ hasDesired /\ ~ctxDone /\ \E m \in Floors : SetMin(m))
           /\ ~draining
           => \/ Cardinality(Usable') + Cardinality(Forgone) >= lastJobs' + floor'
              \/ running' = MaxRunners /\ removeQ' = <<>> ]_vars
    /\ [][ hasDesired /\ ~ctxDone /\ ~draining
           => \A l \in seen \cup jobDone : pc'[l] = "tail"
                => \/ Cardinality(Usable') >= lastJobs + floor
                   \/ running' = running
                   \/ removing' # removing \ {l} ]_vars

\* An exit frees one place and its re-plan takes at most that one; and once
\* Drain has begun nothing adds to what it waits for.
ExitNeverGrows ==
    [][ draining \/ (\E l \in Launches : pc[l] \in {"vm", "finish"} /\ pc'[l] = "tail")
        => running' <= running ]_vars

\* When Drain has returned no launch is past its check of ctx: no runner is
\* being registered and no VM runs, even if a Reconcile or SetMin decided a
\* launch before the drain and starts its goroutine after it.
DrainedIsQuiet ==
    drained => At({"jit", "entered", "vm", "failed", "backoff", "topup"}) = {}
=============================================================================
