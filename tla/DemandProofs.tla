----------------------------- MODULE DemandProofs -----------------------------
(***************************************************************************)
(* Theorems about serving jobs (Demand.tla), for every value of its        *)
(* constants.                                                              *)
(***************************************************************************)
EXTENDS Demand, SchedulerProofs

-----------------------------------------------------------------------------
(* Jobs, registrations and messages.                                       *)

DemandTypes ==
    /\ gh \in [Launches -> Registrations]
    /\ queued \in Nat
    /\ inbox \subseteq [done : SUBSET Launches, queued : Nat, counts : SUBSET Launches]
    /\ \A m, n \in inbox : m = n
    /\ counted \subseteq Launches

\* The jobs outstanding, and those a message tells of, are within MaxJobs: every
\* desired count is one that the open scheduler allows for.
Bounded ==
    /\ queued + Cardinality(OnJob) <= MaxJobs
    /\ \A m \in inbox : m.queued + Cardinality(m.counts) <= MaxJobs

\* A registration belongs to a launch that has come so far.
KnownInVM ==
    \A l \in Launches : /\ gh[l] = "registered" => pc[l] \in {"entered", "vm"}
                        /\ gh[l] \in {"running", "done"} => pc[l] = "vm"

\* GitHub has told of the end of a job, and counts it no more, before its handle
\* is completed.
Over == completed \cup jobDone
CountsOthers ==
    /\ \A l \in Over \cup Reported : gh[l] = "absent"
    /\ Reported \subseteq Active
    /\ \A m \in inbox : m.counts \cap (Over \cup m.done) = {}
    /\ counted \cap (seen \cup jobDone) = {}

JobsInv == DemandTypes /\ Bounded

\* GitHub gives no more jobs, and what it says of a runner has its type.
LEMMA JobsKept ==
    ASSUME JobsInv, gh' \in [Launches -> Registrations], OnJob' \subseteq OnJob,
           UNCHANGED queued, counted' \subseteq Launches,
           \A m \in inbox' : \E n \in inbox :
               /\ m = [n EXCEPT !.done = m.done] /\ m.done \subseteq n.done,
           \A m, n \in inbox' : m = n
    PROVE  JobsInv'
<1> USE DEF JobsInv
<1>1. Cardinality(OnJob') <= Cardinality(OnJob) /\ Cardinality(OnJob) \in Nat /\ Cardinality(OnJob') \in Nat
  <2>1. OnJob \subseteq Launches
    BY DEF OnJob
  <2>2. IsFiniteSet(OnJob)
    BY <2>1, LaunchSets
  <2> QED
    BY <2>1, <2>2, LaunchSets, FS_Subset
<1>2. ASSUME NEW m \in inbox'
      PROVE  /\ m \in [done : SUBSET Launches, queued : Nat, counts : SUBSET Launches]
             /\ m.queued + Cardinality(m.counts) <= MaxJobs
  <2>1. PICK n \in inbox : m = [n EXCEPT !.done = m.done] /\ m.done \subseteq n.done
    OBVIOUS
  <2>2. n \in [done : SUBSET Launches, queued : Nat, counts : SUBSET Launches]
    BY DEF DemandTypes
  <2>3. m.done \in SUBSET Launches
    BY <2>1, <2>2
  <2>4. m \in [done : SUBSET Launches, queued : Nat, counts : SUBSET Launches]
    BY <2>1, <2>2, <2>3
  <2>5. m.queued = n.queued /\ m.counts = n.counts
    BY <2>1, <2>2
  <2> QED
    BY <2>4, <2>5 DEF Bounded
<1>3. DemandTypes'
  BY <1>2 DEF DemandTypes
<1>4. Bounded'
  BY <1>1, <1>2, MaxJobsAssumption DEF Bounded, DemandTypes
<1> QED
  BY <1>3, <1>4

\* What a message counts, and what the listener has left to do of it.
LEMMA Desired ==
    ASSUME JobsInv, NEW m \in inbox
    PROVE  m.queued + Cardinality(m.counts) \in 0..MaxJobs /\ m.counts \in SUBSET Launches
<1>1. m \in [done : SUBSET Launches, queued : Nat, counts : SUBSET Launches]
  BY DEF JobsInv, DemandTypes
<1>2. m.counts \in SUBSET Launches /\ m.queued \in Nat
  BY <1>1
<1>3. Cardinality(m.counts) \in Nat /\ m.queued + Cardinality(m.counts) <= MaxJobs
  BY <1>2, LaunchSets DEF JobsInv, Bounded
<1> QED
  BY <1>2, <1>3

LEMMA StepsAreSteps == JobsInv /\ [DemandNext]_allVars => [Next]_vars
<1> SUFFICES ASSUME JobsInv, [DemandNext]_allVars PROVE [Next]_vars
  OBVIOUS
<1>1. CASE UNCHANGED vars
  BY <1>1
<1>2. CASE JobArrives \/ JobLeaves \/ SendMessage
  BY <1>2 DEF JobArrives, JobLeaves, SendMessage
<1>3. ASSUME NEW l \in Launches, Assign(l) \/ JobEnds(l) \/ JobStarted(l) PROVE [Next]_vars
  <2>1. UNCHANGED vars \/ MarkBusy(l)
    BY <1>3 DEF Assign, JobEnds, JobStarted
  <2> QED
    BY <2>1 DEF Next, HandleStep
<1>4. ASSUME NEW l \in Launches, LaunchProgress(l) PROVE [Next]_vars
  <2>1. LaunchStep(l) \/ CancelIfIdle(l)
    BY <1>4 DEF LaunchProgress, JITGenerated, VMExits, VMGoes, LaunchStep
  <2> QED
    BY <2>1 DEF Next, HandleStep
<1>5. CASE ListenerProgress
  <2>1. ASSUME NEW l \in Launches, HandleJobCompleted(l) PROVE [Next]_vars
    BY <2>1 DEF HandleJobCompleted, Next, HandleStep
  <2>2. CASE HandleDesiredRunnerCount
    <3>1. PICK m \in inbox : Reconcile(m.queued + Cardinality(m.counts))
      BY <2>2 DEF HandleDesiredRunnerCount
    <3> QED
      BY <3>1, Desired DEF Next
  <2> QED
    BY <1>5, <2>1, <2>2 DEF ListenerProgress
<1>6. CASE RemoverProgress
  BY <1>6 DEF RemoverProgress, RemovalAnswered, Next
<1>7. CASE StopProgress
  BY <1>7 DEF StopProgress, Drains, Next
<1>8. ASSUME NEW l \in Launches, NEW ok \in BOOLEAN, VMFails(l, ok) PROVE [Next]_vars
  <2>1. LaunchStep(l)
    BY <1>8 DEF VMFails, VMGoes, LaunchStep
  <2> QED
    BY <2>1 DEF Next
<1>9. CASE Shutdown
  BY <1>9 DEF Next
<1> QED
  BY <1>1, <1>2, <1>3, <1>4, <1>5, <1>6, <1>7, <1>8, <1>9 DEF DemandNext, allVars

-----------------------------------------------------------------------------
(* Jobs outstanding stay within MaxJobs.                                   *)

\* The listener takes completions off the message one by one, and a VM that has
\* exited takes its own with it.
LEMMA UnreadLess ==
    ASSUME JobsInv, NEW l, inbox' = Unread(l)
    PROVE  /\ \A m \in inbox' : \E n \in inbox :
                /\ m = [n EXCEPT !.done = m.done] /\ m.done \subseteq n.done
           /\ \A m, n \in inbox' : m = n
           /\ Reported' = Reported \ {l}
<1> DEFINE Less(n) == [n EXCEPT !.done = @ \ {l}]
<1>1. ASSUME NEW n \in inbox
      PROVE  /\ Less(n) = [n EXCEPT !.done = Less(n).done]
             /\ Less(n).done = n.done \ {l}
  <2>1. n \in [done : SUBSET Launches, queued : Nat, counts : SUBSET Launches]
    BY DEF JobsInv, DemandTypes
  <2> QED
    BY <2>1
<1>2. inbox' = {Less(n) : n \in inbox}
  BY DEF Unread
<1> HIDE DEF Less
<1>3. \A m \in inbox' : \E n \in inbox : m = [n EXCEPT !.done = m.done] /\ m.done \subseteq n.done
  BY <1>1, <1>2
<1>4. \A m, n \in inbox' : m = n
  BY <1>2 DEF JobsInv, DemandTypes
<1>5. Reported' = UNION {n.done \ {l} : n \in inbox}
  BY <1>1, <1>2 DEF Reported
<1>6. Reported' = Reported \ {l}
  BY <1>5 DEF Reported
<1> QED
  BY <1>3, <1>4, <1>6

LEMMA SameMessage ==
    ASSUME JobsInv, UNCHANGED inbox
    PROVE  /\ \A m \in inbox' : \E n \in inbox :
                /\ m = [n EXCEPT !.done = m.done] /\ m.done \subseteq n.done
           /\ \A m, n \in inbox' : m = n
<1>1. \A n \in inbox : n \in [done : SUBSET Launches, queued : Nat, counts : SUBSET Launches]
  BY DEF JobsInv, DemandTypes
<1>2. \A n \in inbox : n = [n EXCEPT !.done = n.done]
  BY <1>1
<1> QED
  BY <1>2 DEF JobsInv, DemandTypes

\* Steps of the program that leave GitHub, or end or drop a runner there.
LEMMA JobsQuiet ==
    ASSUME JobsInv, gh' \in [Launches -> Registrations],
           \A l \in Launches : gh'[l] = "running" => gh[l] = "running",
           UNCHANGED <<queued, inbox, counted>>
    PROVE  JobsInv'
<1>1. OnJob' \subseteq OnJob /\ counted' \subseteq Launches
  BY DEF OnJob, JobsInv, DemandTypes
<1> QED
  BY <1>1, JobsKept, SameMessage

\* JobArrives and Assign, the two steps that give the tier a job or a runner one.
LEMMA JobsGrow ==
    ASSUME JobsInv, JobArrives \/ JobLeaves \/ \E l \in Launches : Assign(l)
    PROVE  JobsInv'
<1> USE DEF JobsInv
<1>1. /\ OnJob \subseteq Launches /\ IsFiniteSet(OnJob) /\ Cardinality(OnJob) \in Nat
      /\ UNCHANGED <<inbox, counted>>
  BY LaunchSets DEF OnJob, JobArrives, JobLeaves, Assign
<1>2. ASSUME queued' \in Nat, queued' + Cardinality(OnJob') <= MaxJobs, gh' \in [Launches -> Registrations]
      PROVE  JobsInv'
  BY <1>1, <1>2 DEF DemandTypes, Bounded
<1>3. CASE JobArrives
  <2>1. queued' = queued + 1 /\ gh' = gh /\ queued + Cardinality(OnJob) < MaxJobs
    BY <1>3 DEF JobArrives
  <2>2. OnJob' = OnJob
    BY <2>1 DEF OnJob
  <2>3. queued' \in Nat /\ queued' + Cardinality(OnJob) <= MaxJobs
    BY <1>1, <2>1, MaxJobsAssumption DEF DemandTypes
  <2> QED
    BY <1>2, <2>1, <2>2, <2>3 DEF DemandTypes
<1>4. CASE JobLeaves
  <2>1. queued' = queued - 1 /\ gh' = gh /\ queued > 0
    BY <1>4 DEF JobLeaves
  <2>2. OnJob' = OnJob
    BY <2>1 DEF OnJob
  <2>3. queued' \in Nat /\ queued' + Cardinality(OnJob) <= MaxJobs
    BY <1>1, <2>1, MaxJobsAssumption DEF DemandTypes, Bounded
  <2> QED
    BY <1>2, <2>1, <2>2, <2>3 DEF DemandTypes
<1>5. ASSUME NEW l \in Launches, Assign(l) PROVE JobsInv'
  <2>1. queued' = queued - 1 /\ queued > 0 /\ gh' = [gh EXCEPT ![l] = "running"] /\ gh[l] = "registered"
    BY <1>5 DEF Assign
  <2>2. OnJob' = OnJob \cup {l} /\ l \notin OnJob
    BY <2>1 DEF OnJob, DemandTypes
  <2>3. Cardinality(OnJob') = Cardinality(OnJob) + 1
    BY <1>1, <2>2, FS_AddElement
  <2>4. gh' \in [Launches -> Registrations]
    BY <2>1 DEF DemandTypes, Registrations
  <2> QED
    BY <1>1, <1>2, <2>1, <2>3, <2>4 DEF DemandTypes, Bounded
<1> QED
  BY <1>3, <1>4, <1>5

LEMMA JobsStep == JobsInv /\ [DemandNext]_allVars => JobsInv'
<1> SUFFICES ASSUME JobsInv, [DemandNext]_allVars PROVE JobsInv'
  OBVIOUS
<1>0. gh \in [Launches -> Registrations] /\ counted \subseteq Launches
  BY DEF JobsInv, DemandTypes
<1>1. CASE UNCHANGED demandVars
  BY <1>0, <1>1, JobsQuiet DEF demandVars
<1>2. ASSUME NEW l \in Launches, JobEnds(l) PROVE JobsInv'
  <2>1. /\ UNCHANGED <<queued, inbox, counted>> /\ gh' = [gh EXCEPT ![l] = "done"]
        /\ "done" \in Registrations
    BY <1>2 DEF JobEnds, Registrations
  <2> QED
    BY <1>0, <2>1, JobsQuiet
<1>3. CASE SendMessage
  <2>1. PICK reports \in {{l \in Launches : gh[l] = "done"}, {}} :
          /\ inbox' = {[done |-> reports, queued |-> queued, counts |-> OnJob]}
          /\ gh' = [l \in Launches |-> IF l \in reports THEN "absent" ELSE gh[l]]
    BY <1>3 DEF SendMessage
  <2>2. UNCHANGED <<queued, counted>> /\ reports \subseteq Launches
    BY <1>3 DEF SendMessage
  <2>3. \A l \in Launches : gh'[l] = "running" <=> gh[l] = "running"
    BY <2>1
  <2>4. OnJob' = OnJob
    BY <2>3 DEF OnJob
  <2>5. DemandTypes'
    <3>1. gh' \in [Launches -> Registrations]
      BY <1>0, <2>1 DEF Registrations
    <3>2. OnJob \in SUBSET Launches /\ reports \in SUBSET Launches /\ queued \in Nat
      BY <2>2 DEF OnJob, JobsInv, DemandTypes
    <3> QED
      BY <2>1, <2>2, <3>1, <3>2 DEF JobsInv, DemandTypes
  <2>6. Bounded'
    BY <2>1, <2>2, <2>4 DEF JobsInv, Bounded
  <2> QED
    BY <2>5, <2>6 DEF JobsInv
<1>4. ASSUME NEW l \in Launches, HandleJobCompleted(l) PROVE JobsInv'
  <2>1. inbox' = Unread(l) /\ UNCHANGED <<gh, queued, counted>>
    BY <1>4 DEF HandleJobCompleted, github
  <2>2. OnJob' \subseteq OnJob
    BY <2>1 DEF OnJob
  <2> QED
    BY <1>0, <2>1, <2>2, UnreadLess, JobsKept
<1>5. CASE HandleDesiredRunnerCount
  <2>1. /\ inbox' = {} /\ UNCHANGED <<gh, queued>>
        /\ \E m \in inbox : counted' = m.counts
    BY <1>5 DEF HandleDesiredRunnerCount, github
  <2>2. OnJob' \subseteq OnJob
    BY <2>1 DEF OnJob
  <2>3. counted' \subseteq Launches
    BY <2>1, Desired
  <2> QED
    BY <1>0, <2>1, <2>2, <2>3, JobsKept
<1>6. ASSUME NEW l \in Launches, NEW ok \in BOOLEAN, JITGenerated(l, ok) PROVE JobsInv'
  <2>1. UNCHANGED <<queued, inbox, counted>> /\ (gh' = gh \/ gh' = [gh EXCEPT ![l] = "registered"])
    BY <1>6 DEF JITGenerated
  <2> QED
    BY <1>0, <2>1, JobsQuiet DEF Registrations
<1>7. ASSUME NEW l \in Launches, NEW ok \in BOOLEAN, VMGoes(l, ok) PROVE JobsInv'
  <2>1. inbox' = Unread(l) /\ UNCHANGED <<queued, counted>> /\ gh' = [gh EXCEPT ![l] = "absent"]
    BY <1>7 DEF VMGoes
  <2>2. OnJob' \subseteq OnJob /\ gh' \in [Launches -> Registrations]
    BY <1>0, <2>1 DEF OnJob, Registrations
  <2> QED
    BY <1>0, <2>1, <2>2, UnreadLess, JobsKept
<1>8. ASSUME NEW answer \in Answers, RemovalAnswered(answer) PROVE JobsInv'
  <2>1. UNCHANGED <<queued, inbox, counted>> /\ (gh' = gh \/ gh' = [gh EXCEPT ![removal] = "absent"])
    BY <1>8 DEF RemovalAnswered
  <2>2. gh' \in [Launches -> Registrations] /\ \A l \in Launches : gh'[l] = "running" => gh[l] = "running"
    BY <1>0, <2>1 DEF Registrations
  <2> QED
    BY <2>1, <2>2, JobsQuiet
<1>9. ASSUME NEW l \in Launches, LaunchProgress(l) \/ JobStarted(l) PROVE JobsInv'
  BY <1>1, <1>6, <1>7, <1>9 DEF LaunchProgress, VMExits, JobStarted
<1>10. CASE RemoverProgress
  BY <1>1, <1>8, <1>10 DEF RemoverProgress
<1>11. CASE ListenerProgress
  BY <1>4, <1>5, <1>11 DEF ListenerProgress
<1>12. ASSUME NEW l \in Launches, NEW ok \in BOOLEAN, VMFails(l, ok) PROVE JobsInv'
  BY <1>7, <1>12 DEF VMFails
<1> QED
  BY <1>1, <1>2, <1>3, <1>9, <1>10, <1>11, <1>12, JobsGrow DEF DemandNext, StopProgress, allVars

LEMMA JobsInit == DemandInit => JobsInv
<1> SUFFICES ASSUME DemandInit PROVE JobsInv
  OBVIOUS
<1>1. OnJob = {} /\ queued = 0 /\ inbox = {}
  BY DEF DemandInit, OnJob
<1>2. Bounded
  BY <1>1, FS_EmptySet, MaxJobsAssumption DEF Bounded
<1>3. DemandTypes
  BY <1>1 DEF DemandInit, DemandTypes, Registrations
<1> QED
  BY <1>2, <1>3 DEF JobsInv

\* The tier with GitHub's queue, the messages of the long poll and the guests
\* does nothing that the open scheduler does not: the desired count that
\* HandleDesiredRunnerCount passes to Reconcile is one of those allowed for.
\* What is proved of the scheduler holds of it.
LEMMA RefinesScheduler == DemandSpec => Spec
<1>1. DemandInit => Init
  BY DEF DemandInit
<1> QED
  BY <1>1, JobsInit, JobsStep, StepsAreSteps, PTL DEF DemandSpec, Spec

-----------------------------------------------------------------------------
(* A re-plan leaves out the job that ended.  counted alone says too little: *)
(* a handle may be completed while a message that was made up before its   *)
(* job began is still to be acted on.                                      *)

\* What the invariant says of a launch's place and flags follows from the types.
LEMMA Places ==
    ASSUME TypeOK
    PROVE  /\ completed \subseteq Active /\ seen \subseteq completed /\ Active \subseteq Launches
           /\ \A l \in Launches : l \in Active <=> pc[l] = "vm"
           /\ \A l \in jobDone : pc[l] \in {"failed", "backoff", "finish"}
  BY DEF TypeOK, Active, At

\* Steps that give no runner a registration or a job, and complete no handle.
LEMMA NothingNew ==
    ASSUME TypeOK, JobsInv, KnownInVM, CountsOthers,
           \A l \in Launches : gh'[l] = gh[l] \/ gh'[l] = "absent",
           UNCHANGED counted,
           \A m \in inbox' : \E n \in inbox : m = [n EXCEPT !.done = m.done] /\ m.done \subseteq n.done,
           \A l \in Launches : gh'[l] # "absent" \/ l \in Reported' =>
               /\ pc[l] = "vm" => pc'[l] = "vm"
               /\ pc[l] = "entered" => pc'[l] \in {"entered", "vm"},
           Over' \subseteq Over, (seen \cup jobDone)' \subseteq seen \cup jobDone
    PROVE  KnownInVM' /\ CountsOthers'
<1>1. KnownInVM'
  BY DEF KnownInVM
<1>2. ASSUME NEW m \in inbox' PROVE \E n \in inbox : m.counts = n.counts /\ m.done \subseteq n.done
  <2>1. PICK n \in inbox : m = [n EXCEPT !.done = m.done] /\ m.done \subseteq n.done
    OBVIOUS
  <2>2. n \in [done : SUBSET Launches, queued : Nat, counts : SUBSET Launches]
    BY DEF JobsInv, DemandTypes
  <2>3. m.counts = n.counts
    BY <2>1, <2>2
  <2> QED
    BY <2>1, <2>3
<1>3. Reported' \subseteq Reported
  BY <1>2 DEF Reported
<1>4. Over \cup Reported \subseteq Launches
  BY Places DEF Over, CountsOthers, TypeOK, At
<1>5. \A l \in (Over \cup Reported)' : gh'[l] = "absent"
  BY <1>3, <1>4 DEF CountsOthers
<1>6. Reported' \subseteq Active'
  BY <1>3, Places DEF CountsOthers, Active, At
<1>7. \A m \in inbox' : m.counts \cap (Over' \cup m.done) = {}
  BY <1>2 DEF CountsOthers
<1>8. counted' \cap (seen \cup jobDone)' = {}
  BY DEF CountsOthers
<1> QED
  BY <1>1, <1>5, <1>6, <1>7, <1>8 DEF CountsOthers

\* GitHub's own steps.
LEMMA GitHubSteps ==
    ASSUME TypeOK, JobsInv, KnownInVM, CountsOthers,
           SendMessage \/ \E l \in Launches : Assign(l) \/ JobEnds(l)
    PROVE  KnownInVM' /\ CountsOthers'
<1>1. UNCHANGED <<pc, completed, seen, jobDone, counted>> /\ gh \in [Launches -> Registrations]
  BY DEF SendMessage, Assign, JobEnds, vars, launchVars, handleVars, JobsInv, DemandTypes
<1>2. Active' = Active /\ Over' = Over
  BY <1>1 DEF Active, At, Over
<1>3. ASSUME NEW l \in Launches, Assign(l) \/ JobEnds(l) PROVE KnownInVM' /\ CountsOthers'
  <2>1. /\ pc[l] = "vm" /\ gh[l] # "absent" /\ UNCHANGED inbox
        /\ \E to \in {"running", "done"} : gh' = [gh EXCEPT ![l] = to]
    BY <1>3 DEF Assign, JobEnds, KnownInVM
  <2>2. l \notin Over \cup Reported
    BY <2>1 DEF CountsOthers
  <2>3. \A x \in Launches : x # l => gh'[x] = gh[x]
    BY <1>1, <2>1
  <2>4. KnownInVM'
    BY <1>1, <2>1, <2>3 DEF KnownInVM
  <2>5. Reported' = Reported
    BY <2>1 DEF Reported
  <2>6. Over \cup Reported \subseteq Launches
    BY Places DEF Over, CountsOthers, TypeOK, At
  <2>7. CountsOthers'
    BY <1>1, <1>2, <2>1, <2>2, <2>3, <2>5, <2>6 DEF CountsOthers
  <2> QED
    BY <2>4, <2>7
<1>4. CASE SendMessage
  <2>1. PICK reports \in {{l \in Launches : gh[l] = "done"}, {}} :
          /\ inbox' = {[done |-> reports, queued |-> queued, counts |-> OnJob]}
          /\ gh' = [l \in Launches |-> IF l \in reports THEN "absent" ELSE gh[l]]
    BY <1>4 DEF SendMessage
  <2>2. Reported' = reports /\ \A m \in inbox' : m.counts = OnJob /\ m.done = reports
    BY <2>1 DEF Reported
  <2>3. reports \subseteq Active /\ reports \cap OnJob = {} /\ reports \subseteq Launches
    BY <2>1, Places DEF OnJob, KnownInVM
  <2>4. Over \cap OnJob = {} /\ Over \subseteq Launches
    BY Places DEF Over, OnJob, CountsOthers, TypeOK, At
  <2>5. KnownInVM'
    BY <1>1, <2>1 DEF KnownInVM
  <2>6. \A l \in Over \cup reports : gh'[l] = "absent"
    BY <2>1, <2>3, <2>4 DEF CountsOthers
  <2> QED
    BY <1>1, <1>2, <2>2, <2>3, <2>4, <2>5, <2>6 DEF CountsOthers
<1> QED
  BY <1>3, <1>4

\* The listener: a completion is of a runner that no count of this message
\* includes, and the next count leaves out whatever was completed before it.
LEMMA ListenerSteps ==
    ASSUME TypeOK, JobsInv, KnownInVM, CountsOthers, ListenerProgress
    PROVE  KnownInVM' /\ CountsOthers'
<1>0. Over \cup Reported \subseteq Launches
  BY Places DEF Over, CountsOthers, TypeOK, At
<1>1. ASSUME NEW l \in Launches, HandleJobCompleted(l) PROVE KnownInVM' /\ CountsOthers'
  <2>1. /\ l \in Reported /\ UNCHANGED <<pc, jobDone, gh, counted>>
        /\ completed' = completed \cup {l} /\ seen' = seen \ {l}
    BY <1>1 DEF HandleJobCompleted, MarkCompleted, launchVars, github
  <2>2. /\ Reported' \subseteq Reported
        /\ \A m \in inbox' : \E n \in inbox : m.counts = n.counts /\ m.done \subseteq n.done
    <3>1. /\ Reported' = Reported \ {l}
          /\ \A m \in inbox' : \E n \in inbox : m = [n EXCEPT !.done = m.done] /\ m.done \subseteq n.done
      BY <1>1, UnreadLess DEF HandleJobCompleted
    <3>2. \A n \in inbox : n \in [done : SUBSET Launches, queued : Nat, counts : SUBSET Launches]
      BY DEF JobsInv, DemandTypes
    <3>3. \A m \in inbox' : \E n \in inbox : m.counts = n.counts /\ m.done \subseteq n.done
      BY <3>1, <3>2
    <3> QED
      BY <3>1, <3>3
  <2>3. KnownInVM'
    BY <2>1 DEF KnownInVM
  <2>4. Over' = Over \cup {l} /\ Active' = Active
    BY <2>1 DEF Over, Active, At
  <2>5. \A n \in inbox : l \notin n.counts
    <3>1. PICK k \in inbox : l \in k.done
      BY <2>1 DEF Reported
    <3>2. l \notin k.counts
      BY <3>1 DEF CountsOthers
    <3> QED
      BY <3>1, <3>2 DEF JobsInv, DemandTypes
  <2>6. \A m \in inbox' : m.counts \cap (Over' \cup m.done) = {}
    BY <2>2, <2>4, <2>5 DEF CountsOthers
  <2>7. \A x \in (Over \cup Reported)' : gh'[x] = "absent"
    BY <2>1, <2>2, <2>4 DEF CountsOthers
  <2>8. counted' \cap (seen \cup jobDone)' = {} /\ Reported' \subseteq Active'
    BY <2>1, <2>2, <2>4 DEF CountsOthers
  <2> QED
    BY <2>3, <2>6, <2>7, <2>8 DEF CountsOthers
<1>2. CASE HandleDesiredRunnerCount
  <2>1. PICK m \in inbox : Reconcile(m.queued + Cardinality(m.counts)) /\ counted' = m.counts
    BY <1>2 DEF HandleDesiredRunnerCount
  <2>2. /\ inbox' = {} /\ UNCHANGED <<gh, completed, jobDone>> /\ seen' = completed
    BY <1>2, <2>1 DEF HandleDesiredRunnerCount, github, Reconcile
  <2>3. \A x \in Launches : Stays(x)
    BY <2>1, Desired, PlanningLeaves
  <2>4. KnownInVM'
    BY <2>2, <2>3 DEF KnownInVM, Stays
  <2>5. Over' = Over /\ Reported' = {}
    BY <2>2 DEF Over, Reported
  <2>6. counted' \cap (seen \cup jobDone)' = {}
    BY <2>1, <2>2 DEF CountsOthers, Over
  <2> QED
    BY <2>2, <2>4, <2>5, <2>6 DEF CountsOthers
<1> QED
  BY <1>1, <1>2 DEF ListenerProgress

\* The scheduler's steps that GitHub does not see.
LEMMA Unseen ==
    ASSUME TypeOK, JobsInv, KnownInVM, CountsOthers, UNCHANGED demandVars,
           \A l \in Launches : /\ pc[l] = "vm" => pc'[l] = "vm"
                               /\ pc[l] = "entered" => pc'[l] \in {"entered", "vm"},
           completed' \subseteq completed, seen' \subseteq seen, jobDone' \subseteq jobDone
    PROVE  KnownInVM' /\ CountsOthers'
<1>1. Over' \subseteq Over /\ (seen \cup jobDone)' \subseteq seen \cup jobDone
  BY DEF Over
<1> QED
  BY <1>1, NothingNew, SameMessage DEF demandVars

\* A VM goes, whatever became of it.
LEMMA VMGoesKeeps ==
    ASSUME TypeOK, JobsInv, KnownInVM, CountsOthers, NEW l \in Launches, NEW ok \in BOOLEAN,
           VMGoes(l, ok)
    PROVE  KnownInVM' /\ CountsOthers'
<1>0. gh \in [Launches -> Registrations] /\ Over \cup Reported \subseteq Launches
  BY Places DEF JobsInv, DemandTypes, Over, CountsOthers, TypeOK, At
<1>1. /\ inbox' = Unread(l) /\ UNCHANGED counted /\ gh' = [gh EXCEPT ![l] = "absent"]
      /\ LaunchReturns(l, ok)
  BY DEF VMGoes
<1>2. /\ completed' = completed \ {l} /\ seen' = seen \ {l}
      /\ jobDone' = jobDone \/ (l \in seen /\ jobDone' = jobDone \cup {l})
  BY <1>1 DEF LaunchReturns, DropsFlag, JobDone
<1>3. Over' \subseteq Over /\ (seen \cup jobDone)' \subseteq seen \cup jobDone
  BY <1>2, Places DEF Over
<1>4. \A x \in Launches : x # l => Stays(x)
  BY <1>1, LaunchStepLeaves DEF LaunchStep
<1>5. \A x \in Launches : gh'[x] # "absent" \/ x \in Reported' => Stays(x)
  BY <1>0, <1>1, <1>4, UnreadLess
<1>6. \A x \in Launches : gh'[x] # "absent" \/ x \in Reported' =>
        /\ pc[x] = "vm" => pc'[x] = "vm"
        /\ pc[x] = "entered" => pc'[x] \in {"entered", "vm"}
  BY <1>5 DEF Stays
<1>7. \A x \in Launches : gh'[x] = gh[x] \/ gh'[x] = "absent"
  BY <1>0, <1>1
<1> QED
  BY <1>1, <1>3, <1>6, <1>7, UnreadLess, NothingNew

LEMMA LaunchProgressKeeps ==
    ASSUME TypeOK, JobsInv, KnownInVM, CountsOthers, NEW l \in Launches, LaunchProgress(l)
    PROVE  KnownInVM' /\ CountsOthers'
<1>0. gh \in [Launches -> Registrations] /\ Over \cup Reported \subseteq Launches
  BY Places DEF JobsInv, DemandTypes, Over, CountsOthers, TypeOK, At
<1>1. ASSUME NEW ok \in BOOLEAN, JITGenerated(l, ok) PROVE KnownInVM' /\ CountsOthers'
  <2>1. /\ pc[l] = "jit" /\ UNCHANGED <<completed, seen, jobDone, inbox, counted>>
        /\ pc' = [pc EXCEPT ![l] = IF ok THEN "entered" ELSE "failed"]
        /\ gh' = IF ok THEN [gh EXCEPT ![l] = "registered"] ELSE gh
    BY <1>1 DEF JITGenerated, GenerateReturns, Enter, handleVars
  <2>2. \A x \in Launches : x # l => gh'[x] = gh[x] /\ pc'[x] = pc[x]
    BY <1>0, <2>1 DEF TypeOK
  <2>3. pc'[l] \in {"entered", "failed"} /\ (ok => pc'[l] = "entered")
    BY <2>1 DEF TypeOK
  <2>4. gh[l] = "absent"
    BY <1>0, <2>1 DEF KnownInVM, Registrations
  <2>5. gh'[l] \in {"absent", "registered"} /\ (gh'[l] = "registered" => ok)
    BY <1>0, <2>1, <2>4
  <2>6. l \notin Over \cup Reported
    BY <2>1, Places DEF Over, CountsOthers
  <2>7. KnownInVM'
    BY <2>2, <2>3, <2>5 DEF KnownInVM
  <2>8. Over' = Over /\ Reported' = Reported
    BY <2>1 DEF Over, Reported
  <2>9. Reported' \subseteq Active'
    BY <1>0, <2>2, <2>6, <2>8, Places DEF CountsOthers, Active, At
  <2>10. \A x \in (Over \cup Reported)' : gh'[x] = "absent"
    BY <1>0, <2>2, <2>6, <2>8 DEF CountsOthers
  <2> QED
    BY <2>1, <2>7, <2>8, <2>9, <2>10 DEF CountsOthers
<1>2. ASSUME NEW ok \in BOOLEAN, VMExits(l, ok) PROVE KnownInVM' /\ CountsOthers'
  BY <1>2, VMGoesKeeps DEF VMExits
<1>3. ASSUME UNCHANGED demandVars,
             \/ Spawn(l) \/ StartLaunch(l) \/ Track(l) \/ BackoffStarts(l) \/ BackoffEnds(l)
             \/ DeferredFinish(l) \/ TailCheck(l) \/ TailTopUp(l) \/ CancelIfIdle(l)
      PROVE  KnownInVM' /\ CountsOthers'
  <2>1. completed' \subseteq completed /\ seen' \subseteq seen /\ jobDone' \subseteq jobDone
    BY <1>3 DEF Spawn, StartLaunch, Track, BackoffStarts, BackoffEnds, DeferredFinish, TailCheck,
       TailTopUp, CancelIfIdle, launchVars, handleVars
  <2>2. ASSUME NEW x \in Launches
        PROVE  /\ pc[x] = "vm" => pc'[x] = "vm"
               /\ pc[x] = "entered" => pc'[x] \in {"entered", "vm"}
    <3>1. CASE CancelIfIdle(l)
      BY <3>1 DEF CancelIfIdle, launchVars
    <3>2. CASE x = l /\ Track(l)
      BY <3>2 DEF Track, TypeOK
    <3>3. CASE x = l /\ ~CancelIfIdle(l) /\ ~Track(l)
      BY <1>3, <3>3 DEF Spawn, StartLaunch, BackoffStarts, BackoffEnds, DeferredFinish,
         TailCheck, TailTopUp
    <3>4. CASE x # l /\ ~CancelIfIdle(l)
      BY <1>3, <3>4, LaunchStepLeaves DEF LaunchStep, Stays
    <3> QED
      BY <3>1, <3>2, <3>3, <3>4
  <2> QED
    BY <1>3, <2>1, <2>2, Unseen
<1> QED
  BY <1>1, <1>2, <1>3 DEF LaunchProgress

LEMMA CountsStep ==
    TypeOK /\ JobsInv /\ KnownInVM /\ CountsOthers /\ [DemandNext]_allVars
        => (KnownInVM /\ CountsOthers)'
<1> SUFFICES ASSUME TypeOK, JobsInv, KnownInVM, CountsOthers, [DemandNext]_allVars
             PROVE  KnownInVM' /\ CountsOthers'
  OBVIOUS
<1>1. ASSUME UNCHANGED <<pc, completed, seen, jobDone, gh, inbox, counted>>
      PROVE  KnownInVM' /\ CountsOthers'
  BY <1>1 DEF KnownInVM, CountsOthers, Over, Reported, Active, At
<1>2. CASE UNCHANGED allVars \/ JobArrives \/ JobLeaves
  BY <1>1, <1>2 DEF allVars, vars, launchVars, handleVars, demandVars, JobArrives, JobLeaves
<1>3. ASSUME NEW l \in Launches, JobStarted(l) PROVE KnownInVM' /\ CountsOthers'
  BY <1>1, <1>3 DEF JobStarted, MarkBusy, launchVars, demandVars
<1>4. CASE RemoverProgress
  <2>1. CASE (NextRemoval \/ RemoverResumes) /\ UNCHANGED demandVars
    BY <1>1, <2>1 DEF NextRemoval, RemoverResumes, launchVars, handleVars, demandVars
  <2>2. ASSUME NEW answer \in Answers, RemovalAnswered(answer) PROVE KnownInVM' /\ CountsOthers'
    <3>1. /\ UNCHANGED <<pc, completed, seen, jobDone, inbox, counted>>
          /\ gh' = gh \/ gh' = [gh EXCEPT ![removal] = "absent"]
      BY <2>2 DEF RemovalAnswered, SettleRemoval, launchVars
    <3>2. \A l \in Launches : gh'[l] = gh[l] \/ gh'[l] = "absent"
      BY <3>1 DEF JobsInv, DemandTypes
    <3>3. Over' = Over
      BY <3>1 DEF Over
    <3> QED
      BY <3>1, <3>2, <3>3, NothingNew, SameMessage
  <2> QED
    BY <1>4, <2>1, <2>2 DEF RemoverProgress
<1>5. CASE StopProgress \/ (Shutdown /\ UNCHANGED demandVars)
  BY <1>1, <1>5 DEF StopProgress, Drains, Drain, DrainReturns, Shutdown, launchVars, handleVars,
     demandVars
<1>6. ASSUME NEW l \in Launches, NEW ok \in BOOLEAN, VMFails(l, ok) PROVE KnownInVM' /\ CountsOthers'
  BY <1>6, VMGoesKeeps DEF VMFails
<1> QED
  BY <1>2, <1>3, <1>4, <1>5, <1>6, GitHubSteps, ListenerSteps, LaunchProgressKeeps DEF DemandNext

LEMMA CountsInit == DemandInit => KnownInVM /\ CountsOthers
  BY DEF DemandInit, Init, KnownInVM, CountsOthers, Over, Reported

\* replan runs in the critical section of finish(), and only for a job that is
\* known to be done.
LEMMA OwnJobLeftOut ==
    ASSUME TypeOK, CountsOthers, [Next]_vars, NEW l \in Launches, Replans(l)
    PROVE  l \notin counted
<1>1. pc[l] \in {"vm", "finish"} /\ pc'[l] = "tail" /\ ~Stays(l) /\ pending' > pending
  BY DEF Replans, Stays
<1>2. LaunchStep(l)
  <2>1. ~UNCHANGED pc
    BY <1>1 DEF Stays
  <2>2. \E x \in Launches : LaunchStep(x)
    BY <1>1, <2>1, PlanningLeaves DEF Next, HandleStep, MarkBusy, MarkCompleted, CancelIfIdle,
       CancelLost,
       NextRemoval, SettleRemoval, RemoverResumes, Shutdown, Drain, DrainReturns, vars, launchVars
  <2> QED
    BY <1>1, <2>2, LaunchStepLeaves
<1>3. ~\E from, run : Commit(0, from, run, "spawned")
  BY <1>1 DEF Commit, TypeOK
<1>4. CASE \E ok \in BOOLEAN : LaunchReturns(l, ok)
  <2>1. pc' # [pc EXCEPT ![l] = "failed"]
    BY <1>1 DEF TypeOK
  <2>2. \E r, u : Finish(l, JobDone(l), r, u)
    BY <1>4, <2>1 DEF LaunchReturns
  <2>3. JobDone(l)
    BY <1>3, <2>2 DEF Finish
  <2> QED
    BY <2>3 DEF CountsOthers, JobDone
<1>5. CASE DeferredFinish(l)
  <2>1. \E r, u : Finish(l, l \in jobDone, r, u)
    BY <1>5 DEF DeferredFinish
  <2>2. l \in jobDone
    BY <1>3, <2>1 DEF Finish
  <2> QED
    BY <2>2 DEF CountsOthers
<1> QED
  BY <1>1, <1>2, <1>4, <1>5 DEF LaunchStep, Spawn, StartLaunch, GenerateReturns, Track,
     BackoffStarts,
     BackoffEnds, TailCheck, TailTopUp

\* The desired count that an exit plans with leaves out the job of the VM that
\* exits, so a re-plan never launches a runner for it: HandleJobCompleted comes
\* before the count of its message, and a launch remembers a job as done only
\* when a Reconcile has run since.
THEOREM ReplansLeaveOut == DemandSpec => ReplanLeavesOutOwnJob
<1>1. TypeOK /\ CountsOthers /\ [Next]_vars
        => [\A l \in Launches : Replans(l) => l \notin counted]_allVars
  BY OwnJobLeftOut
<1> QED
  BY <1>1, RefinesScheduler, TypeCorrect, JobsInit, JobsStep, CountsInit, CountsStep,
     StepsAreSteps, PTL
     DEF DemandSpec, ReplanLeavesOutOwnJob
=============================================================================
