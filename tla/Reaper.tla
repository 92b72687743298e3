------------------------------- MODULE Reaper -------------------------------
(***************************************************************************)
(* The reaper (internal/ec2/reaper.go) beside the pool and the launches of *)
(* one pooled tier, with crashes of the process: what it listed may have   *)
(* changed when it acts.  MaxLifetime, which ends a busy orphan by design, *)
(* is off (0).                                                             *)
(***************************************************************************)
EXTENDS Ec2Launch

CONSTANTS MaxCrashes     \* bound: crashes, each followed by a restart
ASSUME CrashAssumption == MaxCrashes \in Nat

VARIABLES
    orphans,     \* what Sweep decided of the instances it listed, and
    requests,    \* the spot requests without an instance it listed, to go
    crashes      \* crashes that may still come
reaperVars == <<orphans, requests>>
allVars == <<awsVars, processVars, reaperVars, crashes>>

\* A verdict: reap it, or ask GitHub first; "reaping", "asking" and "agreed"
\* are verdicts being carried out.
Verdict == [id : Instances, do : {"reap", "ask", "asking", "agreed", "reaping"},
            runner : Runners \cup {NoRunner}]

ReaperTypeOK ==
    /\ Ec2TypeOK
    /\ requests \subseteq Instances
    /\ orphans \subseteq Verdict
    /\ crashes \in 0..MaxCrashes

-----------------------------------------------------------------------------
(* judge, as far as it depends on the listing only.                        *)

Young(i) == ~aws[i].old
PoolOwned(i) == aws[i].tag \in {"ready", "warming"}

Judged(i) ==
    [id |-> i, runner |-> aws[i].runner,
     do |-> IF aws[i].st = "up" THEN "ask" ELSE "reap"]

\* Wrong: takes every stopped instance for the pool's.
JudgedRunning ==
    {Judged(i) : i \in {j \in Alive : /\ aws[j].st = "up" /\ aws[j].runner # NoRunner
                                      /\ ~PoolOwned(j) /\ ~Young(j)}}

JudgedOrphans ==
    {Judged(i) : i \in {j \in Alive : /\ ~PoolOwned(j) /\ ~Young(j)
                                      /\ aws[j].st = "up" => aws[j].runner # NoRunner}}

-----------------------------------------------------------------------------
(* Sweep.                                                                  *)

\* The listings: requests first, instances second, so that a request that
\* seems to have no instance has none.  One step stands for both, since an
\* instance that is gone stays so.
SweepLists ==
    /\ orphans = {} /\ requests = {}
    /\ orphans' = JudgedOrphans
    /\ requests' = {i \in Instances : aws[i].openSpot /\ i \notin Alive}
    /\ UNCHANGED <<awsVars, processVars, crashes>>

\* judge looks at live first, and not again before it acts.  One at a time.
Judge(v) ==
    /\ v \in orphans
    /\ \A o \in orphans : o.do \in {"reap", "ask"}
    /\ orphans' = (orphans \ {v}) \cup
                  (IF v.id \in live THEN {}
                   ELSE {[v EXCEPT !.do = IF v.do = "ask" THEN "asking" ELSE "reaping"]})
    /\ UNCHANGED <<awsVars, processVars, requests, crashes>>

\* Wrong: takes "busy" for "could not be deregistered, end it".
AsksAndReaps(v) ==
    /\ v \in orphans /\ v.do = "asking"
    /\ gh' = [gh EXCEPT ![v.runner] = "none"]
    /\ orphans' = (orphans \ {v}) \cup {[v EXCEPT !.do = "agreed"]}
    /\ UNCHANGED <<faults, aws, surprises, processVars, requests, crashes>>

\* Remove: GitHub refuses to deregister a busy runner.
AsksGitHub(v) ==
    /\ v \in orphans /\ v.do = "asking"
    /\ \/ /\ gh[v.runner] = "busy"
          /\ orphans' = orphans \ {v} /\ UNCHANGED <<gh, faults>>
       \/ /\ gh[v.runner] # "busy"
          /\ gh' = [gh EXCEPT ![v.runner] = "none"]
          /\ orphans' = (orphans \ {v}) \cup {[v EXCEPT !.do = "agreed"]}
          /\ UNCHANGED faults
       \/ /\ Call(FALSE, FALSE)
          /\ gh' \in {gh, IF gh[v.runner] = "busy" THEN gh
                          ELSE [gh EXCEPT ![v.runner] = "none"]}
          /\ orphans' = orphans \ {v}
    /\ UNCHANGED <<aws, surprises, processVars, requests, crashes>>

Reap(v) ==
    /\ v \in orphans /\ v.do \in {"reaping", "agreed"}
    /\ \E ok \in BOOLEAN : Discard(v.id, ok)
    /\ orphans' = orphans \ {v}
    /\ UNCHANGED <<surprises, gh, processVars, requests, crashes>>

\* A request without an instance is cancelled, unless a launch uses it or it
\* is young.
SweepsRequest(i) ==
    /\ orphans = {} /\ i \in requests
    /\ \/ /\ i \in live \/ Young(i)
          /\ UNCHANGED <<aws, faults>>
       \/ /\ i \notin live /\ ~Young(i)
          /\ \E done, ok \in BOOLEAN :
                Call(done, ok) /\ aws' = IF done THEN SpotClosed(aws, i) ELSE aws
    /\ requests' = requests \ {i}
    /\ UNCHANGED <<surprises, gh, processVars, orphans, crashes>>

ReaperStep ==
    \/ SweepLists
    \/ \E v \in orphans : Judge(v) \/ AsksGitHub(v) \/ Reap(v)
    \/ \E i \in Instances : SweepsRequest(i)

-----------------------------------------------------------------------------
(* The process crashes and is started again: only AWS and GitHub remember. *)

ProcessStarts ==
    /\ ready' = {} /\ warming' = {} /\ target' \in Sizes /\ resizing' = FALSE
    /\ live' = {} /\ poolAt' = "discover" /\ listed' = {}
    /\ config' = [i \in Instances |-> "none"]
    /\ at' = [r \in Runners |-> "idle"] /\ hand' = [r \in Runners |-> NoInst]
    /\ awaitStart' = {} /\ terminating' = {} /\ spotLeft' = {}
    /\ requests' = {} /\ orphans' = {}

Crash ==
    /\ crashes > 0 /\ crashes' = crashes - 1
    /\ ProcessStarts
    /\ UNCHANGED awsVars

\* AWS forgets a terminated instance after an hour, when nothing here still
\* holds it or works from a listing that names it.
Purged(i) ==
    /\ aws[i].st = "gone" /\ ~aws[i].openSpot
    /\ i \notin ready \cup warming \cup Held \cup requests
    /\ \A p \in listed : p[1] # i
    /\ \A v \in orphans : v.id # i
    /\ aws' = [aws EXCEPT ![i] = NoInstance]
    /\ UNCHANGED <<faults, surprises, gh, processVars, reaperVars, crashes>>

Init ==
    /\ aws = [i \in Instances |-> NoInstance]
    /\ faults = MaxFaults /\ surprises = MaxSurprises /\ crashes = MaxCrashes
    /\ gh = [r \in Runners |-> "none"]
    /\ ready = {} /\ warming = {} /\ target \in Sizes /\ resizing = FALSE
    /\ live = {} /\ poolAt = "discover" /\ listed = {}
    /\ config = [i \in Instances |-> "none"]
    /\ at = [r \in Runners |-> "idle"] /\ hand = [r \in Runners |-> NoInst]
    /\ awaitStart = {} /\ terminating = {} /\ spotLeft = {}
    /\ requests = {} /\ orphans = {}

Next ==
    \/ \E i \in Instances :
          \/ AwsStep(i) /\ UNCHANGED <<processVars, reaperVars, crashes>>
          \/ (Fetch(i) \/ Expires(i)) /\ UNCHANGED <<reaperVars, crashes>>
          \/ Purged(i)
    \/ (PoolStep \/ TrimStep) /\ UNCHANGED <<reaperVars, crashes>>
    \/ \E n \in Sizes : SetTarget(n) /\ UNCHANGED <<reaperVars, crashes>>
    \/ \E r \in Runners :
          /\ \/ Begin(r) /\ \A v \in orphans : v.runner # r
             \/ LaunchStep(r)
          /\ UNCHANGED <<reaperVars, crashes>>
    \/ \E r \in Runners : JobLost(r) /\ UNCHANGED <<processVars, reaperVars, crashes>>
    \/ ReaperStep
    \/ Crash

Spec == Init /\ [][Next]_allVars

\* The reaper's goroutine runs, jobs end and lost ones fail, guests without a job power off,
\* instances age, and launches are carried through.
FairSpec ==
    /\ Spec
    /\ WF_allVars(ReaperStep)
    /\ \A r \in Runners :
          /\ WF_allVars(LaunchStep(r) /\ UNCHANGED <<reaperVars, crashes>>)
          /\ WF_allVars(JobLost(r) /\ UNCHANGED <<processVars, reaperVars, crashes>>)
    /\ \A i \in Instances :
          /\ WF_allVars(Boots(i) /\ UNCHANGED <<processVars, reaperVars, crashes>>)
          /\ WF_allVars(PowersOff(i) /\ UNCHANGED <<processVars, reaperVars, crashes>>)
          /\ WF_allVars(JobEnds(i) /\ UNCHANGED <<processVars, reaperVars, crashes>>)
          /\ WF_allVars(Ages(i) /\ UNCHANGED <<processVars, reaperVars, crashes>>)

-----------------------------------------------------------------------------
(* Properties.                                                             *)

\* An instance of the pool has one place: in ready, in warming, or in the hands
\* of the one launch that tracks it, however claims, rewarms, requeues, trims
\* and checkReady's stale listing interleave.  An address has a config only
\* while such a launch serves it.
OneOwner ==
    /\ ready \cap warming = {}
    /\ Held \cap (ready \cup warming) = {}
    /\ \A r, s \in Runners : hand[r] = hand[s] => r = s \/ hand[r] = NoInst
    /\ live = Held
    /\ \A i \in Instances : config[i] # "none" => i \in Held

\* The instance is neither the pool's, by its tag or in a list, nor in a claim.
Used(i) ==
    /\ aws[i].st # "none" /\ ~PoolOwned(i)
    /\ i \notin ready \cup warming
    /\ \A r \in Runners : hand[r] = i => at[r] \notin Claiming

\* "Package ec2 launches one ephemeral EC2 instance per GitHub Actions job": an
\* instance with a guest is used, and a used one stays so until AWS forgets it,
\* whatever stale listing (checkReady's, refresh's, discover's after a crash) or
\* lost answer comes in between.
OneShot ==
    /\ [](\A i \in Instances : aws[i].guest # "none" => Used(i))
    /\ [][\A i \in Instances : Used(i) => Used(i)' \/ aws'[i].st = "none"]_allVars

\* fill counts what is warming, and looks again after each launch: what claims
\* give back between its count and its call is at most one instance each, so a
\* pool that is over its largest size by more than that is never grown.
NeverOverfilled ==
    [][ \A i \in warming' : aws[i].st = "none" =>
          \E n \in Sizes :
             Cardinality(ready) + Cardinality(warming) < n + Cardinality(Runners) ]_allVars

\* "It never terminates while the request may still be open, since AWS would
\* launch an untracked replacement": discard, trim, the waiter and the reaper.
NoReplacement ==
    [][ \A i \in Alive : aws'[i].st = "gone" /\ surprises' = surprises
            => ~aws'[i].openSpot ]_allVars

\* "A running orphan is ended only once GitHub agrees to deregister its runner
\* (it has no job)": an instance that still carries the name GitHub was asked
\* about has no job when it ends, whatever launches, jobs and spot requests did
\* since the listing. (One that a launch has claimed and started anew meanwhile
\* carries another name, and judge does not look at live again: README.)
OrphanJobsSpared ==
    [][ \A v \in orphans :
          Reap(v) /\ v.do = "agreed" /\ aws[v.id].runner = v.runner
            => aws[v.id].guest # "job" ]_allVars

\* "Reaper ends what this install launched and no longer owns."
ReapsOnlyOrphans ==
    [][ \A v \in orphans : Reap(v) => v.id \notin ready \cup warming \cup live ]_allVars

\* What a crash, a failed claim or a lost answer left without an owner ends:
\* a job instance nobody follows, and a request whose instance is gone.
Orphan(i) ==
    /\ i \notin ready \cup warming \cup Held
    /\ \/ i \in Alive /\ aws[i].tag \in {"none", "claimed"}
       \/ aws[i].st = "gone" /\ aws[i].openSpot
OrphansEnd == \A i \in Instances : Orphan(i) ~> ~Orphan(i)
=============================================================================
