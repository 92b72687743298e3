--------------------------------- MODULE Aws ---------------------------------
(***************************************************************************)
(* The AWS account one firerunner tier works in, as internal/ec2 uses it:  *)
(* instances with their tags and persistent spot requests, and calls whose *)
(* answer may be lost.  Everything here is external to the program and is  *)
(* modelled from the calls the program makes and the states it tells       *)
(* apart.  A cold job instance has no persistent request and ends when it  *)
(* powers off; a pool instance stops.                                      *)
(***************************************************************************)
EXTENDS Naturals, FiniteSets

CONSTANTS
    Instances,     \* identifiers; one is used again once it has been purged
    Runners,       \* runner names, one launch each
    NoRunner,      \* the empty TagRunner
    MaxFaults,     \* bound: calls that fail without a cause of their own
    MaxSurprises   \* bound: restarts and terminations nobody asked for

ASSUME AwsAssumption ==
    /\ IsFiniteSet(Instances) /\ IsFiniteSet(Runners)
    /\ NoRunner \notin Runners
    /\ MaxFaults \in Nat /\ MaxSurprises \in Nat

VARIABLES
    aws,           \* the instances
    faults,        \* calls that may still fail
    surprises,     \* surprises that may still come
    gh             \* GitHub's view of each runner name
awsVars == <<aws, faults, surprises, gh>>

(* "starting" is started and still described as stopped; "up" is pending   *)
(* or running, "gone" shutting down or terminated; stopping is passed      *)
(* over.  A guest is "none" until it has fetched a config.                 *)
States == {"none", "starting", "up", "stopped", "gone"}
Tags == {"none", "warming", "ready", "claimed"}
Instance == [st : States, tag : Tags, runner : Runners \cup {NoRunner},
             openSpot : BOOLEAN, guest : {"none", "runner", "job"},
             old : BOOLEAN]     \* past the reaper's Grace since its last start;
                                \* kept where the reaper asks for it

NoInstance == [st |-> "none", tag |-> "none", runner |-> NoRunner,
               openSpot |-> FALSE, guest |-> "none", old |-> FALSE]
PoolInstance == [NoInstance EXCEPT !.st = "up", !.tag = "warming", !.openSpot = TRUE]
ColdInstance(r) == [NoInstance EXCEPT !.st = "up", !.runner = r]

Alive == {i \in Instances : aws[i].st \in {"starting", "up", "stopped"}}
Shown(i) == IF aws[i].st = "starting" THEN "stopped" ELSE aws[i].st

-----------------------------------------------------------------------------
(* Calls.  "done" says the call took effect, "ok" that it was answered so. *)

Call(done, ok) ==
    /\ ok => done
    /\ ok \/ faults > 0
    /\ faults' = IF ok THEN faults ELSE faults - 1

Tagged(a, i, tag, r) ==     \* what a terminated one carries is not looked at
    IF a[i].st = "gone" THEN a
    ELSE [a EXCEPT ![i].tag = tag, ![i].runner = r, ![i].old = @ /\ tag = "claimed"]
SpotClosed(a, i) == [a EXCEPT ![i].openSpot = FALSE]
Terminated(a, i) == [a EXCEPT ![i] = [NoInstance EXCEPT !.st = "gone", !.openSpot = a[i].openSpot]]
Started(a, i) == [a EXCEPT ![i].st = "starting", ![i].old = FALSE]

\* AWS refuses to start an instance that is not stopped, or a spot instance
\* whose request is already cancelled; one that is starting or up just says so.
Startable(i) ==
    \/ aws[i].st \in {"starting", "up"}
    \/ aws[i].st = "stopped" /\ aws[i].openSpot

-----------------------------------------------------------------------------
(* What happens in the account and on the instances by itself.             *)

Boots(i) ==
    /\ aws[i].st = "starting"
    /\ aws' = [aws EXCEPT ![i].st = "up"]
    /\ UNCHANGED <<faults, surprises, gh>>

Off(i) == [aws EXCEPT ![i].st = IF aws[i].tag = "none" THEN "gone" ELSE "stopped",
                      ![i].guest = "none"]

\* A warm-up ends, or a guest without a config gives up.
PowersOff(i) ==
    /\ aws[i].st = "up" /\ aws[i].guest = "none"
    /\ aws' = Off(i)
    /\ UNCHANGED <<faults, surprises, gh>>

JobStarts(i) ==
    /\ aws[i].st = "up" /\ aws[i].guest = "runner" /\ gh[aws[i].runner] = "idle"
    /\ gh' = [gh EXCEPT ![aws[i].runner] = "busy"]
    /\ aws' = [aws EXCEPT ![i].guest = "job"]
    /\ UNCHANGED <<faults, surprises>>

JobEnds(i) ==
    /\ aws[i].guest = "job"
    /\ gh' = [gh EXCEPT ![aws[i].runner] = "none"]
    /\ aws' = Off(i)
    /\ UNCHANGED <<faults, surprises>>

\* GitHub fails the job of a runner that is lost.
JobLost(r) ==
    /\ gh[r] = "busy" /\ \A i \in Instances : aws[i].guest = "job" => aws[i].runner # r
    /\ gh' = [gh EXCEPT ![r] = "none"]
    /\ UNCHANGED <<aws, faults, surprises>>

Ages(i) ==
    /\ aws[i].st # "none" /\ aws[i].tag \in {"none", "claimed"} /\ ~aws[i].old
    /\ aws[i].st = "gone" => aws[i].openSpot
    /\ aws' = [aws EXCEPT ![i].old = TRUE]
    /\ UNCHANGED <<faults, surprises, gh>>

\* A persistent request restarts its instance once capacity returns.
SpotRestarts(i) ==
    /\ aws[i].st = "stopped" /\ aws[i].openSpot /\ surprises > 0
    /\ aws' = Started(aws, i)
    /\ surprises' = surprises - 1
    /\ UNCHANGED <<faults, gh>>

EndedFromOutside(i) ==
    /\ i \in Alive /\ surprises > 0
    /\ aws' = Terminated(aws, i)
    /\ surprises' = surprises - 1
    /\ UNCHANGED <<faults, gh>>

AwsStep(i) ==
    \/ Boots(i) \/ PowersOff(i) \/ Ages(i)
    \/ JobStarts(i) \/ JobEnds(i)
    \/ SpotRestarts(i) \/ EndedFromOutside(i)
=============================================================================
