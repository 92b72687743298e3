------------------------------- MODULE Ec2Pool -------------------------------
(***************************************************************************)
(* One EC2 tier of the program (internal/ec2/pool.go, provisioner.go and   *)
(* jitserver.go): the goroutine that keeps the stopped pool, the launches  *)
(* that claim from it or start cold, each with its waiter, and the JIT     *)
(* server's one entry per address.                                         *)
(*                                                                         *)
(* An action is one call to AWS, or one critical section.  Calls a         *)
(* goroutine makes one after the other on an instance only it holds        *)
(* (CancelSpotInstanceRequests then TerminateInstances; CreateTags then    *)
(* ModifyInstanceAttribute) are one action, whose outcomes include every   *)
(* prefix.                                                                 *)
(***************************************************************************)
EXTENDS Aws

CONSTANTS Sizes        \* the sizes a schedule gives the pool

NoInst == "no instance"

ASSUME PoolAssumption ==
    /\ Sizes # {} /\ Sizes \subseteq Nat
    /\ NoInst \notin Instances

VARIABLES
    ready, warming,    \* the pool's lists; claim and trim take any ready one
    target,
    live,              \* Client.live: what the reaper leaves alone
    poolAt, listed,    \* where Pool.Run is, and the listing it works through
    resizing,          \* SetTarget is trimming
    config,            \* the JIT server's entry for each instance's address
    at, hand,          \* where each launch is, and the instance it works on
    awaitStart, terminating, spotLeft    \* the waiters' fields, as sets

poolVars == <<ready, warming, target, poolAt, listed, resizing>>
launchVars == <<config, at, hand, awaitStart, terminating, spotLeft>>
processVars == <<poolVars, live, launchVars>>

PoolPlaces == {"discover", "check", "checking", "refresh", "trim", "run"}
LaunchPlaces ==
    {"idle", "claim",
     "prepare",    \* claimed and tracked; tagging and user-data
     "rewarm", "requeue", "retag", "discard",   \* claim's ways back
     "refused",    \* Register's error
     "start", "unstarted",                      \* StartInstances, and its failure
     "spot",       \* started, request still open
     "cold", "wait"}
Claiming == {"prepare", "rewarm", "requeue", "retag", "discard"}
Holding == Claiming \cup {"refused", "start", "unstarted", "spot", "wait"}

Held == {hand[r] : r \in Runners} \ {NoInst}

Ec2TypeOK ==
    /\ aws \in [Instances -> Instance]
    /\ faults \in 0..MaxFaults /\ surprises \in 0..MaxSurprises
    /\ gh \in [Runners -> {"none", "idle", "busy"}]
    /\ ready \subseteq Instances /\ warming \subseteq Instances
    /\ target \in Sizes /\ resizing \in BOOLEAN
    /\ live \subseteq Instances
    /\ poolAt \in PoolPlaces /\ listed \subseteq Instances \X States
    /\ config \in [Instances -> {"none", "held", "served", "expired"}]
    /\ at \in [Runners -> LaunchPlaces]
    /\ hand \in [Runners -> Instances \cup {NoInst}]
    /\ \A r \in Runners : hand[r] # NoInst <=> at[r] \in Holding
    /\ awaitStart \cup terminating \cup spotLeft \subseteq Runners

-----------------------------------------------------------------------------
(* Ending an instance: discard, reap and the waiter's terminate cancel its *)
(* request first and go on only when that worked.                          *)

Discard(i, ok) ==
    LET closed == SpotClosed(aws, i)
    IN  IF ok
        THEN aws' = Terminated(closed, i) /\ UNCHANGED faults
        ELSE /\ Call(FALSE, FALSE)
             /\ aws' \in {aws, closed, Terminated(closed, i)}

-----------------------------------------------------------------------------
(* The pool goroutine: discover once, then check, refresh, trim and fill,  *)
(* again and again.                                                        *)

poolRest == <<surprises, gh, target, resizing, live, launchVars>>

\* A DescribeInstances that fails: Run goes on without.
Undescribed(place, next) ==
    /\ poolAt = place /\ poolAt' = next
    /\ Call(FALSE, FALSE)
    /\ UNCHANGED <<aws, ready, warming, listed, poolRest>>

PoolTagged == {i \in Alive : aws[i].tag \in {"ready", "warming"}}
Ready(a, ids) == [i \in Instances |-> IF i \in ids THEN Tagged(a, i, "ready", a[i].runner)[i]
                                                ELSE a[i]]

\* discover: the stopped ones are tagged ready, one by one, and those it could
\* not tag are left out; the others are followed as warming.  Nobody else
\* works on an instance that is in neither list, so one step stands for all.
Discover ==
    /\ poolAt = "discover" /\ poolAt' = "check"
    /\ LET stopped == {i \in PoolTagged : Shown(i) = "stopped"}
       IN  \E failed \in SUBSET stopped, done \in SUBSET stopped :
              /\ done \subseteq failed
              /\ Cardinality(failed) <= faults
              /\ faults' = faults - Cardinality(failed)
              /\ aws' = Ready(aws, (stopped \ failed) \cup done)
              /\ ready' = stopped \ failed
              /\ warming' = PoolTagged \ stopped
    /\ UNCHANGED <<listed, poolRest>>

\* checkReady, every readyCheckEvery passes.  It works through its listing
\* while launches claim.
CheckLists ==
    /\ poolAt = "check"
    /\ listed' = {<<i, Shown(i)>> : i \in {j \in ready : Shown(j) # "stopped"}}
    /\ poolAt' = IF listed' = {} THEN "refresh" ELSE "checking"
    /\ UNCHANGED <<aws, faults, ready, warming, poolRest>>

CheckSkipped ==
    /\ poolAt = "check" /\ poolAt' = "refresh"
    /\ UNCHANGED <<aws, faults, ready, warming, listed, poolRest>>

Checked(i, shown) ==
    /\ poolAt = "checking" /\ <<i, shown>> \in listed
    /\ listed' = listed \ {<<i, shown>>}
    /\ poolAt' = IF listed' = {} THEN "refresh" ELSE poolAt
    /\ UNCHANGED poolRest

MarkReady(i) ==
    \E done, ok \in BOOLEAN :
        /\ Call(done, ok)
        /\ aws' = IF done THEN Ready(aws, {i}) ELSE aws
        /\ IF ok THEN warming' = warming \ {i} /\ ready' = ready \cup {i}
                 ELSE UNCHANGED <<ready, warming>>

\* refresh; one warming longer than warmMax is discarded.
Refresh(i) ==
    /\ poolAt = "refresh" /\ i \in warming
    /\ \/ Shown(i) = "stopped" /\ MarkReady(i)
       \/ /\ Shown(i) = "gone"
          /\ warming' = warming \ {i}
          /\ UNCHANGED <<aws, faults, ready>>
       \/ /\ Shown(i) = "up"
          /\ \E ok \in BOOLEAN :
                /\ Discard(i, ok)
                /\ warming' = IF ok THEN warming \ {i} ELSE warming
          /\ UNCHANGED ready
    /\ UNCHANGED <<poolAt, listed, poolRest>>

\* Wrong: takes the listing for the pool as it is.
CheckStale(i) ==
    \/ /\ Checked(i, "gone")
       /\ aws' = SpotClosed(aws, i) /\ ready' = ready \ {i}
       /\ UNCHANGED <<faults, warming>>
    \/ /\ Checked(i, "up")
       /\ aws' = Tagged(aws, i, "warming", NoRunner)
       /\ ready' = ready \ {i} /\ warming' = warming \cup {i}
       /\ UNCHANGED faults

\* An instance that is not stopped any more leaves ready, unless a launch has
\* claimed it since the listing; the rewarm's retag may fail.
Check(i) ==
    \/ /\ \E shown \in {"up", "gone"} : Checked(i, shown)
       /\ i \notin ready
       /\ UNCHANGED <<aws, faults, ready, warming>>
    \/ /\ Checked(i, "gone") /\ i \in ready
       /\ \E done, ok \in BOOLEAN :
             Call(done, ok) /\ aws' = IF done THEN SpotClosed(aws, i) ELSE aws
       /\ ready' = ready \ {i} /\ UNCHANGED warming
    \/ /\ Checked(i, "up") /\ i \in ready
       /\ \E done, ok \in BOOLEAN :
             /\ Call(done, ok)
             /\ aws' = IF done THEN Tagged(aws, i, "warming", NoRunner) ELSE aws
       /\ ready' = ready \ {i} /\ warming' = warming \cup {i}

\* Wrong: leaves the warming ones out.
ShortOfReady == target > Cardinality(ready)

Short == target > Cardinality(ready) + Cardinality(warming)

\* fill: launch one if the pool is short, and look again after it; a backoff
\* or a failed AMI lookup ends the pass.
Fill ==
    \/ Short /\ poolAt' = "run"
    \/ poolAt' = "check"

RefreshDone ==
    /\ poolAt = "refresh"
    /\ IF Cardinality(ready) > target THEN poolAt' = "trim" ELSE Fill
    /\ UNCHANGED <<aws, faults, ready, warming, listed, poolRest>>

\* trim, by Run and by SetTarget; a failed discard gives the instance back
\* and ends the loop.
TrimEnds ==
    \/ poolAt = "trim" /\ Fill /\ UNCHANGED resizing
    \/ resizing /\ resizing' = FALSE /\ UNCHANGED poolAt

Trim(i) ==
    /\ poolAt = "trim" \/ resizing
    /\ Cardinality(ready) > target /\ i \in ready
    /\ \E ok \in BOOLEAN :
          /\ Discard(i, ok)
          /\ IF ok THEN ready' = ready \ {i} /\ UNCHANGED <<poolAt, resizing>>
                   ELSE TrimEnds /\ UNCHANGED ready
    /\ UNCHANGED <<surprises, gh, warming, target, listed, live, launchVars>>

TrimDone ==
    /\ Cardinality(ready) <= target
    /\ TrimEnds
    /\ UNCHANGED <<awsVars, ready, warming, target, listed, live, launchVars>>

SetTarget(n) ==
    /\ ~resizing /\ n # target
    /\ target' = n /\ resizing' = TRUE
    /\ UNCHANGED <<awsVars, ready, warming, poolAt, listed, live, launchVars>>

\* RunInstances; one AWS started but did not answer for is not followed.
FillRuns(i) ==
    /\ poolAt = "run" /\ aws[i].st = "none"
    /\ \E done, ok \in BOOLEAN :
          /\ Call(done, ok)
          /\ aws' = IF done THEN [aws EXCEPT ![i] = PoolInstance] ELSE aws
          /\ warming' = IF ok THEN warming \cup {i} ELSE warming
          /\ \/ poolAt' = "check"
             \/ ok /\ target > Cardinality(ready) + Cardinality(warming') /\ poolAt' = "run"
    /\ UNCHANGED <<surprises, gh, ready, target, listed, resizing, live, launchVars>>

PoolStep ==
    \/ Discover \/ Undescribed("discover", "check")
    \/ CheckLists \/ CheckSkipped \/ Undescribed("check", "refresh") \/ Undescribed("refresh", "trim")
    \/ RefreshDone
    \/ \E i \in Instances : Check(i) \/ Refresh(i) \/ FillRuns(i)
TrimStep == TrimDone \/ \E i \in Instances : Trim(i)
=============================================================================
