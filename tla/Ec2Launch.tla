------------------------------ MODULE Ec2Launch ------------------------------
(***************************************************************************)
(* Launch on EC2 (internal/ec2/provisioner.go, and claim of pool.go): a    *)
(* launch claims a ready pool instance, or runs a cold one, gives it its   *)
(* config through the JIT server, and waits until the instance is gone.    *)
(***************************************************************************)
EXTENDS Ec2Pool

Goes(r, place) == at' = [at EXCEPT ![r] = place]

\* A launch ends: untrack and Revoke are deferred from where they apply.
Ends(r) ==
    /\ Goes(r, "idle")
    /\ hand' = [hand EXCEPT ![r] = NoInst]
    /\ live' = live \ {hand[r]}
    /\ config' = IF hand[r] = NoInst THEN config ELSE [config EXCEPT ![hand[r]] = "none"]
    /\ awaitStart' = awaitStart \ {r}
    /\ terminating' = terminating \ {r} /\ spotLeft' = spotLeft \ {r}

\* The instance goes out of hand and the launch goes on at place.
LetsGo(r, place) ==
    /\ Goes(r, place)
    /\ hand' = [hand EXCEPT ![r] = NoInst]
    /\ live' = live \ {hand[r]}

waiters == <<awaitStart, terminating, spotLeft>>

\* A call made with the launch's ctx also fails when the scheduler has ended
\* that, which it may do at any time; such failures need no bound.
Fails == UNCHANGED faults

-----------------------------------------------------------------------------
(* A launch, with a name nothing alive carries.                            *)

Begin(r) ==
    /\ at[r] = "idle"
    /\ \A i \in Alive : aws[i].runner # r
    /\ gh' = [gh EXCEPT ![r] = "idle"]
    /\ Goes(r, "claim")
    /\ UNCHANGED <<aws, faults, surprises, poolVars, live, config, hand, waiters>>

\* claim takes a ready instance and tracks it, finds none, or ends with ctx.
Claim(r) ==
    /\ at[r] = "claim"
    /\ \E i \in ready :
          /\ ready' = ready \ {i}
          /\ hand' = [hand EXCEPT ![r] = i]
          /\ live' = live \cup {i}
    /\ Goes(r, "prepare")
    /\ UNCHANGED <<awsVars, warming, target, poolAt, listed, resizing, config, waiters>>

ClaimEmpty(r) ==
    /\ at[r] = "claim" /\ ready = {}
    /\ Goes(r, "cold")
    /\ UNCHANGED <<awsVars, poolVars, live, config, hand, waiters>>

ClaimCancelled(r) ==
    /\ at[r] = "claim"
    /\ Ends(r)
    /\ UNCHANGED <<awsVars, poolVars>>

\* Tag claimed, write the user-data, register the config.  An instance that is
\* not stopped refuses the user-data; any other error, a cancelled ctx among
\* them, leaves the tags as they came to be.  Register refuses an address that
\* its last holder, an instance AWS has ended, has not let go of yet.
Prepare(r) ==
    LET i == hand[r]
        claimed == Tagged(aws, i, "claimed", r)
    IN  /\ at[r] = "prepare"
        /\ \/ /\ Fails /\ aws' \in {aws, claimed}
              /\ Goes(r, "requeue") /\ UNCHANGED config
           \/ /\ Fails /\ aws' = claimed
              /\ Goes(r, "retag") /\ UNCHANGED config
           \/ /\ Shown(i) # "stopped" \/ aws[i].st = "starting"
              /\ aws' = claimed /\ UNCHANGED <<faults, config>>
              /\ Goes(r, "rewarm")
           \/ /\ aws[i].st = "gone"
              /\ UNCHANGED <<aws, faults, config>>
              /\ Goes(r, "discard")
           \/ /\ aws[i].st = "stopped" /\ config[i] = "none"
              /\ aws' = claimed /\ UNCHANGED faults
              /\ \/ config' = [config EXCEPT ![i] = "held"] /\ Goes(r, "start")
                 \/ UNCHANGED config /\ Goes(r, "refused")
        /\ UNCHANGED <<surprises, gh, poolVars, live, hand, waiters>>

Rewarm(r) ==
    /\ at[r] = "rewarm"
    /\ \E done, ok \in BOOLEAN :
          /\ Call(done, ok)
          /\ aws' = IF done THEN Tagged(aws, hand[r], "warming", NoRunner) ELSE aws
    /\ warming' = warming \cup {hand[r]}
    /\ LetsGo(r, "claim")
    /\ UNCHANGED <<surprises, gh, ready, target, poolAt, listed, resizing, config, waiters>>

\* An instance that is gone: claim tries the next one.
ClaimDiscards(r) ==
    /\ at[r] = "discard"
    /\ \E ok \in BOOLEAN : Discard(hand[r], ok)
    /\ LetsGo(r, "claim")
    /\ UNCHANGED <<surprises, gh, poolVars, config, waiters>>

\* Wrong: lets go of the instance first.
RequeueUntracked(r) ==
    /\ at[r] = "requeue"
    /\ LetsGo(r, "cold")
    /\ ready' = ready \cup {hand'[r]}
    /\ UNCHANGED <<awsVars, warming, target, poolAt, listed, resizing, config, waiters>>

\* The CreateTags of prepare failed: the instance goes back as it is.
Requeue(r) ==
    /\ at[r] = "requeue"
    /\ ready' = ready \cup {hand[r]}
    /\ LetsGo(r, "cold")
    /\ UNCHANGED <<awsVars, warming, target, poolAt, listed, resizing, config, waiters>>

\* It was tagged: first tag it ready again, or leave it to the reaper.
RequeueTagged(r) ==
    /\ at[r] = "retag"
    /\ \E done, ok \in BOOLEAN :
          /\ Call(done, ok)
          /\ aws' = IF done THEN Tagged(aws, hand[r], "ready", NoRunner) ELSE aws
          /\ ready' = IF ok THEN ready \cup {hand[r]} ELSE ready
    /\ LetsGo(r, "cold")
    /\ UNCHANGED <<surprises, gh, warming, target, poolAt, listed, resizing, config, waiters>>

\* ErrRegistered: discard the instance, and no cold launch takes its place.
RegisterRefused(r) ==
    /\ at[r] = "refused"
    /\ \E ok \in BOOLEAN : Discard(hand[r], ok)
    /\ Ends(r)
    /\ UNCHANGED <<surprises, gh, poolVars>>

StartInstances(r) ==
    /\ at[r] = "start"
    /\ LET i == hand[r]
           started == IF aws[i].st = "stopped" /\ Startable(i) THEN Started(aws, i) ELSE aws
       IN  \/ Startable(i) /\ aws' = started /\ UNCHANGED faults /\ Goes(r, "spot")
           \/ Fails /\ aws' \in {aws, started} /\ Goes(r, "unstarted")
           \/ ~Startable(i) /\ UNCHANGED <<aws, faults>> /\ Goes(r, "unstarted")
    /\ UNCHANGED <<surprises, gh, poolVars, live, config, hand, waiters>>

\* Discard it and start cold with the same name.
Unstarted(r) ==
    /\ at[r] = "unstarted"
    /\ \E ok \in BOOLEAN : Discard(hand[r], ok)
    /\ config' = [config EXCEPT ![hand[r]] = "none"]
    /\ LetsGo(r, "cold")
    /\ UNCHANGED <<surprises, gh, poolVars, waiters>>

\* The request is released once the instance runs; left over if that fails.
CancelSpot(r) ==
    /\ at[r] = "spot"
    /\ \E done, ok \in BOOLEAN :
          /\ Call(done, ok)
          /\ aws' = IF done THEN SpotClosed(aws, hand[r]) ELSE aws
          /\ spotLeft' = IF ok THEN spotLeft ELSE spotLeft \cup {r}
    /\ awaitStart' = awaitStart \cup {r}
    /\ Goes(r, "wait")
    /\ UNCHANGED <<surprises, gh, poolVars, live, config, hand, terminating>>

-----------------------------------------------------------------------------
(* A cold launch.                                                          *)

\* RunInstances, track and Register; an instance AWS did not answer for is
\* nobody's.  One whose address cannot be found is terminated (abort).
Cold(r) ==
    /\ at[r] = "cold"
    /\ \E i \in Instances :
          LET launched == [aws EXCEPT ![i] = ColdInstance(r)]
              tracked == /\ hand' = [hand EXCEPT ![r] = i] /\ live' = live \cup {i}
                         /\ Goes(r, "wait")
          IN  /\ aws[i].st = "none"
              /\ \/ /\ aws' = launched /\ UNCHANGED faults
                    /\ config' = [config EXCEPT ![i] = "held"]
                    /\ tracked /\ UNCHANGED waiters
                 \/ /\ Fails /\ aws' \in {launched, Terminated(launched, i)}
                    /\ terminating' = terminating \cup {r}
                    /\ tracked /\ UNCHANGED <<config, awaitStart, spotLeft>>
                 \/ /\ Fails /\ aws' \in {aws, launched}
                    /\ Ends(r)
    /\ UNCHANGED <<surprises, gh, poolVars>>

ColdRefused(r) ==
    /\ at[r] = "cold"
    /\ Ends(r)
    /\ UNCHANGED <<awsVars, poolVars>>

-----------------------------------------------------------------------------
(* The waiter.                                                             *)

\* Wrong: does not cancel the request first.
TerminateFirst(r) ==
    /\ terminating' = terminating \cup {r}
    /\ \/ aws' = Terminated(aws, hand[r]) /\ UNCHANGED faults
       \/ Call(FALSE, FALSE) /\ aws' \in {aws, Terminated(aws, hand[r])}
    /\ UNCHANGED spotLeft

\* The request is cancelled before the instance is terminated, if it is left.
Terminate(r) ==
    LET i == hand[r]
        closed == IF r \in spotLeft THEN SpotClosed(aws, i) ELSE aws
    IN  /\ terminating' = terminating \cup {r}
        /\ \/ /\ aws' = Terminated(closed, i) /\ UNCHANGED faults
              /\ spotLeft' = spotLeft \ {r}
           \/ /\ Call(FALSE, FALSE)
              /\ \/ r \in spotLeft /\ aws' \in {aws, closed} /\ UNCHANGED spotLeft
                 \/ aws' \in {closed, Terminated(closed, i)} /\ spotLeft' = spotLeft \ {r}

\* The retry of an earlier request; "runner removed while idle"; "jit config
\* expired unclaimed"; "instance stopped", once it has been seen running.  That
\* ctx ends only while the guest has no job is no doing of this code: it is what
\* Scheduler's BusyNeverCancelled and Removal's JobNeverStranded say of who ends it.
WaitTerminates(r) ==
    /\ at[r] = "wait"
    /\ \/ r \in terminating
       \/ aws[hand[r]].guest # "job"
       \/ config[hand[r]] = "expired"
       \/ Shown(hand[r]) = "stopped" /\ r \notin awaitStart
    /\ Terminate(r)
    /\ UNCHANGED <<surprises, gh, poolVars, live, config, at, hand, awaitStart>>

WaitSeesRunning(r) ==
    /\ at[r] = "wait" /\ r \in awaitStart /\ Shown(hand[r]) = "up"
    /\ awaitStart' = awaitStart \ {r}
    /\ UNCHANGED <<awsVars, poolVars, live, config, at, hand, terminating, spotLeft>>

\* The instance is gone, or terminateWait is over.
WaitEnds(r) ==
    /\ at[r] = "wait"
    /\ Shown(hand[r]) = "gone" \/ r \in terminating
    /\ Ends(r)
    /\ UNCHANGED <<awsVars, poolVars>>

-----------------------------------------------------------------------------
(* The JIT server: claim serves a config once, to its own address.         *)

Fetch(i) ==
    /\ aws[i].st = "up" /\ aws[i].guest = "none"
    /\ config[i] = "held"
    /\ config' = [config EXCEPT ![i] = "served"]
    /\ aws' = [aws EXCEPT ![i].guest = "runner"]
    /\ UNCHANGED <<faults, surprises, gh, poolVars, live, at, hand, waiters>>

\* DefaultTTL passes unfetched.
Expires(i) ==
    /\ config[i] = "held"
    /\ config' = [config EXCEPT ![i] = "expired"]
    /\ UNCHANGED <<awsVars, poolVars, live, at, hand, waiters>>

LaunchStep(r) ==
    \/ Claim(r) \/ ClaimEmpty(r) \/ ClaimCancelled(r) \/ Prepare(r)
    \/ Rewarm(r) \/ ClaimDiscards(r) \/ Requeue(r) \/ RequeueTagged(r)
    \/ RegisterRefused(r) \/ StartInstances(r) \/ Unstarted(r) \/ CancelSpot(r)
    \/ Cold(r) \/ ColdRefused(r)
    \/ WaitTerminates(r) \/ WaitSeesRunning(r) \/ WaitEnds(r)
=============================================================================
