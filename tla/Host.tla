-------------------------------- MODULE Host ---------------------------------
(***************************************************************************)
(* One host of microVMs: Firecracker.Launch over the slots of ipam         *)
(* (internal/provisioner/firecracker.go, network.go), the identity each VM *)
(* has while it lives (internal/jobidentity/registry.go), and the capacity *)
(* the tiers that share the host advertise (Scheduler.Capacity).           *)
(*  pc[r]      where the launch of runner r is                             *)
(*  leased[r]  the registry's lease: absent, or what it knows of r's job   *)
(*  timer[r]   the connect watchdog's timer and its callback               *)
(*  record, device   on the host: identity files and taps; they outlive    *)
(*             the process, the rest does not                              *)
(***************************************************************************)
EXTENDS Integers, Sequences, FiniteSets, SequencesExt

CONSTANTS
    Tiers,
    TierMax,     \* a tier's Max
    PerTier,     \* how many launches a tier makes: a bound
    Slots,       \* network slots: a slot is a guest address and a tap
    NoSlot, NoRecord, NoDevice, HalfMade, Nobody, Unusable,
    MaxCrashes,  \* how often the process dies: a bound
    CommandsFail \* the host's ip commands can fail

ASSUME HostAssumption ==
    /\ CommandsFail \in BOOLEAN
    /\ {MaxCrashes, TierMax, PerTier} \subseteq Nat
    /\ IsFiniteSet(Slots) /\ IsFiniteSet(Tiers)
    /\ NoSlot \notin Slots
    /\ \A r \in Tiers \X (1..PerTier), rights \in {"pending", "granted", "refused"} :
          NoRecord # [gen |-> r, rights |-> rights]

\* A runner's name starts with its tier's, and is launched once.
Runners == Tiers \X (1..PerTier)

VARIABLES
    free,        \* ipam.free: released last, acquired first
    pc, slot, leased, asking, timer,
    connected, killed, cancelled,
    vmm,         \* a VM's process
    result,      \* what Launch returned
    record, device, crashes, up

process == <<free, pc, slot, leased, asking, timer, connected, killed,
             cancelled, vmm, result>>
watchdog == <<timer, connected, killed>>
disk == <<record, device>>
vars == <<process, disk, crashes, up>>

Places == {"idle", "pending", "entered", "register", "network", "boot",
           "arm", "wait", "unplug", "release", "returned", "gone"}
Holding == Places \ {"idle", "pending", "entered", "returned", "gone"}
Slotted(s) == {r \in Runners : slot[r] = s /\ pc[r] \in Holding}
Rights == {"pending", "granted", "refused"}
Device == {NoDevice, HalfMade} \cup Runners   \* a tap that is up names who made it

HostTypeOK ==
    /\ free \in Seq(Slots) /\ Len(free) <= Cardinality(Slots)
    /\ pc \in [Runners -> Places]
    /\ slot \in [Runners -> Slots \cup {NoSlot}]
    /\ leased \in [Runners -> Rights \cup {"absent"}]
    /\ timer \in [Runners -> {"off", "set", "fired", "killing"}]
    /\ vmm \in [Runners -> {"none", "running", "dead", "expired"}]
    /\ result \in [Runners -> {"none", "ok", "failed", "never"}]
    /\ \A flag \in {asking, connected, killed, cancelled} :
          flag \subseteq Runners
    /\ record \in [Slots -> [gen : Runners, rights : Rights] \cup {NoRecord}]
    /\ device \in [Slots -> Device]

Moves(r, from, to) == pc[r] = from /\ pc' = [pc EXCEPT ![r] = to]
Publish(s, r, rights) == [record EXCEPT ![s] = [gen |-> r, rights |-> rights]]

Forgotten(ended) ==
    /\ connected' = connected \ ended
    /\ killed' = killed \ ended /\ cancelled' = cancelled \ ended
    /\ vmm' = [r \in Runners |-> IF r \in ended THEN "none" ELSE vmm[r]]
    /\ result' = [r \in Runners |-> IF r \in ended THEN "none" ELSE result[r]]

-----------------------------------------------------------------------------
(* Slots and tiers.                                                        *)

PlacesOf(t) == {r \in Runners : r[1] = t /\ pc[r] \notin {"idle", "gone"}}
Pending(t) == {r \in PlacesOf(t) : pc[r] = "pending"}
AllPending == UNION {Pending(t) : t \in Tiers}
Least(i, j) == IF i < j THEN i ELSE j
Most(i, j) == IF i < j THEN j ELSE i

\* Wrong: forgets that launches of the other tiers are on their way to a slot.
HeadroomOfOne(t) == Most(0, Least(TierMax - Cardinality(PlacesOf(t)),
                                  Len(free) - Cardinality(Pending(t))))

Headroom(t) == Most(0, Least(TierMax - Cardinality(PlacesOf(t)),
                             Len(free) - Cardinality(AllPending)))

Committed(t) == {r \in PlacesOf(t) \ Pending(t) : r \notin cancelled}

Capacity(t) ==
    Cardinality(Committed(t)) + Least(Cardinality(Pending(t)), Len(free)) + Headroom(t)

\* Scheduler.commit, and launchOne up to Provisioner.Launch.
Commit(r) ==
    /\ Moves(r, "idle", "pending")
    /\ Cardinality(PlacesOf(r[1])) < TierMax
    /\ UNCHANGED <<free, slot, leased, asking, watchdog, cancelled, vmm, result, disk>>

Enter(r) ==
    /\ Moves(r, "pending", "entered")
    /\ UNCHANGED <<free, slot, leased, asking, watchdog, cancelled, vmm, result, disk>>

\* ipam.acquire is the first thing Launch does.
Acquire(r) ==
    /\ \/ /\ free # <<>>
          /\ Moves(r, "entered", "register")
          /\ slot' = [slot EXCEPT ![r] = Last(free)]
          /\ free' = Front(free)
          /\ UNCHANGED result
       \/ /\ free = <<>>
          /\ Moves(r, "entered", "returned")
          /\ result' = [result EXCEPT ![r] = "failed"]
          /\ UNCHANGED <<slot, free>>
    /\ UNCHANGED <<leased, asking, watchdog, cancelled, vmm, disk>>

\* The VM's place in its tier goes when launchOne finishes.
Gone(r) ==
    /\ Moves(r, "returned", "gone")
    /\ Forgotten({r})
    /\ UNCHANGED <<free, slot, leased, asking, timer, disk>>

\* The launch's ctx is cancelled: an idle VM goes, or the tier shuts down.
Cancel(r) ==
    /\ pc[r] \in Holding \ {"unplug", "release"} /\ r \notin cancelled
    /\ cancelled' = cancelled \cup {r}
    /\ UNCHANGED <<free, pc, slot, leased, asking, watchdog, vmm, result, disk>>

-----------------------------------------------------------------------------
(* The registry.                                                           *)

Register(r, ok) ==
    /\ LET taken == \E q \in Runners : leased[q] # "absent" /\ slot[q] = slot[r]
       IN IF ok /\ ~taken
          THEN /\ Moves(r, "register", "network")
               /\ leased' = [leased EXCEPT ![r] = "pending"]
               /\ record' = Publish(slot[r], r, "pending")
               /\ UNCHANGED result
          ELSE /\ Moves(r, "register", "release")
               /\ result' = [result EXCEPT ![r] = "failed"]
               /\ UNCHANGED <<leased, record>>
    /\ UNCHANGED <<free, slot, asking, watchdog, cancelled, vmm, device>>

\* GitHub says the runner's job started, at any time once it booted; the message
\* may be late.  What Start writes at once is still a pending record.
JobStarted(r) ==
    /\ leased[r] = "pending" /\ r \notin asking
    /\ pc[r] \in {"wait", "unplug", "release"}
    /\ asking' = asking \cup {r}
    /\ UNCHANGED <<free, pc, slot, leased, watchdog, cancelled, vmm, result, disk>>

\* Wrong: publishes whatever became of the lease.
AnyLease(r) == TRUE

\* The lease Start was called for is still the registry's.
OwnLease(r) == leased[r] # "absent"

\* Wrong: an answer that could not be written is as if there were none.
AskedAgain(rights, ok) == IF ok THEN rights ELSE "pending"

Settled(rights, ok) == IF ok THEN rights ELSE "refused"

\* The goroutine of Start has an answer, or gave up; its writes may fail.  What
\* is not granted is refused for good, in the file too unless that write fails.
Resolved(r, rights, ok) ==
    /\ r \in asking
    /\ asking' = asking \ {r}
    /\ IF OwnLease(r)
       THEN /\ leased' = [leased EXCEPT ![r] = Settled(rights, ok)]
            /\ \/ record' = Publish(slot[r], r, leased'[r])
               \/ ~ok /\ UNCHANGED record
       ELSE UNCHANGED <<leased, record>>
    /\ UNCHANGED <<free, pc, slot, watchdog, cancelled, vmm, result, device>>

\* A tick of the refresher writes each lease's record again.
Refresh(r) ==
    /\ leased[r] # "absent"
    /\ record' = Publish(slot[r], r, leased[r])
    /\ UNCHANGED <<process, device>>

\* Wrong: gives the address back although its record is still there.
ReleaseAnyway(r, ok) == Append(free, slot[r])

\* Launch's deferred function: without its record the slot goes back, else it
\* is quarantined.
SlotsAfter(r, ok) == IF ok THEN Append(free, slot[r]) ELSE free

Release(r, ok) ==
    /\ Moves(r, "release", "returned")
    /\ leased' = [leased EXCEPT ![r] = "absent"]
    /\ free' = SlotsAfter(r, ok)
    /\ IF leased[r] # "absent" /\ ok
       THEN record' = [record EXCEPT ![slot[r]] = NoRecord]
       ELSE UNCHANGED record
    /\ leased[r] = "absent" => ok
    /\ UNCHANGED <<slot, asking, watchdog, cancelled, vmm, result, device>>

-----------------------------------------------------------------------------
(* A launch, up to the boot.                                               *)

Fails(r, to) ==
    /\ pc' = [pc EXCEPT ![r] = to]
    /\ result' = [result EXCEPT ![r] = "failed"]

\* Wrong: takes a device that exists for its own.
AnyDevice(r) == TRUE

\* What the first command finds out.
NotThere(r) == device[slot[r]] = NoDevice

\* setupNet: a row of ip commands, the first of which makes the device and fails
\* when there is one.  A row that fails, or that ctx cuts short, is left as it is.
SetupNet(r, ok) ==
    /\ pc[r] = "network"
    /\ IF ok
       THEN /\ NotThere(r)
            /\ device' = [device EXCEPT ![slot[r]] = IF @ = NoDevice THEN r ELSE @]
            /\ Moves(r, "network", "boot")
            /\ UNCHANGED result
       ELSE /\ ~NotThere(r) \/ r \in cancelled \/ CommandsFail
            /\ \/ UNCHANGED device
               \/ /\ NotThere(r)
                  /\ device' = [device EXCEPT ![slot[r]] = HalfMade]
            /\ Fails(r, "release")
    /\ UNCHANGED <<free, slot, leased, asking, watchdog, cancelled, vmm, record>>

\* openConsole, prepare, cmd.Start, waitForSocket and configure; when one fails,
\* what the ones before it made is removed, a started process reaped.
Boot(r, ok) ==
    /\ IF ok THEN /\ Moves(r, "boot", "arm")
                  /\ vmm' = [vmm EXCEPT ![r] = "running"]
                  /\ UNCHANGED result
             ELSE /\ pc[r] = "boot" /\ Fails(r, "unplug")
                  /\ UNCHANGED vmm
    /\ UNCHANGED <<free, slot, leased, asking, watchdog, cancelled, disk>>

-----------------------------------------------------------------------------
(* The VM, its watchdog and its end.                                       *)

ArmedTimer(r) == IF r \in connected THEN "off" ELSE "set"

Arm(r) ==
    /\ Moves(r, "arm", "wait")
    /\ timer' = [timer EXCEPT ![r] = ArmedTimer(r)]
    /\ UNCHANGED <<free, slot, leased, asking, connected, killed,
                   cancelled, vmm, result, disk>>

\* timer.Stop: a callback already on its way still comes.
Disarmed(r) == [timer EXCEPT ![r] = IF timer[r] = "set" THEN "off" ELSE timer[r]]

\* The console shows a marker: markConnected.  cmd.Wait reads it to its end.
Connects(r) ==
    /\ vmm[r] # "none" /\ r \notin connected
    /\ connected' = connected \cup {r}
    /\ timer' = Disarmed(r)
    /\ UNCHANGED <<free, pc, slot, leased, asking, killed, cancelled,
                   vmm, result, disk>>

Fires(r) ==
    /\ timer[r] = "set"
    /\ timer' = [timer EXCEPT ![r] = "fired"]
    /\ UNCHANGED <<free, pc, slot, leased, asking, connected, killed,
                   cancelled, vmm, result, disk>>

\* Wrong: trusts timer.Stop.
FiredKills(r) == TRUE

\* The callback, under the lock: the flags decide, not timer.Stop's result.
\* A launch past "wait" has called stop.
MayKill(r) == r \notin connected /\ pc[r] = "wait"

Callback(r) ==
    /\ timer[r] = "fired"
    /\ IF MayKill(r)
       THEN killed' = killed \cup {r} /\ timer' = [timer EXCEPT ![r] = "killing"]
       ELSE timer' = [timer EXCEPT ![r] = "off"] /\ UNCHANGED killed
    /\ UNCHANGED <<free, pc, slot, leased, asking, connected,
                   cancelled, vmm, result, disk>>

Dies(r) == vmm' = [vmm EXCEPT ![r] = IF @ = "running" THEN "dead" ELSE @]

\* After the unlock; a process that has ended already is left alone by Kill.
Kills(r) ==
    /\ timer[r] = "killing"
    /\ timer' = [timer EXCEPT ![r] = "off"]
    /\ Dies(r)
    /\ UNCHANGED <<free, pc, slot, leased, asking, connected, killed,
                   cancelled, result, disk>>

\* Wrong: once the runner is connected its lifetime has no end.
WhileUnconnected(r) == r \notin connected

\* The lifetime's timer is stopped by nothing but the end of Launch.
Always(r) == TRUE

LifetimeEnds(r) ==
    /\ pc[r] = "wait" /\ vmm[r] = "running" /\ Always(r)
    /\ vmm' = [vmm EXCEPT ![r] = "expired"]
    /\ UNCHANGED <<free, pc, slot, leased, asking, watchdog, cancelled, result, disk>>

\* The guest powers off, the process falls over, or ctx kills it.
VMEnds(r) ==
    /\ vmm[r] = "running" /\ pc[r] = "wait"
    /\ Dies(r)
    /\ UNCHANGED <<free, pc, slot, leased, asking, watchdog, cancelled, result, disk>>

\* cmd.Wait returns, connect.stop, didKill, the lifetime's flag and
\* classifyLaunchExit: `early` is a non-zero exit within minBootRuntime.
WaitReturns(r, early) ==
    /\ vmm[r] # "running"
    /\ Moves(r, "wait", "unplug")
    /\ timer' = Disarmed(r)
    /\ result' = [result EXCEPT ![r] =
          IF r \in killed THEN "never"
          ELSE IF early /\ vmm[r] = "dead" /\ r \notin cancelled THEN "failed"
          ELSE "ok"]
    /\ connected' = connected \ {r} /\ vmm' = [vmm EXCEPT ![r] = "none"]
    /\ UNCHANGED <<free, slot, leased, asking, killed, cancelled, disk>>

\* teardownNet; its error is dropped.
Unplug(r, ok) ==
    /\ Moves(r, "unplug", "release")
    /\ IF ok THEN device' = [device EXCEPT ![slot[r]] = NoDevice]
             ELSE CommandsFail /\ UNCHANGED device
    /\ UNCHANGED <<free, slot, leased, asking, watchdog, cancelled, vmm,
                   result, record>>

-----------------------------------------------------------------------------
(* The process.                                                            *)

\* Its VMs die with it; the launches it had are gone.
Crash ==
    /\ up /\ crashes < MaxCrashes
    /\ up' = FALSE /\ crashes' = crashes + 1
    /\ pc' = [r \in Runners |-> IF pc[r] = "idle" THEN "idle" ELSE "gone"]
    /\ Forgotten(Runners)
    /\ leased' = [r \in Runners |-> "absent"]
    /\ timer' = [r \in Runners |-> "off"]
    /\ asking' = {} /\ free' = <<>>
    /\ UNCHANGED <<slot, disk>>

NoRecords == [s \in Slots |-> NoRecord]

AllFree == SetToSeq(Slots)

\* NewRegistry removes every record or fails, newIPAM has every slot free, and
\* CleanupStale removes what it finds, but for a device that will not go.
Restart ==
    /\ ~up /\ up' = TRUE
    /\ record' = NoRecords
    /\ free' = AllFree
    /\ \E kept \in SUBSET {s \in Slots : CommandsFail /\ device[s] # NoDevice} :
          device' = [s \in Slots |-> IF s \in kept THEN device[s] ELSE NoDevice]
    /\ UNCHANGED <<pc, slot, leased, asking, watchdog, cancelled, vmm,
                   result, crashes>>

Init ==
    /\ free = AllFree
    /\ pc = [r \in Runners |-> "idle"]
    /\ slot = [r \in Runners |-> NoSlot]
    /\ leased = [r \in Runners |-> "absent"]
    /\ timer = [r \in Runners |-> "off"]
    /\ asking = {} /\ connected = {} /\ killed = {}
    /\ cancelled = {}
    /\ vmm = [r \in Runners |-> "none"]
    /\ result = [r \in Runners |-> "none"]
    /\ record = NoRecords
    /\ device = [s \in Slots |-> NoDevice]
    /\ crashes = 0 /\ up = TRUE

\* What the goroutine of a launch does by itself.
LaunchSteps(r) ==
    \/ Enter(r) \/ Acquire(r) \/ Arm(r) \/ Gone(r)
    \/ \E ok \in BOOLEAN :
          \/ Register(r, ok) \/ SetupNet(r, ok) \/ Boot(r, ok)
          \/ WaitReturns(r, ok) \/ Unplug(r, ok) \/ Release(r, ok)

WatchdogSteps(r) == Fires(r) \/ Callback(r) \/ Kills(r)

RegistrySteps(r) ==
    \/ \E ok \in BOOLEAN, rights \in {"granted", "refused"} : Resolved(r, rights, ok)
    \/ Refresh(r)

Next ==
    \/ /\ up /\ UNCHANGED <<crashes, up>>
       /\ \E r \in Runners :
             \/ Commit(r) \/ LaunchSteps(r) \/ WatchdogSteps(r) \/ RegistrySteps(r)
             \/ Cancel(r) \/ JobStarted(r) \/ Connects(r) \/ VMEnds(r) \/ LifetimeEnds(r)
    \/ Crash \/ Restart

Spec == Init /\ [][Next]_vars

\* Launch goes on while the process is up; Start's goroutine ends, if only by its
\* 30 s; the refresher's writes succeed at last.
Fairness ==
    \A r \in Runners :
        /\ WF_vars(up /\ LaunchSteps(r) /\ UNCHANGED <<crashes, up>>)
        /\ WF_vars(up /\ RegistrySteps(r) /\ UNCHANGED <<crashes, up>>)

FairSpec == Spec /\ Fairness

\* MaxVMLifetime is set: its timer fires.
Lifetimes == \A r \in Runners : WF_vars(up /\ LifetimeEnds(r) /\ UNCHANGED <<crashes, up>>)

-----------------------------------------------------------------------------
(* Properties.                                                             *)

FreeSlots == Range(free)

\* Who uses a slot's address, as Leases has it.
Occupant ==
    [s \in Slots |->
        CASE ~up -> Unusable
          [] up /\ Slotted(s) # {} -> CHOOSE r \in Slotted(s) : TRUE
          [] up /\ Slotted(s) = {} -> IF s \in FreeSlots THEN Nobody ELSE Unusable]

Addresses == INSTANCE Leases WITH
    Addrs <- Slots,
    occupant <- Occupant,
    past <- {r \in Runners : slot[r] # NoSlot}

\* One VM per address; the identity published there is its own and once
\* answered stays so; a resolution that comes late publishes nothing; an address
\* whose record could not be removed is not used again.
ImplementsLeases == Addresses!LeasesSpec

\* A slot is free once, held by one VM, or kept back because a record is left
\* at its address: none gets lost on the way out of Launch.
SlotsAccounted ==
    up => /\ IsInjective(free)
          /\ \A s \in Slots :
                /\ Cardinality(Slotted(s)) <= 1
                /\ s \in FreeSlots <=> Slotted(s) = {} /\ record[s] = NoRecord

\* A VM runs on the device its own launch made, never on one left behind.
OwnDevice == \A r \in Runners : vmm[r] = "running" => device[slot[r]] = r

\* A free slot has no device: what is left of a launch is reaped before its slot
\* goes back.
FreeSlotsClean == up => \A s \in FreeSlots : device[s] = NoDevice

\* The watchdog's verdict is right when it is given and stands after it: a VM
\* that registered first is not condemned, however late the callback gets the
\* lock, and what Launch reported is never contradicted by a kill.
VerdictStands ==
    /\ [][ killed' \cap connected \subseteq killed ]_vars
    /\ [](\A r \in Runners : result[r] = "ok" => r \notin killed)

\* What a tier advertises fits the host: beyond its VMs that have a slot, or are
\* between two counts, it counts each free slot once, leaving those that other
\* tiers' pending launches will draw; and it hides no slot nobody is going to draw.
CapacityFits ==
    up => \A t \in Tiers :
        LET there  == Cardinality({r \in Committed(t) : pc[r] \in Holding})
            counts == Cardinality({r \in Committed(t) : pc[r] \in {"entered", "returned"}})
            spoken == Cardinality(AllPending \ Pending(t))
            extra  == Capacity(t) - there - counts
        IN /\ Capacity(t) <= TierMax
           /\ extra <= Len(free)
           /\ extra > Cardinality(Pending(t)) => extra + spoken <= Len(free)
           /\ Cardinality(PlacesOf(t)) < TierMax /\ Len(free) > Cardinality(AllPending)
              => extra > Cardinality(Pending(t))

\* With a lifetime a launch ends, whatever its guest does, and its slot does not
\* stay with it.
LaunchEnds ==
    Lifetimes => \A r \in Runners : pc[r] = "entered" ~> pc[r] \in {"returned", "gone"}

\* The cache does not wait for ever for the rights of a job whose resolution gave
\* up, when the write that says so failed too.
PendingEnds ==
    \A r \in Runners :
        r \in asking ~> \/ \A s \in Slots : record[s] # [gen |-> r, rights |-> "pending"]
                         \/ leased[r] = "absent"
=============================================================================
