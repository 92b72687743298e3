------------------------------ MODULE HostProofs ------------------------------
(***************************************************************************)
(* Theorems about Host.tla, for any numbers of slots, tiers, launches and  *)
(* crashes.                                                                *)
(***************************************************************************)
EXTENDS Host, FiniteSetTheorems, TLAPS

-----------------------------------------------------------------------------
(* Types.  That the stack of free slots is not longer than there are slots *)
(* follows from its being without repetition, below.                       *)

Types ==
    /\ free \in Seq(Slots)
    /\ pc \in [Runners -> Places]
    /\ slot \in [Runners -> Slots \cup {NoSlot}]
    /\ leased \in [Runners -> Rights \cup {"absent"}]
    /\ timer \in [Runners -> {"off", "set", "fired", "killing"}]
    /\ vmm \in [Runners -> {"none", "running", "dead", "expired"}]
    /\ result \in [Runners -> {"none", "ok", "failed", "never"}]
    /\ asking \subseteq Runners /\ connected \subseteq Runners
    /\ killed \subseteq Runners /\ cancelled \subseteq Runners
    /\ record \in [Slots -> [gen : Runners, rights : Rights] \cup {NoRecord}]
    /\ device \in [Slots -> Device]
    /\ up \in BOOLEAN

\* What a launch that is past its acquire has: a slot of the host.
HasSlot ==
    \A r \in Runners :
        /\ pc[r] \in Holding => slot[r] \in Slots
        /\ pc[r] \in {"idle", "pending", "entered"} => slot[r] = NoSlot
        /\ leased[r] # "absent" => pc[r] \in Holding

\* newIPAM lists every slot once.
LEMMA AllFreeFacts ==
  AllFree \in Seq(Slots) /\ IsInjective(AllFree) /\ Range(AllFree) = Slots
<1> DEFINE n == Cardinality(Slots)
<1>1. IsFiniteSet(Slots) /\ n \in Nat /\ ExistsBijection(1..n, Slots)
  BY HostAssumption, FS_CardinalityType
<1>2. \E f \in [1..n -> Slots] : IsInjective(f)
  BY <1>1 DEF ExistsBijection, Bijection, Injection
<1>3. AllFree \in [1..n -> Slots] /\ IsInjective(AllFree)
  BY <1>2 DEF AllFree, SetToSeq
<1>4. AllFree \in Injection(1..n, Slots)
  BY <1>3 DEF Injection
<1>5. IsFiniteSet(1..n) /\ Cardinality(1..n) = n
  BY <1>1, FS_Interval
<1>6. AllFree \in Surjection(1..n, Slots)
  BY <1>1, <1>4, <1>5, FS_Injection
<1> QED
  BY <1>1, <1>3, <1>6 DEF Surjection, Range

\* A stack without repetition is no longer than there are slots.
LEMMA FreeBounded ==
  ASSUME NEW q \in Seq(Slots), IsInjective(q)
  PROVE  Len(q) <= Cardinality(Slots)
<1>1. q \in Injection(1..Len(q), Slots)
  BY DEF Injection
<1>2. IsFiniteSet(1..Len(q)) /\ Cardinality(1..Len(q)) = Len(q)
  <2>1. Len(q) \in Nat
    OBVIOUS
  <2> QED
    BY <2>1, FS_Interval
<1> QED
  BY <1>1, <1>2, HostAssumption, FS_Injection

\* What a runner's launch, VM, watchdog and lease do.
RunnerSteps(r) ==
    \/ Commit(r) \/ LaunchSteps(r) \/ WatchdogSteps(r) \/ RegistrySteps(r)
    \/ Cancel(r) \/ JobStarted(r) \/ Connects(r) \/ VMEnds(r) \/ LifetimeEnds(r)

TypeInv == Types /\ HasSlot

LEMMA InitTypes == Init => TypeInv
<1> SUFFICES ASSUME Init PROVE TypeInv
  OBVIOUS
<1>1. AllFree \in Seq(Slots)
  BY AllFreeFacts
<1> QED
  BY <1>1 DEF Init, TypeInv, Types, HasSlot, Places, Holding, Rights, NoRecords, Device

\* A launch that has a slot keeps it as it goes on.
LEMMA GoesOn ==
  ASSUME TypeInv, NEW r \in Runners, NEW to \in Holding,
         pc[r] \in Holding, pc' = [pc EXCEPT ![r] = to], UNCHANGED <<slot, leased>>
  PROVE  HasSlot' /\ pc' \in [Runners -> Places]
<1>1. to \in Places /\ to \notin {"idle", "pending", "entered"}
  BY DEF Holding
<1> QED
  BY <1>1 DEF TypeInv, Types, HasSlot

\* Commit to Acquire, and the end of launchOne.
LEMMA TierTypes ==
  ASSUME TypeInv, NEW r \in Runners, UNCHANGED up,
         Commit(r) \/ Enter(r) \/ Acquire(r) \/ Gone(r) \/ Cancel(r)
  PROVE  TypeInv'
<1> USE DEF TypeInv, Types, HasSlot, Moves, disk, watchdog
<1>1. CASE Commit(r) \/ Enter(r)
  BY <1>1 DEF Commit, Enter, Places, Holding
<1>2. CASE Acquire(r)
  <2>1. CASE free = <<>>
    BY <1>2, <2>1 DEF Acquire, Places, Holding
  <2>2. CASE free # <<>>
    <3>1. Last(free) \in Slots /\ Front(free) \in Seq(Slots)
      BY <2>2 DEF Last, Front
    <3> QED
      BY <1>2, <2>2, <3>1 DEF Acquire, Places, Holding
  <2> QED
    BY <2>1, <2>2
<1>3. CASE Gone(r)
  BY <1>3 DEF Gone, Forgotten, Places, Holding
<1>4. CASE Cancel(r)
  BY <1>4 DEF Cancel
<1> QED
  BY <1>1, <1>2, <1>3, <1>4

\* The registry's steps.
LEMMA RegistryTypes ==
  ASSUME TypeInv, NEW r \in Runners, UNCHANGED up,
         \/ \E ok \in BOOLEAN : Register(r, ok) \/ Release(r, ok)
         \/ JobStarted(r) \/ RegistrySteps(r)
  PROVE  TypeInv'
<1> USE DEF TypeInv, Types, HasSlot, Moves, disk, watchdog, Publish, Rights
<1>1. ASSUME NEW ok \in BOOLEAN, Register(r, ok) PROVE TypeInv'
  <2>1. slot[r] \in Slots /\ {"register", "network", "release"} \subseteq Holding
    BY <1>1 DEF Register, Holding, Places
  <2>2. pc' \in [Runners -> Places] /\ HasSlot'
    BY <1>1, <2>1 DEF Register, Holding
  <2> QED
    BY <1>1, <2>1, <2>2 DEF Register
<1>2. ASSUME NEW ok \in BOOLEAN, Release(r, ok) PROVE TypeInv'
  <2>1. slot[r] \in Slots
    BY <1>2 DEF Release, Holding, Places
  <2>2. SlotsAfter(r, ok) \in Seq(Slots)
    BY <2>1 DEF SlotsAfter
  <2> QED
    BY <1>2, <2>1, <2>2 DEF Release, Places, Holding
<1>3. CASE JobStarted(r)
  BY <1>3 DEF JobStarted
<1>4. ASSUME NEW ok \in BOOLEAN, NEW rights \in {"granted", "refused"}, Resolved(r, rights, ok)
      PROVE  TypeInv'
  BY <1>4 DEF Resolved, OwnLease, Settled
<1>5. CASE Refresh(r)
  BY <1>5 DEF Refresh, process
<1> QED
  BY <1>1, <1>2, <1>3, <1>4, <1>5 DEF RegistrySteps

\* The rest of Launch, the VM and its watchdog.
LEMMA VMTypes ==
  ASSUME TypeInv, NEW r \in Runners, UNCHANGED up,
         \/ \E ok \in BOOLEAN : SetupNet(r, ok) \/ Boot(r, ok) \/ WaitReturns(r, ok) \/ Unplug(r, ok)
         \/ Arm(r) \/ WatchdogSteps(r) \/ Connects(r) \/ VMEnds(r) \/ LifetimeEnds(r)
  PROVE  TypeInv'
<1> USE DEF Moves, disk, watchdog
<1>0. {"network", "boot", "arm", "wait", "unplug", "release"} \subseteq Holding
  BY DEF Holding, Places
<1>1. ASSUME NEW ok \in BOOLEAN, SetupNet(r, ok) PROVE TypeInv'
  <2>1. HasSlot' /\ pc' \in [Runners -> Places]
    BY <1>0, <1>1, GoesOn DEF SetupNet, Fails
  <2> QED
    BY <1>1, <2>1 DEF SetupNet, Fails, Device, TypeInv, Types
<1>2. ASSUME NEW ok \in BOOLEAN, Boot(r, ok) PROVE TypeInv'
  <2>1. HasSlot' /\ pc' \in [Runners -> Places]
    BY <1>0, <1>2, GoesOn DEF Boot, Fails
  <2> QED
    BY <1>2, <2>1 DEF Boot, Fails, TypeInv, Types
<1>3. ASSUME NEW ok \in BOOLEAN, WaitReturns(r, ok) PROVE TypeInv'
  <2>1. HasSlot' /\ pc' \in [Runners -> Places]
    BY <1>0, <1>3, GoesOn DEF WaitReturns
  <2> QED
    BY <1>3, <2>1 DEF WaitReturns, Disarmed, TypeInv, Types
<1>4. ASSUME NEW ok \in BOOLEAN, Unplug(r, ok) PROVE TypeInv'
  <2>1. HasSlot' /\ pc' \in [Runners -> Places]
    BY <1>0, <1>4, GoesOn DEF Unplug
  <2> QED
    BY <1>4, <2>1 DEF Unplug, Device, TypeInv, Types
<1>5. CASE Arm(r)
  <2>1. HasSlot' /\ pc' \in [Runners -> Places]
    BY <1>0, <1>5, GoesOn DEF Arm
  <2> QED
    BY <1>5, <2>1 DEF Arm, ArmedTimer, TypeInv, Types
<1>6. CASE WatchdogSteps(r)
  BY <1>6 DEF WatchdogSteps, Fires, Callback, Kills, Dies, TypeInv, Types, HasSlot
<1>7. CASE Connects(r) \/ VMEnds(r) \/ LifetimeEnds(r)
  BY <1>7 DEF Connects, VMEnds, LifetimeEnds, Dies, Disarmed, TypeInv, Types, HasSlot
<1> QED
  BY <1>1, <1>2, <1>3, <1>4, <1>5, <1>6, <1>7

LEMMA NextTypes == TypeInv /\ [Next]_vars => TypeInv'
<1> SUFFICES ASSUME TypeInv, [Next]_vars PROVE TypeInv'
  OBVIOUS
<1>1. CASE UNCHANGED vars
  BY <1>1 DEF vars, process, disk, TypeInv, Types, HasSlot
<1>2. CASE Crash
  <2>1. /\ pc' \in [Runners -> Places]
        /\ \A r \in Runners : pc'[r] # "gone" => pc[r] = "idle" /\ pc'[r] = "idle"
    BY <1>2 DEF Crash, Places
  <2>2. HasSlot'
    <3>1. \A r \in Runners : leased'[r] = "absent" /\ slot'[r] = slot[r]
      BY <1>2 DEF Crash
    <3>2. "gone" \notin Holding /\ "idle" \notin Holding
      BY DEF Holding
    <3> QED
      BY <2>1, <3>1, <3>2 DEF TypeInv, HasSlot
  <2> QED
    <3>1. /\ leased' \in [Runners -> Rights \cup {"absent"}]
          /\ timer' \in [Runners -> {"off", "set", "fired", "killing"}]
          /\ free' \in Seq(Slots) /\ asking' = {} /\ up' = FALSE
      BY <1>2 DEF Crash
    <3>2. /\ vmm' \in [Runners -> {"none", "running", "dead", "expired"}]
          /\ result' \in [Runners -> {"none", "ok", "failed", "never"}]
      BY <1>2 DEF Crash, Forgotten, TypeInv, Types
    <3>3. UNCHANGED <<slot, record, device>> /\ connected' = {} /\ killed' = {} /\ cancelled' = {}
      BY <1>2 DEF Crash, Forgotten, disk, TypeInv, Types
    <3> QED
      BY <2>1, <2>2, <3>1, <3>2, <3>3 DEF TypeInv, Types
<1>3. CASE Restart
  BY <1>3, AllFreeFacts DEF Restart, watchdog, NoRecords, TypeInv, Types, HasSlot, Device
<1>4. ASSUME up, UNCHANGED <<crashes, up>>, NEW r \in Runners, RunnerSteps(r)
      PROVE  TypeInv'
  BY <1>4, TierTypes, RegistryTypes, VMTypes DEF RunnerSteps, LaunchSteps
<1> QED
  BY <1>1, <1>2, <1>3, <1>4 DEF Next, RunnerSteps

-----------------------------------------------------------------------------
(* Slots.                                                                  *)

LEMMA PopFacts ==
  ASSUME NEW q \in Seq(Slots), q # <<>>, IsInjective(q)
  PROVE  /\ Front(q) \in Seq(Slots) /\ IsInjective(Front(q))
         /\ Last(q) \in Slots /\ Last(q) \in Range(q)
         /\ Range(Front(q)) = Range(q) \ {Last(q)}
<1>1. Len(q) \in Nat \ {0} /\ DOMAIN q = 1..Len(q)
  OBVIOUS
<1>2. /\ Front(q) \in Seq(Slots) /\ DOMAIN Front(q) = 1..Len(q) - 1
      /\ \A i \in 1..Len(q) - 1 : Front(q)[i] = q[i]
  BY <1>1 DEF Front
<1>3. Last(q) = q[Len(q)] /\ Len(q) \in DOMAIN q
  BY <1>1 DEF Last
<1>4. IsInjective(Front(q))
  BY <1>1, <1>2 DEF IsInjective
<1>5. \A i \in 1..Len(q) - 1 : q[i] # q[Len(q)]
  BY <1>1, <1>3 DEF IsInjective
<1> QED
  BY <1>1, <1>2, <1>3, <1>4, <1>5 DEF Range

LEMMA PushFacts ==
  ASSUME NEW q \in Seq(Slots), IsInjective(q), NEW s \in Slots, s \notin Range(q)
  PROVE  IsInjective(Append(q, s)) /\ Range(Append(q, s)) = Range(q) \cup {s}
<1>1. /\ DOMAIN q = 1..Len(q) /\ Len(q) \in Nat
      /\ DOMAIN Append(q, s) = 1..Len(q) + 1
      /\ \A i \in 1..Len(q) : Append(q, s)[i] = q[i]
      /\ Append(q, s)[Len(q) + 1] = s
  OBVIOUS
<1>2. \A i \in 1..Len(q) : q[i] # s
  BY <1>1 DEF Range
<1>3. IsInjective(Append(q, s))
  BY <1>1, <1>2 DEF IsInjective
<1> QED
  BY <1>1, <1>3 DEF Range

\* One launch holds a slot.
OneHolder ==
    \A q, r \in Runners :
        pc[q] \in Holding /\ pc[r] \in Holding /\ slot[q] = slot[r] => q = r

\* The stack is the slots that nobody holds and nothing is published at.
FreeExactly ==
    up => \A s \in Slots :
            s \in Range(free) <=> /\ record[s] = NoRecord
                                  /\ \A r \in Runners : pc[r] \in Holding => slot[r] # s

\* What is published at the slot of a launch is its own; an answer may be late on
\* disk, and nothing is there before Register or after a Release that worked.
OwnRecords ==
    \A r \in Runners :
        /\ pc[r] \in Holding /\ leased[r] = "absent" => record[slot[r]] = NoRecord
        /\ leased[r] # "absent" =>
             /\ pc[r] # "register"
             /\ \/ record[slot[r]] = [gen |-> r, rights |-> leased[r]]
                \/ leased[r] = "refused" /\ record[slot[r]] = [gen |-> r, rights |-> "pending"]
        /\ r \in asking => leased[r] \in {"pending", "absent"}

\* What a crash leaves.
DownIsEmpty == ~up => \A r \in Runners : pc[r] \in {"idle", "gone"}

SlotInv == IsInjective(free) /\ OneHolder /\ FreeExactly /\ OwnRecords /\ DownIsEmpty

LEMMA InitSlots == Init => SlotInv
<1> SUFFICES ASSUME Init PROVE SlotInv
  OBVIOUS
<1>1. IsInjective(free) /\ Range(free) = Slots
  BY AllFreeFacts DEF Init
<1>2. \A r \in Runners : pc[r] \notin Holding
  BY DEF Init, Holding
<1> QED
  BY <1>1, <1>2 DEF Init, SlotInv, OneHolder, FreeExactly, OwnRecords, DownIsEmpty, NoRecords

\* A step of a launch on its own slot, or of a launch that has none, that leaves
\* the stack and the registry alone.
LEMMA SteadySlots ==
  ASSUME TypeInv, SlotInv, up, up', UNCHANGED <<free, slot, leased, asking, record>>,
         \/ UNCHANGED pc
         \/ \E r \in Runners, to \in Places :
              /\ pc' = [pc EXCEPT ![r] = to]
              /\ to # "register" /\ (pc[r] \in Holding <=> to \in Holding)
  PROVE  SlotInv'
<1>1. CASE UNCHANGED pc
  BY <1>1 DEF SlotInv, OneHolder, FreeExactly, OwnRecords, DownIsEmpty
<1>2. ASSUME NEW r \in Runners, NEW to \in Places, pc' = [pc EXCEPT ![r] = to],
             to # "register", pc[r] \in Holding <=> to \in Holding
      PROVE  SlotInv'
  <2>1. \A q \in Runners : pc'[q] \in Holding <=> pc[q] \in Holding
    BY <1>2 DEF TypeInv, Types
  <2>2. \A q \in Runners : pc'[q] = "register" => pc[q] = "register"
    BY <1>2 DEF TypeInv, Types
  <2> QED
    BY <2>1, <2>2 DEF SlotInv, OneHolder, FreeExactly, OwnRecords, DownIsEmpty
<1> QED
  BY <1>1, <1>2

\* Acquire takes the top of the stack.
LEMMA AcquireSlots ==
  ASSUME TypeInv, SlotInv, up, up', NEW r \in Runners, Acquire(r), free # <<>>
  PROVE  SlotInv'
<1> DEFINE s == Last(free)
<1>1. /\ IsInjective(free') /\ s \in Slots /\ s \in Range(free)
      /\ Range(free') = Range(free) \ {s}
  BY PopFacts DEF Acquire, TypeInv, Types, SlotInv
<1>2. /\ pc[r] = "entered" /\ pc' = [pc EXCEPT ![r] = "register"]
      /\ slot' = [slot EXCEPT ![r] = s] /\ UNCHANGED <<leased, asking, record>>
  BY DEF Acquire, Moves, disk
<1>3. record[s] = NoRecord /\ \A q \in Runners : pc[q] \in Holding => slot[q] # s
  BY <1>1 DEF SlotInv, FreeExactly
<1>4. "register" \in Holding /\ "entered" \notin Holding
  BY DEF Holding, Places
<1>5. leased[r] = "absent"
  BY <1>2, <1>4 DEF TypeInv, HasSlot
<1> HIDE DEF s
<1>6. /\ pc'[r] = "register" /\ slot'[r] = s
      /\ \A q \in Runners \ {r} : pc'[q] = pc[q] /\ slot'[q] = slot[q]
  BY <1>2 DEF TypeInv, Types
<1>7. OneHolder'
  BY <1>3, <1>6 DEF OneHolder, SlotInv
<1>8. FreeExactly'
  BY <1>1, <1>2, <1>3, <1>4, <1>6 DEF FreeExactly, SlotInv
<1>9. OwnRecords'
  <2>1. /\ leased' = leased /\ record' = record /\ asking' = asking
        /\ record[s] = NoRecord /\ leased[r] = "absent"
    BY <1>2, <1>3, <1>5
  <2>2. /\ pc'[r] = "register" /\ slot'[r] = s
        /\ \A q \in Runners : q # r => pc'[q] = pc[q] /\ slot'[q] = slot[q]
    BY <1>6
  <2>3. OwnRecords
    BY DEF SlotInv
  <2> QED
    BY <2>1, <2>2, <2>3 DEF OwnRecords
<1> QED
  BY <1>1, <1>7, <1>8, <1>9 DEF SlotInv, DownIsEmpty

\* Register publishes at the launch's own slot.
LEMMA RegisterSlots ==
  ASSUME TypeInv, SlotInv, up, up', NEW r \in Runners, NEW ok \in BOOLEAN, Register(r, ok)
  PROVE  SlotInv'
<1>0. {"register", "network", "release"} \subseteq Holding
  BY DEF Holding, Places
<1>1. CASE UNCHANGED <<leased, record>>
  <2>1. /\ \E to \in {"network", "release"} : pc' = [pc EXCEPT ![r] = to]
        /\ pc[r] = "register" /\ UNCHANGED <<free, slot, asking>>
    BY DEF Register, Moves
  <2> QED
    BY <1>0, <1>1, <2>1, SteadySlots DEF Holding
<1>2. CASE ~UNCHANGED <<leased, record>>
  <2>1. /\ pc[r] = "register" /\ pc' = [pc EXCEPT ![r] = "network"]
        /\ leased' = [leased EXCEPT ![r] = "pending"]
        /\ record' = [record EXCEPT ![slot[r]] = [gen |-> r, rights |-> "pending"]]
        /\ UNCHANGED <<free, slot, asking>>
    BY <1>2 DEF Register, Moves, Publish
  <2>2. slot[r] \in Slots
    BY <1>0, <2>1 DEF TypeInv, HasSlot
  <2>3. \A q \in Runners : pc'[q] \in Holding <=> pc[q] \in Holding
    BY <1>0, <2>1 DEF TypeInv, Types
  <2>4. \A q \in Runners \ {r} : pc[q] \in Holding => slot[q] # slot[r]
    BY <1>0, <2>1 DEF SlotInv, OneHolder
  <2>5. OneHolder'
    BY <2>1, <2>3 DEF SlotInv, OneHolder
  <2>6. FreeExactly'
    <3>1. \A s \in Slots : s # slot[r] => record'[s] = record[s]
      BY <2>1, <2>2 DEF TypeInv, Types
    <3>2. slot[r] \notin Range(free)
      BY <1>0, <2>1, <2>2 DEF SlotInv, FreeExactly
    <3> QED
      BY <1>0, <2>1, <2>2, <2>3, <3>1, <3>2 DEF SlotInv, FreeExactly
  <2>7. OwnRecords'
    <3>1. /\ pc'[r] = "network" /\ leased'[r] = "pending" /\ record'[slot[r]] = [gen |-> r, rights |-> "pending"]
      BY <2>1, <2>2 DEF TypeInv, Types
    <3>2. \A q \in Runners \ {r} : /\ pc'[q] = pc[q] /\ leased'[q] = leased[q]
                                   /\ pc[q] \in Holding => record'[slot[q]] = record[slot[q]]
      BY <2>1, <2>2, <2>4 DEF TypeInv, Types, HasSlot
    <3>3. \A q \in Runners \ {r} : leased[q] # "absent" => pc[q] \in Holding
      BY DEF TypeInv, HasSlot
    <3>4. slot' = slot /\ asking' = asking
      BY <2>1
    <3> QED
      BY <3>1, <3>2, <3>3, <3>4 DEF SlotInv, OwnRecords
  <2> QED
    BY <2>1, <2>5, <2>6, <2>7 DEF SlotInv, DownIsEmpty
<1> QED
  BY <1>1, <1>2

\* What a step of r does to r's own slot and lease leaves the others' as they are.
LEMMA OwnRecordsOfOne ==
  ASSUME TypeInv, SlotInv, NEW r \in Runners, pc[r] \in Holding,
         NEW to \in Places, pc' = [pc EXCEPT ![r] = to],
         UNCHANGED slot, asking' \subseteq asking \cup {r},
         \A q \in Runners \ {r} : leased'[q] = leased[q],
         \A s \in Slots \ {slot[r]} : record'[s] = record[s],
         /\ to \in Holding /\ leased'[r] = "absent" => record'[slot[r]] = NoRecord
         /\ leased'[r] # "absent" =>
              /\ to # "register"
              /\ \/ record'[slot[r]] = [gen |-> r, rights |-> leased'[r]]
                 \/ leased'[r] = "refused" /\ record'[slot[r]] = [gen |-> r, rights |-> "pending"]
         /\ r \in asking' => leased'[r] \in {"pending", "absent"}
  PROVE  OwnRecords'
<1>1. slot[r] \in Slots /\ pc'[r] = to /\ \A q \in Runners \ {r} : pc'[q] = pc[q]
  BY DEF TypeInv, Types, HasSlot
<1>2. ASSUME NEW q \in Runners \ {r}, pc[q] \in Holding PROVE record'[slot[q]] = record[slot[q]]
  BY <1>2 DEF TypeInv, HasSlot, SlotInv, OneHolder
<1>3. \A q \in Runners \ {r} : leased[q] # "absent" => pc[q] \in Holding
  BY DEF TypeInv, HasSlot
<1>4. \A q \in Runners \ {r} : q \in asking' => q \in asking
  OBVIOUS
<1> DEFINE
      Own(q) ==
        /\ pc[q] \in Holding /\ leased[q] = "absent" => record[slot[q]] = NoRecord
        /\ leased[q] # "absent" =>
             /\ pc[q] # "register"
             /\ \/ record[slot[q]] = [gen |-> q, rights |-> leased[q]]
                \/ leased[q] = "refused" /\ record[slot[q]] = [gen |-> q, rights |-> "pending"]
        /\ q \in asking => leased[q] \in {"pending", "absent"}
<1>5. \A q \in Runners : Own(q)
  BY DEF SlotInv, OwnRecords
<1>6. Own(r)'
  BY <1>1
<1>7. ASSUME NEW q \in Runners \ {r} PROVE Own(q)'
  <2>1. /\ pc'[q] = pc[q] /\ leased'[q] = leased[q] /\ slot'[q] = slot[q]
        /\ q \in asking' => q \in asking
        /\ pc[q] \in Holding => record'[slot[q]] = record[slot[q]]
    BY <1>1, <1>2, <1>4
  <2> QED
    BY <1>3, <1>5, <2>1
<1> HIDE DEF Own
<1>8. \A q \in Runners : Own(q)'
  BY <1>6, <1>7
<1> QED
  BY <1>8 DEF OwnRecords, Own

\* Release: the record goes and the slot with it, or both stay.
LEMMA ReleaseSlots ==
  ASSUME TypeInv, SlotInv, up, up', NEW r \in Runners, NEW ok \in BOOLEAN, Release(r, ok)
  PROVE  SlotInv'
<1>0. "release" \in Holding /\ "returned" \in Places /\ "returned" \notin Holding
  BY DEF Holding, Places
<1>1. /\ pc[r] = "release" /\ pc' = [pc EXCEPT ![r] = "returned"]
      /\ leased' = [leased EXCEPT ![r] = "absent"]
      /\ leased[r] = "absent" => ok
      /\ UNCHANGED <<slot, asking>>
  BY DEF Release, Moves
<1>2. slot[r] \in Slots
  BY <1>0, <1>1 DEF TypeInv, HasSlot
<1>3. /\ pc'[r] = "returned" /\ leased'[r] = "absent"
      /\ \A q \in Runners \ {r} : pc'[q] = pc[q] /\ leased'[q] = leased[q]
  BY <1>1 DEF TypeInv, Types
<1>4. \A q \in Runners \ {r} : pc[q] \in Holding => slot[q] # slot[r]
  BY <1>0, <1>1 DEF SlotInv, OneHolder
<1>5. slot[r] \notin Range(free)
  BY <1>0, <1>1, <1>2 DEF SlotInv, FreeExactly
<1>6. /\ ok => record'[slot[r]] = NoRecord
      /\ ~ok => record'[slot[r]] # NoRecord
      /\ \A s \in Slots \ {slot[r]} : record'[s] = record[s]
  <2>1. CASE leased[r] # "absent" /\ ok
    BY <1>2, <2>1 DEF Release, TypeInv, Types
  <2>2. CASE leased[r] = "absent"
    BY <1>0, <1>1, <2>2 DEF Release, SlotInv, OwnRecords
  <2>3. CASE leased[r] # "absent" /\ ~ok
    <3>1. record' = record
      BY <2>3 DEF Release
    <3>2. \E rights \in {leased[r], "pending"} : record[slot[r]] = [gen |-> r, rights |-> rights]
      BY <2>3 DEF SlotInv, OwnRecords
    <3>3. {leased[r], "pending"} \subseteq {"pending", "granted", "refused"}
      BY <2>3 DEF TypeInv, Types, Rights
    <3>4. r \in Tiers \X (1..PerTier)
      BY DEF Runners
    <3> QED
      BY <2>3, <3>1, <3>2, <3>3, <3>4, HostAssumption
  <2> QED
    BY <2>1, <2>2, <2>3
<1>7. OwnRecords'
  BY <1>0, <1>1, <1>3, <1>6, OwnRecordsOfOne
<1>8. OneHolder'
  BY <1>0, <1>1, <1>3 DEF SlotInv, OneHolder
<1>9. CASE ok
  <2>1. /\ free' = Append(free, slot[r])
        /\ IsInjective(free') /\ Range(free') = Range(free) \cup {slot[r]}
    BY <1>2, <1>5, <1>9, PushFacts DEF Release, SlotsAfter, TypeInv, Types, SlotInv
  <2>2. FreeExactly'
    BY <1>0, <1>1, <1>3, <1>4, <1>6, <1>9, <2>1 DEF SlotInv, FreeExactly
  <2> QED
    BY <1>7, <1>8, <2>1, <2>2 DEF SlotInv, DownIsEmpty
<1>10. CASE ~ok
  <2>1. free' = free
    BY <1>10 DEF Release, SlotsAfter
  <2>2. FreeExactly'
    BY <1>0, <1>1, <1>3, <1>4, <1>5, <1>6, <1>10, <2>1 DEF SlotInv, FreeExactly
  <2> QED
    BY <1>7, <1>8, <2>1, <2>2 DEF SlotInv, DownIsEmpty
<1> QED
  BY <1>9, <1>10

\* A lease's answer and the refresher's writes.
LEMMA LeaseSlots ==
  ASSUME TypeInv, SlotInv, up, up', NEW r \in Runners, JobStarted(r) \/ RegistrySteps(r)
  PROVE  SlotInv'
<1>1. CASE JobStarted(r)
  <2>1. /\ UNCHANGED <<free, pc, slot, leased, record>>
        /\ asking' = asking \cup {r} /\ leased[r] = "pending"
    BY <1>1 DEF JobStarted, disk
  <2> QED
    BY <2>1 DEF SlotInv, OneHolder, FreeExactly, OwnRecords, DownIsEmpty
<1>2. ASSUME UNCHANGED <<free, pc, slot>>, asking' \subseteq asking, leased[r] # "absent",
             \E rights \in Rights :
                /\ leased' = [leased EXCEPT ![r] = rights]
                /\ \/ record' = Publish(slot[r], r, rights)
                   \/ rights = "refused" /\ leased[r] = "pending" /\ UNCHANGED record
                /\ r \in asking' => rights = leased[r]
      PROVE  SlotInv'
  <2>1. PICK rights \in Rights :
          /\ leased' = [leased EXCEPT ![r] = rights]
          /\ \/ record' = Publish(slot[r], r, rights)
             \/ rights = "refused" /\ leased[r] = "pending" /\ UNCHANGED record
          /\ r \in asking' => rights = leased[r]
    BY <1>2
  <2>2. pc[r] \in Holding /\ slot[r] \in Slots /\ pc[r] # "register" /\ pc[r] \in Places
    BY <1>2 DEF TypeInv, Types, HasSlot, SlotInv, OwnRecords
  <2>3. /\ leased'[r] = rights /\ rights # "absent"
        /\ \A q \in Runners \ {r} : leased'[q] = leased[q]
    BY <2>1 DEF TypeInv, Types, Rights
  <2>4. /\ \A s \in Slots \ {slot[r]} : record'[s] = record[s]
        /\ \/ record'[slot[r]] = [gen |-> r, rights |-> rights]
           \/ rights = "refused" /\ record'[slot[r]] = [gen |-> r, rights |-> "pending"]
    <3>1. CASE record' = Publish(slot[r], r, rights)
      BY <2>2, <3>1 DEF Publish, TypeInv, Types
    <3>2. CASE rights = "refused" /\ leased[r] = "pending" /\ UNCHANGED record
      BY <3>2 DEF SlotInv, OwnRecords
    <3> QED
      BY <2>1, <3>1, <3>2
  <2>5. pc' = [pc EXCEPT ![r] = pc[r]]
    BY <1>2 DEF TypeInv, Types
  <2>6. r \in asking' => rights \in {"pending", "absent"}
    BY <1>2, <2>1 DEF SlotInv, OwnRecords
  <2>7. OwnRecords'
    BY <1>2, <2>2, <2>3, <2>4, <2>5, <2>6, OwnRecordsOfOne
  <2>8. record[slot[r]] # NoRecord /\ record'[slot[r]] # NoRecord
    <3>1. /\ \E x \in Rights : record[slot[r]] = [gen |-> r, rights |-> x]
          /\ \E x \in Rights : record'[slot[r]] = [gen |-> r, rights |-> x]
      BY <1>2, <2>4 DEF SlotInv, OwnRecords, TypeInv, Types, Rights
    <3> QED
      BY <3>1, HostAssumption DEF Rights, Runners
  <2>9. FreeExactly'
    BY <1>2, <2>4, <2>8 DEF SlotInv, FreeExactly
  <2> QED
    BY <1>2, <2>7, <2>9 DEF SlotInv, OneHolder, DownIsEmpty
<1>3. CASE Refresh(r)
  <2>1. /\ UNCHANGED <<free, pc, slot, asking, leased>> /\ leased[r] # "absent"
        /\ record' = Publish(slot[r], r, leased[r])
    BY <1>3 DEF Refresh, process
  <2>2. leased[r] \in Rights /\ leased' = [leased EXCEPT ![r] = leased[r]]
    BY <2>1 DEF TypeInv, Types
  <2> QED
    BY <1>2, <2>1, <2>2
<1>4. ASSUME NEW ok \in BOOLEAN, NEW rights \in {"granted", "refused"}, Resolved(r, rights, ok)
      PROVE  SlotInv'
  <2>1. /\ UNCHANGED <<free, pc, slot>> /\ r \in asking /\ asking' = asking \ {r}
    BY <1>4 DEF Resolved
  <2>2. CASE ~OwnLease(r)
    BY <1>4, <2>1, <2>2 DEF Resolved, SlotInv, OneHolder, FreeExactly, OwnRecords, DownIsEmpty
  <2>3. CASE OwnLease(r)
    <3>1. leased[r] = "pending"
      BY <2>1, <2>3 DEF OwnLease, SlotInv, OwnRecords
    <3>2. /\ leased' = [leased EXCEPT ![r] = Settled(rights, ok)]
          /\ \/ record' = Publish(slot[r], r, leased'[r])
             \/ ~ok /\ UNCHANGED record
      BY <1>4, <2>3 DEF Resolved
    <3>3. /\ Settled(rights, ok) \in Rights /\ leased'[r] = Settled(rights, ok)
          /\ ~ok => Settled(rights, ok) = "refused"
      BY <3>2 DEF Settled, Rights, TypeInv, Types
    <3> QED
      BY <1>2, <2>1, <3>1, <3>2, <3>3
  <2> QED
    BY <2>2, <2>3
<1> QED
  BY <1>1, <1>3, <1>4 DEF RegistrySteps

\* A step of a launch that leaves the stack and the registry alone.
Steady(r) ==
    /\ UNCHANGED <<free, slot, leased, asking, record>>
    /\ \/ UNCHANGED pc
       \/ \E to \in Places \ Holding :
            pc[r] \in Places \ Holding /\ pc' = [pc EXCEPT ![r] = to]
       \/ \E to \in Holding \ {"register"} :
            pc[r] \in Holding /\ pc' = [pc EXCEPT ![r] = to]

LEMMA StepKinds ==
  ASSUME TypeInv, NEW r \in Runners, RunnerSteps(r)
  PROVE  \/ Steady(r)
         \/ Acquire(r) /\ free # <<>>
         \/ \E ok \in BOOLEAN : Register(r, ok) \/ Release(r, ok)
         \/ JobStarted(r) \/ RegistrySteps(r)
<1>0. /\ {"network", "boot", "arm", "wait", "unplug", "release"} \subseteq Holding \ {"register"}
      /\ {"idle", "pending", "entered", "returned", "gone"} \subseteq Places \ Holding
  BY DEF Holding, Places
<1>1. CASE Commit(r) \/ Enter(r) \/ Gone(r)
  BY <1>0, <1>1 DEF Commit, Enter, Gone, Moves, disk, Steady
<1>2. CASE Acquire(r) /\ free = <<>>
  BY <1>0, <1>2 DEF Acquire, Moves, disk, Steady
<1>3. ASSUME NEW ok \in BOOLEAN, SetupNet(r, ok) PROVE Steady(r)
  BY <1>0, <1>3 DEF SetupNet, Moves, Fails, Steady
<1>4. ASSUME NEW ok \in BOOLEAN, Boot(r, ok) \/ WaitReturns(r, ok) \/ Unplug(r, ok) PROVE Steady(r)
  BY <1>0, <1>4 DEF Boot, WaitReturns, Unplug, Moves, Fails, disk, Steady
<1>5. CASE Arm(r)
  BY <1>0, <1>5 DEF Arm, Moves, disk, Steady
<1>6. CASE WatchdogSteps(r)
  BY <1>6 DEF WatchdogSteps, Fires, Callback, Kills, disk, Steady
<1>7. CASE Cancel(r) \/ Connects(r) \/ VMEnds(r) \/ LifetimeEnds(r)
  BY <1>7 DEF Cancel, Connects, VMEnds, LifetimeEnds, disk, Steady
<1> QED
  BY <1>1, <1>2, <1>3, <1>4, <1>5, <1>6, <1>7 DEF RunnerSteps, LaunchSteps

LEMMA NextSlots == TypeInv /\ SlotInv /\ [Next]_vars => SlotInv'
<1> SUFFICES ASSUME TypeInv, SlotInv, [Next]_vars PROVE SlotInv'
  OBVIOUS
<1>1. CASE UNCHANGED vars
  BY <1>1 DEF vars, process, disk, SlotInv, OneHolder, FreeExactly, OwnRecords, DownIsEmpty
<1>2. CASE Crash
  <2>1. /\ \A r \in Runners : pc'[r] \in {"idle", "gone"} /\ leased'[r] = "absent"
        /\ asking' = {} /\ free' = <<>> /\ up' = FALSE
    BY <1>2 DEF Crash
  <2>2. IsInjective(<<>>)
    BY DEF IsInjective
  <2> QED
    BY <2>1, <2>2 DEF Holding, SlotInv, OneHolder, FreeExactly, OwnRecords, DownIsEmpty
<1>3. CASE Restart
  <2>1. /\ IsInjective(free') /\ Range(free') = Slots
        /\ \A s \in Slots : record'[s] = NoRecord
        /\ \A r \in Runners : pc'[r] \in {"idle", "gone"}
        /\ UNCHANGED <<pc, slot, leased, asking>> /\ up'
    BY <1>3, AllFreeFacts DEF Restart, NoRecords, SlotInv, DownIsEmpty
  <2>2. \A r \in Runners : pc'[r] \notin Holding /\ leased'[r] = "absent"
    BY <2>1 DEF Holding, TypeInv, HasSlot
  <2> QED
    BY <2>1, <2>2 DEF SlotInv, OneHolder, FreeExactly, OwnRecords, DownIsEmpty
<1>4. ASSUME up, UNCHANGED <<crashes, up>>, NEW r \in Runners, RunnerSteps(r)
      PROVE  SlotInv'
  <2>1. CASE Steady(r)
    <3>1. "register" \in Holding /\ Holding \subseteq Places
      BY DEF Holding, Places
    <3> QED
      BY <1>4, <2>1, <3>1, SteadySlots DEF Steady
  <2> QED
    BY <1>4, <2>1, StepKinds, AcquireSlots, RegisterSlots, ReleaseSlots, LeaseSlots
<1> QED
  BY <1>1, <1>2, <1>3, <1>4 DEF Next, RunnerSteps

LEMMA SpecSlots == Spec => [](TypeInv /\ SlotInv)
<1>1. Init => TypeInv /\ SlotInv
  BY InitTypes, InitSlots
<1>2. TypeInv /\ SlotInv /\ [Next]_vars => (TypeInv /\ SlotInv)'
  BY NextTypes, NextSlots
<1> QED
  BY <1>1, <1>2, PTL DEF Spec

\* Every variable of firecracker.go's launches has its type; the stack of ipam is
\* never longer than there are slots.
THEOREM HostTypesHold == Spec => []HostTypeOK
<1>1. TypeInv /\ SlotInv => HostTypeOK
  <2> SUFFICES ASSUME TypeInv, SlotInv PROVE HostTypeOK
    OBVIOUS
  <2>1. free \in Seq(Slots) /\ Len(free) <= Cardinality(Slots)
    BY FreeBounded DEF TypeInv, Types, SlotInv
  <2>2. \A flag \in {asking, connected, killed, cancelled} : flag \subseteq Runners
    BY DEF TypeInv, Types
  <2> QED
    BY <2>1, <2>2 DEF TypeInv, Types, HostTypeOK
<1> QED
  BY <1>1, SpecSlots, PTL

\* Launch never loses a slot and never has two VMs at one address: what ipam has
\* is what no launch holds and no record is left at.
THEOREM SlotsHold == Spec => []SlotsAccounted
<1>1. TypeInv /\ SlotInv => SlotsAccounted
  <2> SUFFICES ASSUME TypeInv, SlotInv, up PROVE SlotsAccounted
    BY DEF SlotsAccounted
  <2>1. ASSUME NEW s \in Slots PROVE Cardinality(Slotted(s)) <= 1
    <3>1. CASE Slotted(s) = {}
      BY <3>1, FS_EmptySet
    <3>2. ASSUME NEW r \in Slotted(s) PROVE Cardinality(Slotted(s)) <= 1
      <4>1. Slotted(s) = {r}
        BY <3>2 DEF Slotted, SlotInv, OneHolder
      <4> QED
        BY <4>1, FS_Singleton
    <3> QED
      BY <3>1, <3>2
  <2>2. ASSUME NEW s \in Slots PROVE s \in FreeSlots <=> Slotted(s) = {} /\ record[s] = NoRecord
    BY DEF FreeSlots, Slotted, SlotInv, FreeExactly
  <2> QED
    BY <2>1, <2>2 DEF SlotsAccounted, SlotInv
<1> QED
  BY <1>1, SpecSlots, PTL

-----------------------------------------------------------------------------
(* A VM's device and the watchdog's verdict.                               *)

\* The tap between the end of setupNet and teardownNet.
OwnTap ==
    \A r \in Runners :
        /\ pc[r] \in {"boot", "arm", "wait"} => device[slot[r]] = r
        /\ vmm[r] = "running" => pc[r] \in {"arm", "wait"}

\* A launch has a result once its VM is over, and a good one only unkilled.
Verdict ==
    \A r \in Runners :
        /\ result[r] # "none" => pc[r] \in {"unplug", "release", "returned"}
        /\ result[r] = "ok" => r \notin killed

\* The device commands of one launch are about its own slot.
LEMMA NetTap ==
  ASSUME TypeInv, SlotInv, OwnTap, NEW r \in Runners, NEW ok \in BOOLEAN,
         SetupNet(r, ok) \/ Unplug(r, ok)
  PROVE  OwnTap'
<1>0. {"network", "boot", "arm", "wait", "unplug"} \subseteq Holding
  BY DEF Holding, Places
<1>1. pc[r] \in {"network", "unplug"} /\ UNCHANGED <<slot, vmm>>
  BY DEF SetupNet, Unplug, Moves
<1>2. slot[r] \in Slots
  BY <1>0, <1>1 DEF TypeInv, HasSlot
<1>3. /\ pc'[r] \in {"boot", "release"}
      /\ pc'[r] = "boot" => device'[slot[r]] = r
      /\ \A s \in Slots \ {slot[r]} : device'[s] = device[s]
      /\ \A q \in Runners \ {r} : pc'[q] = pc[q]
  <2>1. CASE Unplug(r, ok)
    BY <1>2, <2>1 DEF Unplug, Moves, TypeInv, Types
  <2>2. CASE SetupNet(r, ok) /\ ok
    <3>1. /\ device[slot[r]] = NoDevice /\ pc' = [pc EXCEPT ![r] = "boot"]
          /\ device' = [device EXCEPT ![slot[r]] = IF @ = NoDevice THEN r ELSE @]
      BY <2>2 DEF SetupNet, NotThere, Moves
    <3> QED
      BY <1>2, <3>1 DEF TypeInv, Types
  <2>3. CASE SetupNet(r, ok) /\ ~ok
    BY <1>2, <2>3 DEF SetupNet, Fails, TypeInv, Types
  <2> QED
    BY <2>1, <2>2, <2>3
<1>4. ASSUME NEW q \in Runners \ {r}, pc[q] \in {"boot", "arm", "wait"}
      PROVE  slot[q] \in Slots \ {slot[r]}
  BY <1>0, <1>1, <1>4 DEF TypeInv, HasSlot, SlotInv, OneHolder
<1> QED
  BY <1>1, <1>3, <1>4 DEF OwnTap

\* A launch's other steps.
LEMMA LaunchVerdict ==
  ASSUME TypeInv, SlotInv, OwnTap, Verdict, NEW r \in Runners, RunnerSteps(r)
  PROVE  (OwnTap /\ Verdict)'
<1> USE DEF Moves, Fails, disk, watchdog, TypeInv, Types
<1>1. CASE Commit(r) \/ Enter(r) \/ Gone(r)
  BY <1>1 DEF Commit, Enter, Gone, Forgotten, OwnTap, Verdict
<1>2. CASE Acquire(r)
  <2>1. /\ pc[r] = "entered" /\ \A q \in Runners \ {r} : pc'[q] = pc[q] /\ slot'[q] = slot[q]
        /\ pc'[r] \in {"register", "returned"} /\ UNCHANGED <<vmm, device, killed>>
        /\ \A q \in Runners \ {r} : result'[q] = result[q]
        /\ result'[r] # "none" => pc'[r] = "returned" /\ result'[r] = "failed"
    BY <1>2 DEF Acquire, Verdict
  <2> QED
    BY <2>1 DEF OwnTap, Verdict
<1>3. ASSUME NEW ok \in BOOLEAN, SetupNet(r, ok) \/ Unplug(r, ok) PROVE (OwnTap /\ Verdict)'
  <2>1. Verdict'
    BY <1>3 DEF SetupNet, Unplug, Verdict
  <2> QED
    BY <1>3, <2>1, NetTap
<1>4. ASSUME NEW ok \in BOOLEAN, Register(r, ok) PROVE (OwnTap /\ Verdict)'
  BY <1>4 DEF Register, OwnTap, Verdict
<1>5. ASSUME NEW ok \in BOOLEAN, Release(r, ok) PROVE (OwnTap /\ Verdict)'
  BY <1>5 DEF Release, OwnTap, Verdict
<1>6. ASSUME NEW ok \in BOOLEAN, Boot(r, ok) PROVE (OwnTap /\ Verdict)'
  BY <1>6 DEF Boot, OwnTap, Verdict
<1>7. ASSUME NEW ok \in BOOLEAN, WaitReturns(r, ok) PROVE (OwnTap /\ Verdict)'
  BY <1>7 DEF WaitReturns, OwnTap, Verdict
<1>8. CASE Arm(r)
  BY <1>8 DEF Arm, OwnTap, Verdict
<1>9. CASE Callback(r)
  BY <1>9 DEF Callback, MayKill, OwnTap, Verdict
<1>10. CASE Fires(r) \/ Kills(r) \/ Cancel(r) \/ Connects(r)
  BY <1>10 DEF Fires, Kills, Cancel, Connects, Dies, OwnTap, Verdict
<1>11. CASE VMEnds(r) \/ LifetimeEnds(r)
  BY <1>11 DEF VMEnds, LifetimeEnds, Dies, OwnTap, Verdict
<1>12. CASE JobStarted(r) \/ RegistrySteps(r)
  <2>1. UNCHANGED <<pc, slot, vmm, device, result, killed>>
    BY <1>12 DEF JobStarted, RegistrySteps, Resolved, Refresh, process
  <2> QED
    BY <2>1 DEF OwnTap, Verdict
<1> QED
  BY <1>1, <1>2, <1>3, <1>4, <1>5, <1>6, <1>7, <1>8, <1>9, <1>10, <1>11, <1>12
     DEF RunnerSteps, LaunchSteps, WatchdogSteps

HostInv == TypeInv /\ SlotInv /\ OwnTap /\ Verdict

LEMMA SpecHost == Spec => []HostInv
<1>1. Init => OwnTap /\ Verdict
  BY DEF Init, OwnTap, Verdict
<1>2. HostInv /\ [Next]_vars => (OwnTap /\ Verdict)'
  <2> SUFFICES ASSUME HostInv, [Next]_vars PROVE (OwnTap /\ Verdict)'
    OBVIOUS
  <2>1. CASE UNCHANGED vars
    BY <2>1 DEF vars, process, disk, HostInv, OwnTap, Verdict
  <2>2. CASE Crash
    <3>1. \A r \in Runners : pc'[r] \in {"idle", "gone"} /\ vmm'[r] = "none" /\ result'[r] = "none"
      BY <2>2 DEF Crash, Forgotten
    <3> QED
      BY <3>1 DEF OwnTap, Verdict
  <2>3. CASE Restart
    <3>1. \A r \in Runners : pc'[r] \in {"idle", "gone"}
      BY <2>3 DEF Restart, HostInv, SlotInv, DownIsEmpty
    <3>2. UNCHANGED <<pc, vmm, result, killed>>
      BY <2>3 DEF Restart, watchdog
    <3> QED
      BY <3>1, <3>2 DEF HostInv, OwnTap, Verdict
  <2>4. ASSUME NEW r \in Runners, RunnerSteps(r)
        PROVE  (OwnTap /\ Verdict)'
    BY <2>4, LaunchVerdict DEF HostInv
  <2> QED
    BY <2>1, <2>2, <2>3, <2>4 DEF Next, RunnerSteps
<1> QED
  BY <1>1, <1>2, InitTypes, InitSlots, NextTypes, NextSlots, PTL DEF HostInv, Spec

\* A VM runs on the tap its own setupNet made: one that is left there makes the
\* first ip command fail, and the launch with it.
THEOREM OwnDeviceHolds == Spec => []OwnDevice
<1>1. HostInv => OwnDevice
  BY DEF HostInv, OwnTap, OwnDevice
<1> QED
  BY <1>1, SpecHost, PTL

\* The connect watchdog: its callback condemns no VM that has connected, and
\* what Launch reported is not contradicted afterwards.
THEOREM VerdictHolds == Spec => VerdictStands
<1>1. HostInv => \A r \in Runners : result[r] = "ok" => r \notin killed
  BY DEF HostInv, Verdict
<1>2. HostInv /\ [Next]_vars => [killed' \cap connected \subseteq killed]_vars
  <2> SUFFICES ASSUME HostInv, Next PROVE killed' \cap connected \subseteq killed
    OBVIOUS
  <2>1. CASE Crash \/ Restart
    BY <2>1 DEF Crash, Restart, Forgotten, watchdog
  <2>2. ASSUME NEW r \in Runners, RunnerSteps(r)
        PROVE  killed' \cap connected \subseteq killed
    <3>1. CASE Callback(r)
      BY <3>1 DEF Callback, MayKill
    <3>2. CASE LaunchSteps(r)
      BY <3>2 DEF LaunchSteps, Enter, Acquire, Arm, Gone, Register, SetupNet, Boot,
                  WaitReturns, Unplug, Release, Forgotten, watchdog
    <3>3. CASE ~Callback(r) /\ ~LaunchSteps(r)
      BY <2>2, <3>3 DEF RunnerSteps, Commit, WatchdogSteps, Fires, Kills, RegistrySteps, Resolved,
         Refresh,
                  Cancel, JobStarted, Connects, VMEnds, LifetimeEnds, process, watchdog
    <3> QED
      BY <3>1, <3>2, <3>3
  <2> QED
    BY <2>1, <2>2 DEF Next, RunnerSteps
<1> QED
  BY <1>1, <1>2, SpecHost, PTL DEF VerdictStands, Spec

\* The tap of a row of commands that was not cut short is that of a launch which
\* still has it to remove.
Plugged(r) == pc[r] \in {"boot", "arm", "wait", "unplug"}

TapHeld ==
    up => \A s \in Slots :
            \/ device[s] \in {NoDevice, HalfMade}
            \/ \E r \in Runners : Plugged(r) /\ slot[r] = s

\* A step that changes no tap and unplugs nobody.
LEMMA TapKept ==
  ASSUME up, TapHeld, UNCHANGED device,
         \A r \in Runners : Plugged(r) => Plugged(r)' /\ slot'[r] = slot[r]
  PROVE  TapHeld'
  BY DEF TapHeld

LEMMA RunnerTaps ==
  ASSUME TypeInv, TapHeld, ~CommandsFail, up, NEW r \in Runners, RunnerSteps(r)
  PROVE  TapHeld'
<1> USE DEF Moves, disk, watchdog
<1>1. CASE Commit(r) \/ Enter(r) \/ Acquire(r) \/ Gone(r) \/ Arm(r) \/ Cancel(r)
  <2>1. UNCHANGED device /\ \A q \in Runners : Plugged(q) => Plugged(q)' /\ slot'[q] = slot[q]
    BY <1>1 DEF Commit, Enter, Acquire, Gone, Arm, Cancel, Plugged, TypeInv, Types
  <2> QED
    BY <2>1, TapKept
<1>2. ASSUME NEW ok \in BOOLEAN, Register(r, ok) \/ Boot(r, ok) \/ WaitReturns(r, ok) \/ Release(r, ok)
      PROVE  TapHeld'
  <2>1. UNCHANGED device /\ \A q \in Runners : Plugged(q) => Plugged(q)' /\ slot'[q] = slot[q]
    BY <1>2 DEF Register, Boot, WaitReturns, Release, Fails, Plugged, TypeInv, Types
  <2> QED
    BY <2>1, TapKept
<1>3. ASSUME NEW ok \in BOOLEAN, SetupNet(r, ok) PROVE TapHeld'
  <2>1. pc[r] = "network" /\ UNCHANGED slot
    BY <1>3 DEF SetupNet
  <2>2. \A q \in Runners : Plugged(q) => Plugged(q)'
    BY <1>3, <2>1 DEF SetupNet, Fails, Plugged, TypeInv, Types
  <2>3. CASE ok
    <3>1. device' = [device EXCEPT ![slot[r]] = r] /\ Plugged(r)'
      BY <1>3, <2>3 DEF SetupNet, NotThere, Plugged, TypeInv, Types
    <3>2. \A s \in Slots : s # slot[r] => device'[s] = device[s]
      BY <3>1 DEF TypeInv, Types
    <3> QED
      BY <2>1, <2>2, <3>1, <3>2 DEF TapHeld
  <2>4. CASE ~ok
    <3>1. \A s \in Slots : device'[s] = device[s] \/ device'[s] = HalfMade
      BY <1>3, <2>4 DEF SetupNet, TypeInv, Types
    <3> QED
      BY <2>1, <2>2, <3>1 DEF TapHeld
  <2> QED
    BY <2>3, <2>4
<1>4. ASSUME NEW ok \in BOOLEAN, Unplug(r, ok) PROVE TapHeld'
  <2>1. device' = [device EXCEPT ![slot[r]] = NoDevice] /\ UNCHANGED slot
    BY <1>4 DEF Unplug
  <2>2. \A q \in Runners : q # r /\ Plugged(q) => Plugged(q)'
    BY <1>4 DEF Unplug, Plugged, TypeInv, Types
  <2>3. \A s \in Slots : device'[s] = IF s = slot[r] THEN NoDevice ELSE device[s]
    BY <2>1 DEF TypeInv, Types
  <2> QED
    BY <2>1, <2>2, <2>3 DEF TapHeld
<1>5. CASE WatchdogSteps(r) \/ RegistrySteps(r) \/ JobStarted(r) \/ Connects(r) \/ VMEnds(r) \/ LifetimeEnds(r)
  <2>1. UNCHANGED <<device, pc, slot>>
    BY <1>5 DEF WatchdogSteps, Fires, Callback, Kills, RegistrySteps, Resolved, Refresh, process,
                JobStarted, Connects, VMEnds, LifetimeEnds
  <2>2. \A q \in Runners : Plugged(q) => Plugged(q)' /\ slot'[q] = slot[q]
    BY <2>1 DEF Plugged
  <2> QED
    BY <2>1, <2>2, TapKept
<1> QED
  BY <1>1, <1>2, <1>3, <1>4, <1>5 DEF RunnerSteps, LaunchSteps

\* What host_leak shows is all there is: on a host whose ip commands work, a free
\* slot has no tap, or the one that a setupNet cut short by its ctx left half made.
\* No launch that got past setupNet, and no crash, leaves one.
THEOREM OnlyCutShortLeaks ==
  ASSUME ~CommandsFail
  PROVE  Spec => [](up => \A s \in FreeSlots : device[s] \in {NoDevice, HalfMade})
<1>1. Init => TapHeld
  BY DEF Init, TapHeld
<1>2. TypeInv /\ TapHeld /\ [Next]_vars => TapHeld'
  <2> SUFFICES ASSUME TypeInv, TapHeld, [Next]_vars PROVE TapHeld'
    OBVIOUS
  <2>1. CASE UNCHANGED vars
    BY <2>1 DEF vars, process, disk, TapHeld, Plugged
  <2>2. CASE Crash
    BY <2>2 DEF Crash, TapHeld
  <2>3. CASE Restart
    BY <2>3 DEF Restart, TapHeld
  <2>4. ASSUME up, NEW r \in Runners, RunnerSteps(r) PROVE TapHeld'
    BY <2>4, RunnerTaps
  <2> QED
    BY <2>1, <2>2, <2>3, <2>4 DEF Next, RunnerSteps
<1>3. TypeInv /\ SlotInv /\ TapHeld => (up => \A s \in FreeSlots : device[s] \in {NoDevice, HalfMade})
  <2>1. \A r \in Runners : Plugged(r) => pc[r] \in Holding
    BY DEF Plugged, Holding, Places
  <2>2. TypeInv => FreeSlots \subseteq Slots
    BY DEF TypeInv, Types, FreeSlots, Range
  <2> QED
    BY <2>1, <2>2 DEF SlotInv, FreeExactly, TapHeld, FreeSlots
<1> QED
  BY <1>1, <1>2, <1>3, SpecSlots, PTL DEF Spec

-----------------------------------------------------------------------------
(* Capacity.                                                               *)

LEMMA RunnersFinite == IsFiniteSet(Runners)
<1>1. IsFiniteSet(1..PerTier)
  BY HostAssumption, FS_Interval
<1> QED
  BY <1>1, HostAssumption, FS_Product DEF Runners

\* Scheduler.commit keeps within Max.
TiersFit == \A t \in Tiers : Cardinality(PlacesOf(t)) <= TierMax

LEMMA PlacesFinite == \A t \in Tiers : IsFiniteSet(PlacesOf(t)) /\ Cardinality(PlacesOf(t)) \in Nat
<1> TAKE t \in Tiers
<1>1. PlacesOf(t) \subseteq Runners
  BY DEF PlacesOf
<1> QED
  BY <1>1, RunnersFinite, FS_Subset, FS_CardinalityType

LEMMA InitFits == Init => TiersFit
<1> SUFFICES ASSUME Init, NEW t \in Tiers PROVE Cardinality(PlacesOf(t)) <= TierMax
  BY DEF TiersFit
<1>1. PlacesOf(t) = {}
  BY DEF Init, PlacesOf
<1> QED
  BY <1>1, FS_EmptySet, HostAssumption

LEMMA NextFits == TypeInv /\ TiersFit /\ [Next]_vars => TiersFit'
<1> SUFFICES ASSUME TypeInv, TiersFit, [Next]_vars, NEW t \in Tiers
             PROVE  Cardinality(PlacesOf(t)') <= TierMax
  BY DEF TiersFit
<1>0. IsFiniteSet(PlacesOf(t)) /\ Cardinality(PlacesOf(t)) \in Nat /\ Cardinality(PlacesOf(t)) <= TierMax
  BY PlacesFinite DEF TiersFit
<1>1. ASSUME PlacesOf(t)' \subseteq PlacesOf(t) PROVE Cardinality(PlacesOf(t)') <= TierMax
  <2>1. IsFiniteSet(PlacesOf(t)') /\ Cardinality(PlacesOf(t)') <= Cardinality(PlacesOf(t))
    BY <1>0, <1>1, FS_Subset
  <2> QED
    BY <1>0, <2>1, HostAssumption, FS_CardinalityType
<1>2. ASSUME \A r \in Runners : pc'[r] \in {"idle", "gone"} \/ pc[r] \notin {"idle", "gone"}
      PROVE  Cardinality(PlacesOf(t)') <= TierMax
  BY <1>1, <1>2 DEF PlacesOf
<1>3. CASE UNCHANGED pc
  BY <1>2, <1>3
<1>4. CASE Crash
  BY <1>2, <1>4 DEF Crash
<1>5. CASE Restart
  BY <1>3, <1>5 DEF Restart
<1>6. ASSUME NEW r \in Runners, Commit(r) PROVE Cardinality(PlacesOf(t)') <= TierMax
  <2>1. /\ pc[r] = "idle" /\ pc' = [pc EXCEPT ![r] = "pending"]
        /\ Cardinality(PlacesOf(r[1])) < TierMax
    BY <1>6 DEF Commit, Moves
  <2>2. CASE r[1] = t
    <3>1. PlacesOf(t)' = PlacesOf(t) \cup {r} /\ r \notin PlacesOf(t)
      BY <2>1, <2>2 DEF PlacesOf, TypeInv, Types
    <3>2. Cardinality(PlacesOf(t) \cup {r}) = Cardinality(PlacesOf(t)) + 1
      BY <1>0, <3>1, FS_AddElement
    <3> QED
      BY <1>0, <2>1, <2>2, <3>1, <3>2, HostAssumption
  <2>3. CASE r[1] # t
    <3>1. PlacesOf(t)' = PlacesOf(t)
      BY <2>1, <2>3 DEF PlacesOf, TypeInv, Types
    <3> QED
      BY <1>1, <3>1
  <2> QED
    BY <2>2, <2>3
<1>7. ASSUME NEW r \in Runners, RunnerSteps(r), ~Commit(r)
      PROVE  Cardinality(PlacesOf(t)') <= TierMax
  <2>0. /\ {"network", "boot", "arm", "wait", "unplug", "release", "register"} \subseteq Holding
        /\ "idle" \notin Holding /\ "gone" \notin Holding
    BY DEF Holding, Places
  <2>1. pc[r] \in Holding => Cardinality(PlacesOf(t)') <= TierMax
    <3>1. ASSUME pc[r] \in Holding PROVE \E to \in Places : pc' = [pc EXCEPT ![r] = to] \/ UNCHANGED pc
      BY <1>7, <3>1 DEF RunnerSteps, LaunchSteps, WatchdogSteps, RegistrySteps, Enter, Acquire, Arm,
         Gone, Register, SetupNet, Boot, WaitReturns, Unplug, Release, Fires, Callback, Kills,
         Resolved, Refresh, Cancel, JobStarted, Connects, VMEnds, LifetimeEnds, Moves, Fails,
         process, Places
    <3>2. pc[r] \in Holding => \A q \in Runners : pc'[q] # pc[q] => pc[q] \notin {"idle", "gone"}
      BY <2>0, <3>1 DEF TypeInv, Types
    <3> QED
      BY <1>2, <3>2
  <2>2. CASE Enter(r) \/ Acquire(r) \/ Gone(r)
    <3>1. \A q \in Runners : pc'[q] # pc[q] => pc[q] \notin {"idle", "gone"}
      BY <2>2 DEF Enter, Acquire, Gone, Moves, TypeInv, Types
    <3> QED
      BY <1>2, <3>1
  <2>3. \/ UNCHANGED pc
        \/ pc[r] \in Holding
        \/ Enter(r) \/ Acquire(r) \/ Gone(r)
    BY <1>7, <2>0 DEF RunnerSteps, LaunchSteps, WatchdogSteps, RegistrySteps, Arm,
       Register, SetupNet, Boot, WaitReturns, Unplug, Release, Fires, Callback, Kills,
       Resolved, Refresh, Cancel, JobStarted, Connects, VMEnds, LifetimeEnds, Moves, Fails, process
  <2> QED
    BY <1>3, <2>1, <2>2, <2>3
<1> QED
  BY <1>3, <1>4, <1>5, <1>6, <1>7 DEF Next, RunnerSteps, vars, process

\* The sums of Scheduler.Capacity, in numbers.
LEMMA CapacitySums ==
  ASSUME NEW max \in Nat, NEW places \in Nat, NEW pending \in Nat, NEW committed \in Nat,
         NEW all \in Nat, NEW slots \in Nat,
         places <= max, committed + pending <= places, pending <= all
  PROVE  LET extra == Least(pending, slots) + Most(0, Least(max - places, slots - all))
         IN /\ committed + extra <= max
            /\ extra <= slots
            /\ extra > pending => extra + (all - pending) <= slots
            /\ places < max /\ slots > all => extra > pending
BY DEF Least, Most

\* What a tier of the host advertises: Scheduler.Capacity and capacityHeadroom,
\* over the ipam all tiers share.
THEOREM CapacityHolds == Spec => []CapacityFits
<1>1. TypeInv /\ TiersFit => CapacityFits
  <2> SUFFICES ASSUME TypeInv, TiersFit, NEW t \in Tiers
               PROVE  LET there  == Cardinality({r \in Committed(t) : pc[r] \in Holding})
                          counts == Cardinality({r \in Committed(t) : pc[r] \in {"entered", "returned"}})
                          spoken == Cardinality(AllPending \ Pending(t))
                          extra  == Capacity(t) - there - counts
                      IN /\ Capacity(t) <= TierMax
                         /\ extra <= Len(free)
                         /\ extra > Cardinality(Pending(t)) => extra + spoken <= Len(free)
                         /\ Cardinality(PlacesOf(t)) < TierMax /\ Len(free) > Cardinality(AllPending)
                            => extra > Cardinality(Pending(t))
    BY DEF CapacityFits
  <2> DEFINE There  == {r \in Committed(t) : pc[r] \in Holding}
             Counts == {r \in Committed(t) : pc[r] \in {"entered", "returned"}}
             Extra  == Least(Cardinality(Pending(t)), Len(free)) + Headroom(t)
  <2>1. /\ IsFiniteSet(PlacesOf(t)) /\ Cardinality(PlacesOf(t)) \in Nat
        /\ Cardinality(PlacesOf(t)) <= TierMax
    BY PlacesFinite DEF TiersFit
  <2>2. /\ Pending(t) \subseteq PlacesOf(t) /\ Committed(t) \subseteq PlacesOf(t)
        /\ Committed(t) \cap Pending(t) = {}
    BY DEF Pending, Committed
  <2>3. /\ IsFiniteSet(Pending(t)) /\ IsFiniteSet(Committed(t))
        /\ Cardinality(Pending(t)) \in Nat /\ Cardinality(Committed(t)) \in Nat
        /\ Cardinality(Committed(t)) + Cardinality(Pending(t)) <= Cardinality(PlacesOf(t))
    <3>1. IsFiniteSet(Pending(t)) /\ IsFiniteSet(Committed(t))
      BY <2>1, <2>2, FS_Subset
    <3>2. /\ Cardinality(Committed(t) \cup Pending(t))
               = Cardinality(Committed(t)) + Cardinality(Pending(t)) - Cardinality(Committed(t) \cap Pending(t))
      BY <3>1, FS_Union
    <3>3. Cardinality(Committed(t) \cap Pending(t)) = 0
      BY <2>2, FS_EmptySet
    <3>4. Cardinality(Committed(t) \cup Pending(t)) <= Cardinality(PlacesOf(t))
      BY <2>1, <2>2, FS_Subset
    <3>5. Cardinality(Pending(t)) \in Nat /\ Cardinality(Committed(t)) \in Nat
      BY <3>1, FS_CardinalityType
    <3> QED
      BY <3>1, <3>2, <3>3, <3>4, <3>5
  <2>4. /\ AllPending \subseteq Runners /\ Pending(t) \subseteq AllPending
    BY DEF AllPending, Pending, PlacesOf
  <2>5. /\ IsFiniteSet(AllPending) /\ Cardinality(AllPending) \in Nat
        /\ Cardinality(Pending(t)) <= Cardinality(AllPending)
        /\ Cardinality(AllPending \ Pending(t)) = Cardinality(AllPending) - Cardinality(Pending(t))
    <3>1. IsFiniteSet(AllPending)
      BY <2>4, RunnersFinite, FS_Subset
    <3>2. /\ Cardinality(AllPending \ Pending(t))
               = Cardinality(AllPending) - Cardinality(AllPending \cap Pending(t))
      BY <3>1, <2>3, FS_Difference
    <3>3. AllPending \cap Pending(t) = Pending(t)
      BY <2>4
    <3>4. Cardinality(Pending(t)) <= Cardinality(AllPending)
      BY <2>4, <3>1, FS_Subset
    <3> QED
      BY <3>1, <3>2, <3>3, <3>4, FS_CardinalityType
  <2>6. Cardinality(Committed(t)) = Cardinality(There) + Cardinality(Counts)
    <3>1. Committed(t) = There \cup Counts /\ There \cap Counts = {}
      <4>1. \A r \in Committed(t) : pc[r] \in Holding \/ pc[r] \in {"entered", "returned"}
        BY DEF Committed, Pending, PlacesOf, Holding, TypeInv, Types
      <4>2. "entered" \notin Holding /\ "returned" \notin Holding
        BY DEF Holding
      <4> QED
        BY <4>1, <4>2
    <3>2. IsFiniteSet(There) /\ IsFiniteSet(Counts)
      BY <2>3, <3>1, FS_Subset
    <3>3. Cardinality(There \cup Counts)
            = Cardinality(There) + Cardinality(Counts) - Cardinality(There \cap Counts)
      BY <3>2, FS_Union
    <3>4. Cardinality(There \cap Counts) = 0
      BY <3>1, FS_EmptySet
    <3>5. Cardinality(There) \in Nat /\ Cardinality(Counts) \in Nat
      BY <3>2, FS_CardinalityType
    <3>6. Cardinality(Committed(t)) = Cardinality(There \cup Counts)
      BY <3>1
    <3> HIDE DEF There, Counts
    <3> QED
      BY <3>3, <3>4, <3>5, <3>6
  <2>7. Cardinality(There) \in Nat /\ Cardinality(Counts) \in Nat
    <3>1. There \subseteq Committed(t) /\ Counts \subseteq Committed(t)
      OBVIOUS
    <3> QED
      BY <2>3, <3>1, FS_Subset, FS_CardinalityType
  <2>8. Len(free) \in Nat /\ TierMax \in Nat
    BY HostAssumption DEF TypeInv, Types
  <2>9. /\ Cardinality(Committed(t)) + Extra <= TierMax
        /\ Extra <= Len(free)
        /\ Extra > Cardinality(Pending(t))
             => Extra + (Cardinality(AllPending) - Cardinality(Pending(t))) <= Len(free)
        /\ Cardinality(PlacesOf(t)) < TierMax /\ Len(free) > Cardinality(AllPending)
             => Extra > Cardinality(Pending(t))
    BY <2>1, <2>3, <2>5, <2>8, CapacitySums DEF Headroom
  <2>10. Least(Cardinality(Pending(t)), Len(free)) \in Nat /\ Headroom(t) \in Nat
    BY <2>1, <2>3, <2>5, <2>8 DEF Headroom, Least, Most
  <2>11. Capacity(t) = Cardinality(Committed(t)) + Extra /\ Extra \in Nat
    BY <2>3, <2>10 DEF Capacity
  <2> HIDE DEF There, Counts, Extra
  <2>12. Capacity(t) - Cardinality(There) - Cardinality(Counts) = Extra
    BY <2>6, <2>7, <2>11
  <2>13. /\ Capacity(t) <= TierMax
         /\ Extra <= Len(free)
         /\ Extra > Cardinality(Pending(t)) => Extra + Cardinality(AllPending \ Pending(t)) <= Len(free)
         /\ Cardinality(PlacesOf(t)) < TierMax /\ Len(free) > Cardinality(AllPending)
              => Extra > Cardinality(Pending(t))
    BY <2>5, <2>9, <2>11
  <2> QED
    BY <2>12, <2>13 DEF There, Counts
<1> QED
  BY <1>1, InitTypes, InitFits, NextTypes, NextFits, PTL DEF Spec

-----------------------------------------------------------------------------
(* Launch, ipam and the registry implement Leases.                         *)

Had == {r \in Runners : slot[r] # NoSlot}
Holder(r, s) == pc[r] \in Holding /\ slot[r] = s

\* Who uses an address, without the choice.
OccupantIs ==
    /\ Occupant = [s \in Slots |-> Occupant[s]]
    /\ ~up => \A s \in Slots : Occupant[s] = Unusable
    /\ up => \A s \in Slots :
         /\ \A r \in Runners : Holder(r, s) => Occupant[s] = r
         /\ (\A r \in Runners : ~Holder(r, s)) =>
                Occupant[s] = IF s \in Range(free) THEN Nobody ELSE Unusable

LEMMA OccupantFacts == TypeInv /\ SlotInv => OccupantIs
<1> SUFFICES ASSUME TypeInv, SlotInv PROVE OccupantIs
  OBVIOUS
<1>1. Occupant = [s \in Slots |-> Occupant[s]] /\ (~up => \A s \in Slots : Occupant[s] = Unusable)
  BY DEF Occupant
<1>2. ASSUME up, NEW s \in Slots, NEW r \in Runners, Holder(r, s) PROVE Occupant[s] = r
  <2>1. Slotted(s) = {r}
    BY <1>2 DEF Slotted, Holder, SlotInv, OneHolder
  <2>2. Occupant[s] = CHOOSE q \in Slotted(s) : TRUE
    BY <1>2, <2>1 DEF Occupant
  <2> QED
    BY <2>1, <2>2
<1>3. ASSUME up, NEW s \in Slots, \A r \in Runners : ~Holder(r, s)
      PROVE  Occupant[s] = IF s \in Range(free) THEN Nobody ELSE Unusable
  <2>1. Slotted(s) = {}
    BY <1>3 DEF Slotted, Holder
  <2> QED
    BY <1>3, <2>1 DEF Occupant, FreeSlots
<1> QED
  BY <1>1, <1>2, <1>3 DEF OccupantIs

\* Where neither the slots nor the stack change, the occupants do not.
LEMMA SameOccupant ==
  ASSUME OccupantIs, OccupantIs', up, up', UNCHANGED <<free, slot>>,
         \A q \in Runners : pc'[q] \in Holding <=> pc[q] \in Holding
  PROVE  UNCHANGED <<Occupant, Had>>
<1>1. \A q \in Runners, s \in Slots : Holder(q, s)' <=> Holder(q, s)
  BY DEF Holder
<1>2. ASSUME NEW s \in Slots PROVE Occupant'[s] = Occupant[s]
  <2>1. CASE \E r \in Runners : Holder(r, s)
    BY <1>1, <2>1 DEF OccupantIs
  <2>2. CASE \A r \in Runners : ~Holder(r, s)
    BY <1>1, <2>2 DEF OccupantIs
  <2> QED
    BY <2>1, <2>2
<1>3. Occupant' = Occupant
  BY <1>2 DEF OccupantIs
<1> QED
  BY <1>3 DEF Had

\* A step that changes who has the slot of r, and no other.
LEMMA OneOccupant ==
  ASSUME OccupantIs, OccupantIs', up, up', NEW s \in Slots,
         \A q \in Runners, a \in Slots \ {s} : Holder(q, a)' <=> Holder(q, a),
         \A a \in Slots \ {s} : a \in Range(free') <=> a \in Range(free)
  PROVE  Occupant' = [Occupant EXCEPT ![s] = Occupant'[s]]
<1>1. ASSUME NEW a \in Slots \ {s} PROVE Occupant'[a] = Occupant[a]
  <2>1. CASE \E r \in Runners : Holder(r, a)
    BY <2>1 DEF OccupantIs
  <2>2. CASE \A r \in Runners : ~Holder(r, a)
    BY <2>2 DEF OccupantIs
  <2> QED
    BY <2>1, <2>2
<1> QED
  BY <1>1 DEF OccupantIs

\* ipam.acquire is an arrival.
LEMMA AcquireArrives ==
  ASSUME TypeInv, SlotInv, OccupantIs, OccupantIs', up, up',
         NEW r \in Runners, Acquire(r), free # <<>>
  PROVE  Addresses!Arrives(Last(free), r)
<1> DEFINE s == Last(free)
<1>1. s \in Slots /\ s \in Range(free) /\ Range(free') = Range(free) \ {s}
  BY PopFacts DEF Acquire, TypeInv, Types, SlotInv
<1>2. /\ pc[r] = "entered" /\ pc' = [pc EXCEPT ![r] = "register"]
      /\ slot' = [slot EXCEPT ![r] = s] /\ UNCHANGED record
  BY DEF Acquire, Moves, disk
<1> HIDE DEF s
<1>3. "register" \in Holding /\ "entered" \notin Holding
  BY DEF Holding, Places
<1>4. \A q \in Runners : ~Holder(q, s)
  BY <1>1 DEF SlotInv, FreeExactly, Holder
<1>5. /\ pc'[r] = "register" /\ slot'[r] = s /\ slot[r] = NoSlot /\ NoSlot # s
      /\ \A q \in Runners \ {r} : pc'[q] = pc[q] /\ slot'[q] = slot[q]
  BY <1>1, <1>2, HostAssumption DEF TypeInv, Types, HasSlot
<1>6. Occupant[s] = Nobody /\ r \notin Had /\ Had' = Had \cup {r}
  BY <1>1, <1>4, <1>5 DEF OccupantIs, Had
<1>7. Occupant'[s] = r
  BY <1>1, <1>3, <1>5 DEF OccupantIs, Holder
<1>8. \A q \in Runners, a \in Slots \ {s} : Holder(q, a)' <=> Holder(q, a)
  BY <1>2, <1>3, <1>5 DEF Holder
<1>9. Occupant' = [Occupant EXCEPT ![s] = r]
  BY <1>1, <1>7, <1>8, OneOccupant
<1> QED
  BY <1>2, <1>6, <1>9 DEF Addresses!Arrives, Had, s

\* The end of Launch leaves the address.
LEMMA ReleaseLeaves ==
  ASSUME TypeInv, SlotInv, SlotInv', OccupantIs, OccupantIs', up, up',
         NEW r \in Runners, NEW ok \in BOOLEAN, Release(r, ok)
  PROVE  slot[r] \in Slots /\ Addresses!Leaves(slot[r], r)
<1>0. "release" \in Holding /\ "returned" \notin Holding
  BY DEF Holding, Places
<1>1. /\ pc[r] = "release" /\ pc' = [pc EXCEPT ![r] = "returned"] /\ UNCHANGED slot
      /\ leased[r] = "absent" => ok
  BY DEF Release, Moves
<1>2. slot[r] \in Slots
  BY <1>0, <1>1 DEF TypeInv, HasSlot
<1>3. pc'[r] = "returned" /\ \A q \in Runners \ {r} : pc'[q] = pc[q]
  BY <1>1 DEF TypeInv, Types
<1>4. Holder(r, slot[r]) /\ \A q \in Runners : ~Holder(q, slot[r])'
  BY <1>0, <1>1, <1>3 DEF Holder, SlotInv, OneHolder
<1>5. \A q \in Runners, a \in Slots \ {slot[r]} : Holder(q, a)' <=> Holder(q, a)
  BY <1>0, <1>1, <1>3 DEF Holder
<1>6. slot[r] \notin Range(free)
  BY <1>2, <1>4 DEF SlotInv, FreeExactly, Holder
<1>7. /\ ok => Range(free') = Range(free) \cup {slot[r]}
      /\ ~ok => Range(free') = Range(free)
  BY <1>2, <1>6, PushFacts DEF Release, SlotsAfter, TypeInv, Types, SlotInv
<1>8. Occupant' = [Occupant EXCEPT ![slot[r]] = Occupant'[slot[r]]]
  BY <1>2, <1>5, <1>7, OneOccupant
<1>9. Occupant[slot[r]] = r /\ Occupant'[slot[r]] = IF ok THEN Nobody ELSE Unusable
  <2>1. Occupant[slot[r]] = r
    BY <1>2, <1>4 DEF OccupantIs
  <2>2. Occupant'[slot[r]] = IF slot[r] \in Range(free') THEN Nobody ELSE Unusable
    <3>1. \A q \in Runners : pc'[q] \in Holding => slot'[q] # slot[r]
      BY <1>1, <1>4 DEF Holder
    <3> QED
      BY <1>2, <3>1 DEF OccupantIs, Holder
  <2>3. slot[r] \in Range(free') <=> ok
    BY <1>6, <1>7
  <2> QED
    BY <2>1, <2>2, <2>3
<1>10. Had' = Had
  BY <1>1 DEF Had
<1>11. CASE ok
  <2>1. record' = [record EXCEPT ![slot[r]] = NoRecord]
    <3>1. CASE leased[r] # "absent"
      BY <1>11, <3>1 DEF Release
    <3>2. CASE leased[r] = "absent"
      <4>1. record' = record /\ record[slot[r]] = NoRecord
        BY <1>0, <1>1, <3>2 DEF Release, SlotInv, OwnRecords
      <4> QED
        BY <4>1 DEF TypeInv, Types
    <3> QED
      BY <3>1, <3>2
  <2> QED
    BY <1>2, <1>8, <1>9, <1>10, <1>11, <2>1 DEF Addresses!Leaves, Had
<1>12. CASE ~ok
  <2>1. record' = record
    BY <1>12 DEF Release
  <2> QED
    BY <1>2, <1>8, <1>9, <1>10, <1>12, <2>1 DEF Addresses!Leaves, Had
<1> QED
  BY <1>11, <1>12

\* Register publishes once, a resolution and the refresher answer or repeat.
LEMMA LeasePublishes ==
  ASSUME TypeInv, SlotInv, OccupantIs, OccupantIs', up, up', NEW r \in Runners,
         \/ \E ok \in BOOLEAN : Register(r, ok)
         \/ JobStarted(r) \/ RegistrySteps(r)
  PROVE  \/ UNCHANGED <<Occupant, record, Had>>
         \/ slot[r] \in Slots /\ Addresses!Publishes(slot[r], r)
         \/ /\ slot[r] \in Slots
            /\ \E rights \in {"granted", "refused"} : Addresses!Answers(slot[r], r, rights)
<1>0. {"register", "network", "release"} \subseteq Holding
  BY DEF Holding, Places
<1>1. UNCHANGED <<free, slot>> /\ \A q \in Runners : pc'[q] \in Holding <=> pc[q] \in Holding
  <2>1. ASSUME NEW ok \in BOOLEAN, Register(r, ok)
        PROVE  UNCHANGED <<free, slot>> /\ \A q \in Runners : pc'[q] \in Holding <=> pc[q] \in Holding
    <3>1. /\ UNCHANGED <<free, slot>> /\ pc[r] = "register"
          /\ \E to \in {"network", "release"} : pc' = [pc EXCEPT ![r] = to]
      BY <2>1 DEF Register, Moves
    <3> QED
      BY <1>0, <3>1 DEF TypeInv, Types
  <2>2. CASE JobStarted(r) \/ RegistrySteps(r)
    BY <2>2 DEF JobStarted, RegistrySteps, Resolved, Refresh, process
  <2> QED
    BY <2>1, <2>2
<1>2. UNCHANGED <<Occupant, Had>>
  BY <1>1, SameOccupant
<1>3. CASE UNCHANGED record
  BY <1>2, <1>3
<1>4. ASSUME NEW ok \in BOOLEAN, Register(r, ok), ~UNCHANGED record
      PROVE  slot[r] \in Slots /\ Addresses!Publishes(slot[r], r)
  <2>1. pc[r] = "register" /\ record' = [record EXCEPT ![slot[r]] = [gen |-> r, rights |-> "pending"]]
    BY <1>4 DEF Register, Moves, Publish
  <2>2. slot[r] \in Slots
    BY <1>0, <2>1 DEF TypeInv, HasSlot
  <2>3. record[slot[r]] = NoRecord
    BY <1>0, <2>1 DEF SlotInv, OwnRecords
  <2>4. Occupant[slot[r]] = r
    BY <1>0, <2>1, <2>2 DEF OccupantIs, Holder
  <2> QED
    BY <1>2, <2>1, <2>2, <2>3, <2>4 DEF Addresses!Publishes, Addresses!Published, Had
<1>5. ASSUME leased[r] # "absent", NEW rights \in {"granted", "refused"},
             record' = [record EXCEPT ![slot[r]] = [gen |-> r, rights |-> rights]],
             record[slot[r]] = [gen |-> r, rights |-> "pending"]
      PROVE  slot[r] \in Slots /\ Addresses!Answers(slot[r], r, rights)
  <2>1. pc[r] \in Holding /\ slot[r] \in Slots
    BY <1>5 DEF TypeInv, HasSlot
  <2>2. Occupant[slot[r]] = r
    BY <2>1 DEF OccupantIs, Holder
  <2> QED
    BY <1>2, <1>5, <2>1, <2>2 DEF Addresses!Answers, Addresses!Published, Had
<1>6. CASE Refresh(r) /\ ~UNCHANGED record
  <2>1. leased[r] # "absent" /\ record' = [record EXCEPT ![slot[r]] = [gen |-> r, rights |-> leased[r]]]
    BY <1>6 DEF Refresh, Publish
  <2>2. record[slot[r]] # [gen |-> r, rights |-> leased[r]]
    <3>1. SUFFICES ASSUME record[slot[r]] = [gen |-> r, rights |-> leased[r]] PROVE UNCHANGED record
      BY <1>6
    <3>2. slot[r] \in Slots
      BY <2>1 DEF TypeInv, HasSlot
    <3> QED
      BY <2>1, <3>1, <3>2 DEF TypeInv, Types
  <2>3. leased[r] = "refused" /\ record[slot[r]] = [gen |-> r, rights |-> "pending"]
    BY <2>1, <2>2 DEF SlotInv, OwnRecords
  <2> QED
    BY <1>5, <2>1, <2>3
<1>7. ASSUME NEW ok \in BOOLEAN, NEW rights \in {"granted", "refused"}, Resolved(r, rights, ok),
             ~UNCHANGED record
      PROVE  /\ slot[r] \in Slots
             /\ \E answer \in {"granted", "refused"} : Addresses!Answers(slot[r], r, answer)
  <2>1. /\ r \in asking /\ leased[r] # "absent"
        /\ leased' = [leased EXCEPT ![r] = Settled(rights, ok)]
        /\ record' = [record EXCEPT ![slot[r]] = [gen |-> r, rights |-> leased'[r]]]
    BY <1>7 DEF Resolved, OwnLease, Publish
  <2>2. leased'[r] \in {"granted", "refused"}
    BY <2>1 DEF Settled, TypeInv, Types
  <2>3. record[slot[r]] = [gen |-> r, rights |-> "pending"]
    BY <2>1 DEF SlotInv, OwnRecords
  <2> QED
    BY <1>5, <2>1, <2>2, <2>3
<1> QED
  <2>1. CASE JobStarted(r)
    BY <1>3, <2>1 DEF JobStarted, disk
  <2> QED
    BY <1>3, <1>4, <1>6, <1>7, <2>1 DEF RegistrySteps

\* The whole of ImplementsLeases: each step of the host is one of Leases or none.
THEOREM RefinesLeases == Spec => ImplementsLeases
<1>1. Init => Addresses!LeasesInit
  <2> SUFFICES ASSUME Init PROVE Addresses!LeasesInit
    OBVIOUS
  <2>1. Range(free) = Slots /\ up /\ \A s \in Slots, r \in Runners : ~Holder(r, s)
    BY AllFreeFacts DEF Init, Holder, Holding
  <2>2. OccupantIs
    BY InitTypes, InitSlots, OccupantFacts
  <2>3. Occupant = [s \in Slots |-> Nobody] /\ Had = {}
    BY <2>1, <2>2 DEF OccupantIs, Init, Had
  <2> QED
    BY <2>3 DEF Addresses!LeasesInit, Had, Init, NoRecords
<1>2. /\ TypeInv /\ SlotInv /\ TypeInv' /\ SlotInv' /\ OccupantIs /\ OccupantIs' /\ [Next]_vars
      => [Addresses!LeasesNext]_(Addresses!leases)
  <2> SUFFICES ASSUME TypeInv, SlotInv, TypeInv', SlotInv', OccupantIs, OccupantIs', [Next]_vars
               PROVE  Addresses!LeasesNext \/ UNCHANGED <<Occupant, record, Had>>
    BY DEF Addresses!leases, Had
  <2>1. CASE UNCHANGED vars
    BY <2>1 DEF vars, process, disk, Occupant, Slotted, FreeSlots, Had
  <2>2. CASE Crash
    <3>1. ~up' /\ UNCHANGED <<slot, record>>
      BY <2>2 DEF Crash, disk
    <3>2. Occupant' = [s \in Slots |-> Unusable]
      BY <3>1 DEF OccupantIs
    <3> QED
      BY <3>1, <3>2 DEF Addresses!LeasesNext, Addresses!Ends
  <2>3. CASE Restart
    <3>1. /\ ~up /\ up' /\ UNCHANGED <<pc, slot>> /\ record' = [s \in Slots |-> NoRecord]
          /\ Range(free') = Slots
      BY <2>3, AllFreeFacts DEF Restart, NoRecords
    <3>2. \A s \in Slots, r \in Runners : ~Holder(r, s)'
      BY <3>1 DEF SlotInv, DownIsEmpty, Holder, Holding
    <3>3. Occupant' = [s \in Slots |-> Nobody] /\ \A s \in Slots : Occupant[s] = Unusable
      BY <3>1, <3>2 DEF OccupantIs
    <3> QED
      BY <3>1, <3>3 DEF Addresses!LeasesNext, Addresses!Returns
  <2>4. ASSUME up, UNCHANGED <<crashes, up>>, NEW r \in Runners, RunnerSteps(r)
        PROVE  Addresses!LeasesNext \/ UNCHANGED <<Occupant, record, Had>>
    <3>1. CASE Steady(r)
      <4>1. UNCHANGED <<free, slot, record>> /\ \A q \in Runners : pc'[q] \in Holding <=> pc[q] \in Holding
        BY <3>1 DEF Steady, TypeInv, Types
      <4> QED
        BY <2>4, <4>1, SameOccupant
    <3>2. CASE Acquire(r) /\ free # <<>>
      <4>1. Last(free) \in Slots
        BY <3>2, PopFacts DEF TypeInv, Types, SlotInv
      <4> QED
        BY <2>4, <3>2, <4>1, AcquireArrives DEF Addresses!LeasesNext
    <3>3. ASSUME NEW ok \in BOOLEAN, Release(r, ok) PROVE Addresses!LeasesNext
      BY <2>4, <3>3, ReleaseLeaves DEF Addresses!LeasesNext
    <3>4. CASE \/ \E ok \in BOOLEAN : Register(r, ok)
               \/ JobStarted(r) \/ RegistrySteps(r)
      BY <2>4, <3>4, LeasePublishes DEF Addresses!LeasesNext
    <3> QED
      BY <2>4, <3>1, <3>2, <3>3, <3>4, StepKinds
  <2> QED
    BY <2>1, <2>2, <2>3, <2>4 DEF Next, RunnerSteps
<1> QED
  BY <1>1, <1>2, InitTypes, InitSlots, NextTypes, NextSlots, OccupantFacts, PTL
     DEF ImplementsLeases, Addresses!LeasesSpec, Spec
-----------------------------------------------------------------------------
===============================================================================
