------------------------------ MODULE Ec2Proofs ------------------------------
(***************************************************************************)
(* Theorems about the EC2 tier, for any number of instances, launches,     *)
(* faults, surprises and crashes.                                          *)
(***************************************************************************)
EXTENDS Reaper, FiniteSetTheorems, TLAPS

-----------------------------------------------------------------------------
(* What the calls do to the account.                                       *)

AwsType == [Instances -> Instance]

\* The account after a call that only touches i.
Touches(a, b, i) == \A j \in Instances \ {i} : b[j] = a[j]

LEMMA RecordTypes ==
    /\ NoInstance \in Instance /\ PoolInstance \in Instance
    /\ \A r \in Runners : ColdInstance(r) \in Instance
  BY DEF NoInstance, PoolInstance, ColdInstance, Instance, States, Tags

LEMMA TaggedFacts ==
  ASSUME NEW a \in AwsType, NEW i \in Instances, NEW tag \in Tags,
         NEW r \in Runners \cup {NoRunner}
  PROVE  LET b == Tagged(a, i, tag, r)
         IN  /\ b \in AwsType /\ Touches(a, b, i)
             /\ b[i].st = a[i].st /\ b[i].openSpot = a[i].openSpot
             /\ b[i].tag \in {a[i].tag, tag}
<1> DEFINE b == Tagged(a, i, tag, r)
           kept == a[i].old /\ tag = "claimed"
           t == [a[i] EXCEPT !.tag = tag, !.runner = r, !.old = kept]
<1>1. CASE a[i].st = "gone"
  BY <1>1 DEF Tagged, Touches
<1>2. CASE a[i].st # "gone"
  <2>1. t \in Instance /\ t.st = a[i].st /\ t.openSpot = a[i].openSpot /\ t.tag = tag
    BY DEF AwsType, Instance, Tags
  <2>2. b = [a EXCEPT ![i] = t]
    BY <1>2 DEF Tagged, AwsType, Instance
  <2> QED
    BY <2>1, <2>2 DEF AwsType, Touches
<1> QED
  BY <1>1, <1>2

LEMMA ReadyFacts ==
  ASSUME NEW a \in AwsType, NEW ids \in SUBSET Instances
  PROVE  LET b == Ready(a, ids)
         IN  /\ b \in AwsType
             /\ \A i \in Instances : /\ b[i].st = a[i].st /\ b[i].openSpot = a[i].openSpot
                                     /\ b[i].tag \in {a[i].tag, "ready"}
             /\ \A i \in Instances \ ids : b[i] = a[i]
<1>1. ASSUME NEW i \in Instances
      PROVE  LET t == Tagged(a, i, "ready", a[i].runner)
             IN  /\ t[i] \in Instance
                 /\ t[i].st = a[i].st /\ t[i].openSpot = a[i].openSpot
                 /\ t[i].tag \in {a[i].tag, "ready"}
  <2>1. a[i].runner \in Runners \cup {NoRunner} /\ "ready" \in Tags
    BY DEF AwsType, Instance, Tags
  <2> QED
    BY <2>1, TaggedFacts DEF AwsType
<1> DEFINE b == Ready(a, ids)
<1>2. b = [i \in Instances |-> IF i \in ids THEN Tagged(a, i, "ready", a[i].runner)[i] ELSE a[i]]
  BY DEF Ready
<1> HIDE DEF b
<1>3. b \in AwsType
  BY <1>1, <1>2 DEF AwsType
<1>4. ASSUME NEW i \in Instances
      PROVE  /\ b[i].st = a[i].st /\ b[i].openSpot = a[i].openSpot
             /\ b[i].tag \in {a[i].tag, "ready"}
             /\ i \notin ids => b[i] = a[i]
  BY <1>1, <1>2
<1> QED
  BY <1>3, <1>4 DEF b

LEMMA SpotClosedFacts ==
  ASSUME NEW a \in AwsType, NEW i \in Instances
  PROVE  LET b == SpotClosed(a, i)
         IN  /\ b \in AwsType /\ Touches(a, b, i)
             /\ b[i].st = a[i].st /\ b[i].tag = a[i].tag /\ ~b[i].openSpot
             /\ b[i].runner = a[i].runner
  BY DEF SpotClosed, AwsType, Touches, Instance

LEMMA TerminatedFacts ==
  ASSUME NEW a \in AwsType, NEW i \in Instances
  PROVE  LET b == Terminated(a, i)
         IN  /\ b \in AwsType /\ Touches(a, b, i)
             /\ b[i].st = "gone" /\ b[i].tag = "none" /\ b[i].openSpot = a[i].openSpot
  BY DEF Terminated, NoInstance, AwsType, Touches, Instance, States, Tags

LEMMA StartedFacts ==
  ASSUME NEW a \in AwsType, NEW i \in Instances
  PROVE  LET b == Started(a, i)
         IN  /\ b \in AwsType /\ Touches(a, b, i)
             /\ b[i].st = "starting" /\ b[i].tag = a[i].tag /\ b[i].openSpot = a[i].openSpot
             /\ b[i].runner = a[i].runner
  BY DEF Started, AwsType, Touches, Instance, States

LEMMA OffFacts ==
  ASSUME aws \in AwsType, NEW i \in Instances
  PROVE  LET b == Off(i)
         IN  /\ b \in AwsType /\ Touches(aws, b, i)
             /\ b[i].st \in {"gone", "stopped"} /\ b[i].tag = aws[i].tag
             /\ b[i].openSpot = aws[i].openSpot /\ b[i].runner = aws[i].runner
             /\ b[i].st = "gone" => aws[i].tag = "none"
<1> DEFINE st == IF aws[i].tag = "none" THEN "gone" ELSE "stopped"
           t == [[aws[i] EXCEPT !.st = st] EXCEPT !.guest = "none"]
<1>1. /\ t \in Instance /\ t.st = st /\ t.tag = aws[i].tag /\ t.openSpot = aws[i].openSpot
      /\ t.runner = aws[i].runner
  BY DEF AwsType, Instance, States
<1>2. Off(i) = [aws EXCEPT ![i] = t]
  BY DEF Off, AwsType, Instance
<1> QED
  BY <1>1, <1>2 DEF AwsType, Touches

LEMMA CallTypes ==
  ASSUME faults \in 0..MaxFaults, NEW done, NEW ok \in BOOLEAN, Call(done, ok)
  PROVE  faults' \in 0..MaxFaults
  BY AwsAssumption DEF Call

\* Whatever comes of a discard, a reap or an abort.
LEMMA DiscardFacts ==
  ASSUME aws \in AwsType, faults \in 0..MaxFaults,
         NEW i \in Instances, NEW ok \in BOOLEAN, Discard(i, ok)
  PROVE  /\ aws' \in AwsType /\ Touches(aws, aws', i)
         /\ faults' \in 0..MaxFaults
         /\ aws'[i].st \in {aws[i].st, "gone"}
         /\ aws'[i].tag \in {aws[i].tag, "none"}
         /\ aws'[i].st = aws[i].st \/ ~aws'[i].openSpot
         /\ aws'[i].openSpot => aws[i].openSpot
<1> DEFINE closed == SpotClosed(aws, i)
           ended == Terminated(closed, i)
<1>1. /\ closed \in AwsType /\ Touches(aws, closed, i)
      /\ closed[i].st = aws[i].st /\ closed[i].tag = aws[i].tag /\ ~closed[i].openSpot
  BY SpotClosedFacts
<1>2. /\ ended \in AwsType /\ Touches(closed, ended, i)
      /\ ended[i].st = "gone" /\ ended[i].tag = "none" /\ ended[i].openSpot = closed[i].openSpot
  BY <1>1, TerminatedFacts
<1>3. Touches(aws, ended, i)
  BY <1>1, <1>2 DEF Touches
<1>4. aws' \in {aws, closed, ended}
  BY DEF Discard
<1>5. faults' \in 0..MaxFaults
  BY CallTypes DEF Discard
<1> QED
  BY <1>1, <1>2, <1>3, <1>4, <1>5 DEF Touches

-----------------------------------------------------------------------------
(* Types.                                                                  *)

LEMMA AwsStepTypes ==
  ASSUME Ec2TypeOK, NEW i \in Instances, AwsStep(i), UNCHANGED processVars
  PROVE  Ec2TypeOK'
<1> DEFINE AccountType == /\ aws \in AwsType
                          /\ faults \in 0..MaxFaults /\ surprises \in 0..MaxSurprises
                          /\ gh \in [Runners -> {"none", "idle", "busy"}]
<1>1. AccountType /\ aws[i] \in Instance
  BY DEF Ec2TypeOK, AwsType
<1>2. AccountType'
  <2>1. CASE Boots(i)
    <3>1. [aws[i] EXCEPT !.st = "up"] \in Instance
      BY <1>1 DEF Instance, States
    <3> QED
      BY <1>1, <2>1, <3>1 DEF Boots, AwsType
  <2>2. CASE PowersOff(i)
    BY <1>1, <2>2, OffFacts DEF PowersOff
  <2>3. CASE Ages(i)
    <3>1. [aws[i] EXCEPT !.old = TRUE] \in Instance
      BY <1>1 DEF Instance
    <3> QED
      BY <1>1, <2>3, <3>1 DEF Ages, AwsType
  <2>4. CASE JobStarts(i)
    <3>1. [aws[i] EXCEPT !.guest = "job"] \in Instance
      BY <1>1 DEF Instance
    <3> QED
      BY <1>1, <2>4, <3>1 DEF JobStarts, AwsType
  <2>5. CASE JobEnds(i)
    BY <1>1, <2>5, OffFacts DEF JobEnds
  <2>6. CASE SpotRestarts(i)
    BY <1>1, <2>6, StartedFacts, AwsAssumption DEF SpotRestarts
  <2>7. CASE EndedFromOutside(i)
    BY <1>1, <2>7, TerminatedFacts, AwsAssumption DEF EndedFromOutside
  <2> QED
    BY <2>1, <2>2, <2>3, <2>4, <2>5, <2>6, <2>7 DEF AwsStep
<1> QED
  BY <1>2 DEF Ec2TypeOK, AwsType, processVars, poolVars, launchVars

LEMMA MarkReadyTypes ==
  ASSUME Ec2TypeOK, NEW i \in Instances, MarkReady(i)
  PROVE  /\ aws' \in AwsType /\ faults' \in 0..MaxFaults
         /\ ready' \subseteq Instances /\ warming' \subseteq Instances
  BY CallTypes, ReadyFacts DEF MarkReady, Ec2TypeOK, AwsType

LEMMA PoolStepTypes ==
  ASSUME Ec2TypeOK, PoolStep
  PROVE  Ec2TypeOK'
<1> USE DEF Ec2TypeOK, AwsType, poolRest, launchVars, PoolPlaces
<1>1. CASE Discover
  <2>1. PICK failed \in SUBSET Instances, done \in SUBSET Instances :
           /\ Cardinality(failed) <= faults
           /\ faults' = faults - Cardinality(failed)
           /\ \E ids \in SUBSET Instances : aws' = Ready(aws, ids)
    BY <1>1 DEF Discover, PoolTagged, Alive
  <2>2. Cardinality(failed) \in Nat
    BY AwsAssumption, FS_Subset, FS_CardinalityType
  <2>3. faults' \in 0..MaxFaults
    BY <2>1, <2>2, AwsAssumption
  <2>4. aws' \in AwsType
    BY <2>1, ReadyFacts
  <2> QED
    BY <1>1, <2>3, <2>4 DEF Discover, PoolTagged, Alive
<1>2. ASSUME NEW place, NEW next \in PoolPlaces, Undescribed(place, next) PROVE Ec2TypeOK'
  BY <1>2, CallTypes DEF Undescribed
<1>3. CASE CheckLists
  BY <1>3 DEF CheckLists, Shown, Instance, States
<1>4. CASE CheckSkipped
  BY <1>4 DEF CheckSkipped
<1>5. CASE RefreshDone
  BY <1>5 DEF RefreshDone, Fill
<1>6. ASSUME NEW i \in Instances, Check(i) PROVE Ec2TypeOK'
  <2>1. ASSUME Checked(i, "up") \/ Checked(i, "gone") PROVE listed' \subseteq listed /\ poolAt' \in PoolPlaces
    BY <2>1 DEF Checked
  <2>2. SpotClosed(aws, i) \in AwsType /\ Tagged(aws, i, "warming", NoRunner) \in AwsType
    BY SpotClosedFacts, TaggedFacts DEF Tags
  <2> QED
    BY <1>6, <2>1, <2>2, CallTypes DEF Check, Checked
<1>7. ASSUME NEW i \in Instances, Refresh(i) PROVE Ec2TypeOK'
  BY <1>7, MarkReadyTypes, DiscardFacts DEF Refresh
<1>8. ASSUME NEW i \in Instances, FillRuns(i) PROVE Ec2TypeOK'
  BY <1>8, CallTypes, RecordTypes DEF FillRuns
<1> QED
  BY <1>1, <1>2, <1>3, <1>4, <1>5, <1>6, <1>7, <1>8 DEF PoolStep

LEMMA TrimTypes ==
  ASSUME Ec2TypeOK, TrimStep \/ \E n \in Sizes : SetTarget(n)
  PROVE  Ec2TypeOK'
<1> USE DEF Ec2TypeOK, AwsType, launchVars, PoolPlaces, TrimEnds, Fill
<1>1. ASSUME NEW i \in Instances, Trim(i) PROVE Ec2TypeOK'
  BY <1>1, DiscardFacts DEF Trim
<1>2. CASE TrimDone
  BY <1>2 DEF TrimDone, awsVars
<1>3. ASSUME NEW n \in Sizes, SetTarget(n) PROVE Ec2TypeOK'
  BY <1>3 DEF SetTarget, awsVars
<1> QED
  BY <1>1, <1>2, <1>3 DEF TrimStep

\* The three ways a launch moves.
LEMMA GoesTypes ==
  ASSUME Ec2TypeOK, NEW r \in Runners, NEW place \in LaunchPlaces, Goes(r, place),
         UNCHANGED hand, at[r] \in Holding <=> place \in Holding
  PROVE  /\ at' \in [Runners -> LaunchPlaces]
         /\ \A q \in Runners : hand'[q] # NoInst <=> at'[q] \in Holding
  BY DEF Goes, Ec2TypeOK

LEMMA LetsGoTypes ==
  ASSUME Ec2TypeOK, NEW r \in Runners, NEW place \in {"claim", "cold"}, LetsGo(r, place)
  PROVE  /\ at' \in [Runners -> LaunchPlaces]
         /\ hand' \in [Runners -> Instances \cup {NoInst}]
         /\ live' \subseteq Instances
         /\ \A q \in Runners : hand'[q] # NoInst <=> at'[q] \in Holding
<1>1. /\ at' \in [Runners -> LaunchPlaces] /\ hand' \in [Runners -> Instances \cup {NoInst}]
      /\ live' \subseteq Instances
  BY DEF LetsGo, Goes, Ec2TypeOK, LaunchPlaces
<1>2. ASSUME NEW q \in Runners PROVE hand'[q] # NoInst <=> at'[q] \in Holding
  BY DEF LetsGo, Goes, Ec2TypeOK, Holding, Claiming
<1> QED
  BY <1>1, <1>2

LEMMA EndsTypes ==
  ASSUME Ec2TypeOK, NEW r \in Runners, Ends(r)
  PROVE  /\ at' \in [Runners -> LaunchPlaces]
         /\ hand' \in [Runners -> Instances \cup {NoInst}]
         /\ live' \subseteq Instances
         /\ config' \in [Instances -> {"none", "held", "served", "expired"}]
         /\ awaitStart' \cup terminating' \cup spotLeft' \subseteq Runners
         /\ \A q \in Runners : hand'[q] # NoInst <=> at'[q] \in Holding
<1>1. /\ at' \in [Runners -> LaunchPlaces] /\ hand' \in [Runners -> Instances \cup {NoInst}]
      /\ live' \subseteq Instances
      /\ awaitStart' \cup terminating' \cup spotLeft' \subseteq Runners
  BY DEF Ends, Goes, Ec2TypeOK, LaunchPlaces
<1>2. config' \in [Instances -> {"none", "held", "served", "expired"}]
  BY DEF Ends, Ec2TypeOK
<1>3. ASSUME NEW q \in Runners PROVE hand'[q] # NoInst <=> at'[q] \in Holding
  BY DEF Ends, Goes, Ec2TypeOK, Holding, Claiming
<1> QED
  BY <1>1, <1>2, <1>3

\* A launch that takes an instance.
LEMMA TakesTypes ==
  ASSUME Ec2TypeOK, NEW r \in Runners, NEW i \in Instances, NEW place \in {"prepare", "wait"},
         Goes(r, place), hand' = [hand EXCEPT ![r] = i], live' = live \cup {i}
  PROVE  /\ at' \in [Runners -> LaunchPlaces]
         /\ hand' \in [Runners -> Instances \cup {NoInst}]
         /\ live' \subseteq Instances
         /\ \A q \in Runners : hand'[q] # NoInst <=> at'[q] \in Holding
<1>1. /\ at' \in [Runners -> LaunchPlaces] /\ hand' \in [Runners -> Instances \cup {NoInst}]
      /\ live' \subseteq Instances
  BY DEF Goes, Ec2TypeOK, LaunchPlaces
<1>2. ASSUME NEW q \in Runners PROVE hand'[q] # NoInst <=> at'[q] \in Holding
  BY PoolAssumption DEF Goes, Ec2TypeOK, Holding, Claiming
<1> QED
  BY <1>1, <1>2

\* Ec2TypeOK in three parts.
AccountType ==
    /\ aws \in AwsType
    /\ faults \in 0..MaxFaults /\ surprises \in 0..MaxSurprises
    /\ gh \in [Runners -> {"none", "idle", "busy"}]
PoolType ==
    /\ ready \subseteq Instances /\ warming \subseteq Instances
    /\ target \in Sizes /\ resizing \in BOOLEAN
    /\ poolAt \in PoolPlaces /\ listed \subseteq Instances \X States
LaunchType ==
    /\ live \subseteq Instances
    /\ config \in [Instances -> {"none", "held", "served", "expired"}]
    /\ at \in [Runners -> LaunchPlaces]
    /\ hand \in [Runners -> Instances \cup {NoInst}]
    /\ awaitStart \cup terminating \cup spotLeft \subseteq Runners
    /\ \A q \in Runners : hand[q] # NoInst <=> at[q] \in Holding

LEMMA Parts == /\ Ec2TypeOK <=> AccountType /\ PoolType /\ LaunchType
               /\ Ec2TypeOK' <=> AccountType' /\ PoolType' /\ LaunchType'
  BY DEF Ec2TypeOK, AccountType, PoolType, LaunchType, AwsType

\* The steps of a launch that has no instance, or comes to an end.
LEMMA FreeLaunchTypes ==
  ASSUME Ec2TypeOK, NEW r \in Runners,
         \/ Begin(r) \/ Claim(r) \/ ClaimEmpty(r) \/ ClaimCancelled(r)
         \/ Cold(r) \/ ColdRefused(r) \/ WaitEnds(r)
  PROVE  Ec2TypeOK'
<1> SUFFICES AccountType' /\ PoolType' /\ LaunchType'
  BY Parts
<1>0. AccountType /\ PoolType /\ LaunchType
  BY Parts
<1> USE DEF awsVars, poolVars, waiters
<1>1. CASE Begin(r) \/ ClaimEmpty(r)
  <2>1. AccountType' /\ PoolType'
    BY <1>0, <1>1 DEF Begin, ClaimEmpty, AccountType, PoolType
  <2>2. LaunchType'
    BY <1>0, <1>1, GoesTypes DEF Begin, ClaimEmpty, LaunchType, LaunchPlaces, Holding, Claiming
  <2> QED
    BY <2>1, <2>2
<1>2. CASE Claim(r)
  <2>1. AccountType' /\ PoolType'
    BY <1>0, <1>2 DEF Claim, AccountType, PoolType
  <2>2. LaunchType'
    BY <1>0, <1>2, TakesTypes DEF Claim, LaunchType, PoolType
  <2> QED
    BY <2>1, <2>2
<1>3. CASE ClaimCancelled(r) \/ ColdRefused(r) \/ WaitEnds(r)
  <2>1. AccountType' /\ PoolType'
    BY <1>0, <1>3 DEF ClaimCancelled, ColdRefused, WaitEnds, AccountType, PoolType
  <2>2. LaunchType'
    BY <1>0, <1>3, EndsTypes DEF ClaimCancelled, ColdRefused, WaitEnds, LaunchType
  <2> QED
    BY <2>1, <2>2
<1>4. CASE Cold(r)
  <2>1. PICK j \in Instances :
           LET launched == [aws EXCEPT ![j] = ColdInstance(r)]
               tracked == /\ hand' = [hand EXCEPT ![r] = j] /\ live' = live \cup {j}
                          /\ Goes(r, "wait")
           IN  /\ aws' \in {aws, launched, Terminated(launched, j)}
               /\ UNCHANGED <<faults, surprises, gh, poolVars>>
               /\ \/ /\ config' = [config EXCEPT ![j] = "held"]
                     /\ tracked /\ UNCHANGED waiters
                  \/ /\ terminating' = terminating \cup {r}
                     /\ tracked /\ UNCHANGED <<config, awaitStart, spotLeft>>
                  \/ Ends(r)
    BY <1>4 DEF Cold, Fails, Ends
  <2>2. [aws EXCEPT ![j] = ColdInstance(r)] \in AwsType
    BY <1>0, RecordTypes DEF AccountType, AwsType
  <2>3. AccountType' /\ PoolType'
    BY <1>0, <2>1, <2>2, TerminatedFacts DEF AccountType, PoolType
  <2>4. LaunchType'
    BY <1>0, <2>1, TakesTypes, EndsTypes DEF LaunchType
  <2> QED
    BY <2>3, <2>4
<1> QED
  BY <1>1, <1>2, <1>3, <1>4

LEMMA LaunchStepTypes ==
  ASSUME Ec2TypeOK, NEW r \in Runners, Begin(r) \/ LaunchStep(r)
  PROVE  Ec2TypeOK'
<1> DEFINE i == hand[r]
<1>1. CASE at[r] \notin Holding \/ ClaimCancelled(r) \/ Begin(r) \/ WaitEnds(r)
  BY <1>1, FreeLaunchTypes DEF LaunchStep, Holding, Claiming, Prepare, Rewarm, ClaimDiscards,
     Requeue, RequeueTagged, StartInstances, Unstarted, RegisterRefused, CancelSpot,
     WaitTerminates, WaitSeesRunning
<1>2. ASSUME at[r] \in Holding, LaunchStep(r), ~WaitEnds(r) PROVE Ec2TypeOK'
  <2> SUFFICES AccountType' /\ PoolType' /\ LaunchType'
    BY Parts
  <2>0. AccountType /\ PoolType /\ LaunchType /\ i \in Instances
    BY <1>2, Parts DEF Ec2TypeOK
  <2> USE DEF awsVars, poolVars, waiters
  <2>1. CASE Prepare(r)
    <3>1. Tagged(aws, i, "claimed", r) \in AwsType
      BY <2>0, TaggedFacts DEF AccountType, Tags
    <3>2. AccountType' /\ PoolType'
      BY <2>0, <2>1, <3>1 DEF Prepare, Fails, AccountType, PoolType
    <3>3. PICK place \in LaunchPlaces \cap Holding : Goes(r, place)
      BY <2>1 DEF Prepare, LaunchPlaces, Holding, Claiming
    <3>4. LaunchType'
      BY <1>2, <2>0, <2>1, <3>3, GoesTypes DEF Prepare, LaunchType
    <3> QED
      BY <3>2, <3>4
  <2>2. CASE Rewarm(r) \/ RequeueTagged(r)
    <3>1. Tagged(aws, i, "warming", NoRunner) \in AwsType /\ Tagged(aws, i, "ready", NoRunner) \in AwsType
      BY <2>0, TaggedFacts DEF AccountType, Tags
    <3>2. AccountType' /\ PoolType'
      BY <2>0, <2>2, <3>1, CallTypes DEF Rewarm, RequeueTagged, AccountType, PoolType
    <3>3. LaunchType'
      BY <2>0, <2>2, LetsGoTypes DEF Rewarm, RequeueTagged, LaunchType
    <3> QED
      BY <3>2, <3>3
  <2>3. CASE ClaimDiscards(r) \/ RegisterRefused(r) \/ Unstarted(r)
    <3>1. AccountType' /\ PoolType'
      BY <2>0, <2>3, DiscardFacts
         DEF ClaimDiscards, RegisterRefused, Unstarted, AccountType, PoolType
    <3>2. CASE RegisterRefused(r)
      BY <2>0, <3>1, <3>2, EndsTypes DEF RegisterRefused, LaunchType
    <3>3. CASE ClaimDiscards(r) \/ Unstarted(r)
      BY <2>0, <3>1, <3>3, LetsGoTypes DEF ClaimDiscards, Unstarted, LaunchType
    <3> QED
      BY <2>3, <3>2, <3>3
  <2>4. CASE Requeue(r)
    <3>1. AccountType' /\ PoolType'
      BY <2>0, <2>4 DEF Requeue, AccountType, PoolType
    <3>2. LaunchType'
      BY <2>0, <2>4, LetsGoTypes DEF Requeue, LaunchType
    <3> QED
      BY <3>1, <3>2
  <2>5. CASE StartInstances(r)
    <3>1. AccountType' /\ PoolType'
      BY <2>0, <2>5, StartedFacts DEF StartInstances, Fails, AccountType, PoolType
    <3>2. LaunchType'
      BY <1>2, <2>0, <2>5, GoesTypes DEF StartInstances, LaunchType, LaunchPlaces, Holding
    <3> QED
      BY <3>1, <3>2
  <2>6. CASE CancelSpot(r)
    <3>1. AccountType' /\ PoolType'
      BY <2>0, <2>6, SpotClosedFacts, CallTypes DEF CancelSpot, AccountType, PoolType
    <3>2. LaunchType'
      BY <1>2, <2>0, <2>6, GoesTypes DEF CancelSpot, LaunchType, LaunchPlaces, Holding
    <3> QED
      BY <3>1, <3>2
  <2>7. CASE WaitTerminates(r)
    <3>1. SpotClosed(aws, i) \in AwsType
      BY <2>0, SpotClosedFacts DEF AccountType
    <3>2. AccountType' /\ PoolType'
      BY <2>0, <2>7, <3>1, TerminatedFacts, CallTypes
         DEF WaitTerminates, Terminate, AccountType, PoolType
    <3>3. LaunchType'
      BY <2>0, <2>7 DEF WaitTerminates, Terminate, LaunchType
    <3> QED
      BY <3>2, <3>3
  <2>8. CASE WaitSeesRunning(r)
    BY <2>0, <2>8 DEF WaitSeesRunning, AccountType, PoolType, LaunchType
  <2>9. CASE Claim(r) \/ ClaimEmpty(r) \/ ClaimCancelled(r) \/ Cold(r) \/ ColdRefused(r)
    BY <1>2, <2>9 DEF Claim, ClaimEmpty, ClaimCancelled, Cold, ColdRefused, Holding, Claiming
  <2> QED
    BY <1>2, <2>1, <2>2, <2>3, <2>4, <2>5, <2>6, <2>7, <2>8, <2>9 DEF LaunchStep
<1> QED
  BY <1>1, <1>2

LEMMA ReaperStepTypes ==
  ASSUME ReaperTypeOK, ReaperStep
  PROVE  ReaperTypeOK'
<1>0. AccountType /\ PoolType /\ LaunchType /\ Ec2TypeOK
  BY Parts DEF ReaperTypeOK
<1>1. PoolType' /\ LaunchType' /\ crashes' = crashes /\ surprises' = surprises
  BY <1>0 DEF ReaperStep, SweepLists, Judge, AsksGitHub, Reap, SweepsRequest, awsVars,
              processVars, poolVars, launchVars, PoolType, LaunchType
<1>2. AccountType'
  <2>1. CASE SweepLists \/ \E v \in orphans : Judge(v)
    BY <1>0, <2>1 DEF SweepLists, Judge, awsVars, AccountType
  <2>2. ASSUME NEW v \in orphans, AsksGitHub(v) PROVE AccountType'
    <3>1. gh' \in {gh, [gh EXCEPT ![v.runner] = "none"]} /\ faults' \in 0..MaxFaults
      BY <1>0, <2>2, CallTypes DEF AsksGitHub, AccountType
    <3> QED
      BY <1>0, <1>1, <2>2, <3>1 DEF AsksGitHub, AccountType
  <2>3. ASSUME NEW v \in orphans, Reap(v) PROVE AccountType'
    <3>1. v.id \in Instances
      BY DEF ReaperTypeOK, Verdict
    <3> QED
      BY <1>0, <1>1, <2>3, <3>1, DiscardFacts DEF Reap, AccountType
  <2>4. ASSUME NEW i \in Instances, SweepsRequest(i) PROVE AccountType'
    BY <1>0, <1>1, <2>4, SpotClosedFacts, CallTypes DEF SweepsRequest, AccountType
  <2> QED
    BY <2>1, <2>2, <2>3, <2>4 DEF ReaperStep
<1>3. requests' \subseteq Instances /\ orphans' \subseteq Verdict
  <2>1. CASE SweepLists
    <3>1. \A i \in Instances : Judged(i) \in Verdict
      BY <1>0 DEF Judged, Verdict, AccountType, AwsType, Instance
    <3> QED
      BY <2>1, <3>1 DEF SweepLists, JudgedOrphans, Alive
  <2>2. ASSUME NEW v \in orphans, Judge(v) \/ AsksGitHub(v) \/ Reap(v)
        PROVE  requests' \subseteq Instances /\ orphans' \subseteq Verdict
    <3>1. v \in Verdict
      BY DEF ReaperTypeOK
    <3>2. \A place \in {"asking", "reaping", "agreed"} : [v EXCEPT !.do = place] \in Verdict
      BY <3>1 DEF Verdict
    <3> QED
      BY <2>2, <3>2 DEF ReaperTypeOK, Judge, AsksGitHub, Reap
  <2>3. ASSUME NEW i \in Instances, SweepsRequest(i)
        PROVE  requests' \subseteq Instances /\ orphans' \subseteq Verdict
    BY <2>3 DEF ReaperTypeOK, SweepsRequest
  <2> QED
    BY <2>1, <2>2, <2>3 DEF ReaperStep
<1> QED
  BY <1>1, <1>2, <1>3, Parts DEF ReaperTypeOK

LEMMA InitTypes == Init => ReaperTypeOK
<1> SUFFICES ASSUME Init PROVE ReaperTypeOK
  OBVIOUS
<1>1. AccountType
  BY AwsAssumption, RecordTypes DEF Init, AccountType, AwsType
<1>2. PoolType /\ LaunchType
  BY DEF Init, PoolType, LaunchType, PoolPlaces, LaunchPlaces, Holding, Claiming
<1>3. crashes \in 0..MaxCrashes /\ requests = {} /\ orphans = {}
  BY CrashAssumption DEF Init
<1> QED
  BY <1>1, <1>2, <1>3, Parts DEF ReaperTypeOK

LEMMA NextTypes ==
  ASSUME ReaperTypeOK, [Next]_allVars
  PROVE  ReaperTypeOK'
<1>0. AccountType /\ PoolType /\ LaunchType /\ Ec2TypeOK
  BY Parts DEF ReaperTypeOK
<1>1. ASSUME UNCHANGED <<reaperVars, crashes>>, Ec2TypeOK' PROVE ReaperTypeOK'
  BY <1>1 DEF ReaperTypeOK, reaperVars, Verdict
<1>2. ASSUME NEW i \in Instances, AwsStep(i), UNCHANGED processVars PROVE Ec2TypeOK'
  BY <1>0, <1>2, AwsStepTypes
<1>3. ASSUME NEW i \in Instances, Fetch(i) \/ Expires(i) PROVE Ec2TypeOK'
  <2>1. [aws[i] EXCEPT !.guest = "runner"] \in Instance
    BY <1>0 DEF AccountType, AwsType, Instance
  <2>2. AccountType'
    BY <1>0, <1>3, <2>1 DEF Fetch, Expires, awsVars, AccountType, AwsType
  <2>3. PoolType' /\ LaunchType'
    BY <1>0, <1>3 DEF Fetch, Expires, poolVars, waiters, PoolType, LaunchType
  <2> QED
    BY <2>2, <2>3, Parts
<1>4. ASSUME NEW i \in Instances, Purged(i) PROVE ReaperTypeOK'
  <2>1. AccountType'
    BY <1>0, <1>4, RecordTypes DEF Purged, AccountType, AwsType
  <2>2. PoolType' /\ LaunchType'
    BY <1>0, <1>4 DEF Purged, processVars, poolVars, launchVars, PoolType, LaunchType
  <2> QED
    BY <1>4, <2>1, <2>2, Parts DEF Purged, ReaperTypeOK, reaperVars, Verdict
<1>5. ASSUME NEW r \in Runners, JobLost(r), UNCHANGED processVars PROVE Ec2TypeOK'
  <2>1. AccountType'
    BY <1>0, <1>5 DEF JobLost, AccountType
  <2>2. PoolType' /\ LaunchType'
    BY <1>0, <1>5 DEF processVars, poolVars, launchVars, PoolType, LaunchType
  <2> QED
    BY <2>1, <2>2, Parts
<1>6. CASE Crash
  <2>1. AccountType' /\ crashes' \in 0..MaxCrashes
    BY <1>0, <1>6, CrashAssumption DEF Crash, awsVars, AccountType, ReaperTypeOK
  <2>2. PoolType' /\ LaunchType'
    BY <1>6 DEF Crash, ProcessStarts, PoolType, LaunchType, PoolPlaces, LaunchPlaces, Holding,
       Claiming
  <2>3. requests' = {} /\ orphans' = {}
    BY <1>6 DEF Crash, ProcessStarts
  <2> QED
    BY <2>1, <2>2, <2>3, Parts DEF ReaperTypeOK
<1>7. CASE UNCHANGED allVars
  BY <1>0, <1>7, Parts DEF allVars, awsVars, processVars, poolVars, launchVars, reaperVars,
     AccountType, PoolType, LaunchType, ReaperTypeOK, Verdict
<1> QED
  BY <1>0, <1>1, <1>2, <1>3, <1>4, <1>5, <1>6, <1>7, ReaperStepTypes, PoolStepTypes, TrimTypes,
     LaunchStepTypes DEF Next

\* The account, the pool, the launches and the reaper keep their types; a
\* launch has an instance in hand exactly where its code has one.
THEOREM Ec2TypesHold == Spec => []ReaperTypeOK
<1>1. ReaperTypeOK /\ [Next]_allVars => ReaperTypeOK'
  BY NextTypes
<1> QED
  BY InitTypes, <1>1, PTL DEF Spec

-----------------------------------------------------------------------------
(* Owners.                                                                 *)

\* What a launch holds without a config for it yet has none left over.
NoConfigYet == \A r \in Runners : at[r] \in Claiming => config[hand[r]] = "none"

\* AWS knows what the process works with, so that a new instance is none of it.
KnownExist == \A i \in ready \cup warming \cup Held : aws[i].st # "none"

\* Until the pool is rediscovered there are only cold launches.
ColdYet ==
    poolAt = "discover" =>
        /\ ready = {} /\ warming = {}
        /\ \A r \in Runners : hand[r] # NoInst => at[r] = "wait" /\ aws[hand[r]].tag = "none"

OwnerInv == OneOwner /\ NoConfigYet /\ KnownExist /\ ColdYet

Kept == \A i \in Instances : aws[i].st # "none" => aws'[i].st # "none"
TagsKept == \A i \in Instances : aws[i].tag = "none" => aws'[i].tag = "none"

\* The account changes, and nothing of the process.
LEMMA AccountOnly ==
  ASSUME Ec2TypeOK, OwnerInv, UNCHANGED processVars, TagsKept,
         \A i \in ready \cup warming \cup Held : aws'[i].st # "none"
  PROVE  OwnerInv'
<1> USE DEF processVars, poolVars, launchVars, Held
<1>1. OneOwner' /\ NoConfigYet' /\ KnownExist'
  BY DEF OwnerInv, OneOwner, NoConfigYet, KnownExist
<1>2. ColdYet'
  BY DEF OwnerInv, ColdYet, TagsKept, Ec2TypeOK
<1> QED
  BY <1>1, <1>2 DEF OwnerInv

\* The pool goroutine or SetTarget moves, and no launch.
LEMMA PoolOnly ==
  ASSUME Ec2TypeOK, OwnerInv, UNCHANGED <<live, launchVars>>, Kept,
         ready' \cap warming' = {},
         \A i \in ready' \cup warming' : i \notin Held /\ i \in Instances /\ aws'[i].st # "none",
         poolAt' # "discover"
  PROVE  OwnerInv'
<1> USE DEF launchVars, Held
<1>1. OneOwner' /\ NoConfigYet'
  BY DEF OwnerInv, OneOwner, NoConfigYet
<1>2. KnownExist'
  BY DEF OwnerInv, KnownExist, Kept, Ec2TypeOK
<1>3. ColdYet'
  BY DEF ColdYet
<1> QED
  BY <1>1, <1>2, <1>3 DEF OwnerInv

\* Instances move between the lists, or out of them, and no new one is known.
LEMMA ListsOnly ==
  ASSUME Ec2TypeOK, OwnerInv, UNCHANGED <<live, launchVars>>, Kept,
         ready' \cap warming' = {}, ready' \cup warming' \subseteq ready \cup warming,
         poolAt' # "discover"
  PROVE  OwnerInv'
<1>1. \A i \in ready' \cup warming' : i \notin Held /\ i \in Instances /\ aws'[i].st # "none"
  BY DEF OwnerInv, OneOwner, KnownExist, Kept, Ec2TypeOK
<1> QED
  BY <1>1, PoolOnly

LEMMA DiscardKeeps ==
  ASSUME Ec2TypeOK, NEW i \in Instances, NEW ok \in BOOLEAN, Discard(i, ok)
  PROVE  Kept
  BY DiscardFacts DEF Ec2TypeOK, AwsType, Kept, Touches

LEMMA TaggedKeeps ==
  ASSUME Ec2TypeOK, NEW i \in Instances, NEW tag \in Tags, NEW r \in Runners \cup {NoRunner},
         aws' \in {aws, Tagged(aws, i, tag, r)}
  PROVE  Kept
<1>1. aws \in AwsType
  BY DEF Ec2TypeOK, AwsType
<1>2. Touches(aws, Tagged(aws, i, tag, r), i) /\ Tagged(aws, i, tag, r)[i].st = aws[i].st
  BY <1>1, TaggedFacts
<1> QED
  BY <1>2 DEF Kept, Touches

LEMMA SpotClosedKeeps ==
  ASSUME Ec2TypeOK, NEW i \in Instances, aws' \in {aws, SpotClosed(aws, i)}
  PROVE  Kept
<1>1. aws \in AwsType
  BY DEF Ec2TypeOK, AwsType
<1>2. Touches(aws, SpotClosed(aws, i), i) /\ SpotClosed(aws, i)[i].st = aws[i].st
  BY <1>1, SpotClosedFacts
<1> QED
  BY <1>2 DEF Kept, Touches

LEMMA MarkReadyOwners ==
  ASSUME Ec2TypeOK, NEW i \in warming, MarkReady(i), ready \cap warming = {}
  PROVE  /\ Kept
         /\ ready' \cap warming' = {}
         /\ ready' \cup warming' \subseteq ready \cup warming
<1>1. PICK ids \in {{}, {i}} : aws' = Ready(aws, ids) \/ aws' = aws
  BY DEF MarkReady
<1>2. Kept
  BY <1>1, ReadyFacts DEF Kept, Ec2TypeOK, AwsType
<1> QED
  BY <1>2 DEF MarkReady

LEMMA PoolStepOwners ==
  ASSUME Ec2TypeOK, OwnerInv, PoolStep \/ TrimStep \/ \E n \in Sizes : SetTarget(n)
  PROVE  OwnerInv'
<1> USE DEF poolRest, launchVars, awsVars
<1>0. ready \cap warming = {} /\ ready \subseteq Instances /\ warming \subseteq Instances
  BY DEF OwnerInv, OneOwner, Ec2TypeOK
<1>1. ASSUME UNCHANGED <<aws, ready, warming, live, launchVars>>, poolAt' = poolAt \/ poolAt' # "discover"
      PROVE  OwnerInv'
  <2>1. OneOwner' /\ NoConfigYet' /\ KnownExist'
    BY <1>1 DEF OwnerInv, OneOwner, NoConfigYet, KnownExist, Held
  <2>2. ColdYet'
    BY <1>1 DEF OwnerInv, ColdYet
  <2> QED
    BY <2>1, <2>2 DEF OwnerInv
<1>2. CASE Discover
  <2>1. PICK ids \in SUBSET Instances : aws' = Ready(aws, ids)
    BY <1>2 DEF Discover, PoolTagged, Alive
  <2>2. Kept
    BY <2>1, ReadyFacts DEF Kept, Ec2TypeOK, AwsType
  <2>3. ready' \cap warming' = {} /\ ready' \cup warming' \subseteq PoolTagged /\ poolAt' = "check"
    BY <1>2 DEF Discover
  <2>4. \A i \in PoolTagged : aws[i].tag # "none" /\ aws[i].st # "none" /\ i \in Instances
    BY DEF PoolTagged, Alive
  <2>5. \A i \in Held : aws[i].tag = "none"
    BY <1>2 DEF OwnerInv, ColdYet, Held, Discover
  <2> QED
    BY <1>2, <2>2, <2>3, <2>4, <2>5, PoolOnly DEF Discover, Kept
<1>3. CASE CheckLists \/ CheckSkipped \/ RefreshDone
  BY <1>1, <1>3 DEF CheckLists, CheckSkipped, RefreshDone, Fill
<1>8. CASE TrimDone \/ \E n \in Sizes : SetTarget(n)
  BY <1>1, <1>8 DEF TrimDone, TrimEnds, Fill, SetTarget
<1>9. ASSUME NEW place, NEW next \in {"check", "refresh", "trim"}, Undescribed(place, next)
      PROVE  OwnerInv'
  BY <1>1, <1>9 DEF Undescribed
<1>4. ASSUME NEW i \in Instances, Check(i) PROVE OwnerInv'
  <2>1. Kept
    <3>1. \/ aws' \in {aws, SpotClosed(aws, i)}
          \/ aws' \in {aws, Tagged(aws, i, "warming", NoRunner)}
      BY <1>4 DEF Check
    <3> QED
      BY <3>1, TaggedKeeps, SpotClosedKeeps DEF Tags
  <2>2. /\ ready' \cap warming' = {} /\ ready' \cup warming' \subseteq ready \cup warming
        /\ poolAt' # "discover" /\ UNCHANGED <<live, launchVars>>
    BY <1>0, <1>4 DEF Check, Checked
  <2> QED
    BY <2>1, <2>2, ListsOnly
<1>5. ASSUME NEW i \in Instances, Refresh(i) PROVE OwnerInv'
  <2>1. CASE MarkReady(i)
    BY <1>0, <1>5, <2>1, MarkReadyOwners, ListsOnly DEF Refresh
  <2>2. CASE ~MarkReady(i)
    <3>1. Kept
      BY <1>5, <2>2, DiscardKeeps DEF Refresh, Kept
    <3> QED
      BY <1>0, <1>5, <2>2, <3>1, ListsOnly DEF Refresh
  <2> QED
    BY <2>1, <2>2
<1>6. ASSUME NEW i \in Instances, Trim(i) PROVE OwnerInv'
  <2>1. Kept
    BY <1>6, DiscardKeeps DEF Trim
  <2>2. poolAt' # "discover"
    BY <1>6 DEF Trim, TrimEnds, Fill, OwnerInv, ColdYet
  <2> QED
    BY <1>0, <1>6, <2>1, <2>2, ListsOnly DEF Trim, TrimEnds, Fill
<1>7. ASSUME NEW i \in Instances, FillRuns(i) PROVE OwnerInv'
  <2>1. Kept
    BY <1>7 DEF FillRuns, Kept, PoolInstance, Ec2TypeOK
  <2>2. i \notin ready \cup warming \cup Held
    BY <1>7 DEF FillRuns, OwnerInv, KnownExist
  <2>3. /\ UNCHANGED <<ready, live, launchVars>> /\ poolAt' # "discover"
        /\ \/ warming' = warming
           \/ warming' = warming \cup {i} /\ aws'[i].st # "none"
    BY <1>7 DEF FillRuns, Call, PoolInstance, Ec2TypeOK
  <2>4. \A j \in ready' \cup warming' : j \notin Held /\ j \in Instances /\ aws'[j].st # "none"
    BY <1>0, <2>1, <2>2, <2>3 DEF OwnerInv, OneOwner, KnownExist, Kept
  <2> QED
    BY <1>0, <2>1, <2>2, <2>3, <2>4, PoolOnly
<1> QED
  BY <1>2, <1>3, <1>4, <1>5, <1>6, <1>7, <1>8, <1>9 DEF PoolStep, TrimStep

\* A launch goes on with what it has; a config may be registered for it.
LEMMA GoesOwners ==
  ASSUME Ec2TypeOK, OwnerInv, Kept, ColdYet', NEW r \in Runners,
         UNCHANGED <<ready, warming, live, hand>>,
         at' = at \/ \E place : Goes(r, place) /\ (place \in Claiming => at[r] \in Claiming),
         \/ UNCHANGED config
         \/ at'[r] \notin Claiming /\ hand[r] # NoInst /\ config' = [config EXCEPT ![hand[r]] = "held"]
  PROVE  OwnerInv'
<1> USE DEF Held
<1>1. OneOwner'
  BY DEF OwnerInv, OneOwner, Ec2TypeOK
<1>2. ASSUME NEW q \in Runners, at'[q] \in Claiming PROVE config'[hand'[q]] = "none"
  <2>1. at[q] \in Claiming
    BY <1>2 DEF Goes, Ec2TypeOK
  <2>2. hand[q] # NoInst /\ config[hand[q]] = "none"
    BY <2>1 DEF OwnerInv, NoConfigYet, Ec2TypeOK, Holding
  <2>3. q # r => hand[q] # hand[r]
    BY <2>2 DEF OwnerInv, OneOwner
  <2> QED
    BY <1>2, <2>2, <2>3 DEF Ec2TypeOK
<1>3. KnownExist'
  BY DEF OwnerInv, KnownExist, Kept, Ec2TypeOK
<1> QED
  BY <1>1, <1>2, <1>3 DEF OwnerInv, NoConfigYet

\* A launch gives up what it has, if anything, and it goes to one list or none.
LEMMA GivesUpOwners ==
  ASSUME Ec2TypeOK, OwnerInv, Kept, ColdYet', NEW r \in Runners, NEW place, Goes(r, place),
         place \notin Claiming,
         hand' = [hand EXCEPT ![r] = NoInst], live' = live \ {hand[r]},
         \/ ready' = ready /\ warming' = warming
         \/ hand[r] # NoInst /\ ready' = ready \cup {hand[r]} /\ warming' = warming
         \/ hand[r] # NoInst /\ ready' = ready /\ warming' = warming \cup {hand[r]},
         \/ UNCHANGED config /\ at[r] \in Claiming
         \/ hand[r] = NoInst /\ UNCHANGED config
         \/ hand[r] # NoInst /\ config' = [config EXCEPT ![hand[r]] = "none"]
  PROVE  OwnerInv'
<1>1. Held' = Held \ {hand[r]}
  BY DEF Held, OwnerInv, OneOwner, Ec2TypeOK
<1>2. hand[r] # NoInst => hand[r] \in Held /\ hand[r] \notin ready \cup warming
  BY DEF Held, OwnerInv, OneOwner
<1>3. ready' \cap warming' = {} /\ Held' \cap (ready' \cup warming') = {} /\ live' = Held'
  BY <1>1, <1>2 DEF OwnerInv, OneOwner
<1>4. \A p, q \in Runners : hand'[p] = hand'[q] => p = q \/ hand'[p] = NoInst
  BY DEF OwnerInv, OneOwner, Ec2TypeOK
<1>5. ASSUME NEW i \in Instances, config'[i] # "none" PROVE i \in Held'
  <2>1. config[i] # "none"
    BY <1>5 DEF Ec2TypeOK
  <2>2. i \in Held
    BY <2>1 DEF OwnerInv, OneOwner
  <2>3. i # hand[r]
    BY <1>5, <2>1, <2>2 DEF OwnerInv, NoConfigYet, Ec2TypeOK, Held
  <2> QED
    BY <1>1, <2>2, <2>3
<1>6. NoConfigYet'
  <2>1. ASSUME NEW q \in Runners, at'[q] \in Claiming PROVE config'[hand'[q]] = "none"
    <3>1. q # r /\ at[q] \in Claiming /\ hand'[q] = hand[q]
      BY <2>1 DEF Goes, Ec2TypeOK
    <3>2. config[hand[q]] = "none" /\ hand[q] \in Instances
      BY <3>1 DEF OwnerInv, NoConfigYet, Ec2TypeOK, Holding
    <3> QED
      BY <3>1, <3>2 DEF Ec2TypeOK
  <2> QED
    BY <2>1 DEF NoConfigYet
<1>7. KnownExist'
  BY <1>1, <1>2 DEF OwnerInv, KnownExist, Kept, Held, Ec2TypeOK
<1> QED
  BY <1>3, <1>4, <1>5, <1>6, <1>7 DEF OwnerInv, OneOwner

\* A launch with nothing in hand takes an instance of ready, or a new one.
LEMMA TakesOwners ==
  ASSUME Ec2TypeOK, OwnerInv, Kept, ColdYet', NEW r \in Runners, NEW i \in Instances,
         NEW place, Goes(r, place), hand[r] = NoInst,
         hand' = [hand EXCEPT ![r] = i], live' = live \cup {i},
         warming' = warming, aws'[i].st # "none",
         \/ i \in ready /\ ready' = ready \ {i} /\ UNCHANGED config
         \/ /\ aws[i].st = "none" /\ ready' = ready /\ place = "wait"
            /\ config' \in {config, [config EXCEPT ![i] = "held"]}
  PROVE  OwnerInv'
<1>1. i \notin Held /\ i \notin warming /\ i \notin ready'
  BY DEF OwnerInv, OneOwner, KnownExist
<1>2. Held' = Held \cup {i}
  BY PoolAssumption DEF Held, Ec2TypeOK
<1>3. config[i] = "none"
  BY <1>1 DEF OwnerInv, OneOwner
<1>4. ready' \cap warming' = {} /\ Held' \cap (ready' \cup warming') = {} /\ live' = Held'
  BY <1>1, <1>2 DEF OwnerInv, OneOwner
<1>5. \A p, q \in Runners : hand'[p] = hand'[q] => p = q \/ hand'[p] = NoInst
  BY <1>1 DEF OwnerInv, OneOwner, Ec2TypeOK, Held
<1>6. \A j \in Instances : config'[j] # "none" => j \in Held'
  BY <1>2 DEF OwnerInv, OneOwner, Ec2TypeOK
<1>7. NoConfigYet'
  <2>1. ASSUME NEW q \in Runners, at'[q] \in Claiming PROVE config'[hand'[q]] = "none"
    <3>1. CASE q = r
      <4>1. at'[q] = place /\ hand'[q] = i
        BY <3>1 DEF Goes, Ec2TypeOK
      <4>2. UNCHANGED config
        BY <2>1, <4>1 DEF Claiming
      <4> QED
        BY <1>3, <4>1, <4>2
    <3>2. CASE q # r
      <4>1. at[q] \in Claiming /\ hand'[q] = hand[q] /\ config[hand[q]] = "none" /\ hand[q] # NoInst
        BY <2>1, <3>2 DEF Goes, Ec2TypeOK, OwnerInv, NoConfigYet, Holding
      <4>2. hand[q] # i
        BY <1>1, <4>1 DEF Held
      <4> QED
        BY <4>1, <4>2 DEF Ec2TypeOK
    <3> QED
      BY <3>1, <3>2
  <2> QED
    BY <2>1 DEF NoConfigYet
<1>8. KnownExist'
  BY <1>2 DEF OwnerInv, KnownExist, Kept, Held, Ec2TypeOK
<1> QED
  BY <1>4, <1>5, <1>6, <1>7, <1>8 DEF OwnerInv, OneOwner

\* A cold launch makes an instance no list and no launch knows.
LEMMA ColdFacts ==
  ASSUME Ec2TypeOK, NEW r \in Runners, Cold(r)
  PROVE  /\ UNCHANGED <<surprises, poolVars>>
         /\ \E j \in Instances :
              /\ aws[j].st = "none"
              /\ Touches(aws, aws', j)
              /\ aws' = aws \/ (aws'[j].st \in {"up", "gone"} /\ aws'[j].tag = "none" /\ ~aws'[j].openSpot)
              /\ \/ /\ hand' = [hand EXCEPT ![r] = j] /\ live' = live \cup {j} /\ Goes(r, "wait")
                    /\ aws'[j].st # "none"
                    /\ config' \in {config, [config EXCEPT ![j] = "held"]}
                 \/ Ends(r)
<1>1. PICK j \in Instances :
         LET launched == [aws EXCEPT ![j] = ColdInstance(r)]
             tracked == /\ hand' = [hand EXCEPT ![r] = j] /\ live' = live \cup {j}
                        /\ Goes(r, "wait")
         IN  /\ aws[j].st = "none"
             /\ \/ aws' \in {launched, Terminated(launched, j)} /\ tracked
                   /\ config' \in {config, [config EXCEPT ![j] = "held"]}
                \/ aws' \in {aws, launched} /\ Ends(r)
  BY DEF Cold
<1> DEFINE launched == [aws EXCEPT ![j] = ColdInstance(r)]
<1>2. /\ launched \in AwsType /\ Touches(aws, launched, j)
      /\ launched[j].st = "up" /\ launched[j].tag = "none" /\ ~launched[j].openSpot
  BY RecordTypes DEF Ec2TypeOK, AwsType, Touches, ColdInstance, NoInstance
<1>3. /\ Touches(launched, Terminated(launched, j), j)
      /\ LET b == Terminated(launched, j)[j] IN b.st = "gone" /\ b.tag = "none" /\ ~b.openSpot
  BY <1>2, TerminatedFacts
<1>4. Touches(aws, aws', j)
  BY <1>1, <1>2, <1>3 DEF Touches
<1>5. UNCHANGED <<surprises, poolVars>>
  BY DEF Cold
<1> QED
  BY <1>1, <1>2, <1>3, <1>4, <1>5

\* Before the pool is rediscovered a launch can only start and run cold.
LEMMA LaunchColdYet ==
  ASSUME Ec2TypeOK, OwnerInv, NEW r \in Runners, Begin(r) \/ LaunchStep(r)
  PROVE  ColdYet'
<1> USE DEF poolVars, awsVars, waiters
<1>1. poolAt' = poolAt
  BY DEF LaunchStep, Begin, Claim, ClaimEmpty, ClaimCancelled, Prepare, Rewarm, ClaimDiscards,
     Requeue, RequeueTagged, StartInstances, Unstarted, RegisterRefused, CancelSpot, Cold,
     ColdRefused,
     WaitTerminates, WaitSeesRunning, WaitEnds
<1> SUFFICES ASSUME poolAt = "discover"
             PROVE  /\ ready' = {} /\ warming' = {}
                    /\ \A q \in Runners : hand'[q] # NoInst => at'[q] = "wait" /\ aws'[hand'[q]].tag = "none"
  BY <1>1 DEF ColdYet
<1>2. /\ ready = {} /\ warming = {}
      /\ \A q \in Runners : hand[q] # NoInst => at[q] = "wait" /\ aws[hand[q]].tag = "none"
      /\ at[r] \in {"idle", "claim", "cold", "wait"}
  BY DEF OwnerInv, ColdYet, Ec2TypeOK, LaunchPlaces, Holding, Claiming
<1>3. CASE Begin(r) \/ ClaimEmpty(r)
  BY <1>2, <1>3 DEF Begin, ClaimEmpty, Goes, Ec2TypeOK, Holding, Claiming
<1>4. CASE ClaimCancelled(r) \/ ColdRefused(r) \/ WaitEnds(r)
  BY <1>2, <1>4 DEF ClaimCancelled, ColdRefused, WaitEnds, Ends, Goes, Ec2TypeOK
<1>5. CASE Cold(r)
  <2>1. hand[r] = NoInst
    BY <1>5 DEF Cold, Ec2TypeOK, Holding, Claiming
  <2>2. PICK j \in Instances :
              /\ aws[j].st = "none"
              /\ Touches(aws, aws', j)
              /\ aws' = aws \/ aws'[j].tag = "none"
              /\ \/ hand' = [hand EXCEPT ![r] = j] /\ Goes(r, "wait") /\ aws'[j].st # "none"
                 \/ Ends(r)
    BY <1>5, ColdFacts
  <2>3. ASSUME NEW q \in Runners, hand'[q] # NoInst
        PROVE  at'[q] = "wait" /\ aws'[hand'[q]].tag = "none"
    <3>1. CASE q = r
      BY <2>2, <2>3, <3>1 DEF Ends, Goes, Ec2TypeOK
    <3>2. CASE q # r
      <4>1. hand'[q] = hand[q] /\ at'[q] = at[q] /\ hand[q] \in Instances
        BY <2>2, <2>3, <3>2 DEF Ends, Goes, Ec2TypeOK
      <4>2. aws[hand[q]].tag = "none" /\ at[q] = "wait"
        BY <1>2, <2>3, <4>1
      <4>3. hand[q] # j
        BY <2>2, <2>3, <4>1 DEF OwnerInv, KnownExist, Held
      <4> QED
        BY <2>2, <4>1, <4>2, <4>3 DEF Touches
    <3> QED
      BY <3>1, <3>2
  <2> QED
    BY <1>2, <1>5, <2>3, ColdFacts
<1>6. CASE WaitTerminates(r) \/ WaitSeesRunning(r)
  <2>1. UNCHANGED <<at, hand, ready, warming>>
    BY <1>6 DEF WaitTerminates, WaitSeesRunning
  <2>2. hand[r] \in Instances
    BY <1>6 DEF WaitTerminates, WaitSeesRunning, Ec2TypeOK, Holding
  <2>3. aws \in AwsType
    BY DEF Ec2TypeOK, AwsType
  <2>4. TagsKept
    <3>1. LET closed == SpotClosed(aws, hand[r])
          IN  /\ closed \in AwsType /\ Touches(aws, closed, hand[r])
              /\ closed[hand[r]].tag = aws[hand[r]].tag
      BY <2>2, <2>3, SpotClosedFacts
    <3>2. aws' \in {aws, SpotClosed(aws, hand[r]), Terminated(aws, hand[r]),
                   Terminated(SpotClosed(aws, hand[r]), hand[r])}
      BY <1>6 DEF WaitTerminates, WaitSeesRunning, Terminate
    <3> QED
      BY <2>2, <2>3, <3>1, <3>2, TerminatedFacts DEF TagsKept, Touches
  <2> QED
    BY <1>2, <2>1, <2>4 DEF TagsKept, Ec2TypeOK
<1> QED
  BY <1>2, <1>3, <1>4, <1>5, <1>6 DEF LaunchStep, Claim, Prepare, Rewarm, ClaimDiscards,
     Requeue, RequeueTagged, StartInstances, Unstarted, RegisterRefused, CancelSpot

\* An instance AWS knows is not forgotten by a launch's step.
LEMMA LaunchKeeps ==
  ASSUME Ec2TypeOK, NEW r \in Runners, Begin(r) \/ LaunchStep(r)
  PROVE  Kept
<1> DEFINE i == hand[r]
<1>0. aws \in AwsType
  BY DEF Ec2TypeOK, AwsType
<1>1. CASE UNCHANGED aws
  BY <1>1 DEF Kept
<1>2. CASE Cold(r)
  BY <1>2, ColdFacts DEF Kept, Touches
<1>3. CASE i \in Instances /\ ~UNCHANGED aws /\ ~Cold(r)
  <2>1. CASE Prepare(r) \/ Rewarm(r) \/ RequeueTagged(r)
    <3>1. \E tag \in Tags, n \in Runners \cup {NoRunner} : aws' \in {aws, Tagged(aws, i, tag, n)}
      BY <2>1 DEF Prepare, Rewarm, RequeueTagged, Tags
    <3> QED
      BY <1>3, <3>1, TaggedKeeps
  <2>2. CASE ClaimDiscards(r) \/ RegisterRefused(r) \/ Unstarted(r)
    BY <1>3, <2>2, DiscardKeeps DEF ClaimDiscards, Unstarted, RegisterRefused
  <2>3. CASE StartInstances(r)
    <3>1. aws' \in {aws, Started(aws, i)}
      BY <2>3 DEF StartInstances
    <3> QED
      BY <1>0, <1>3, <3>1, StartedFacts DEF Kept, Touches
  <2>4. CASE CancelSpot(r)
    BY <1>3, <2>4, SpotClosedKeeps DEF CancelSpot
  <2>5. CASE WaitTerminates(r)
    <3> DEFINE closed == SpotClosed(aws, i)
    <3>1. closed \in AwsType /\ Touches(aws, closed, i) /\ closed[i].st = aws[i].st
      BY <1>0, <1>3, SpotClosedFacts
    <3>2. Touches(aws, Terminated(aws, i), i) /\ Terminated(aws, i)[i].st = "gone"
      BY <1>0, <1>3, TerminatedFacts
    <3>3. Touches(closed, Terminated(closed, i), i) /\ Terminated(closed, i)[i].st = "gone"
      BY <1>3, <3>1, TerminatedFacts
    <3>4. aws' \in {aws, closed, Terminated(aws, i), Terminated(closed, i)}
      BY <2>5 DEF WaitTerminates, Terminate
    <3> HIDE DEF closed
    <3>5. Touches(aws, aws', i) /\ (aws'[i].st = aws[i].st \/ aws'[i].st = "gone")
      BY <3>1, <3>2, <3>3, <3>4 DEF Touches
    <3> QED
      BY <3>5 DEF Kept, Touches
  <2> QED
    BY <1>3, <2>1, <2>2, <2>3, <2>4, <2>5 DEF LaunchStep, Begin, Claim, ClaimEmpty, ClaimCancelled,
       Requeue, ColdRefused, WaitSeesRunning, WaitEnds, awsVars
<1>4. CASE i \notin Instances /\ ~UNCHANGED aws /\ ~Cold(r)
  BY <1>4 DEF LaunchStep, Begin, Claim, ClaimEmpty, ClaimCancelled, Requeue, ColdRefused,
     WaitSeesRunning, WaitEnds, awsVars, Prepare, Rewarm, RequeueTagged, ClaimDiscards, Unstarted,
     RegisterRefused,
     StartInstances, CancelSpot, WaitTerminates, Ec2TypeOK, Holding, Claiming
<1> QED
  BY <1>1, <1>2, <1>3, <1>4

LEMMA LaunchStepOwners ==
  ASSUME Ec2TypeOK, OwnerInv, NEW r \in Runners, Begin(r) \/ LaunchStep(r)
  PROVE  OwnerInv'
<1> USE DEF poolVars, waiters
<1>0. Kept /\ ColdYet'
  BY LaunchKeeps, LaunchColdYet
<1>1. hand[r] # NoInst <=> at[r] \in Holding
  BY DEF Ec2TypeOK
<1>2. CASE Begin(r) \/ ClaimEmpty(r) \/ StartInstances(r) \/ CancelSpot(r)
  BY <1>0, <1>2, GoesOwners DEF Begin, ClaimEmpty, StartInstances, CancelSpot, Claiming
<1>3. CASE WaitTerminates(r) \/ WaitSeesRunning(r)
  BY <1>0, <1>3, GoesOwners DEF WaitTerminates, WaitSeesRunning
<1>4. CASE Prepare(r)
  <2>1. PICK place : Goes(r, place) /\ place \in Claiming \cup {"start", "refused"}
    BY <1>4 DEF Prepare, Claiming
  <2>2. \/ UNCHANGED config
        \/ at'[r] \notin Claiming /\ config' = [config EXCEPT ![hand[r]] = "held"]
    BY <1>4 DEF Prepare, Goes, Ec2TypeOK, Claiming
  <2> QED
    BY <1>0, <1>1, <1>4, <2>1, <2>2, GoesOwners DEF Prepare, Claiming, Holding
<1>5. CASE Claim(r)
  <2>1. PICK i \in ready : ready' = ready \ {i} /\ hand' = [hand EXCEPT ![r] = i] /\ live' = live \cup {i}
    BY <1>5 DEF Claim
  <2>2. i \in Instances /\ aws'[i].st # "none"
    BY <1>0, <2>1 DEF OwnerInv, KnownExist, Kept, Ec2TypeOK
  <2>3. hand[r] = NoInst
    BY <1>1, <1>5 DEF Claim, Holding, Claiming
  <2> QED
    BY <1>0, <1>5, <2>1, <2>2, <2>3, TakesOwners DEF Claim
<1>6. CASE Cold(r)
  <2>1. hand[r] = NoInst
    BY <1>1, <1>6 DEF Cold, Holding, Claiming
  <2>2. CASE Ends(r)
    BY <1>0, <1>6, <2>1, <2>2, ColdFacts, GivesUpOwners DEF Ends, Claiming
  <2>3. CASE ~Ends(r)
    BY <1>0, <1>6, <2>1, <2>3, ColdFacts, TakesOwners
  <2> QED
    BY <2>2, <2>3
<1>7. CASE ClaimCancelled(r) \/ ColdRefused(r) \/ WaitEnds(r)
  BY <1>0, <1>1, <1>7, GivesUpOwners DEF ClaimCancelled, ColdRefused, WaitEnds, Ends, Claiming,
     Holding
<1>8. CASE Rewarm(r) \/ ClaimDiscards(r) \/ Requeue(r) \/ RequeueTagged(r) \/ Unstarted(r)
  BY <1>0, <1>1, <1>8, GivesUpOwners DEF Rewarm, ClaimDiscards, Requeue, RequeueTagged, Unstarted,
     LetsGo, Claiming, Holding
<1>9. CASE RegisterRefused(r)
  BY <1>0, <1>1, <1>9, GivesUpOwners DEF RegisterRefused, Ends, Claiming, Holding
<1> QED
  BY <1>2, <1>3, <1>4, <1>5, <1>6, <1>7, <1>8, <1>9 DEF LaunchStep

\* What the account does by itself, and what the reaper does to it.
LEMMA AwsStepOwners ==
  ASSUME Ec2TypeOK, OwnerInv, UNCHANGED processVars,
         \/ \E i \in Instances : AwsStep(i) \/ Purged(i)
         \/ \E r \in Runners : JobLost(r)
  PROVE  OwnerInv'
<1>0. aws \in AwsType
  BY DEF Ec2TypeOK, AwsType
<1>1. ASSUME NEW i \in Instances, AwsStep(i) PROVE OwnerInv'
  <2>1. /\ Touches(aws, aws', i)
        /\ aws[i].st # "none" => aws'[i].st # "none"
        /\ aws[i].tag = "none" => aws'[i].tag = "none"
    <3>1. CASE Boots(i) \/ Ages(i) \/ JobStarts(i)
      <4>1. \/ aws' = [aws EXCEPT ![i] = [@ EXCEPT !.st = "up"]]
            \/ aws' = [aws EXCEPT ![i] = [@ EXCEPT !.old = TRUE]]
            \/ aws' = [aws EXCEPT ![i] = [@ EXCEPT !.guest = "job"]]
        BY <3>1 DEF Boots, Ages, JobStarts
      <4>2. aws[i] \in Instance
        BY <1>0 DEF AwsType
      <4> QED
        BY <1>0, <4>1, <4>2 DEF AwsType, Instance, Touches
    <3>2. CASE PowersOff(i) \/ JobEnds(i)
      <4>1. aws' = Off(i)
        BY <3>2 DEF PowersOff, JobEnds
      <4>2. LET b == Off(i)
            IN  Touches(aws, b, i) /\ b[i].st \in {"gone", "stopped"} /\ b[i].tag = aws[i].tag
        BY <1>0, OffFacts
      <4> QED
        BY <4>1, <4>2
    <3>3. CASE SpotRestarts(i) \/ EndedFromOutside(i)
      <4>1. aws' \in {Started(aws, i), Terminated(aws, i)}
        BY <3>3 DEF SpotRestarts, EndedFromOutside
      <4>2. LET b == Started(aws, i)
            IN  Touches(aws, b, i) /\ b[i].st = "starting" /\ b[i].tag = aws[i].tag
        BY <1>0, StartedFacts
      <4>3. LET b == Terminated(aws, i)
            IN  Touches(aws, b, i) /\ b[i].st = "gone" /\ b[i].tag = "none"
        BY <1>0, TerminatedFacts
      <4> QED
        BY <4>1, <4>2, <4>3
    <3> QED
      BY <1>1, <3>1, <3>2, <3>3 DEF AwsStep
  <2>2. Kept /\ TagsKept
    BY <2>1 DEF Kept, TagsKept, Touches
  <2> QED
    BY <2>2, AccountOnly DEF OwnerInv, KnownExist, Kept, Ec2TypeOK, Held
<1>2. ASSUME NEW i \in Instances, Purged(i) PROVE OwnerInv'
  <2>1. TagsKept /\ \A j \in Instances \ {i} : aws'[j] = aws[j]
    BY <1>0, <1>2 DEF Purged, TagsKept, NoInstance, AwsType
  <2>2. i \notin ready \cup warming \cup Held
    BY <1>2 DEF Purged
  <2> QED
    BY <2>1, <2>2, AccountOnly DEF OwnerInv, KnownExist, Ec2TypeOK, Held
<1>3. ASSUME NEW r \in Runners, JobLost(r) PROVE OwnerInv'
  BY <1>3, AccountOnly DEF JobLost, OwnerInv, KnownExist, TagsKept
<1> QED
  BY <1>1, <1>2, <1>3

LEMMA ReaperStepOwners ==
  ASSUME ReaperTypeOK, OwnerInv, ReaperStep
  PROVE  OwnerInv'
<1>0. Ec2TypeOK /\ UNCHANGED processVars /\ aws \in AwsType /\ faults \in 0..MaxFaults
  BY DEF ReaperTypeOK, ReaperStep, SweepLists, Judge, AsksGitHub, Reap, SweepsRequest, Ec2TypeOK,
     AwsType
<1>1. Kept /\ TagsKept
  <2>1. ASSUME NEW i \in Instances, NEW ok \in BOOLEAN, Discard(i, ok) PROVE Kept /\ TagsKept
    BY <1>0, <2>1, DiscardFacts DEF Kept, TagsKept, Touches
  <2>2. ASSUME NEW i \in Instances, aws' \in {aws, SpotClosed(aws, i)} PROVE Kept /\ TagsKept
    BY <1>0, <2>2, SpotClosedFacts DEF Kept, TagsKept, Touches
  <2>3. ASSUME NEW v \in orphans, Reap(v) PROVE Kept /\ TagsKept
    BY <2>1, <2>3 DEF Reap, ReaperTypeOK, Verdict
  <2>4. ASSUME NEW i \in Instances, SweepsRequest(i) PROVE Kept /\ TagsKept
    BY <2>2, <2>4 DEF SweepsRequest
  <2>5. CASE UNCHANGED aws
    BY <2>5 DEF Kept, TagsKept
  <2> QED
    BY <2>3, <2>4, <2>5 DEF ReaperStep, SweepLists, Judge, AsksGitHub, awsVars
<1> QED
  BY <1>0, <1>1, AccountOnly DEF OwnerInv, KnownExist, Kept, Ec2TypeOK, Held

LEMMA NextOwners ==
  ASSUME ReaperTypeOK, OwnerInv, [Next]_allVars
  PROVE  OwnerInv'
<1>0. Ec2TypeOK
  BY DEF ReaperTypeOK
<1>1. ASSUME NEW i \in Instances, Fetch(i) \/ Expires(i) PROVE OwnerInv'
  <2>1. config[i] = "held" /\ UNCHANGED <<ready, warming, poolAt, live, at, hand>>
        /\ \A j \in Instances \ {i} : config'[j] = config[j]
    BY <1>0, <1>1 DEF Fetch, Expires, poolVars, Ec2TypeOK
  <2>2. \A j \in Instances : aws'[j].st = aws[j].st /\ aws'[j].tag = aws[j].tag
    BY <1>0, <1>1 DEF Fetch, Expires, awsVars, Ec2TypeOK, Instance
  <2>3. OneOwner' /\ NoConfigYet'
    BY <1>0, <2>1 DEF OwnerInv, OneOwner, NoConfigYet, Held, Ec2TypeOK, Holding
  <2>4. KnownExist' /\ ColdYet'
    BY <1>0, <2>1, <2>2 DEF OwnerInv, KnownExist, ColdYet, Held, Ec2TypeOK
  <2> QED
    BY <2>3, <2>4 DEF OwnerInv
<1>2. CASE Crash
  BY <1>2 DEF Crash, ProcessStarts, OwnerInv, OneOwner, NoConfigYet, KnownExist, ColdYet, Held,
     Claiming
<1>3. CASE UNCHANGED allVars
  BY <1>0, <1>3, AccountOnly DEF allVars, awsVars, OwnerInv, KnownExist, TagsKept
<1>4. ASSUME NEW i \in Instances, Purged(i) PROVE OwnerInv'
  BY <1>0, <1>4, AwsStepOwners DEF Purged
<1> QED
  BY <1>0, <1>1, <1>2, <1>3, <1>4, AwsStepOwners, ReaperStepOwners, PoolStepOwners, LaunchStepOwners
     DEF Next

LEMMA InitOwners == Init => OwnerInv
  BY DEF Init, OwnerInv, OneOwner, NoConfigYet, KnownExist, ColdYet, Held, Claiming

\* An instance of the pool is in ready, in warming, or in one launch's hands,
\* live is what launches hold, and a config waits only for such an instance.
THEOREM OwnersHold == Spec => []OneOwner
<1>1. ReaperTypeOK /\ OwnerInv /\ [Next]_allVars => OwnerInv'
  BY NextOwners
<1>2. OwnerInv => OneOwner
  BY DEF OwnerInv
<1> QED
  BY InitOwners, Ec2TypesHold, <1>1, <1>2, PTL DEF Spec

-----------------------------------------------------------------------------
(* The pool is not overfilled.  fill's count says nothing of its call: what *)
(* launches give back in between has to be bounded, by those that have     *)
(* claimed and may still give an instance back.                            *)

Giving == {r \in Runners : at[r] \in Claiming}

Amount(rd, wm, gv) == Cardinality(rd) + Cardinality(wm) + Cardinality(gv)
Room(rd, wm, gv) == \E n \in Sizes : Amount(rd, wm, gv) < n + Cardinality(Runners)

RoomLeft == poolAt = "run" => Room(ready, warming, Giving)

LEMMA Finite ==
    /\ \A S \in SUBSET Instances : IsFiniteSet(S) /\ Cardinality(S) \in Nat
    /\ \A S \in SUBSET Runners : /\ IsFiniteSet(S) /\ Cardinality(S) \in Nat
                                 /\ Cardinality(S) <= Cardinality(Runners)
    /\ Cardinality(Runners) \in Nat
<1>1. IsFiniteSet(Instances) /\ IsFiniteSet(Runners)
  BY AwsAssumption
<1> QED
  BY <1>1, FS_Subset, FS_CardinalityType

\* One more, one less, or some less.
LEMMA Counts ==
    ASSUME NEW S, IsFiniteSet(S)
    PROVE  /\ \A x : Cardinality(S \cup {x}) <= Cardinality(S) + 1
           /\ \A x \in S : Cardinality(S \ {x}) = Cardinality(S) - 1
           /\ \A T \in SUBSET S : Cardinality(T) <= Cardinality(S)
<1>1. Cardinality(S) \in Nat
  BY FS_CardinalityType
<1>2. ASSUME NEW x PROVE Cardinality(S \cup {x}) <= Cardinality(S) + 1
  <2>1. CASE x \in S
    <3>1. S \cup {x} = S
      BY <2>1
    <3> QED
      BY <1>1, <3>1
  <2>2. CASE x \notin S
    <3>1. Cardinality(S \cup {x}) = Cardinality(S) + 1
      BY <2>2, FS_AddElement
    <3> QED
      BY <1>1, <3>1
  <2> QED
    BY <2>1, <2>2
<1>3. ASSUME NEW x \in S PROVE Cardinality(S \ {x}) = Cardinality(S) - 1
  BY <1>3, FS_RemoveElement
<1>4. ASSUME NEW T \in SUBSET S PROVE Cardinality(T) <= Cardinality(S)
  BY FS_Subset
<1> QED
  BY <1>2, <1>3, <1>4

\* The pool is short: even if every launch gives an instance back there is room.
LEMMA ShortRoom ==
    ASSUME NEW rd \in SUBSET Instances, NEW wm \in SUBSET Instances, NEW gv \in SUBSET Runners,
           NEW n \in Sizes, n > Cardinality(rd) + Cardinality(wm)
    PROVE  Room(rd, wm, gv)
<1>1. /\ Cardinality(rd) \in Nat /\ Cardinality(wm) \in Nat /\ Cardinality(gv) \in Nat
      /\ Cardinality(Runners) \in Nat /\ Cardinality(gv) <= Cardinality(Runners)
  BY Finite
<1>2. n \in Nat
  BY PoolAssumption
<1>3. Amount(rd, wm, gv) < n + Cardinality(Runners)
  BY <1>1, <1>2 DEF Amount
<1> QED
  BY <1>3 DEF Room

LEMMA LessRoom ==
    ASSUME NEW rd \in SUBSET Instances, NEW wm \in SUBSET Instances, NEW gv \in SUBSET Runners,
           Amount(ready', warming', Giving') <= Amount(rd, wm, gv), Room(rd, wm, gv),
           ready' \in SUBSET Instances, warming' \in SUBSET Instances
    PROVE  Room(ready', warming', Giving')
<1>1. Giving' \in SUBSET Runners
  BY DEF Giving
<1>2. Amount(rd, wm, gv) \in Nat /\ Amount(ready', warming', Giving') \in Nat /\ Cardinality(Runners) \in Nat
  BY <1>1, Finite DEF Amount
<1>3. PICK n \in Sizes : Amount(rd, wm, gv) < n + Cardinality(Runners)
  BY DEF Room
<1>4. n \in Nat
  BY PoolAssumption
<1>5. Amount(ready', warming', Giving') < n + Cardinality(Runners)
  BY <1>2, <1>3, <1>4
<1> QED
  BY <1>5 DEF Room

\* Steps that add nothing.
LEMMA NothingAdded ==
    ASSUME Ec2TypeOK, ready' \subseteq ready, warming' \subseteq warming, Giving' \subseteq Giving
    PROVE  Amount(ready', warming', Giving') <= Amount(ready, warming, Giving)
<1>1. ready \subseteq Instances /\ warming \subseteq Instances /\ Giving \subseteq Runners
  BY DEF Ec2TypeOK, Giving
<1>2. /\ Cardinality(ready') <= Cardinality(ready) /\ Cardinality(warming') <= Cardinality(warming)
      /\ Cardinality(Giving') <= Cardinality(Giving)
  BY <1>1, Finite, Counts
<1>3. /\ Cardinality(ready') \in Nat /\ Cardinality(warming') \in Nat /\ Cardinality(Giving') \in Nat
      /\ Cardinality(ready) \in Nat /\ Cardinality(warming) \in Nat /\ Cardinality(Giving) \in Nat
  BY <1>1, Finite
<1> QED
  BY <1>2, <1>3 DEF Amount

\* A launch takes an instance, or gives one back and is done with it.
LEMMA Passed ==
    ASSUME Ec2TypeOK, NEW r \in Runners, NEW i,
           \/ /\ i \in ready /\ ready' = ready \ {i} /\ UNCHANGED warming
              /\ Giving' \subseteq Giving \cup {r}
           \/ /\ r \in Giving /\ Giving' = Giving \ {r}
              /\ \/ ready' = ready \cup {i} /\ UNCHANGED warming
                 \/ warming' = warming \cup {i} /\ UNCHANGED ready
                 \/ UNCHANGED <<ready, warming>>,
           ready' \in SUBSET Instances, warming' \in SUBSET Instances
    PROVE  Amount(ready', warming', Giving') <= Amount(ready, warming, Giving)
<1>1. ready \subseteq Instances /\ warming \subseteq Instances /\ Giving \subseteq Runners
  BY DEF Ec2TypeOK, Giving
<1>2. /\ IsFiniteSet(ready) /\ IsFiniteSet(warming) /\ IsFiniteSet(Giving)
      /\ Cardinality(ready) \in Nat /\ Cardinality(warming) \in Nat /\ Cardinality(Giving) \in Nat
      /\ Cardinality(ready') \in Nat /\ Cardinality(warming') \in Nat /\ Cardinality(Giving') \in Nat
  <2>1. Giving' \in SUBSET Runners
    BY DEF Giving
  <2> QED
    BY <1>1, <2>1, Finite
<1>3. CASE /\ i \in ready /\ ready' = ready \ {i} /\ UNCHANGED warming
           /\ Giving' \subseteq Giving \cup {r}
  <2>1. Cardinality(ready') = Cardinality(ready) - 1
    BY <1>2, <1>3, Counts
  <2>2. Cardinality(Giving') <= Cardinality(Giving) + 1
    <3>1. IsFiniteSet(Giving \cup {r}) /\ Cardinality(Giving \cup {r}) \in Nat
      <4>1. Giving \cup {r} \in SUBSET Runners
        BY <1>1
      <4> QED
        BY <4>1, Finite
    <3>2. Cardinality(Giving') <= Cardinality(Giving \cup {r})
      BY <1>3, <3>1, Counts
    <3>3. Cardinality(Giving \cup {r}) <= Cardinality(Giving) + 1
      BY <1>2, Counts
    <3> QED
      BY <1>2, <3>1, <3>2, <3>3
  <2> QED
    BY <1>2, <1>3, <2>1, <2>2 DEF Amount
<1>4. CASE /\ r \in Giving /\ Giving' = Giving \ {r}
           /\ \/ ready' = ready \cup {i} /\ UNCHANGED warming
              \/ warming' = warming \cup {i} /\ UNCHANGED ready
              \/ UNCHANGED <<ready, warming>>
  <2>1. Cardinality(Giving') = Cardinality(Giving) - 1
    BY <1>2, <1>4, Counts
  <2>2. \/ Cardinality(ready') <= Cardinality(ready) + 1 /\ UNCHANGED warming
        \/ Cardinality(warming') <= Cardinality(warming) + 1 /\ UNCHANGED ready
        \/ UNCHANGED <<ready, warming>>
    BY <1>2, <1>4, Counts
  <2> QED
    BY <1>2, <2>1, <2>2 DEF Amount
<1> QED
  BY <1>3, <1>4

\* fill goes on to its call only when it has just found the pool short.
LEMMA PoolRoom ==
    ASSUME Ec2TypeOK, Ec2TypeOK', RoomLeft, PoolStep \/ TrimStep \/ \E n \in Sizes : SetTarget(n)
    PROVE  RoomLeft'
<1> USE DEF poolRest, launchVars, awsVars
<1> SUFFICES ASSUME poolAt' = "run" PROVE Room(ready', warming', Giving')
  BY DEF RoomLeft
<1>1. /\ ready' \in SUBSET Instances /\ warming' \in SUBSET Instances /\ Giving' \in SUBSET Runners
      /\ ready \in SUBSET Instances /\ warming \in SUBSET Instances /\ Giving \in SUBSET Runners
      /\ target \in Sizes
  BY DEF Ec2TypeOK, Giving
<1>2. ASSUME Short, UNCHANGED <<ready, warming>> PROVE Room(ready', warming', Giving')
  BY <1>1, <1>2, ShortRoom DEF Short
<1>3. ASSUME poolAt = "run", ready' \subseteq ready, warming' \subseteq warming, UNCHANGED at
      PROVE  Room(ready', warming', Giving')
  <2>1. Amount(ready', warming', Giving') <= Amount(ready, warming, Giving)
    BY <1>3, NothingAdded DEF Giving
  <2>2. Room(ready, warming, Giving)
    BY <1>3 DEF RoomLeft
  <2> QED
    BY <1>1, <2>1, <2>2, LessRoom
<1>4. CASE RefreshDone
  BY <1>2, <1>4 DEF RefreshDone, Fill
<1>5. CASE TrimDone \/ \E i \in Instances : Trim(i)
  <2>1. CASE poolAt = "run"
    BY <1>3, <1>5, <2>1 DEF TrimDone, Trim
  <2>2. CASE poolAt # "run"
    BY <1>2, <1>5, <2>2 DEF TrimDone, Trim, TrimEnds, Fill
  <2> QED
    BY <2>1, <2>2
<1>6. CASE \E n \in Sizes : SetTarget(n)
  BY <1>3, <1>6 DEF SetTarget
<1>7. ASSUME NEW i \in Instances, FillRuns(i) PROVE Room(ready', warming', Giving')
  <2>1. target > Cardinality(ready') + Cardinality(warming')
    BY <1>7 DEF FillRuns
  <2> QED
    BY <1>1, <2>1, ShortRoom
<1>8. ~(Discover \/ CheckLists \/ CheckSkipped)
  BY DEF Discover, CheckLists, CheckSkipped
<1>9. \A i \in Instances : ~Check(i) /\ ~Refresh(i)
  BY DEF Check, Checked, Refresh
<1>10. ~Undescribed("discover", "check") /\ ~Undescribed("check", "refresh") /\ ~Undescribed("refresh", "trim")
  BY DEF Undescribed
<1> QED
  BY <1>4, <1>5, <1>6, <1>7, <1>8, <1>9, <1>10 DEF PoolStep, TrimStep

\* A launch takes as much room with it as it may give back later.
LEMMA LaunchRoom ==
    ASSUME Ec2TypeOK, Ec2TypeOK', RoomLeft, NEW r \in Runners, Begin(r) \/ LaunchStep(r)
    PROVE  RoomLeft'
<1> USE DEF poolVars, awsVars, waiters
<1>1. /\ ready' \in SUBSET Instances /\ warming' \in SUBSET Instances
      /\ ready \in SUBSET Instances /\ warming \in SUBSET Instances /\ Giving \in SUBSET Runners
  BY DEF Ec2TypeOK, Giving
<1>2. Amount(ready', warming', Giving') <= Amount(ready, warming, Giving)
  <2>1. CASE Claim(r)
    <3>1. Giving' \subseteq Giving \cup {r}
      BY <2>1 DEF Claim, Goes, Giving, Ec2TypeOK
    <3>2. PICK i \in ready : ready' = ready \ {i}
      BY <2>1 DEF Claim
    <3> QED
      BY <1>1, <2>1, <3>1, <3>2, Passed DEF Claim
  <2>2. CASE Rewarm(r) \/ ClaimDiscards(r) \/ Requeue(r) \/ RequeueTagged(r)
    <3>1. r \in Giving /\ Giving' = Giving \ {r}
      BY <2>2 DEF Rewarm, ClaimDiscards, Requeue, RequeueTagged, LetsGo, Goes, Giving, Claiming,
         Ec2TypeOK
    <3>2. \/ ready' = ready \cup {hand[r]} /\ UNCHANGED warming
          \/ warming' = warming \cup {hand[r]} /\ UNCHANGED ready
          \/ UNCHANGED <<ready, warming>>
      BY <2>2 DEF Rewarm, ClaimDiscards, Requeue, RequeueTagged
    <3> QED
      BY <1>1, <3>1, <3>2, Passed
  <2>3. CASE /\ ~Claim(r)
             /\ ~(Rewarm(r) \/ ClaimDiscards(r) \/ Requeue(r) \/ RequeueTagged(r))
    <3>1. UNCHANGED <<ready, warming>>
      BY <2>3 DEF LaunchStep, Begin, ClaimEmpty, ClaimCancelled, Prepare, StartInstances,
         Unstarted, RegisterRefused,
         CancelSpot, Cold, ColdRefused, WaitTerminates, WaitSeesRunning, WaitEnds
    <3>2. \/ at' = at
          \/ \E place : Goes(r, place) /\ (place \in Claiming => at[r] \in Claiming)
      <4>1. CASE Prepare(r)
        BY <4>1 DEF Prepare, Claiming
      <4>2. CASE Begin(r) \/ ClaimEmpty(r) \/ StartInstances(r) \/ CancelSpot(r)
        BY <4>2 DEF Begin, ClaimEmpty, StartInstances, CancelSpot, Claiming
      <4>3. CASE \/ ClaimCancelled(r) \/ ColdRefused(r) \/ WaitEnds(r)
                 \/ Unstarted(r) \/ RegisterRefused(r)
        BY <4>3 DEF ClaimCancelled, ColdRefused, WaitEnds, Unstarted, RegisterRefused, LetsGo,
           Ends, Claiming
      <4>4. CASE WaitTerminates(r) \/ WaitSeesRunning(r)
        BY <4>4 DEF WaitTerminates, WaitSeesRunning
      <4>5. CASE Cold(r)
        BY <4>5, ColdFacts DEF Ends, Claiming
      <4> QED
        BY <2>3, <4>1, <4>2, <4>3, <4>4, <4>5 DEF LaunchStep
    <3>3. Giving' \subseteq Giving
      BY <3>2 DEF Goes, Giving, Ec2TypeOK
    <3> QED
      BY <3>1, <3>3, NothingAdded
  <2> QED
    BY <2>1, <2>2, <2>3
<1>3. poolAt' = poolAt
  BY DEF LaunchStep, Begin, Claim, ClaimEmpty, ClaimCancelled, Prepare, Rewarm, ClaimDiscards,
     Requeue, RequeueTagged, StartInstances, Unstarted, RegisterRefused, CancelSpot, Cold,
     ColdRefused,
     WaitTerminates, WaitSeesRunning, WaitEnds
<1> QED
  BY <1>1, <1>2, <1>3, LessRoom DEF RoomLeft

LEMMA NextRoom ==
    ASSUME ReaperTypeOK, ReaperTypeOK', RoomLeft, [Next]_allVars
    PROVE  RoomLeft'
<1>0. Ec2TypeOK /\ Ec2TypeOK'
  BY DEF ReaperTypeOK
<1>1. CASE UNCHANGED <<ready, warming, at, poolAt>>
  BY <1>1 DEF RoomLeft, Room, Amount, Giving
<1>2. CASE Crash
  BY <1>2 DEF Crash, ProcessStarts, RoomLeft
<1>3. ASSUME NEW i \in Instances, Fetch(i) \/ Expires(i) PROVE RoomLeft'
  BY <1>1, <1>3 DEF Fetch, Expires, poolVars
<1>4. CASE ReaperStep \/ UNCHANGED processVars
  BY <1>1, <1>4 DEF ReaperStep, SweepLists, Judge, AsksGitHub, Reap, SweepsRequest, processVars,
     poolVars, launchVars
<1>5. ASSUME NEW i \in Instances, Purged(i) PROVE RoomLeft'
  BY <1>4, <1>5 DEF Purged
<1> QED
  BY <1>0, <1>2, <1>3, <1>4, <1>5, PoolRoom, LaunchRoom DEF Next, allVars

\* Only fill's call brings the pool an instance that was not there.
LEMMA OnlyFillAdds ==
    ASSUME ReaperTypeOK, OwnerInv, [Next]_allVars, NEW i \in warming', aws[i].st = "none"
    PROVE  poolAt = "run"
<1>1. \A j \in ready \cup warming \cup Held : j # i
  BY DEF OwnerInv, KnownExist
<1>2. i \notin warming /\ i \notin ready /\ \A r \in Runners : hand[r] # NoInst => hand[r] # i
  BY <1>1 DEF Held
<1>3. \A r \in Runners : at[r] = "rewarm" => hand[r] # i
  BY <1>2 DEF ReaperTypeOK, Ec2TypeOK, Holding, Claiming
<1>4. ~Crash /\ ~Discover
  BY DEF Crash, ProcessStarts, Discover, PoolTagged, Alive
<1>5. warming' # warming
  BY <1>2
<1>6. \A r \in Runners : ~(Begin(r) \/ LaunchStep(r))
  BY <1>2, <1>3, <1>5 DEF poolVars, LaunchStep, Begin, Claim, ClaimEmpty, ClaimCancelled, Prepare,
     Rewarm, ClaimDiscards, Requeue, RequeueTagged, StartInstances, Unstarted, RegisterRefused,
     CancelSpot, Cold,
     ColdRefused, WaitTerminates, WaitSeesRunning, WaitEnds
<1>7. \A j \in Instances : ~Check(j) /\ ~Refresh(j) /\ ~Trim(j)
  BY <1>2, <1>5 DEF Check, Refresh, MarkReady, Trim
<1>8. ~ReaperStep /\ ~UNCHANGED processVars /\ ~UNCHANGED allVars
  BY <1>5 DEF ReaperStep, SweepLists, Judge, AsksGitHub, Reap, SweepsRequest, processVars,
     poolVars, allVars
<1>9. PoolStep \/ TrimStep \/ \E n \in Sizes : SetTarget(n)
  BY <1>4, <1>5, <1>6, <1>8 DEF Next, Fetch, Expires, Purged, poolVars
<1>10. PICK j \in Instances : FillRuns(j)
  BY <1>4, <1>5, <1>7, <1>9 DEF PoolStep, TrimStep, Undescribed, CheckLists, CheckSkipped,
     RefreshDone,
     TrimDone, SetTarget
<1> QED
  BY <1>10 DEF FillRuns

\* The pool gains a new instance only while what it has, and what launches may
\* still give back, is less than one of its sizes and the number of launches.
THEOREM PoolNotOverfilled == Spec => NeverOverfilled
<1>1. Init => RoomLeft
  BY DEF Init, RoomLeft
<1>2. ReaperTypeOK /\ ReaperTypeOK' /\ RoomLeft /\ [Next]_allVars => RoomLeft'
  BY NextRoom
<1>3. ASSUME ReaperTypeOK, OwnerInv, RoomLeft, [Next]_allVars,
             NEW i \in warming', aws[i].st = "none"
      PROVE  \E n \in Sizes :
               Cardinality(ready) + Cardinality(warming) < n + Cardinality(Runners)
  <2>1. PICK n \in Sizes : Amount(ready, warming, Giving) < n + Cardinality(Runners)
    BY <1>3, OnlyFillAdds DEF RoomLeft, Room
  <2>2. /\ Cardinality(ready) \in Nat /\ Cardinality(warming) \in Nat /\ Cardinality(Giving) \in Nat
        /\ Cardinality(Runners) \in Nat /\ n \in Nat
    BY <1>3, Finite, PoolAssumption DEF ReaperTypeOK, Ec2TypeOK, Giving
  <2>3. Cardinality(ready) + Cardinality(warming) < n + Cardinality(Runners)
    BY <2>1, <2>2 DEF Amount
  <2> QED
    BY <2>3
<1>4. ReaperTypeOK /\ OwnerInv /\ RoomLeft /\ [Next]_allVars
        => [ \A i \in warming' : aws[i].st = "none" =>
               \E n \in Sizes :
                 Cardinality(ready) + Cardinality(warming) < n + Cardinality(Runners) ]_allVars
  BY <1>3
<1>5. ReaperTypeOK /\ OwnerInv /\ [Next]_allVars => OwnerInv'
  BY NextOwners
<1> QED
  BY <1>1, <1>2, <1>4, <1>5, InitOwners, Ec2TypesHold, PTL DEF Spec, NeverOverfilled
=============================================================================
