----------------------------- MODULE EndProofs ------------------------------
(***************************************************************************)
(* What the end of an instance must not leave, and must not take with it:  *)
(* a persistent spot request that may still be open, and a job whose       *)
(* runner GitHub agreed to deregister; for any number of instances,        *)
(* launches, faults, surprises and crashes.                                *)
(***************************************************************************)
EXTENDS Ec2Proofs

\* A cold job instance never has a request.
ColdHasNoSpot == \A i \in Alive : aws[i].tag = "none" => ~aws[i].openSpot

\* A waiter that did not note the request as left over need not cancel it.
WaitersClosed ==
    \A r \in Runners : at[r] = "wait" /\ r \notin spotLeft => ~aws[hand[r]].openSpot

SpotInv == ColdHasNoSpot /\ WaitersClosed

-----------------------------------------------------------------------------
(* What a step does to the requests.                                       *)

Closing(b, i) ==
    LET alive == b[i].st \in {"starting", "up", "stopped"}
    IN  /\ aws[i].st # "none" /\ ~aws[i].openSpot => ~b[i].openSpot
        /\ alive /\ b[i].tag = "none" => ~b[i].openSpot
        /\ i \in Alive /\ b[i].st = "gone" => ~b[i].openSpot

\* It opens none, and an instance that it ends had none or loses it.
Closes(b) == \A i \in Instances : Closing(b, i)

LEMMA Untouched ==
  ASSUME aws \in AwsType, ColdHasNoSpot, NEW i \in Instances, NEW b \in AwsType,
         b[i] = aws[i]
  PROVE  Closing(b, i)
  BY DEF Closing, ColdHasNoSpot, Alive

LEMMA TouchedCloses ==
  ASSUME aws \in AwsType, ColdHasNoSpot, NEW i \in Instances, NEW b \in AwsType,
         Touches(aws, b, i), Closing(b, i)
  PROVE  Closes(b)
  BY Untouched DEF Closes, Touches

LEMMA UnchangedCloses ==
  ASSUME aws \in AwsType, ColdHasNoSpot
  PROVE  Closes(aws)
  BY Untouched DEF Closes

LEMMA TaggedCloses ==
  ASSUME aws \in AwsType, ColdHasNoSpot, NEW i \in Instances,
         NEW tag \in Tags \ {"none"}, NEW r \in Runners \cup {NoRunner}
  PROVE  Closes(Tagged(aws, i, tag, r))
<1> DEFINE b == Tagged(aws, i, tag, r)
<1>1. /\ b \in AwsType /\ Touches(aws, b, i)
      /\ b[i].st = aws[i].st /\ b[i].openSpot = aws[i].openSpot
      /\ b[i].tag \in {aws[i].tag, tag}
  BY TaggedFacts
<1>2. Closing(b, i)
  BY <1>1 DEF Closing, ColdHasNoSpot, Alive
<1> QED
  BY <1>1, <1>2, TouchedCloses

LEMMA ReadyCloses ==
  ASSUME aws \in AwsType, ColdHasNoSpot, NEW ids \in SUBSET Instances
  PROVE  Closes(Ready(aws, ids))
<1> DEFINE b == Ready(aws, ids)
<1>1. \A i \in Instances : /\ b[i].st = aws[i].st /\ b[i].openSpot = aws[i].openSpot
                           /\ b[i].tag \in {aws[i].tag, "ready"}
  BY ReadyFacts
<1> QED
  BY <1>1 DEF Closes, Closing, ColdHasNoSpot, Alive

LEMMA SpotClosedCloses ==
  ASSUME aws \in AwsType, ColdHasNoSpot, NEW i \in Instances
  PROVE  Closes(SpotClosed(aws, i))
<1> DEFINE b == SpotClosed(aws, i)
<1>1. b \in AwsType /\ Touches(aws, b, i) /\ ~b[i].openSpot
  BY SpotClosedFacts
<1> QED
  BY <1>1, TouchedCloses DEF Closing

LEMMA StartedCloses ==
  ASSUME aws \in AwsType, ColdHasNoSpot, NEW i \in Instances, aws[i].st = "stopped"
  PROVE  Closes(Started(aws, i))
<1> DEFINE b == Started(aws, i)
<1>1. /\ b \in AwsType /\ Touches(aws, b, i)
      /\ b[i].st = "starting" /\ b[i].tag = aws[i].tag /\ b[i].openSpot = aws[i].openSpot
  BY StartedFacts
<1>2. Closing(b, i)
  BY <1>1 DEF Closing, ColdHasNoSpot, Alive
<1> QED
  BY <1>1, <1>2, TouchedCloses

\* Ending an instance whose request is closed already.
LEMMA TerminatedCloses ==
  ASSUME aws \in AwsType, ColdHasNoSpot, NEW i \in Instances, ~aws[i].openSpot
  PROVE  Closes(Terminated(aws, i))
<1> DEFINE b == Terminated(aws, i)
<1>1. b \in AwsType /\ Touches(aws, b, i) /\ b[i].openSpot = aws[i].openSpot
  BY TerminatedFacts
<1> QED
  BY <1>1, TouchedCloses DEF Closing

\* Ending one after its request.
LEMMA ClosedTerminatedCloses ==
  ASSUME aws \in AwsType, ColdHasNoSpot, NEW i \in Instances
  PROVE  LET b == Terminated(SpotClosed(aws, i), i)
         IN  Closes(b) /\ b \in AwsType /\ ~b[i].openSpot
<1> DEFINE closed == SpotClosed(aws, i)
           b == Terminated(closed, i)
<1>1. closed \in AwsType /\ Touches(aws, closed, i) /\ ~closed[i].openSpot
  BY SpotClosedFacts
<1>2. b \in AwsType /\ Touches(closed, b, i) /\ ~b[i].openSpot
  BY <1>1, TerminatedFacts
<1>3. Touches(aws, b, i)
  BY <1>1, <1>2 DEF Touches
<1>4. Closing(b, i)
  BY <1>2 DEF Closing
<1>5. Closes(b)
  BY <1>2, <1>3, <1>4, TouchedCloses
<1> QED
  BY <1>2, <1>5

LEMMA DiscardCloses ==
  ASSUME aws \in AwsType, ColdHasNoSpot, NEW i \in Instances, NEW ok \in BOOLEAN,
         Discard(i, ok)
  PROVE  Closes(aws')
<1>1. aws' \in {aws, SpotClosed(aws, i), Terminated(SpotClosed(aws, i), i)}
  BY DEF Discard
<1> QED
  BY <1>1, UnchangedCloses, SpotClosedCloses, ClosedTerminatedCloses

-----------------------------------------------------------------------------
(* Every step of the program, and every step of the account but a          *)
(* termination from outside, closes.                                       *)

LEMMA AwsStepCloses ==
  ASSUME aws \in AwsType, ColdHasNoSpot, NEW i \in Instances,
         AwsStep(i), ~EndedFromOutside(i)
  PROVE  Closes(aws')
<1>1. CASE Boots(i) \/ Ages(i) \/ JobStarts(i)
  <2>1. aws[i] \in Instance
    BY DEF AwsType
  <2>2. PICK t \in Instance :
           /\ aws' = [aws EXCEPT ![i] = t]
           /\ t.tag = aws[i].tag /\ t.openSpot = aws[i].openSpot
           /\ t.st = aws[i].st \/ (aws[i].st = "starting" /\ t.st = "up")
    <3>1. CASE Boots(i)
      <4>1. [aws[i] EXCEPT !.st = "up"] \in Instance
        BY <2>1 DEF Instance, States
      <4> QED
        BY <2>1, <3>1, <4>1 DEF Boots, Instance
    <3>2. CASE Ages(i)
      <4> DEFINE t == [aws[i] EXCEPT !.old = TRUE]
      <4>1. t \in Instance /\ t.tag = aws[i].tag /\ t.openSpot = aws[i].openSpot /\ t.st = aws[i].st
        BY <2>1 DEF Instance
      <4>2. aws' = [aws EXCEPT ![i] = t]
        <5>1. aws' = [aws EXCEPT ![i] = [@ EXCEPT !.old = TRUE]]
          BY <3>2 DEF Ages
        <5> QED
          BY <5>1
      <4> QED
        BY <4>1, <4>2
    <3>3. CASE JobStarts(i)
      <4>1. [aws[i] EXCEPT !.guest = "job"] \in Instance
        BY <2>1 DEF Instance
      <4> QED
        BY <2>1, <3>3, <4>1 DEF JobStarts, Instance
    <3> QED
      BY <1>1, <3>1, <3>2, <3>3
  <2>3. /\ aws' \in AwsType /\ Touches(aws, aws', i)
        /\ aws'[i].tag = aws[i].tag /\ aws'[i].openSpot = aws[i].openSpot
        /\ aws'[i].st = aws[i].st \/ (aws[i].st = "starting" /\ aws'[i].st = "up")
    BY <2>2 DEF AwsType, Touches
  <2>4. Closing(aws', i)
    BY <2>3 DEF Closing, ColdHasNoSpot, Alive
  <2> QED
    BY <2>3, <2>4, TouchedCloses
<1>2. CASE PowersOff(i) \/ JobEnds(i)
  <2> DEFINE b == Off(i)
  <2>1. aws' = b
    BY <1>2 DEF PowersOff, JobEnds
  <2>2. /\ b \in AwsType /\ Touches(aws, b, i)
        /\ b[i].st \in {"gone", "stopped"} /\ b[i].tag = aws[i].tag
        /\ b[i].openSpot = aws[i].openSpot
        /\ b[i].st = "gone" => aws[i].tag = "none"
    BY OffFacts
  <2>3. b[i].st = "stopped" => aws[i].tag # "none"
    BY DEF Off, AwsType, Instance
  <2>4. Closing(b, i)
    BY <2>2, <2>3 DEF Closing, ColdHasNoSpot, Alive
  <2> QED
    BY <2>1, <2>2, <2>4, TouchedCloses
<1>3. CASE SpotRestarts(i)
  BY <1>3, StartedCloses DEF SpotRestarts
<1> QED
  BY <1>1, <1>2, <1>3 DEF AwsStep

LEMMA PoolStepCloses ==
  ASSUME Ec2TypeOK, ColdHasNoSpot, PoolStep \/ TrimStep
  PROVE  Closes(aws')
<1>0. aws \in AwsType
  BY DEF Ec2TypeOK, AwsType
<1>1. CASE UNCHANGED aws
  BY <1>0, <1>1, UnchangedCloses
<1>2. CASE Discover
  <2>1. PICK ids \in SUBSET Instances : aws' = Ready(aws, ids)
    BY <1>2 DEF Discover, PoolTagged, Alive
  <2> QED
    BY <1>0, <2>1, ReadyCloses
<1>3. ASSUME NEW i \in Instances, Check(i) PROVE Closes(aws')
  <2>1. aws' \in {aws, SpotClosed(aws, i), Tagged(aws, i, "warming", NoRunner)}
    BY <1>3 DEF Check
  <2> QED
    BY <1>0, <2>1, UnchangedCloses, SpotClosedCloses, TaggedCloses DEF Tags
<1>4. ASSUME NEW i \in Instances, Refresh(i) PROVE Closes(aws')
  <2>1. \/ aws' \in {aws, Ready(aws, {i})}
        \/ \E ok \in BOOLEAN : Discard(i, ok)
    BY <1>4 DEF Refresh, MarkReady
  <2> QED
    BY <1>0, <2>1, UnchangedCloses, ReadyCloses, DiscardCloses
<1>5. ASSUME NEW i \in Instances, FillRuns(i) PROVE Closes(aws')
  <2>1. CASE aws' = [aws EXCEPT ![i] = PoolInstance]
    <3>1. /\ aws' \in AwsType /\ Touches(aws, aws', i)
          /\ aws[i].st = "none" /\ aws'[i].tag = "warming"
      BY <1>0, <1>5, <2>1, RecordTypes DEF FillRuns, AwsType, Touches, PoolInstance, NoInstance
    <3>2. Closing(aws', i)
      BY <3>1 DEF Closing, Alive
    <3> QED
      BY <1>0, <3>1, <3>2, TouchedCloses
  <2> QED
    BY <1>1, <1>5, <2>1 DEF FillRuns
<1>6. ASSUME NEW i \in Instances, Trim(i) PROVE Closes(aws')
  BY <1>0, <1>6, DiscardCloses DEF Trim
<1> QED
  BY <1>1, <1>2, <1>3, <1>4, <1>5, <1>6
     DEF PoolStep, TrimStep, Undescribed, CheckLists, CheckSkipped, RefreshDone, TrimDone, awsVars

LEMMA ReaperStepCloses ==
  ASSUME ReaperTypeOK, ColdHasNoSpot, ReaperStep
  PROVE  Closes(aws')
<1>0. aws \in AwsType
  BY DEF ReaperTypeOK, Ec2TypeOK, AwsType
<1>1. ASSUME NEW v \in orphans, Reap(v) PROVE Closes(aws')
  BY <1>0, <1>1, DiscardCloses DEF Reap, ReaperTypeOK, Verdict
<1>2. ASSUME NEW i \in Instances, SweepsRequest(i) PROVE Closes(aws')
  <2>1. aws' \in {aws, SpotClosed(aws, i)}
    BY <1>2 DEF SweepsRequest
  <2> QED
    BY <1>0, <2>1, UnchangedCloses, SpotClosedCloses
<1>3. CASE UNCHANGED aws
  BY <1>0, <1>3, UnchangedCloses
<1> QED
  BY <1>1, <1>2, <1>3 DEF ReaperStep, SweepLists, Judge, AsksGitHub, awsVars

-----------------------------------------------------------------------------
(* Launches, which also change who waits.                                  *)

\* r's step leaves the other waiters alone.
OthersWait(r) ==
    /\ \A s \in Runners \ {r} : /\ at'[s] = at[s] /\ hand'[s] = hand[s]
                                /\ s \in spotLeft' <=> s \in spotLeft
    /\ at'[r] = "wait" /\ r \notin spotLeft' => ~aws'[hand'[r]].openSpot

LEMMA WaitersStayClosed ==
  ASSUME Ec2TypeOK, KnownExist, WaitersClosed, Closes(aws'), NEW r \in Runners, OthersWait(r)
  PROVE  WaitersClosed'
<1>1. ASSUME NEW s \in Runners \ {r}, at'[s] = "wait", s \notin spotLeft'
      PROVE  ~aws'[hand'[s]].openSpot
  <2>1. at[s] = "wait" /\ s \notin spotLeft /\ hand'[s] = hand[s]
    BY <1>1 DEF OthersWait
  <2>2. hand[s] \in Instances /\ hand[s] \in Held
    BY <2>1 DEF Ec2TypeOK, Holding, Held
  <2>3. aws[hand[s]].st # "none" /\ ~aws[hand[s]].openSpot
    BY <2>1, <2>2 DEF KnownExist, WaitersClosed
  <2> QED
    BY <2>1, <2>2, <2>3 DEF Closes, Closing
<1> QED
  BY <1>1 DEF WaitersClosed, OthersWait

LEMMA LaunchStepCloses ==
  ASSUME Ec2TypeOK, ColdHasNoSpot, WaitersClosed, NEW r \in Runners, Begin(r) \/ LaunchStep(r)
  PROVE  Closes(aws') /\ OthersWait(r)
<1> DEFINE i == hand[r]
<1>0. /\ aws \in AwsType /\ at \in [Runners -> LaunchPlaces]
      /\ hand \in [Runners -> Instances \cup {NoInst}]
      /\ at[r] \in Holding => i \in Instances
  BY DEF Ec2TypeOK, AwsType
<1>1. CASE \/ Begin(r) \/ Claim(r) \/ ClaimEmpty(r) \/ ClaimCancelled(r)
           \/ Requeue(r) \/ ColdRefused(r) \/ WaitEnds(r)
  <2>1. UNCHANGED aws
    BY <1>1 DEF Begin, Claim, ClaimEmpty, ClaimCancelled, Requeue, ColdRefused, WaitEnds, awsVars
  <2>2. OthersWait(r)
    BY <1>0, <1>1 DEF Begin, Claim, ClaimEmpty, ClaimCancelled, Requeue, ColdRefused, WaitEnds,
       Goes, LetsGo, Ends, waiters, OthersWait
  <2> QED
    BY <1>0, <2>1, <2>2, UnchangedCloses
<1>2. CASE Prepare(r) \/ Rewarm(r) \/ RequeueTagged(r)
  <2>1. PICK tag \in Tags \ {"none"}, s \in Runners \cup {NoRunner} :
           aws' \in {aws, Tagged(aws, i, tag, s)}
    BY <1>2 DEF Prepare, Rewarm, RequeueTagged, Tags
  <2>2. i \in Instances
    BY <1>0, <1>2 DEF Prepare, Rewarm, RequeueTagged, Holding, Claiming
  <2>3. OthersWait(r)
    BY <1>0, <1>2 DEF Prepare, Rewarm, RequeueTagged, Goes, LetsGo, waiters, OthersWait
  <2> QED
    BY <1>0, <2>1, <2>2, <2>3, UnchangedCloses, TaggedCloses
<1>3. CASE ClaimDiscards(r) \/ RegisterRefused(r) \/ Unstarted(r)
  <2>1. i \in Instances
    BY <1>0, <1>3 DEF ClaimDiscards, Unstarted, RegisterRefused, Holding, Claiming
  <2>2. OthersWait(r)
    BY <1>0, <1>3 DEF ClaimDiscards, Unstarted, RegisterRefused, Goes, LetsGo,
       Ends, waiters, OthersWait
  <2> QED
    BY <1>0, <1>3, <2>1, <2>2, DiscardCloses DEF ClaimDiscards, Unstarted, RegisterRefused
<1>4. CASE StartInstances(r)
  <2>1. i \in Instances
    BY <1>0, <1>4 DEF StartInstances, Holding
  <2>2. aws' = aws \/ (aws[i].st = "stopped" /\ aws' = Started(aws, i))
    <3> DEFINE started == IF aws[i].st = "stopped" /\ Startable(i) THEN Started(aws, i) ELSE aws
    <3>1. aws' \in {aws, started}
      BY <1>4 DEF StartInstances
    <3> QED
      BY <3>1
  <2>3. OthersWait(r)
    BY <1>0, <1>4 DEF StartInstances, Goes, waiters, OthersWait
  <2> QED
    BY <1>0, <2>1, <2>2, <2>3, UnchangedCloses, StartedCloses
<1>5. CASE CancelSpot(r)
  <2>1. i \in Instances
    BY <1>0, <1>5 DEF CancelSpot, Holding
  <2>2. PICK done \in BOOLEAN, ok \in BOOLEAN :
           /\ ok => done
           /\ aws' = IF done THEN SpotClosed(aws, i) ELSE aws
           /\ spotLeft' = IF ok THEN spotLeft ELSE spotLeft \cup {r}
    BY <1>5 DEF CancelSpot, Call
  <2>3. r \notin spotLeft' => ~aws'[i].openSpot
    BY <1>0, <2>1, <2>2, SpotClosedFacts
  <2>4. OthersWait(r)
    BY <1>0, <1>5, <2>2, <2>3 DEF CancelSpot, Goes, OthersWait
  <2> QED
    BY <1>0, <2>1, <2>2, <2>4, UnchangedCloses, SpotClosedCloses
<1>6. CASE Cold(r)
  <2>1. PICK j \in Instances :
           LET launched == [aws EXCEPT ![j] = ColdInstance(r)]
           IN  /\ aws[j].st = "none"
               /\ aws' \in {aws, launched, Terminated(launched, j)}
               /\ \/ aws' # aws /\ hand' = [hand EXCEPT ![r] = j]
                     /\ Goes(r, "wait") /\ spotLeft' = spotLeft
                  \/ Ends(r)
    <3>1. ASSUME NEW j \in Instances, aws[j].st = "none"
          PROVE  LET launched == [aws EXCEPT ![j] = ColdInstance(r)]
                 IN  aws # launched /\ aws # Terminated(launched, j)
      <4> DEFINE launched == [aws EXCEPT ![j] = ColdInstance(r)]
      <4>1. launched \in AwsType /\ launched[j].st = "up"
        BY <1>0, RecordTypes DEF AwsType, ColdInstance, NoInstance
      <4>2. Terminated(launched, j)[j].st = "gone"
        BY <4>1, TerminatedFacts
      <4> QED
        BY <3>1, <4>1, <4>2
    <3> QED
      BY <1>6, <3>1 DEF Cold, waiters
  <2> DEFINE launched == [aws EXCEPT ![j] = ColdInstance(r)]
             ended == Terminated(launched, j)
  <2>2. /\ launched \in AwsType /\ Touches(aws, launched, j)
        /\ ~launched[j].openSpot
    BY <1>0, RecordTypes DEF AwsType, ColdInstance, NoInstance, Touches
  <2>3. ended \in AwsType /\ Touches(launched, ended, j) /\ ~ended[j].openSpot
    BY <2>2, TerminatedFacts
  <2>4. Touches(aws, ended, j)
    BY <2>2, <2>3 DEF Touches
  <2>5. Closes(launched) /\ Closes(ended)
    BY <1>0, <2>2, <2>3, <2>4, TouchedCloses DEF Closing
  <2>6. OthersWait(r)
    <3>1. CASE aws' # aws /\ hand' = [hand EXCEPT ![r] = j] /\ Goes(r, "wait") /\ spotLeft' = spotLeft
      BY <1>0, <2>1, <2>2, <2>3, <3>1 DEF Goes, OthersWait
    <3>2. CASE Ends(r)
      BY <1>0, <3>2 DEF Ends, Goes, OthersWait
    <3> QED
      BY <2>1, <3>1, <3>2
  <2> QED
    BY <1>0, <2>1, <2>5, <2>6, UnchangedCloses
<1>7. CASE WaitTerminates(r)
  <2>1. i \in Instances /\ at[r] = "wait" /\ UNCHANGED <<at, hand>>
    BY <1>0, <1>7 DEF WaitTerminates, Holding
  <2> DEFINE closed == SpotClosed(aws, i)
             ended == Terminated(closed, i)
  <2>2. Closes(aws) /\ Closes(closed) /\ Closes(ended) /\ ~closed[i].openSpot /\ ~ended[i].openSpot
    BY <1>0, <2>1, UnchangedCloses, SpotClosedCloses, SpotClosedFacts, ClosedTerminatedCloses
  <2>3. CASE r \in spotLeft
    <3>1. \/ aws' \in {aws, closed} /\ spotLeft' = spotLeft
          \/ aws' \in {closed, ended} /\ spotLeft' = spotLeft \ {r}
      <4>1. Terminate(r)
        BY <1>7 DEF WaitTerminates
      <4>2. (IF r \in spotLeft THEN SpotClosed(aws, hand[r]) ELSE aws) = closed
        BY <2>3
      <4> QED
        BY <2>3, <4>1, <4>2 DEF Terminate
    <3>3. OthersWait(r)
      BY <2>1, <2>2, <2>3, <3>1 DEF OthersWait
    <3> QED
      BY <2>2, <3>1, <3>3
  <2>4. CASE r \notin spotLeft
    <3>1. ~aws[i].openSpot
      BY <2>1, <2>4 DEF WaitersClosed
    <3>2. aws' \in {aws, Terminated(aws, i)} /\ spotLeft' = spotLeft
      BY <1>7, <2>4 DEF WaitTerminates, Terminate
    <3>3. Closes(Terminated(aws, i)) /\ ~Terminated(aws, i)[i].openSpot
      BY <1>0, <2>1, <3>1, TerminatedCloses, TerminatedFacts
    <3>4. OthersWait(r)
      BY <2>1, <3>1, <3>2, <3>3 DEF OthersWait
    <3> QED
      BY <2>2, <3>2, <3>3, <3>4
  <2> QED
    BY <2>3, <2>4
<1>8. CASE WaitSeesRunning(r)
  <2>1. UNCHANGED <<aws, at, hand, spotLeft>>
    BY <1>8 DEF WaitSeesRunning, awsVars
  <2> QED
    BY <1>0, <2>1, UnchangedCloses DEF OthersWait, WaitersClosed
<1> QED
  BY <1>1, <1>2, <1>3, <1>4, <1>5, <1>6, <1>7, <1>8 DEF LaunchStep

-----------------------------------------------------------------------------
(* The invariant and the theorem.                                          *)

LEMMA ClosesKeepsCold ==
  ASSUME Closes(aws')
  PROVE  ColdHasNoSpot'
  BY DEF Closes, Closing, ColdHasNoSpot, Alive

LEMMA ClosesKeepsWaiters ==
  ASSUME Ec2TypeOK, KnownExist, WaitersClosed, Closes(aws'), UNCHANGED <<at, hand, spotLeft>>
  PROVE  WaitersClosed'
<1>1. ASSUME NEW r \in Runners, at[r] = "wait", r \notin spotLeft PROVE ~aws'[hand[r]].openSpot
  <2>1. hand[r] \in Instances /\ hand[r] \in Held
    BY <1>1 DEF Ec2TypeOK, Holding, Held
  <2>2. aws[hand[r]].st # "none" /\ ~aws[hand[r]].openSpot
    BY <1>1, <2>1 DEF KnownExist, WaitersClosed
  <2> QED
    BY <2>1, <2>2 DEF Closes, Closing
<1> QED
  BY <1>1 DEF WaitersClosed

\* A termination from outside opens nothing, though it may leave a request.
LEMMA OutsideKeepsSpots ==
  ASSUME Ec2TypeOK, SpotInv, NEW i \in Instances, EndedFromOutside(i), UNCHANGED processVars
  PROVE  SpotInv' /\ surprises' # surprises
<1>0. aws \in AwsType /\ surprises \in Nat
  BY AwsAssumption DEF Ec2TypeOK, AwsType
<1>1. /\ aws' \in AwsType /\ Touches(aws, aws', i)
      /\ aws'[i].st = "gone" /\ aws'[i].openSpot = aws[i].openSpot
  BY <1>0, TerminatedFacts DEF EndedFromOutside
<1>2. ColdHasNoSpot'
  BY <1>1 DEF SpotInv, ColdHasNoSpot, Alive, Touches
<1>3. WaitersClosed'
  <2>1. UNCHANGED <<at, hand, spotLeft>>
    BY DEF processVars, launchVars
  <2>2. \A r \in Runners : at[r] = "wait" => hand[r] \in Instances
    BY DEF Ec2TypeOK, Holding
  <2> QED
    BY <1>1, <2>1, <2>2 DEF SpotInv, WaitersClosed, Touches
<1>4. surprises' # surprises
  BY <1>0 DEF EndedFromOutside
<1> QED
  BY <1>2, <1>3, <1>4 DEF SpotInv

LEMMA NextSpots ==
  ASSUME ReaperTypeOK, OwnerInv, SpotInv, [Next]_allVars
  PROVE  SpotInv' /\ (surprises' = surprises => Closes(aws'))
<1>0. Ec2TypeOK /\ aws \in AwsType /\ KnownExist /\ ColdHasNoSpot /\ WaitersClosed
  BY DEF ReaperTypeOK, Ec2TypeOK, AwsType, OwnerInv, SpotInv
<1>1. ASSUME Closes(aws'), UNCHANGED <<at, hand, spotLeft>>
      PROVE  SpotInv' /\ Closes(aws')
  BY <1>0, <1>1, ClosesKeepsCold, ClosesKeepsWaiters DEF SpotInv
<1>2. ASSUME NEW i \in Instances, AwsStep(i), UNCHANGED processVars
      PROVE  SpotInv' /\ (surprises' = surprises => Closes(aws'))
  <2>1. CASE EndedFromOutside(i)
    BY <1>0, <1>2, <2>1, OutsideKeepsSpots
  <2>2. CASE ~EndedFromOutside(i)
    BY <1>0, <1>1, <1>2, <2>2, AwsStepCloses DEF processVars, launchVars
  <2> QED
    BY <2>1, <2>2
<1>3. ASSUME NEW i \in Instances, Fetch(i) \/ Expires(i) \/ Purged(i)
      PROVE  SpotInv' /\ Closes(aws')
  <2>1. CASE Fetch(i)
    <3>1. [aws[i] EXCEPT !.guest = "runner"] \in Instance /\ aws[i] \in Instance
      BY <1>0 DEF AwsType, Instance
    <3> DEFINE t == [aws[i] EXCEPT !.guest = "runner"]
    <3>2. aws' = [aws EXCEPT ![i] = t]
      <4>1. aws' = [aws EXCEPT ![i] = [@ EXCEPT !.guest = "runner"]]
        BY <2>1 DEF Fetch
      <4> QED
        BY <4>1
    <3>3. t.st = aws[i].st /\ t.tag = aws[i].tag /\ t.openSpot = aws[i].openSpot
      BY <3>1 DEF Instance
    <3>4. aws' \in AwsType /\ Touches(aws, aws', i) /\ Closing(aws', i)
      BY <1>0, <3>1, <3>2, <3>3 DEF AwsType, Touches, Closing, ColdHasNoSpot, Alive
    <3> QED
      BY <1>0, <1>1, <2>1, <3>4, TouchedCloses DEF Fetch, waiters
  <2>2. CASE Expires(i)
    BY <1>0, <1>1, <2>2, UnchangedCloses DEF Expires, awsVars, waiters
  <2>3. CASE Purged(i)
    <3>1. /\ aws' \in AwsType /\ Touches(aws, aws', i)
          /\ aws'[i].st = "none" /\ ~aws'[i].openSpot
      BY <1>0, <2>3, RecordTypes DEF Purged, AwsType, Touches, NoInstance
    <3>2. Closing(aws', i)
      BY <3>1 DEF Closing
    <3> QED
      BY <1>0, <1>1, <2>3, <3>1, <3>2, TouchedCloses DEF Purged, processVars, launchVars
  <2> QED
    BY <1>3, <2>1, <2>2, <2>3
<1>4. ASSUME PoolStep \/ TrimStep PROVE SpotInv' /\ Closes(aws')
  <2>1. UNCHANGED <<at, hand, spotLeft>>
    BY <1>4 DEF PoolStep, TrimStep, Discover, Undescribed, CheckLists, CheckSkipped, Check, Checked,
       Refresh, RefreshDone, FillRuns, Trim, TrimDone, poolRest, launchVars
  <2> QED
    BY <1>0, <1>1, <1>4, <2>1, PoolStepCloses
<1>5. ASSUME NEW r \in Runners, Begin(r) \/ LaunchStep(r) PROVE SpotInv' /\ Closes(aws')
  BY <1>0, <1>5, LaunchStepCloses, ClosesKeepsCold, WaitersStayClosed DEF SpotInv
<1>6. ASSUME ReaperStep PROVE SpotInv' /\ Closes(aws')
  <2>1. UNCHANGED <<at, hand, spotLeft>>
    BY <1>6 DEF ReaperStep, SweepLists, Judge, AsksGitHub, Reap, SweepsRequest, processVars,
       launchVars
  <2> QED
    BY <1>0, <1>1, <1>6, <2>1, ReaperStepCloses
<1>7. CASE Crash
  <2>1. Closes(aws')
    BY <1>0, <1>7, UnchangedCloses DEF Crash, awsVars
  <2>2. WaitersClosed'
    BY <1>7 DEF Crash, ProcessStarts, WaitersClosed
  <2> QED
    BY <2>1, <2>2, ClosesKeepsCold DEF SpotInv
<1>8. CASE \/ UNCHANGED allVars
           \/ \E r \in Runners : JobLost(r) /\ UNCHANGED processVars
           \/ \E n \in Sizes : SetTarget(n)
  BY <1>0, <1>1, <1>8, UnchangedCloses
     DEF allVars, awsVars, processVars, launchVars, JobLost, SetTarget
<1> QED
  BY <1>2, <1>3, <1>4, <1>5, <1>6, <1>7, <1>8 DEF Next

LEMMA InitSpots == Init => SpotInv
  BY DEF Init, SpotInv, ColdHasNoSpot, WaitersClosed, NoInstance, Alive

\* Whoever ends an instance, discard, trim, the waiter, an abort or the
\* reaper, its request was closed first: AWS launches no replacement.
THEOREM SpotsHold == Spec => NoReplacement
<1>1. ReaperTypeOK /\ OwnerInv /\ [Next]_allVars => OwnerInv'
  BY NextOwners
<1>2. ReaperTypeOK /\ OwnerInv /\ SpotInv /\ [Next]_allVars => SpotInv'
  BY NextSpots
<1>3. ReaperTypeOK /\ OwnerInv /\ SpotInv /\ [Next]_allVars
        => [ \A i \in Alive : aws'[i].st = "gone" /\ surprises' = surprises
                => ~aws'[i].openSpot ]_allVars
  BY NextSpots DEF Closes, Closing, Alive
<1> QED
  BY InitOwners, InitSpots, Ec2TypesHold, <1>1, <1>2, <1>3, PTL DEF Spec, NoReplacement

-----------------------------------------------------------------------------
(* Jobs.  Reap acts on the name of a listing that may be old; what it must  *)
(* know is that GitHub's word about a name is a word about the instance    *)
(* that carries it.                                                        *)

\* What the pool has, or a launch took from it and has not started.
Pool == ready \cup warming \cup {hand[r] : r \in Giving}

\* A guest runs on an instance that is up and carries its runner's name.
UpGuests ==
    \A i \in Instances : aws[i].guest # "none" => aws[i].st = "up" /\ aws[i].runner \in Runners

\* A job's runner is busy at GitHub, and has that one job.
JobBusy == \A i \in Instances : aws[i].guest = "job" => gh[aws[i].runner] = "busy"
OneJob ==
    \A i, j \in Instances :
        aws[i].guest = "job" /\ aws[j].guest = "job" /\ aws[i].runner = aws[j].runner => i = j

\* No guest runs on an instance of the pool, so none loses its name to a tag.
PoolClean == \A i \in Instances : i \in Pool \/ PoolOwned(i) => aws[i].guest = "none"

\* A config waits for a runner whose name the instance carries.
ConfigNamed ==
    \A i \in Instances :
        config[i] = "held" =>
            aws[i].st = "gone" \/ (~PoolOwned(i) /\ aws[i].runner \in Runners)

GuestInv == UpGuests /\ JobBusy /\ OneJob /\ PoolClean /\ ConfigNamed

\* GitHub is asked about runners, and one it deregistered stays so until the
\* verdict has been carried out.
AgreedGone ==
    \A v \in orphans : /\ v.do \in {"ask", "asking", "agreed"} => v.runner \in Runners
                       /\ v.do = "agreed" => gh[v.runner] = "none"

-----------------------------------------------------------------------------
(* Nearly every step leaves alone the instances that have a guest, or end  *)
(* it, and the names of those that wait for a config.                      *)

Quietly(b, i) ==
    /\ b[i].guest # "none" =>
          /\ b[i].guest = aws[i].guest /\ b[i].st = aws[i].st
          /\ b[i].runner = aws[i].runner /\ b[i].tag = aws[i].tag
    /\ config[i] = "held" =>
          \/ b[i].st = "gone"
          \/ aws[i].st # "gone" /\ b[i].tag = aws[i].tag /\ b[i].runner = aws[i].runner

Quiet(b) == \A i \in Instances : Quietly(b, i)

LEMMA TouchedQuiet ==
  ASSUME NEW i \in Instances, NEW b, Touches(aws, b, i), Quietly(b, i)
  PROVE  Quiet(b)
  BY DEF Quiet, Quietly, Touches

LEMMA UnchangedQuiet == Quiet(aws)
  BY DEF Quiet, Quietly

\* A tag: only what has no guest and waits for no config is tagged.
LEMMA TaggedQuiet ==
  ASSUME aws \in AwsType, NEW i \in Instances, NEW tag \in Tags, NEW r \in Runners \cup {NoRunner},
         aws[i].guest = "none", config[i] # "held"
  PROVE  Quiet(Tagged(aws, i, tag, r))
<1> DEFINE b == Tagged(aws, i, tag, r)
<1>1. Touches(aws, b, i)
  BY TaggedFacts
<1>2. b[i].guest = "none"
  BY DEF Tagged, AwsType, Instance
<1>3. Quietly(b, i)
  BY <1>2 DEF Quietly
<1> QED
  BY <1>1, <1>3, TouchedQuiet

LEMMA ReadyQuiet ==
  ASSUME aws \in AwsType, NEW ids \in SUBSET Instances,
         \A i \in ids : aws[i].guest = "none" /\ config[i] # "held"
  PROVE  Quiet(Ready(aws, ids))
<1>1. ASSUME NEW i \in Instances PROVE Quietly(Ready(aws, ids), i)
  <2>1. CASE i \in ids
    <3>1. aws[i].runner \in Runners \cup {NoRunner} /\ "ready" \in Tags
      BY DEF AwsType, Instance, Tags
    <3>2. Quiet(Tagged(aws, i, "ready", aws[i].runner))
      BY <2>1, <3>1, TaggedQuiet
    <3>3. Ready(aws, ids)[i] = Tagged(aws, i, "ready", aws[i].runner)[i]
      BY <2>1 DEF Ready
    <3> QED
      BY <3>2, <3>3 DEF Quiet, Quietly
  <2>2. CASE i \notin ids
    <3>1. Ready(aws, ids)[i] = aws[i]
      BY <2>2 DEF Ready
    <3> QED
      BY <3>1 DEF Quietly
  <2> QED
    BY <2>1, <2>2
<1> QED
  BY <1>1 DEF Quiet

LEMMA SpotClosedQuiet ==
  ASSUME aws \in AwsType, NEW i \in Instances
  PROVE  Quiet(SpotClosed(aws, i))
<1> DEFINE b == SpotClosed(aws, i)
<1>1. Touches(aws, b, i)
  BY SpotClosedFacts
<1>2. b[i].guest = aws[i].guest /\ b[i].st = aws[i].st /\ b[i].runner = aws[i].runner /\ b[i].tag = aws[i].tag
  BY DEF SpotClosed, AwsType, Instance
<1> QED
  BY <1>1, <1>2, TouchedQuiet DEF Quietly

\* An instance that ends has no guest left.
LEMMA EndedQuiet ==
  ASSUME NEW a \in AwsType, NEW i \in Instances, Touches(aws, a, i)
  PROVE  Quiet(Terminated(a, i))
<1> DEFINE b == Terminated(a, i)
<1>1. Touches(a, b, i) /\ b[i].st = "gone"
  BY TerminatedFacts
<1>2. b[i].guest = "none"
  BY DEF Terminated, NoInstance, AwsType
<1>3. Touches(aws, b, i)
  BY <1>1 DEF Touches
<1> QED
  BY <1>1, <1>2, <1>3, TouchedQuiet DEF Quietly

LEMMA DiscardQuiet ==
  ASSUME aws \in AwsType, NEW i \in Instances, NEW ok \in BOOLEAN, Discard(i, ok)
  PROVE  Quiet(aws')
<1>1. aws' \in {aws, SpotClosed(aws, i), Terminated(SpotClosed(aws, i), i)}
  BY DEF Discard
<1>2. SpotClosed(aws, i) \in AwsType /\ Touches(aws, SpotClosed(aws, i), i)
  BY SpotClosedFacts
<1> QED
  BY <1>1, <1>2, UnchangedQuiet, SpotClosedQuiet, EndedQuiet

LEMMA StartedQuiet ==
  ASSUME aws \in AwsType, UpGuests, NEW i \in Instances, aws[i].st = "stopped"
  PROVE  Quiet(Started(aws, i))
<1> DEFINE b == Started(aws, i)
<1>1. Touches(aws, b, i)
  BY StartedFacts
<1>2. b[i].guest = aws[i].guest /\ b[i].runner = aws[i].runner /\ b[i].tag = aws[i].tag
  BY DEF Started, AwsType, Instance
<1>3. aws[i].guest = "none"
  BY DEF UpGuests
<1> QED
  BY <1>1, <1>2, <1>3, TouchedQuiet DEF Quietly

\* A new instance has no guest; who waits for a config has an instance.
LEMMA NewQuiet ==
  ASSUME aws \in AwsType, OwnerInv, NEW i \in Instances, aws[i].st = "none" \/ i \notin Held,
         NEW b, Touches(aws, b, i), b[i].guest = "none"
  PROVE  Quiet(b)
<1>1. config[i] # "held"
  BY DEF OwnerInv, OneOwner, KnownExist
<1> QED
  BY <1>1, TouchedQuiet DEF Quietly

\* What such a step has to keep to besides.
\* The pool gains no instance with a guest; a config is registered for an
\* instance that carries its runner's name; GitHub does not forget a job.
Joining == \A i \in Pool' : i \in Pool \/ aws[i].guest = "none"
Configured ==
    \A i \in Instances :
        config'[i] = "held" => config[i] = "held" \/ (~PoolOwned(i)' /\ aws'[i].runner \in Runners)
JobsKnown ==
    \A i \in Instances :
        aws[i].guest = "job" /\ aws'[i].guest = "job" => gh'[aws[i].runner] = gh[aws[i].runner]

LEMMA QuietKeeps ==
  ASSUME Ec2TypeOK, GuestInv, Quiet(aws'), Joining, Configured, JobsKnown
  PROVE  GuestInv'
<1>1. \A i \in Instances :
         aws'[i].guest # "none" =>
           /\ aws'[i].guest = aws[i].guest /\ aws'[i].st = aws[i].st
           /\ aws'[i].runner = aws[i].runner /\ aws'[i].tag = aws[i].tag
  BY DEF Quiet, Quietly
<1>2. UpGuests'
  BY <1>1 DEF GuestInv, UpGuests
<1>3. JobBusy'
  BY <1>1 DEF GuestInv, JobBusy, JobsKnown
<1>4. OneJob'
  BY <1>1 DEF GuestInv, OneJob
<1>5. PoolClean'
  <2>1. ASSUME NEW i \in Instances, i \in Pool', aws'[i].guest # "none" PROVE FALSE
    <3>1. aws[i].guest # "none"
      BY <1>1, <2>1
    <3>2. i \in Pool
      BY <2>1, <3>1 DEF Joining
    <3> QED
      BY <3>1, <3>2 DEF GuestInv, PoolClean
  <2>2. ASSUME NEW i \in Instances, PoolOwned(i)', aws'[i].guest # "none" PROVE FALSE
    <3>1. aws[i].guest # "none" /\ PoolOwned(i)
      BY <1>1, <2>2 DEF PoolOwned
    <3> QED
      BY <3>1 DEF GuestInv, PoolClean
  <2> QED
    BY <2>1, <2>2 DEF PoolClean
<1>6. ConfigNamed'
  <2>1. ASSUME NEW i \in Instances, config'[i] = "held", config[i] = "held", aws'[i].st # "gone"
        PROVE  ~PoolOwned(i)' /\ aws'[i].runner \in Runners
    <3>1. aws[i].st # "gone" /\ aws'[i].tag = aws[i].tag /\ aws'[i].runner = aws[i].runner
      BY <2>1 DEF Quiet, Quietly
    <3>2. ~PoolOwned(i) /\ aws[i].runner \in Runners
      BY <2>1, <3>1 DEF GuestInv, ConfigNamed
    <3> QED
      BY <3>1, <3>2 DEF PoolOwned
  <2> QED
    BY <2>1 DEF ConfigNamed, Configured
<1> QED
  BY <1>2, <1>3, <1>4, <1>5, <1>6 DEF GuestInv

LEMMA AwsStepQuiet ==
  ASSUME aws \in AwsType, UpGuests, NEW i \in Instances, AwsStep(i), ~JobStarts(i)
  PROVE  Quiet(aws')
<1>1. aws[i] \in Instance
  BY DEF AwsType
<1>2. CASE Boots(i)
  <2>1. aws' = [aws EXCEPT ![i] = [@ EXCEPT !.st = "up"]] /\ aws[i].st = "starting"
    BY <1>2 DEF Boots
  <2>2. aws[i].guest = "none"
    BY <2>1 DEF UpGuests
  <2>3. /\ Touches(aws, aws', i) /\ aws'[i].guest = "none"
        /\ aws'[i].tag = aws[i].tag /\ aws'[i].runner = aws[i].runner
    BY <1>1, <2>1, <2>2 DEF AwsType, Touches, Instance
  <2> QED
    BY <2>1, <2>3, TouchedQuiet DEF Quietly
<1>3. CASE Ages(i)
  <2>1. aws' = [aws EXCEPT ![i] = [@ EXCEPT !.old = TRUE]]
    BY <1>3 DEF Ages
  <2>2. /\ Touches(aws, aws', i) /\ aws'[i].guest = aws[i].guest /\ aws'[i].st = aws[i].st
        /\ aws'[i].tag = aws[i].tag /\ aws'[i].runner = aws[i].runner
    BY <1>1, <2>1 DEF AwsType, Touches, Instance
  <2> QED
    BY <2>2, TouchedQuiet DEF Quietly
<1>4. CASE PowersOff(i) \/ JobEnds(i)
  <2>1. aws' = Off(i) /\ aws[i].st = "up"
    BY <1>4 DEF PowersOff, JobEnds, UpGuests
  <2>2. Touches(aws, aws', i) /\ aws'[i].tag = aws[i].tag
    BY <2>1, OffFacts
  <2>3. aws'[i].guest = "none" /\ aws'[i].runner = aws[i].runner
    BY <1>1, <2>1 DEF Off, AwsType, Instance
  <2> QED
    BY <2>1, <2>2, <2>3, TouchedQuiet DEF Quietly
<1>5. CASE SpotRestarts(i)
  BY <1>5, StartedQuiet DEF SpotRestarts
<1>6. CASE EndedFromOutside(i)
  <2>1. Touches(aws, aws, i)
    BY DEF Touches
  <2> QED
    BY <1>6, <2>1, EndedQuiet DEF EndedFromOutside
<1> QED
  BY <1>2, <1>3, <1>4, <1>5, <1>6 DEF AwsStep

\* What is in ready, in warming or in a claiming launch's hands waits for no config.
LEMMA PoolWaitsForNone ==
  ASSUME Ec2TypeOK, OwnerInv, NEW i \in Pool
  PROVE  i \in Instances /\ config[i] # "held"
<1>1. CASE i \in ready \cup warming
  BY <1>1 DEF OwnerInv, OneOwner, Ec2TypeOK
<1>2. ASSUME NEW r \in Giving, i = hand[r] PROVE i \in Instances /\ config[i] # "held"
  BY <1>2 DEF OwnerInv, NoConfigYet, Giving, Ec2TypeOK, Holding
<1> QED
  BY <1>1, <1>2 DEF Pool

LEMMA PoolStepQuiet ==
  ASSUME Ec2TypeOK, OwnerInv, GuestInv, PoolStep \/ TrimStep \/ \E n \in Sizes : SetTarget(n)
  PROVE  Quiet(aws') /\ Joining
<1> USE DEF poolRest, launchVars, awsVars
<1>0. /\ aws \in AwsType /\ UpGuests /\ PoolClean
      /\ UNCHANGED <<at, hand>>
  BY DEF Ec2TypeOK, AwsType, GuestInv, PoolStep, TrimStep, Discover, Undescribed, CheckLists,
     CheckSkipped,
     Check, Checked, Refresh, RefreshDone, FillRuns, Trim, TrimDone, SetTarget
<1>1. ASSUME \A i \in ready' \cup warming' : i \in ready \cup warming \/ aws[i].guest = "none"
      PROVE  Joining
  BY <1>0, <1>1 DEF Joining, Pool, Giving
<1>2. ASSUME NEW i \in Pool PROVE i \in Instances /\ aws[i].guest = "none" /\ config[i] # "held"
  BY <1>0, <1>2, PoolWaitsForNone DEF PoolClean
<1>3. CASE Discover
  <2>1. PICK ids \in SUBSET PoolTagged : aws' = Ready(aws, ids)
    BY <1>3 DEF Discover
  <2>2. ready' \subseteq PoolTagged /\ warming' \subseteq PoolTagged
    BY <1>3 DEF Discover
  <2>3. ASSUME NEW i \in PoolTagged PROVE i \in Instances /\ aws[i].guest = "none" /\ config[i] # "held"
    <3>1. i \in Instances /\ PoolOwned(i) /\ aws[i].st # "gone"
      BY DEF PoolTagged, Alive, PoolOwned
    <3> QED
      BY <1>0, <3>1 DEF PoolClean, GuestInv, ConfigNamed
  <2>4. Quiet(aws')
    BY <1>0, <2>1, <2>3, ReadyQuiet
  <2> QED
    BY <1>1, <2>2, <2>3, <2>4
<1>4. ASSUME NEW i \in Instances, Check(i) PROVE Quiet(aws') /\ Joining
  <2>1. /\ aws' \in {aws, SpotClosed(aws, i)} \/ (i \in ready /\ aws' = Tagged(aws, i, "warming", NoRunner))
        /\ ready' \cup warming' \subseteq ready \cup warming
    BY <1>4 DEF Check
  <2>2. i \in ready => aws[i].guest = "none" /\ config[i] # "held"
    BY <1>2 DEF Pool
  <2>3. Quiet(aws')
    BY <1>0, <2>1, <2>2, UnchangedQuiet, SpotClosedQuiet, TaggedQuiet DEF Tags
  <2> QED
    BY <1>1, <2>1, <2>3
<1>5. ASSUME NEW i \in Instances, Refresh(i) PROVE Quiet(aws') /\ Joining
  <2>1. /\ aws' \in {aws, Ready(aws, {i})} \/ \E ok \in BOOLEAN : Discard(i, ok)
        /\ ready' \cup warming' \subseteq ready \cup warming /\ i \in warming
    BY <1>5 DEF Refresh, MarkReady
  <2>2. aws[i].guest = "none" /\ config[i] # "held"
    BY <1>2, <2>1 DEF Pool
  <2>3. Quiet(Ready(aws, {i}))
    BY <1>0, <2>2, ReadyQuiet
  <2> QED
    BY <1>0, <1>1, <2>1, <2>3, UnchangedQuiet, DiscardQuiet
<1>6. ASSUME NEW i \in Instances, FillRuns(i) PROVE Quiet(aws') /\ Joining
  <2>1. /\ aws' \in {aws, [aws EXCEPT ![i] = PoolInstance]} /\ aws[i].st = "none"
        /\ ready' \cup warming' \subseteq ready \cup warming \cup {i}
    BY <1>6 DEF FillRuns
  <2>2. aws[i].guest = "none"
    BY <1>0, <2>1 DEF UpGuests
  <2> DEFINE b == [aws EXCEPT ![i] = PoolInstance]
  <2>3. Touches(aws, b, i) /\ b[i].guest = "none"
    BY <1>0 DEF AwsType, Touches, PoolInstance, NoInstance
  <2>4. Quiet(b)
    BY <1>0, <2>1, <2>3, NewQuiet
  <2> QED
    BY <1>1, <2>1, <2>2, <2>4, UnchangedQuiet
<1>7. ASSUME NEW i \in Instances, Trim(i) PROVE Quiet(aws') /\ Joining
  BY <1>0, <1>1, <1>7, DiscardQuiet DEF Trim
<1>8. ASSUME UNCHANGED <<aws, ready, warming>> PROVE Quiet(aws') /\ Joining
  BY <1>1, <1>8, UnchangedQuiet
<1> QED
  BY <1>3, <1>4, <1>5, <1>6, <1>7, <1>8
     DEF PoolStep, TrimStep, Undescribed, CheckLists, CheckSkipped, RefreshDone, TrimDone, SetTarget

\* A launch moves instances within the pool's, or out of it.
LEMMA LaunchJoining ==
  ASSUME Ec2TypeOK, NEW r \in Runners, ready' \cup warming' \subseteq Pool,
         \A q \in Runners \ {r} : at'[q] = at[q] /\ hand'[q] = hand[q],
         at'[r] \in Claiming => hand'[r] \in Pool
  PROVE  Pool' \subseteq Pool /\ Joining
<1>1. ASSUME NEW q \in Runners, at'[q] \in Claiming PROVE hand'[q] \in Pool
  BY <1>1 DEF Pool, Giving
<1> QED
  BY <1>1 DEF Joining, Pool, Giving

LEMMA LaunchStepJoins ==
  ASSUME Ec2TypeOK, NEW r \in Runners, Begin(r) \/ LaunchStep(r)
  PROVE  Pool' \subseteq Pool /\ Joining
<1> USE DEF poolVars, waiters
<1>1. /\ ready \cup warming \subseteq Pool
      /\ at[r] \in Claiming => hand[r] \in Pool
      /\ at \in [Runners -> LaunchPlaces] /\ hand \in [Runners -> Instances \cup {NoInst}]
  BY DEF Pool, Giving, Ec2TypeOK
<1>2. CASE Claim(r)
  BY <1>1, <1>2, LaunchJoining DEF Claim, Goes
<1>3. CASE \/ Rewarm(r) \/ ClaimDiscards(r) \/ Requeue(r) \/ RequeueTagged(r)
           \/ RegisterRefused(r) \/ Unstarted(r)
  <2>1. /\ ready' \cup warming' \subseteq Pool /\ at'[r] \notin Claiming
        /\ \A q \in Runners \ {r} : at'[q] = at[q] /\ hand'[q] = hand[q]
    BY <1>1, <1>3 DEF Rewarm, ClaimDiscards, Requeue, RequeueTagged, Unstarted,
       RegisterRefused, LetsGo, Ends, Goes, Claiming
  <2> QED
    BY <2>1, LaunchJoining
<1>4. CASE Prepare(r)
  <2>1. PICK place : Goes(r, place)
    BY <1>4 DEF Prepare
  <2> QED
    BY <1>1, <1>4, <2>1, LaunchJoining DEF Prepare, Goes, Claiming
<1>5. CASE Begin(r) \/ ClaimEmpty(r) \/ StartInstances(r) \/ CancelSpot(r)
  <2>1. PICK place : Goes(r, place) /\ place \notin Claiming
    BY <1>5 DEF Begin, ClaimEmpty, StartInstances, CancelSpot, Claiming
  <2>2. UNCHANGED <<ready, warming, hand>>
    BY <1>5 DEF Begin, ClaimEmpty, StartInstances, CancelSpot
  <2> QED
    BY <1>1, <2>1, <2>2, LaunchJoining DEF Goes
<1>6. CASE ClaimCancelled(r) \/ ColdRefused(r) \/ WaitEnds(r)
  BY <1>1, <1>6, LaunchJoining DEF ClaimCancelled, ColdRefused, WaitEnds, Ends, Goes, Claiming
<1>7. CASE WaitTerminates(r) \/ WaitSeesRunning(r)
  BY <1>1, <1>7, LaunchJoining DEF WaitTerminates, WaitSeesRunning
<1>8. CASE Cold(r)
  <2>1. \/ \E j \in Instances : hand' = [hand EXCEPT ![r] = j] /\ Goes(r, "wait")
        \/ Ends(r)
    BY <1>8, ColdFacts
  <2>2. UNCHANGED <<ready, warming>>
    BY <1>8, ColdFacts
  <2> QED
    BY <1>1, <2>1, <2>2, LaunchJoining DEF Ends, Goes, Claiming
<1> QED
  BY <1>2, <1>3, <1>4, <1>5, <1>6, <1>7, <1>8 DEF LaunchStep

\* What a cold launch makes is named for its runner, and only that waits for a config.
LEMMA ColdQuiet ==
  ASSUME Ec2TypeOK, OwnerInv, NEW r \in Runners, Cold(r)
  PROVE  Quiet(aws') /\ Configured
<1>0. aws \in AwsType
  BY DEF Ec2TypeOK, AwsType
<1>1. PICK j \in Instances :
         LET launched == [aws EXCEPT ![j] = ColdInstance(r)]
         IN  /\ aws[j].st = "none"
             /\ \/ aws' = launched /\ config' = [config EXCEPT ![j] = "held"]
                \/ /\ aws' \in {aws, launched, Terminated(launched, j)}
                   /\ config' = config \/ Ends(r)
  BY DEF Cold
<1> DEFINE launched == [aws EXCEPT ![j] = ColdInstance(r)]
<1>2. /\ launched \in AwsType /\ Touches(aws, launched, j) /\ launched[j].guest = "none"
      /\ launched[j].tag = "none" /\ launched[j].runner = r
  BY <1>0, RecordTypes DEF AwsType, Touches, ColdInstance, NoInstance
<1>3. Quiet(launched)
  BY <1>0, <1>1, <1>2, NewQuiet
<1>4. Quiet(Terminated(launched, j))
  BY <1>2, EndedQuiet
<1>5. Quiet(aws')
  BY <1>1, <1>3, <1>4, UnchangedQuiet
<1>6. Configured
  <2>1. CASE aws' = launched /\ config' = [config EXCEPT ![j] = "held"]
    BY <1>2, <2>1 DEF Configured, PoolOwned, Ec2TypeOK
  <2>2. CASE config' = config \/ Ends(r)
    BY <2>2 DEF Configured, Ends, Ec2TypeOK
  <2> QED
    BY <1>1, <2>1, <2>2
<1> QED
  BY <1>5, <1>6

LEMMA PrepareQuiet ==
  ASSUME Ec2TypeOK, OwnerInv, GuestInv, NEW r \in Runners, Prepare(r)
  PROVE  Quiet(aws') /\ Configured
<1> DEFINE i == hand[r]
           claimed == Tagged(aws, i, "claimed", r)
<1>1. aws \in AwsType /\ i \in Pool
  BY DEF Ec2TypeOK, AwsType, Prepare, Pool, Giving, Claiming
<1>2. i \in Instances /\ config[i] # "held" /\ aws[i].guest = "none"
  BY <1>1, PoolWaitsForNone DEF GuestInv, PoolClean
<1>3. Quiet(claimed)
  BY <1>1, <1>2, TaggedQuiet DEF Tags
<1>4. \/ UNCHANGED config
      \/ aws[i].st = "stopped" /\ aws' = claimed /\ config' = [config EXCEPT ![i] = "held"]
  BY DEF Prepare
<1>5. aws[i].st = "stopped" => claimed[i].tag = "claimed" /\ claimed[i].runner = r
  BY <1>1, <1>2 DEF Tagged, AwsType, Instance
<1>6. Configured
  BY <1>4, <1>5 DEF Configured, PoolOwned, Ec2TypeOK
<1>7. aws' \in {aws, claimed}
  BY DEF Prepare
<1> QED
  BY <1>3, <1>6, <1>7, UnchangedQuiet

LEMMA LaunchStepQuiet ==
  ASSUME Ec2TypeOK, OwnerInv, GuestInv, NEW r \in Runners, Begin(r) \/ LaunchStep(r)
  PROVE  Quiet(aws') /\ Configured /\ JobsKnown
<1> USE DEF poolVars, waiters, awsVars
<1> DEFINE i == hand[r]
<1>0. /\ aws \in AwsType /\ UpGuests
      /\ at[r] \in Holding => i \in Instances
  BY DEF Ec2TypeOK, AwsType, GuestInv
<1>1. CASE Begin(r)
  <2>1. \A j \in Instances : aws[j].guest = "job" => aws[j].runner # r
    BY <1>0, <1>1 DEF Begin, UpGuests, Alive
  <2>2. JobsKnown
    BY <1>1, <2>1 DEF Begin, JobsKnown, Ec2TypeOK
  <2> QED
    BY <1>1, <2>2, UnchangedQuiet DEF Begin, Configured
<1>2. ASSUME LaunchStep(r) PROVE JobsKnown
  <2>1. UNCHANGED gh
    BY <1>2 DEF LaunchStep, Claim, ClaimEmpty, ClaimCancelled, Prepare, Rewarm, ClaimDiscards,
       Requeue, RequeueTagged, StartInstances, Unstarted, RegisterRefused, CancelSpot, Cold,
       ColdRefused,
       WaitTerminates, WaitSeesRunning, WaitEnds
  <2> QED
    BY <2>1 DEF JobsKnown
<1>3. CASE Cold(r) \/ Prepare(r)
  BY <1>2, <1>3, ColdQuiet, PrepareQuiet DEF LaunchStep
<1>4. ASSUME LaunchStep(r), ~Cold(r), ~Prepare(r) PROVE Configured
  <2>1. \/ UNCHANGED config
        \/ Ends(r)
        \/ config' = [config EXCEPT ![i] = "none"]
    BY <1>4 DEF LaunchStep, Claim, ClaimEmpty, ClaimCancelled, Rewarm, ClaimDiscards,
       Requeue, RequeueTagged, StartInstances, Unstarted, RegisterRefused, CancelSpot, ColdRefused,
       WaitTerminates, WaitSeesRunning, WaitEnds
  <2> QED
    BY <2>1 DEF Configured, Ends, Ec2TypeOK
<1>5. ASSUME \/ Claim(r) \/ ClaimEmpty(r) \/ ClaimCancelled(r) \/ Requeue(r)
             \/ ColdRefused(r) \/ WaitSeesRunning(r) \/ WaitEnds(r)
      PROVE  Quiet(aws')
  <2>1. UNCHANGED aws
    BY <1>5 DEF Claim, ClaimEmpty, ClaimCancelled, Requeue, ColdRefused, WaitSeesRunning, WaitEnds
  <2> QED
    BY <2>1, UnchangedQuiet
<1>6. ASSUME Rewarm(r) \/ RequeueTagged(r) PROVE Quiet(aws')
  <2>1. i \in Pool
    BY <1>6 DEF Rewarm, RequeueTagged, Pool, Giving, Claiming
  <2>2. i \in Instances /\ config[i] # "held" /\ aws[i].guest = "none"
    BY <2>1, PoolWaitsForNone DEF GuestInv, PoolClean
  <2>3. PICK tag \in Tags : aws' \in {aws, Tagged(aws, i, tag, NoRunner)}
    BY <1>6 DEF Rewarm, RequeueTagged, Tags
  <2> QED
    BY <1>0, <2>2, <2>3, UnchangedQuiet, TaggedQuiet
<1>7. ASSUME ClaimDiscards(r) \/ RegisterRefused(r) \/ Unstarted(r) PROVE Quiet(aws')
  <2>1. i \in Instances
    BY <1>0, <1>7 DEF ClaimDiscards, Unstarted, RegisterRefused, Holding, Claiming
  <2> QED
    BY <1>0, <1>7, <2>1, DiscardQuiet DEF ClaimDiscards, Unstarted, RegisterRefused
<1>8. ASSUME StartInstances(r) PROVE Quiet(aws')
  <2>1. i \in Instances
    BY <1>0, <1>8 DEF StartInstances, Holding
  <2>2. aws' = aws \/ (aws[i].st = "stopped" /\ aws' = Started(aws, i))
    <3> DEFINE started == IF aws[i].st = "stopped" /\ Startable(i) THEN Started(aws, i) ELSE aws
    <3>1. aws' \in {aws, started}
      BY <1>8 DEF StartInstances
    <3> QED
      BY <3>1
  <2> QED
    BY <1>0, <2>1, <2>2, UnchangedQuiet, StartedQuiet
<1>9. ASSUME CancelSpot(r) \/ WaitTerminates(r) PROVE Quiet(aws')
  <2>1. i \in Instances
    BY <1>0, <1>9 DEF CancelSpot, WaitTerminates, Holding
  <2> DEFINE closed == SpotClosed(aws, i)
  <2>2. closed \in AwsType /\ Touches(aws, closed, i) /\ Touches(aws, aws, i)
    BY <1>0, <2>1, SpotClosedFacts DEF Touches
  <2>3. aws' \in {aws, closed, Terminated(aws, i), Terminated(closed, i)}
    BY <1>9 DEF CancelSpot, WaitTerminates, Terminate
  <2> QED
    BY <1>0, <2>1, <2>2, <2>3, UnchangedQuiet, SpotClosedQuiet, EndedQuiet
<1> QED
  BY <1>1, <1>2, <1>3, <1>4, <1>5, <1>6, <1>7, <1>8, <1>9 DEF LaunchStep

\* The reaper: it ends instances and closes requests, and is told "gone" only
\* of runners that have no job.
LEMMA ReaperStepQuiet ==
  ASSUME ReaperTypeOK, GuestInv, AgreedGone, ReaperStep
  PROVE  Quiet(aws') /\ JobsKnown /\ AgreedGone' /\ UNCHANGED processVars
<1> USE DEF awsVars
<1>0. /\ aws \in AwsType /\ gh \in [Runners -> {"none", "idle", "busy"}]
      /\ UpGuests /\ JobBusy /\ UNCHANGED processVars
  BY DEF ReaperTypeOK, Ec2TypeOK, AwsType, GuestInv, ReaperStep, SweepLists, Judge, AsksGitHub,
     Reap,
     SweepsRequest
<1>1. ASSUME UNCHANGED gh PROVE JobsKnown
  BY <1>1 DEF JobsKnown
<1>2. CASE SweepLists
  <2>1. ASSUME NEW v \in JudgedOrphans
        PROVE  v.do \in {"ask", "reap"} /\ (v.do = "ask" => v.runner \in Runners)
    <3>1. PICK i \in Instances : v = Judged(i) /\ (aws[i].st = "up" => aws[i].runner # NoRunner)
      BY DEF JudgedOrphans, Alive
    <3>2. aws[i].runner \in Runners \cup {NoRunner}
      BY <1>0 DEF AwsType, Instance
    <3> QED
      BY <3>1, <3>2 DEF Judged
  <2>2. AgreedGone'
    BY <1>2, <2>1 DEF SweepLists, AgreedGone
  <2> QED
    BY <1>0, <1>1, <1>2, <2>2, UnchangedQuiet DEF SweepLists
<1>3. ASSUME NEW v \in orphans, Judge(v) PROVE Quiet(aws') /\ JobsKnown /\ AgreedGone'
  <2>1. v \in Verdict
    BY DEF ReaperTypeOK
  <2>2. orphans' \subseteq (orphans \ {v}) \cup {[v EXCEPT !.do = IF v.do = "ask" THEN "asking" ELSE "reaping"]}
    BY <1>3 DEF Judge
  <2>3. UNCHANGED <<aws, gh>>
    BY <1>3 DEF Judge
  <2>4. LET w == [v EXCEPT !.do = IF v.do = "ask" THEN "asking" ELSE "reaping"]
        IN  w.runner = v.runner /\ w.do \in {"asking", "reaping"} /\ (w.do = "asking" => v.do = "ask")
    BY <2>1 DEF Verdict
  <2>5. AgreedGone'
    BY <2>2, <2>3, <2>4 DEF AgreedGone
  <2> QED
    BY <1>1, <2>3, <2>5, UnchangedQuiet
<1>4. ASSUME NEW v \in orphans, AsksGitHub(v) PROVE Quiet(aws') /\ JobsKnown /\ AgreedGone'
  <2>1. v \in Verdict /\ v.do = "asking" /\ v.runner \in Runners /\ UNCHANGED aws
    BY <1>4 DEF ReaperTypeOK, AsksGitHub, AgreedGone
  <2>2. /\ gh' = gh \/ (gh[v.runner] # "busy" /\ gh' = [gh EXCEPT ![v.runner] = "none"])
        /\ \/ orphans' = orphans \ {v}
           \/ /\ orphans' = (orphans \ {v}) \cup {[v EXCEPT !.do = "agreed"]}
              /\ gh' = [gh EXCEPT ![v.runner] = "none"]
    BY <1>4 DEF AsksGitHub
  <2>3. JobsKnown
    BY <1>0, <2>1, <2>2 DEF JobsKnown, JobBusy, UpGuests
  <2>4. [v EXCEPT !.do = "agreed"].runner = v.runner
    BY <2>1 DEF Verdict
  <2>5. \A w \in orphans : w.do = "agreed" => gh'[w.runner] = "none"
    BY <1>0, <2>1, <2>2 DEF AgreedGone
  <2>6. AgreedGone'
    <3>1. CASE orphans' = orphans \ {v}
      BY <2>5, <3>1 DEF AgreedGone
    <3>2. CASE orphans' = (orphans \ {v}) \cup {[v EXCEPT !.do = "agreed"]}
               /\ gh' = [gh EXCEPT ![v.runner] = "none"]
      <4> DEFINE w == [v EXCEPT !.do = "agreed"]
      <4>1. w.runner \in Runners /\ gh'[w.runner] = "none"
        BY <1>0, <2>1, <2>4, <3>2
      <4> HIDE DEF w
      <4> QED
        BY <2>5, <3>2, <4>1 DEF AgreedGone, w
    <3> QED
      BY <2>2, <3>1, <3>2
  <2> QED
    BY <2>1, <2>3, <2>6, UnchangedQuiet
<1>5. ASSUME NEW v \in orphans, Reap(v) PROVE Quiet(aws') /\ JobsKnown /\ AgreedGone'
  <2>1. Quiet(aws')
    BY <1>0, <1>5, DiscardQuiet DEF Reap, ReaperTypeOK, Verdict
  <2>2. AgreedGone'
    BY <1>5 DEF Reap, AgreedGone
  <2> QED
    BY <1>1, <1>5, <2>1, <2>2 DEF Reap
<1>6. ASSUME NEW i \in Instances, SweepsRequest(i) PROVE Quiet(aws') /\ JobsKnown /\ AgreedGone'
  <2>1. aws' \in {aws, SpotClosed(aws, i)} /\ UNCHANGED <<gh, orphans>>
    BY <1>6 DEF SweepsRequest
  <2>2. AgreedGone'
    BY <2>1 DEF AgreedGone
  <2> QED
    BY <1>0, <1>1, <2>1, <2>2, UnchangedQuiet, SpotClosedQuiet
<1> QED
  BY <1>0, <1>2, <1>3, <1>4, <1>5, <1>6 DEF ReaperStep

\* The two steps that are not quiet: a guest fetches its config, a job starts.
LEMMA FetchGuests ==
  ASSUME Ec2TypeOK, OwnerInv, GuestInv, NEW i \in Instances, Fetch(i)
  PROVE  GuestInv'
<1>0. aws \in AwsType /\ aws[i] \in Instance
  BY DEF Ec2TypeOK, AwsType
<1>1. /\ aws[i].st = "up" /\ aws[i].guest = "none" /\ config[i] = "held"
      /\ aws' = [aws EXCEPT ![i] = [@ EXCEPT !.guest = "runner"]]
      /\ config' = [config EXCEPT ![i] = "served"]
      /\ UNCHANGED <<gh, ready, warming, at, hand>>
  BY DEF Fetch, poolVars
<1>2. ~PoolOwned(i) /\ aws[i].runner \in Runners
  BY <1>1 DEF GuestInv, ConfigNamed
<1>3. i \notin Pool
  BY <1>1, PoolWaitsForNone
<1>4. /\ \A j \in Instances \ {i} : aws'[j] = aws[j]
      /\ aws'[i].guest = "runner" /\ aws'[i].st = "up"
      /\ aws'[i].runner = aws[i].runner /\ aws'[i].tag = aws[i].tag
  BY <1>0, <1>1 DEF AwsType, Instance
<1>5. UpGuests' /\ JobBusy' /\ OneJob'
  BY <1>1, <1>2, <1>4 DEF GuestInv, UpGuests, JobBusy, OneJob
<1>6. Pool' = Pool /\ \A j \in Instances : PoolOwned(j)' <=> PoolOwned(j)
  BY <1>1, <1>4 DEF Pool, Giving, PoolOwned
<1>7. PoolClean'
  BY <1>2, <1>3, <1>4, <1>6 DEF GuestInv, PoolClean
<1>8. ConfigNamed'
  BY <1>1, <1>4, <1>6 DEF GuestInv, ConfigNamed, Ec2TypeOK
<1> QED
  BY <1>5, <1>7, <1>8 DEF GuestInv

LEMMA JobStartsGuests ==
  ASSUME Ec2TypeOK, GuestInv, NEW i \in Instances, JobStarts(i), UNCHANGED processVars
  PROVE  GuestInv'
<1>0. /\ aws \in AwsType /\ aws[i] \in Instance /\ gh \in [Runners -> {"none", "idle", "busy"}]
      /\ UNCHANGED <<config, ready, warming, at, hand>>
  BY DEF Ec2TypeOK, AwsType, processVars, poolVars, launchVars
<1>1. /\ aws[i].st = "up" /\ aws[i].guest = "runner" /\ gh[aws[i].runner] = "idle"
      /\ aws' = [aws EXCEPT ![i] = [@ EXCEPT !.guest = "job"]]
      /\ gh' = [gh EXCEPT ![aws[i].runner] = "busy"]
  BY DEF JobStarts
<1>2. aws[i].runner \in Runners
  BY <1>1 DEF GuestInv, UpGuests
<1>4. /\ \A j \in Instances \ {i} : aws'[j] = aws[j]
      /\ aws'[i].guest = "job" /\ aws'[i].st = "up"
      /\ aws'[i].runner = aws[i].runner /\ aws'[i].tag = aws[i].tag
  BY <1>0, <1>1 DEF AwsType, Instance
<1>5. \A j \in Instances : aws[j].guest = "job" => aws[j].runner # aws[i].runner
  BY <1>1 DEF GuestInv, JobBusy
<1>6. UpGuests' /\ JobBusy'
  BY <1>0, <1>1, <1>2, <1>4 DEF GuestInv, UpGuests, JobBusy
<1>7. OneJob'
  BY <1>4, <1>5 DEF GuestInv, OneJob
<1>8. Pool' = Pool /\ \A j \in Instances : PoolOwned(j)' <=> PoolOwned(j)
  BY <1>0, <1>4 DEF Pool, Giving, PoolOwned
<1>9. PoolClean'
  BY <1>1, <1>4, <1>8 DEF GuestInv, PoolClean
<1>10. ConfigNamed'
  BY <1>0, <1>1, <1>4, <1>8 DEF GuestInv, ConfigNamed
<1> QED
  BY <1>6, <1>7, <1>9, <1>10 DEF GuestInv

LEMMA NextGuests ==
  ASSUME ReaperTypeOK, OwnerInv, GuestInv, AgreedGone, [Next]_allVars
  PROVE  GuestInv'
<1>0. /\ Ec2TypeOK /\ aws \in AwsType /\ gh \in [Runners -> {"none", "idle", "busy"}]
      /\ UpGuests /\ OneJob
  BY DEF ReaperTypeOK, Ec2TypeOK, AwsType, GuestInv
<1>1. ASSUME UNCHANGED processVars PROVE Joining /\ Configured
  BY <1>1 DEF Joining, Configured, Pool, Giving, processVars, poolVars, launchVars
<1>2. ASSUME UNCHANGED gh PROVE JobsKnown
  BY <1>2 DEF JobsKnown
<1>3. ASSUME NEW i \in Instances, AwsStep(i), ~JobStarts(i), UNCHANGED processVars PROVE GuestInv'
  <2>1. Quiet(aws')
    BY <1>0, <1>3, AwsStepQuiet
  <2>2. CASE JobEnds(i)
    <3>1. aws'[i].guest = "none"
      BY <1>0, <2>2 DEF JobEnds, Off, AwsType, Instance
    <3>2. \A j \in Instances : aws[j].guest = "job" /\ aws'[j].guest = "job" => aws[j].runner # aws[i].runner
      BY <1>0, <2>2, <3>1 DEF OneJob, JobEnds
    <3>3. JobsKnown
      BY <1>0, <2>2, <3>2 DEF JobEnds, JobsKnown
    <3> QED
      BY <1>0, <1>1, <1>3, <2>1, <3>3, QuietKeeps
  <2>3. CASE ~JobEnds(i)
    <3>1. UNCHANGED gh
      BY <1>3, <2>3 DEF AwsStep, Boots, PowersOff, Ages, SpotRestarts, EndedFromOutside
    <3> QED
      BY <1>0, <1>1, <1>2, <1>3, <2>1, <3>1, QuietKeeps
  <2> QED
    BY <2>2, <2>3
<1>4. ASSUME NEW i \in Instances, Purged(i) PROVE GuestInv'
  <2>1. /\ Touches(aws, aws', i) /\ aws'[i].guest = "none" /\ i \notin Held
        /\ UNCHANGED <<gh, processVars>>
    BY <1>0, <1>4 DEF Purged, AwsType, Touches, NoInstance
  <2>2. Quiet(aws')
    BY <1>0, <2>1, NewQuiet
  <2> QED
    BY <1>0, <1>1, <1>2, <2>1, <2>2, QuietKeeps
<1>5. ASSUME NEW i \in Instances, Expires(i) PROVE GuestInv'
  <2>1. /\ UNCHANGED <<aws, gh, ready, warming, at, hand>>
        /\ \A j \in Instances : config'[j] = "held" => config[j] = "held"
    BY <1>0, <1>5 DEF Expires, awsVars, poolVars, Ec2TypeOK
  <2>2. Joining /\ Configured
    BY <2>1 DEF Joining, Configured, Pool, Giving
  <2> QED
    BY <1>0, <1>2, <2>1, <2>2, UnchangedQuiet, QuietKeeps
<1>6. ASSUME PoolStep \/ TrimStep \/ \E n \in Sizes : SetTarget(n) PROVE GuestInv'
  <2>1. UNCHANGED <<gh, config>>
    BY <1>6 DEF PoolStep, TrimStep, Discover, Undescribed, CheckLists, CheckSkipped, Check, Checked,
       Refresh, RefreshDone, FillRuns, Trim, TrimDone, SetTarget, poolRest, launchVars, awsVars
  <2>2. Configured
    BY <2>1 DEF Configured
  <2> QED
    BY <1>0, <1>2, <1>6, <2>1, <2>2, PoolStepQuiet, QuietKeeps
<1>7. ASSUME NEW r \in Runners, Begin(r) \/ LaunchStep(r) PROVE GuestInv'
  BY <1>0, <1>7, LaunchStepQuiet, LaunchStepJoins, QuietKeeps
<1>8. ASSUME NEW r \in Runners, JobLost(r), UNCHANGED processVars PROVE GuestInv'
  <2>1. JobsKnown /\ UNCHANGED aws
    BY <1>0, <1>8 DEF JobLost, JobsKnown
  <2> QED
    BY <1>0, <1>1, <1>8, <2>1, UnchangedQuiet, QuietKeeps
<1>9. CASE ReaperStep
  BY <1>0, <1>1, <1>9, ReaperStepQuiet, QuietKeeps
<1>10. CASE Crash
  <2>1. UNCHANGED <<aws, gh>> /\ Joining /\ Configured
    BY <1>10 DEF Crash, ProcessStarts, awsVars, Joining, Configured, Pool, Giving, Claiming
  <2> QED
    BY <1>0, <1>2, <2>1, UnchangedQuiet, QuietKeeps
<1>11. CASE UNCHANGED allVars
  BY <1>0, <1>1, <1>2, <1>11, UnchangedQuiet, QuietKeeps DEF allVars, awsVars
<1> QED
  BY <1>0, <1>3, <1>4, <1>5, <1>6, <1>7, <1>8, <1>9, <1>10, <1>11, FetchGuests,
     JobStartsGuests DEF Next

LEMMA NextAgreed ==
  ASSUME ReaperTypeOK, GuestInv, AgreedGone, [Next]_allVars
  PROVE  AgreedGone'
<1>0. Ec2TypeOK /\ gh \in [Runners -> {"none", "idle", "busy"}] /\ UpGuests
  BY DEF ReaperTypeOK, Ec2TypeOK, GuestInv
<1>1. ASSUME UNCHANGED orphans,
             \A v \in orphans : v.do = "agreed" /\ gh[v.runner] = "none" => gh'[v.runner] = "none"
      PROVE  AgreedGone'
  BY <1>1 DEF AgreedGone
<1>2. ASSUME NEW i \in Instances, AwsStep(i), UNCHANGED orphans PROVE AgreedGone'
  <2>1. CASE JobStarts(i) \/ JobEnds(i)
    <3>1. aws[i].runner \in Runners
      BY <1>0, <2>1 DEF JobStarts, JobEnds, UpGuests
    <3>2. \A r \in Runners : gh[r] = "none" => gh'[r] = "none"
      BY <1>0, <2>1, <3>1 DEF JobStarts, JobEnds
    <3> QED
      BY <1>1, <1>2, <3>2 DEF AgreedGone
  <2>2. CASE ~(JobStarts(i) \/ JobEnds(i))
    BY <1>1, <1>2, <2>2 DEF AwsStep, Boots, PowersOff, Ages, SpotRestarts, EndedFromOutside
  <2> QED
    BY <2>1, <2>2
<1>3. ASSUME NEW r \in Runners, Begin(r), \A v \in orphans : v.runner # r, UNCHANGED orphans
      PROVE  AgreedGone'
  <2>1. \A v \in orphans : v.do = "agreed" => gh'[v.runner] = gh[v.runner]
    BY <1>0, <1>3 DEF Begin, AgreedGone
  <2> QED
    BY <1>1, <1>3, <2>1
<1>4. ASSUME NEW r \in Runners, JobLost(r), UNCHANGED orphans PROVE AgreedGone'
  <2>1. \A s \in Runners : gh[s] = "none" => gh'[s] = "none"
    BY <1>0, <1>4 DEF JobLost
  <2> QED
    BY <1>1, <1>4, <2>1 DEF AgreedGone
<1>5. ASSUME NEW r \in Runners, LaunchStep(r) PROVE UNCHANGED gh
  BY <1>5 DEF LaunchStep, Claim, ClaimEmpty, ClaimCancelled, Prepare, Rewarm, ClaimDiscards,
     Requeue, RequeueTagged, StartInstances, Unstarted, RegisterRefused, CancelSpot, Cold,
     ColdRefused,
     WaitTerminates, WaitSeesRunning, WaitEnds, awsVars
<1>6. ASSUME PoolStep \/ TrimStep \/ \E n \in Sizes : SetTarget(n) PROVE UNCHANGED gh
  BY <1>6 DEF PoolStep, TrimStep, Discover, Undescribed, CheckLists, CheckSkipped, Check, Checked,
     Refresh, RefreshDone, FillRuns, Trim, TrimDone, SetTarget, poolRest, awsVars
<1>7. CASE UNCHANGED <<orphans, gh>>
  BY <1>1, <1>7
<1>8. CASE Crash
  BY <1>8 DEF Crash, ProcessStarts, AgreedGone
<1>9. CASE ReaperStep
  BY <1>9, ReaperStepQuiet
<1>10. ASSUME NEW i \in Instances, Fetch(i) \/ Expires(i) \/ Purged(i) PROVE UNCHANGED gh
  BY <1>10 DEF Fetch, Expires, Purged, awsVars
<1> QED
  BY <1>2, <1>3, <1>4, <1>5, <1>6, <1>7, <1>8, <1>9, <1>10 DEF Next, Purged, reaperVars, allVars,
     awsVars

LEMMA InitGuests == Init => GuestInv /\ AgreedGone
<1> SUFFICES ASSUME Init PROVE GuestInv /\ AgreedGone
  OBVIOUS
<1>1. \A i \in Instances : aws[i].guest = "none" /\ config[i] = "none"
  BY DEF Init, NoInstance
<1> QED
  BY <1>1 DEF Init, GuestInv, UpGuests, JobBusy, OneJob, PoolClean, ConfigNamed, AgreedGone

\* An orphan that still carries the name GitHub agreed to deregister has no job
\* when the reaper ends it.
THEOREM JobsSpared == Spec => OrphanJobsSpared
<1>1. ReaperTypeOK /\ OwnerInv /\ [Next]_allVars => OwnerInv'
  BY NextOwners
<1>2. ReaperTypeOK /\ OwnerInv /\ GuestInv /\ AgreedGone /\ [Next]_allVars => GuestInv' /\ AgreedGone'
  BY NextGuests, NextAgreed
<1>3. ASSUME ReaperTypeOK, GuestInv, AgreedGone,
             NEW v \in orphans, Reap(v), v.do = "agreed", aws[v.id].runner = v.runner
      PROVE  aws[v.id].guest # "job"
  <2>1. v.id \in Instances
    BY <1>3 DEF ReaperTypeOK, Verdict
  <2> QED
    BY <1>3, <2>1 DEF GuestInv, JobBusy, AgreedGone
<1>4. ReaperTypeOK /\ GuestInv /\ AgreedGone
        => [ \A v \in orphans :
               Reap(v) /\ v.do = "agreed" /\ aws[v.id].runner = v.runner
                 => aws[v.id].guest # "job" ]_allVars
  BY <1>3
<1> QED
  BY <1>1, <1>2, <1>4, InitOwners, InitGuests, Ec2TypesHold, PTL DEF Spec, OrphanJobsSpared

-----------------------------------------------------------------------------
(* One job per instance.                                                   *)

\* What may become the pool's: what already is, or a new one.
Unspent(i) == i \in Pool \/ PoolOwned(i) \/ aws[i].st = "none"

\* An account that tags only such instances for the pool, and neither renames nor
\* forgets any other.
TagsUnspent(b) ==
    \A i \in Instances :
        \/ Unspent(i)
        \/ /\ b[i].tag \notin {"ready", "warming"} /\ b[i].st # "none"
           /\ b[i].st = "gone" \/ (aws[i].st # "gone" /\ b[i].runner = aws[i].runner)
TakesUnspent == \A i \in Instances : i \in Pool' => Unspent(i)

LEMMA UsedIs == \A i \in Instances : Used(i) <=> ~Unspent(i)
  BY DEF Used, Unspent, Pool, Giving

\* A used instance stays so, under its name, until it is gone.
StaysUsed(i) ==
    /\ Used(i)'
    /\ aws'[i].st = "gone" \/ (aws[i].st # "gone" /\ aws'[i].runner = aws[i].runner)

LEMMA UsedStays ==
  ASSUME TagsUnspent(aws'), TakesUnspent, NEW i \in Instances, Used(i)
  PROVE  StaysUsed(i)
<1>1. ~Unspent(i)
  BY UsedIs
<1>2. ~PoolOwned(i)' /\ i \notin Pool'
  BY <1>1 DEF TagsUnspent, TakesUnspent, PoolOwned
<1>3. /\ aws'[i].st # "none"
      /\ aws'[i].st = "gone" \/ (aws[i].st # "gone" /\ aws'[i].runner = aws[i].runner)
  BY <1>1 DEF TagsUnspent
<1> QED
  BY <1>2, <1>3 DEF Used, StaysUsed, Pool, Giving

LEMMA TouchedTags ==
  ASSUME NEW i \in Instances, NEW b, Touches(aws, b, i),
         \/ Unspent(i)
         \/ /\ b[i].tag \in {aws[i].tag, "none"} /\ b[i].st \in States \ {"none"}
            /\ b[i].st = "gone" \/ (aws[i].st # "gone" /\ b[i].runner = aws[i].runner)
         \/ b[i].tag = aws[i].tag /\ b[i].st = aws[i].st /\ b[i].runner = aws[i].runner
  PROVE  TagsUnspent(b)
  BY DEF TagsUnspent, Touches, Unspent, PoolOwned

LEMMA SameTags ==
  ASSUME NEW b, \A i \in Instances : /\ b[i].tag = aws[i].tag /\ b[i].runner = aws[i].runner
                                     /\ b[i].st = aws[i].st
  PROVE  TagsUnspent(b)
  BY DEF TagsUnspent, Unspent, PoolOwned

LEMMA ReadyTags ==
  ASSUME aws \in AwsType, NEW ids \in SUBSET Instances, \A i \in ids : Unspent(i)
  PROVE  TagsUnspent(Ready(aws, ids))
<1>1. \A i \in Instances \ ids : Ready(aws, ids)[i] = aws[i]
  BY ReadyFacts
<1> QED
  BY <1>1 DEF TagsUnspent, Unspent, PoolOwned

LEMMA TaggedTags ==
  ASSUME aws \in AwsType, NEW i \in Instances, NEW tag \in Tags, NEW r \in Runners \cup {NoRunner},
         Unspent(i)
  PROVE  TagsUnspent(Tagged(aws, i, tag, r))
<1>1. Touches(aws, Tagged(aws, i, tag, r), i)
  BY TaggedFacts
<1> QED
  BY <1>1, TouchedTags

LEMMA ClosedTags ==
  ASSUME aws \in AwsType, NEW i \in Instances
  PROVE  TagsUnspent(SpotClosed(aws, i))
<1>1. /\ Touches(aws, SpotClosed(aws, i), i)
      /\ SpotClosed(aws, i)[i].tag = aws[i].tag /\ SpotClosed(aws, i)[i].runner = aws[i].runner
      /\ SpotClosed(aws, i)[i].st = aws[i].st
  BY SpotClosedFacts
<1> QED
  BY <1>1, TouchedTags

LEMMA EndedTags ==
  ASSUME NEW a \in AwsType, NEW i \in Instances, Touches(aws, a, i)
  PROVE  TagsUnspent(Terminated(a, i))
<1>1. /\ Touches(a, Terminated(a, i), i)
      /\ Terminated(a, i)[i].tag = "none" /\ Terminated(a, i)[i].st = "gone"
  BY TerminatedFacts
<1>2. Touches(aws, Terminated(a, i), i)
  BY <1>1 DEF Touches
<1> QED
  BY <1>1, <1>2, TouchedTags DEF States

LEMMA DiscardTags ==
  ASSUME aws \in AwsType, NEW i \in Instances, NEW ok \in BOOLEAN, Discard(i, ok)
  PROVE  TagsUnspent(aws')
<1>1. aws' \in {aws, SpotClosed(aws, i), Terminated(SpotClosed(aws, i), i)}
  BY DEF Discard
<1>2. SpotClosed(aws, i) \in AwsType /\ Touches(aws, SpotClosed(aws, i), i)
  BY SpotClosedFacts
<1> QED
  BY <1>1, <1>2, SameTags, ClosedTags, EndedTags

LEMMA AwsStepTags ==
  ASSUME aws \in AwsType, UpGuests, NEW i \in Instances, AwsStep(i)
  PROVE  TagsUnspent(aws')
<1>1. CASE Boots(i) \/ Ages(i) \/ JobStarts(i)
  <2>1. aws[i] \in Instance
    BY DEF AwsType
  <2>2. /\ Touches(aws, aws', i) /\ aws'[i].tag = aws[i].tag /\ aws'[i].runner = aws[i].runner
        /\ (aws'[i].st = aws[i].st \/ (aws[i].st # "gone" /\ aws'[i].st = "up"))
    <3>1. CASE Boots(i)
      BY <2>1, <3>1 DEF Boots, AwsType, Touches, Instance
    <3>2. CASE Ages(i)
      BY <2>1, <3>2 DEF Ages, AwsType, Touches, Instance
    <3>3. CASE JobStarts(i)
      BY <2>1, <3>3 DEF JobStarts, AwsType, Touches, Instance
    <3> QED
      BY <1>1, <3>1, <3>2, <3>3
  <2> QED
    BY <2>2, TouchedTags DEF States
<1>2. CASE PowersOff(i) \/ JobEnds(i)
  <2>1. aws' = Off(i) /\ aws[i].st = "up"
    BY <1>2 DEF PowersOff, JobEnds, UpGuests
  <2>2. /\ Touches(aws, Off(i), i) /\ Off(i)[i].tag = aws[i].tag /\ Off(i)[i].runner = aws[i].runner
        /\ Off(i)[i].st \in {"gone", "stopped"}
    BY OffFacts
  <2> QED
    BY <2>1, <2>2, TouchedTags DEF States
<1>3. CASE SpotRestarts(i)
  <2>1. aws' = Started(aws, i) /\ aws[i].st = "stopped"
    BY <1>3 DEF SpotRestarts
  <2>2. /\ Touches(aws, Started(aws, i), i) /\ Started(aws, i)[i].tag = aws[i].tag
        /\ Started(aws, i)[i].runner = aws[i].runner /\ Started(aws, i)[i].st = "starting"
    BY StartedFacts
  <2> QED
    BY <2>1, <2>2, TouchedTags DEF States
<1>4. CASE EndedFromOutside(i)
  BY <1>4, EndedTags DEF EndedFromOutside, Touches
<1> QED
  BY <1>1, <1>2, <1>3, <1>4 DEF AwsStep

LEMMA PoolStepTags ==
  ASSUME Ec2TypeOK, PoolStep \/ TrimStep \/ \E n \in Sizes : SetTarget(n)
  PROVE  TagsUnspent(aws') /\ TakesUnspent
<1> USE DEF poolRest, launchVars, awsVars
<1>0. /\ aws \in AwsType
      /\ UNCHANGED <<at, hand>>
  BY DEF Ec2TypeOK, AwsType, PoolStep, TrimStep, Discover, Undescribed, CheckLists, CheckSkipped,
     Check, Checked, Refresh, RefreshDone, FillRuns, Trim, TrimDone, SetTarget
<1>1. ASSUME \A i \in Instances : i \in ready' \cup warming' => Unspent(i)
      PROVE  TakesUnspent
  BY <1>0, <1>1 DEF TakesUnspent, Unspent, Pool, Giving
<1>2. \A i \in ready \cup warming : Unspent(i)
  BY DEF Unspent, Pool
<1>3. CASE Discover
  <2>1. PICK ids \in SUBSET PoolTagged : aws' = Ready(aws, ids)
    BY <1>3 DEF Discover
  <2>2. ready' \subseteq PoolTagged /\ warming' \subseteq PoolTagged
    BY <1>3 DEF Discover
  <2>3. \A i \in PoolTagged : i \in Instances /\ Unspent(i)
    BY DEF PoolTagged, Alive, Unspent, PoolOwned
  <2>4. TagsUnspent(aws')
    BY <1>0, <2>1, <2>3, ReadyTags
  <2> QED
    BY <1>1, <2>2, <2>3, <2>4
<1>4. ASSUME NEW i \in Instances, Check(i) PROVE TagsUnspent(aws') /\ TakesUnspent
  <2>1. /\ aws' \in {aws, SpotClosed(aws, i)} \/ (i \in ready /\ aws' = Tagged(aws, i, "warming", NoRunner))
        /\ ready' \cup warming' \subseteq ready \cup warming
    BY <1>4 DEF Check
  <2>2. TagsUnspent(aws')
    BY <1>0, <1>2, <2>1, SameTags, ClosedTags, TaggedTags DEF Tags
  <2> QED
    BY <1>1, <1>2, <2>1, <2>2
<1>5. ASSUME NEW i \in Instances, Refresh(i) PROVE TagsUnspent(aws') /\ TakesUnspent
  <2>1. /\ aws' \in {aws, Ready(aws, {i})} \/ \E ok \in BOOLEAN : Discard(i, ok)
        /\ ready' \cup warming' \subseteq ready \cup warming /\ i \in warming
    BY <1>5 DEF Refresh, MarkReady
  <2>2. TagsUnspent(Ready(aws, {i}))
    BY <1>0, <1>2, <2>1, ReadyTags
  <2>3. TagsUnspent(aws')
    BY <1>0, <2>1, <2>2, SameTags, DiscardTags
  <2> QED
    BY <1>1, <1>2, <2>1, <2>3
<1>6. ASSUME NEW i \in Instances, FillRuns(i) PROVE TagsUnspent(aws') /\ TakesUnspent
  <2>1. /\ aws' \in {aws, [aws EXCEPT ![i] = PoolInstance]} /\ Unspent(i)
        /\ ready' \cup warming' \subseteq ready \cup warming \cup {i}
    BY <1>6 DEF FillRuns, Unspent
  <2>2. Touches(aws, [aws EXCEPT ![i] = PoolInstance], i)
    BY <1>0 DEF AwsType, Touches
  <2>3. TagsUnspent(aws')
    BY <2>1, <2>2, SameTags, TouchedTags
  <2> QED
    BY <1>1, <1>2, <2>1, <2>3
<1>7. ASSUME NEW i \in Instances, Trim(i) PROVE TagsUnspent(aws') /\ TakesUnspent
  <2>1. TagsUnspent(aws')
    BY <1>0, <1>7, DiscardTags DEF Trim
  <2>2. ready' \cup warming' \subseteq ready \cup warming
    BY <1>7 DEF Trim
  <2> QED
    BY <1>1, <1>2, <2>1, <2>2
<1>8. ASSUME UNCHANGED <<aws, ready, warming>> PROVE TagsUnspent(aws') /\ TakesUnspent
  BY <1>1, <1>2, <1>8, SameTags
<1> QED
  BY <1>3, <1>4, <1>5, <1>6, <1>7, <1>8
     DEF PoolStep, TrimStep, Undescribed, CheckLists, CheckSkipped, RefreshDone, TrimDone, SetTarget

LEMMA LaunchStepTags ==
  ASSUME Ec2TypeOK, NEW r \in Runners, Begin(r) \/ LaunchStep(r)
  PROVE  TagsUnspent(aws')
<1> USE DEF awsVars
<1> DEFINE i == hand[r]
<1>0. aws \in AwsType /\ (at[r] \in Holding => i \in Instances)
  BY DEF Ec2TypeOK, AwsType
<1>1. CASE \/ Begin(r) \/ Claim(r) \/ ClaimEmpty(r) \/ ClaimCancelled(r) \/ Requeue(r)
           \/ ColdRefused(r) \/ WaitSeesRunning(r) \/ WaitEnds(r)
  <2>1. UNCHANGED aws
    BY <1>1 DEF Begin, Claim, ClaimEmpty, ClaimCancelled, Requeue, ColdRefused, WaitSeesRunning,
       WaitEnds
  <2> QED
    BY <2>1, SameTags
<1>2. CASE Prepare(r)
  <2>1. i \in Instances /\ Unspent(i) /\ aws' \in {aws, Tagged(aws, i, "claimed", r)}
    BY <1>0, <1>2 DEF Prepare, Holding, Claiming, Unspent, Pool, Giving
  <2> QED
    BY <1>0, <2>1, SameTags, TaggedTags DEF Tags
<1>3. CASE Rewarm(r) \/ RequeueTagged(r)
  <2>1. i \in Instances /\ Unspent(i)
    BY <1>0, <1>3 DEF Rewarm, RequeueTagged, Holding, Claiming, Unspent, Pool, Giving
  <2>2. PICK tag \in Tags : aws' \in {aws, Tagged(aws, i, tag, NoRunner)}
    BY <1>3 DEF Rewarm, RequeueTagged, Tags
  <2> QED
    BY <1>0, <2>1, <2>2, SameTags, TaggedTags
<1>4. CASE ClaimDiscards(r) \/ RegisterRefused(r) \/ Unstarted(r)
  <2>1. i \in Instances
    BY <1>0, <1>4 DEF ClaimDiscards, Unstarted, RegisterRefused, Holding, Claiming
  <2> QED
    BY <1>0, <1>4, <2>1, DiscardTags DEF ClaimDiscards, Unstarted, RegisterRefused
<1>5. CASE StartInstances(r)
  <2>1. i \in Instances
    BY <1>0, <1>5 DEF StartInstances, Holding
  <2>2. aws' = aws \/ (aws' = Started(aws, i) /\ aws[i].st = "stopped")
    <3> DEFINE started == IF aws[i].st = "stopped" /\ Startable(i) THEN Started(aws, i) ELSE aws
    <3>1. aws' \in {aws, started}
      BY <1>5 DEF StartInstances
    <3> QED
      BY <3>1
  <2>3. /\ Touches(aws, Started(aws, i), i) /\ Started(aws, i)[i].tag = aws[i].tag
        /\ Started(aws, i)[i].runner = aws[i].runner /\ Started(aws, i)[i].st = "starting"
    BY <1>0, <2>1, StartedFacts
  <2>4. aws[i].st = "stopped" => TagsUnspent(Started(aws, i))
    BY <2>1, <2>3, TouchedTags DEF States
  <2> QED
    BY <2>2, <2>4, SameTags
<1>6. CASE CancelSpot(r) \/ WaitTerminates(r)
  <2>1. i \in Instances
    BY <1>0, <1>6 DEF CancelSpot, WaitTerminates, Holding
  <2> DEFINE closed == SpotClosed(aws, i)
  <2>2. closed \in AwsType /\ Touches(aws, closed, i) /\ Touches(aws, aws, i)
    BY <1>0, <2>1, SpotClosedFacts DEF Touches
  <2>3. aws' \in {aws, closed, Terminated(aws, i), Terminated(closed, i)}
    BY <1>6 DEF CancelSpot, WaitTerminates, Terminate
  <2> QED
    BY <1>0, <2>1, <2>2, <2>3, SameTags, ClosedTags, EndedTags
<1>7. CASE Cold(r)
  <2>1. PICK j \in Instances : Touches(aws, aws', j) /\ aws[j].st = "none"
    BY <1>7, ColdFacts
  <2> QED
    BY <2>1, TouchedTags DEF Unspent
<1> QED
  BY <1>1, <1>2, <1>3, <1>4, <1>5, <1>6, <1>7 DEF LaunchStep

LEMMA NextUsed ==
  ASSUME ReaperTypeOK, UpGuests, [Next]_allVars, NEW i \in Instances, Used(i)
  PROVE  StaysUsed(i) \/ Purged(i)
<1> USE DEF awsVars
<1>0. Ec2TypeOK /\ aws \in AwsType
  BY DEF ReaperTypeOK, Ec2TypeOK, AwsType
<1>1. ASSUME UNCHANGED <<ready, warming, at, hand>> PROVE TakesUnspent
  BY <1>1 DEF TakesUnspent, Unspent, Pool, Giving
<1>2. ASSUME UNCHANGED processVars, TagsUnspent(aws') PROVE StaysUsed(i)
  BY <1>1, <1>2, UsedStays DEF processVars, poolVars, launchVars
<1>3. ASSUME NEW j \in Instances, AwsStep(j), UNCHANGED processVars PROVE StaysUsed(i)
  BY <1>0, <1>2, <1>3, AwsStepTags
<1>4. ASSUME NEW j \in Instances, Fetch(j) \/ Expires(j) PROVE StaysUsed(i)
  <2>1. \A k \in Instances : /\ aws'[k].tag = aws[k].tag /\ aws'[k].runner = aws[k].runner
                            /\ aws'[k].st = aws[k].st
    BY <1>0, <1>4 DEF Fetch, Expires, AwsType, Instance
  <2>2. UNCHANGED <<ready, warming, at, hand>>
    BY <1>4 DEF Fetch, Expires, poolVars
  <2> QED
    BY <1>1, <2>1, <2>2, SameTags, UsedStays
<1>5. ASSUME NEW j \in Instances \ {i}, Purged(j) PROVE StaysUsed(i)
  <2>1. aws'[i] = aws[i] /\ UNCHANGED processVars
    BY <1>0, <1>5 DEF Purged, AwsType
  <2> QED
    BY <2>1 DEF StaysUsed, Used, PoolOwned, processVars, poolVars, launchVars
<1>6. CASE PoolStep \/ TrimStep \/ \E n \in Sizes : SetTarget(n)
  BY <1>0, <1>6, PoolStepTags, UsedStays
<1>7. ASSUME NEW r \in Runners, Begin(r) \/ LaunchStep(r) PROVE StaysUsed(i)
  <2>1. TakesUnspent
    BY <1>0, <1>7, LaunchStepJoins DEF TakesUnspent, Unspent
  <2> QED
    BY <1>0, <1>7, <2>1, LaunchStepTags, UsedStays
<1>8. CASE ReaperStep
  <2>1. UNCHANGED processVars
    BY <1>8 DEF ReaperStep, SweepLists, Judge, AsksGitHub, Reap, SweepsRequest
  <2>2. CASE UNCHANGED aws
    BY <1>2, <2>1, <2>2, SameTags
  <2>3. ASSUME NEW v \in orphans, Reap(v) PROVE TagsUnspent(aws')
    BY <1>0, <2>3, DiscardTags DEF Reap, ReaperTypeOK, Verdict
  <2>4. ASSUME NEW j \in Instances, SweepsRequest(j) PROVE TagsUnspent(aws')
    <3>1. aws' \in {aws, SpotClosed(aws, j)}
      BY <2>4 DEF SweepsRequest
    <3> QED
      BY <1>0, <3>1, SameTags, ClosedTags
  <2> QED
    BY <1>2, <1>8, <2>1, <2>2, <2>3, <2>4 DEF ReaperStep, SweepLists, Judge, AsksGitHub
<1>9. CASE Crash
  <2>1. UNCHANGED aws /\ TakesUnspent
    BY <1>9 DEF Crash, ProcessStarts, TakesUnspent, Pool, Giving, Claiming
  <2> QED
    BY <2>1, SameTags, UsedStays
<1>10. CASE UNCHANGED <<aws, processVars>>
  BY <1>2, <1>10, SameTags
<1> QED
  BY <1>3, <1>4, <1>5, <1>6, <1>7, <1>8, <1>9, <1>10 DEF Next, allVars, JobLost

\* An instance that has had a guest never gets another launch, and never comes
\* back to the pool, through crashes, lost answers and stale listings.
THEOREM OneShotHolds == Spec => OneShot
<1>1. ReaperTypeOK /\ OwnerInv /\ [Next]_allVars => OwnerInv'
  BY NextOwners
<1>2. ReaperTypeOK /\ OwnerInv /\ GuestInv /\ AgreedGone /\ [Next]_allVars => GuestInv' /\ AgreedGone'
  BY NextGuests, NextAgreed
<1>3. GuestInv => \A i \in Instances : aws[i].guest # "none" => Used(i)
  <2>1. ASSUME GuestInv, NEW i \in Instances, aws[i].guest # "none" PROVE Used(i)
    <3>1. aws[i].st = "up" /\ i \notin Pool /\ ~PoolOwned(i)
      BY <2>1 DEF GuestInv, UpGuests, PoolClean
    <3> QED
      BY <3>1, UsedIs DEF Unspent
  <2> QED
    BY <2>1
<1>4. ReaperTypeOK /\ GuestInv /\ [Next]_allVars
        => [\A i \in Instances : Used(i) => Used(i)' \/ aws'[i].st = "none"]_allVars
  <2>1. ASSUME ReaperTypeOK, NEW i \in Instances, Purged(i) PROVE aws'[i].st = "none"
    BY <2>1 DEF ReaperTypeOK, Ec2TypeOK, Purged, NoInstance
  <2> QED
    BY <2>1, NextUsed DEF StaysUsed, GuestInv
<1> QED
  BY <1>1, <1>2, <1>3, <1>4, InitOwners, InitGuests, Ec2TypesHold, PTL DEF Spec, OneShot

-----------------------------------------------------------------------------
(* A running orphan.  While no spot request has restarted an instance and  *)
(* none was ended from outside, an instance of the pool that is not tagged *)
(* as such does not run, so what the reaper lists as running is used.      *)

\* Ready, or claimed and to be given back as likely as to be started.
Lent == ready \cup {hand[r] : r \in Giving}

CalmAt(i) ==
    /\ i \in Lent => aws[i].st \in {"stopped", "gone"}
    /\ i \in warming => PoolOwned(i) \/ aws[i].st = "gone"
    /\ PoolOwned(i) => aws[i].st # "starting"
    /\ \A r \in Runners : hand[r] = i =>
          /\ at[r] = "rewarm" => aws[i].st = "gone"
          /\ at[r] = "start" => ~PoolOwned(i)

\* checkReady finds no instance up either.
Calm == (\A i \in Instances : CalmAt(i)) /\ \A p \in listed : p[2] # "up"

LEMMA CalmFrame ==
  ASSUME NEW i \in Instances, CalmAt(i), aws'[i] = aws[i],
         i \in Lent' => i \in Lent, i \in warming' => i \in warming,
         \A r \in Runners : hand'[r] = i /\ at'[r] \in {"rewarm", "start"}
                              => hand[r] = i /\ at'[r] = at[r]
  PROVE  CalmAt(i)'
  BY DEF CalmAt, PoolOwned

\* The lists and the launches as they were, or less of them.
Fewer ==
    /\ Lent' \subseteq Lent /\ warming' \subseteq warming /\ listed' \subseteq listed
    /\ \A r \in Runners : at'[r] \in {"rewarm", "start"} => hand'[r] = hand[r] /\ at'[r] = at[r]

LEMMA SameIsFewer ==
  ASSUME UNCHANGED <<ready, warming, listed, at, hand>>
  PROVE  Fewer
  BY DEF Fewer, Lent, Giving

\* A step that settles the one instance it touches.
Settles(i) ==
    \/ aws'[i].st = "gone" /\ aws'[i].tag \in {aws[i].tag, "none"}
    \/ /\ aws'[i].tag = aws[i].tag /\ aws[i].st # "gone"
       /\ \/ aws'[i].st \in {aws[i].st, "stopped"}
          \/ aws[i].st = "starting" /\ aws'[i].st = "up"
    \/ aws'[i].st = "none" /\ aws'[i].tag = "none" /\ i \notin ready \cup warming \cup Held

LEMMA SettledCalm ==
  ASSUME Ec2TypeOK, Calm, Fewer, NEW i \in Instances, Touches(aws, aws', i), Settles(i)
  PROVE  Calm'
<1>1. ASSUME NEW j \in Instances \ {i} PROVE CalmAt(j)'
  BY <1>1, CalmFrame DEF Calm, Fewer, Touches
<1>2. CalmAt(i)'
  <2>1. CalmAt(i) /\ (i \in Lent' => i \in Lent) /\ (i \in warming' => i \in warming)
    BY DEF Calm, Fewer
  <2>2. \A r \in Runners : hand'[r] = i /\ at'[r] \in {"rewarm", "start"}
                             => hand[r] = i /\ at'[r] = at[r]
    BY DEF Fewer
  <2>3. i \in Lent => i \in ready \cup Held
    BY PoolAssumption DEF Lent, Held, Giving
  <2>4. \A r \in Runners : hand[r] = i => i \in Held
    BY PoolAssumption DEF Held
  <2>5. CASE aws'[i].st = "gone" /\ aws'[i].tag \in {aws[i].tag, "none"}
    BY <2>1, <2>2, <2>5 DEF CalmAt, PoolOwned
  <2>6. CASE /\ aws'[i].tag = aws[i].tag /\ aws[i].st # "gone"
             /\ \/ aws'[i].st \in {aws[i].st, "stopped"}
                \/ aws[i].st = "starting" /\ aws'[i].st = "up"
    BY <2>1, <2>2, <2>6 DEF CalmAt, PoolOwned
  <2>7. CASE aws'[i].st = "none" /\ aws'[i].tag = "none" /\ i \notin ready \cup warming \cup Held
    BY <2>1, <2>2, <2>3, <2>4, <2>7 DEF CalmAt, PoolOwned
  <2> QED
    BY <2>5, <2>6, <2>7 DEF Settles
<1>3. \A p \in listed' : p[2] # "up"
  BY DEF Calm, Fewer
<1> QED
  BY <1>1, <1>2, <1>3 DEF Calm

LEMMA SameCalm ==
  ASSUME Calm, Fewer, UNCHANGED aws
  PROVE  Calm'
<1>1. ASSUME NEW j \in Instances PROVE CalmAt(j)'
  BY <1>1, CalmFrame DEF Calm, Fewer
<1> QED
  BY <1>1 DEF Calm, Fewer

LEMMA DiscardCalm ==
  ASSUME Ec2TypeOK, Calm, Fewer, NEW i \in Instances, NEW ok \in BOOLEAN, Discard(i, ok)
  PROVE  Calm'
<1>1. aws \in AwsType
  BY DEF Ec2TypeOK, AwsType
<1> DEFINE closed == SpotClosed(aws, i)
<1>2. /\ closed \in AwsType /\ Touches(aws, closed, i)
      /\ closed[i].st = aws[i].st /\ closed[i].tag = aws[i].tag
  BY <1>1, SpotClosedFacts
<1>3. Touches(closed, Terminated(closed, i), i) /\ Terminated(closed, i)[i].st = "gone"
      /\ Terminated(closed, i)[i].tag = "none"
  BY <1>2, TerminatedFacts
<1>4. aws' \in {aws, closed, Terminated(closed, i)}
  BY DEF Discard
<1>5. Touches(aws, aws', i)
  BY <1>2, <1>3, <1>4 DEF Touches
<1>6. \/ aws'[i].st = "gone" /\ aws'[i].tag = "none"
      \/ aws'[i].st = aws[i].st /\ aws'[i].tag = aws[i].tag
  BY <1>2, <1>3, <1>4
<1>7. Settles(i)
  BY <1>6 DEF Settles
<1> QED
  BY <1>5, <1>7, SettledCalm

LEMMA ClosedCalm ==
  ASSUME Ec2TypeOK, Calm, Fewer, NEW i \in Instances, aws' \in {aws, SpotClosed(aws, i)}
  PROVE  Calm'
<1>1. aws \in AwsType
  BY DEF Ec2TypeOK, AwsType
<1>2. /\ Touches(aws, SpotClosed(aws, i), i)
      /\ SpotClosed(aws, i)[i].st = aws[i].st /\ SpotClosed(aws, i)[i].tag = aws[i].tag
  BY <1>1, SpotClosedFacts
<1>3. Touches(aws, aws', i) /\ aws'[i].st = aws[i].st /\ aws'[i].tag = aws[i].tag
  BY <1>2 DEF Touches
<1>4. Settles(i)
  BY <1>3 DEF Settles
<1> QED
  BY <1>3, <1>4, SettledCalm

\* A step that does something of its own to one instance.
LEMMA ExceptCalm ==
  ASSUME Calm, NEW i \in Instances, Touches(aws, aws', i), CalmAt(i)',
         Lent' \subseteq Lent \cup {i}, warming' \subseteq warming \cup {i}, listed' \subseteq listed,
         \A r \in Runners : hand'[r] # i /\ at'[r] \in {"rewarm", "start"}
                              => hand'[r] = hand[r] /\ at'[r] = at[r]
  PROVE  Calm'
<1>1. ASSUME NEW j \in Instances \ {i} PROVE CalmAt(j)'
  BY <1>1, CalmFrame DEF Calm, Touches
<1> QED
  BY <1>1 DEF Calm

LEMMA AwsStepCalm ==
  ASSUME Ec2TypeOK, UpGuests, Calm, NEW i \in Instances, AwsStep(i),
         UNCHANGED <<processVars, surprises>>
  PROVE  Calm'
<1>0. aws \in AwsType /\ aws[i] \in Instance /\ surprises \in Nat
  BY AwsAssumption DEF Ec2TypeOK, AwsType
<1>1. Fewer
  BY SameIsFewer DEF processVars, poolVars, launchVars
<1>2. ~SpotRestarts(i) /\ ~EndedFromOutside(i)
  BY <1>0 DEF SpotRestarts, EndedFromOutside
<1>3. CASE Boots(i)
  <2>1. Touches(aws, aws', i) /\ aws'[i].tag = aws[i].tag /\ aws'[i].st = "up"
    BY <1>0, <1>3 DEF Boots, AwsType, Touches, Instance
  <2>2. Settles(i)
    BY <1>3, <2>1 DEF Boots, Settles
  <2> QED
    BY <1>1, <2>1, <2>2, SettledCalm
<1>4. CASE Ages(i) \/ JobStarts(i)
  <2>1. Touches(aws, aws', i) /\ aws'[i].tag = aws[i].tag /\ aws'[i].st = aws[i].st
    <3>1. CASE Ages(i)
      BY <1>0, <3>1 DEF Ages, AwsType, Touches, Instance
    <3>2. CASE JobStarts(i)
      BY <1>0, <3>2 DEF JobStarts, AwsType, Touches, Instance
    <3> QED
      BY <1>4, <3>1, <3>2
  <2>2. Settles(i)
    BY <2>1 DEF Settles
  <2> QED
    BY <1>1, <2>1, <2>2, SettledCalm
<1>5. CASE PowersOff(i) \/ JobEnds(i)
  <2>1. aws' = Off(i) /\ aws[i].st = "up"
    BY <1>5 DEF PowersOff, JobEnds, UpGuests
  <2>2. Touches(aws, Off(i), i) /\ Off(i)[i].tag = aws[i].tag /\ Off(i)[i].st \in {"gone", "stopped"}
    BY <1>0, OffFacts
  <2>3. Settles(i)
    BY <2>1, <2>2 DEF Settles
  <2> QED
    BY <1>1, <2>1, <2>2, <2>3, SettledCalm
<1> QED
  BY <1>2, <1>3, <1>4, <1>5 DEF AwsStep

\* After a start the pool takes in what its tags name, of which none starts.
LEMMA DiscoverCalm ==
  ASSUME Ec2TypeOK, OwnerInv, Calm, Discover
  PROVE  Calm'
<1>1. aws \in AwsType /\ UNCHANGED <<at, hand, listed>>
  BY DEF Ec2TypeOK, AwsType, Discover, poolRest, launchVars
<1>2. PICK ids \in SUBSET PoolTagged : aws' = Ready(aws, ids)
  BY DEF Discover
<1>3. ids \subseteq Instances /\ \A i \in ids : PoolOwned(i)
  BY DEF PoolTagged, Alive, PoolOwned
<1>4. \A i \in Instances : aws'[i].st = aws[i].st /\ (PoolOwned(i)' <=> PoolOwned(i))
  BY <1>1, <1>2, <1>3, ReadyFacts DEF PoolOwned
<1>5. \A r \in Runners : at[r] \notin Claiming /\ at[r] \notin {"rewarm", "start"}
  BY DEF Discover, OwnerInv, ColdYet, Ec2TypeOK, Holding, Claiming
<1>6. \A i \in ready' : PoolOwned(i) /\ aws[i].st \in {"stopped", "starting"}
  BY DEF Discover, PoolTagged, Shown, PoolOwned
<1>7. \A i \in warming' : PoolOwned(i)
  BY DEF Discover, PoolTagged, PoolOwned
<1>8. ASSUME NEW i \in Instances PROVE CalmAt(i)'
  <2>1. Lent' = ready'
    BY <1>1, <1>5 DEF Lent, Giving
  <2>2. CalmAt(i)
    BY DEF Calm
  <2> QED
    BY <1>1, <1>4, <1>5, <1>6, <1>7, <2>1, <2>2 DEF CalmAt
<1> QED
  BY <1>1, <1>8 DEF Calm

LEMMA MarkReadyCalm ==
  ASSUME Ec2TypeOK, OneOwner, Calm, NEW i \in warming, Shown(i) = "stopped", MarkReady(i),
         UNCHANGED <<at, hand, listed>>
  PROVE  Calm'
<1>1. aws \in AwsType /\ i \in Instances
  BY DEF Ec2TypeOK, AwsType
<1>2. CalmAt(i)
  BY <1>1 DEF Calm
<1>3. PoolOwned(i) /\ aws[i].st = "stopped"
  BY <1>2 DEF CalmAt, Shown
<1>4. aws' \in {aws, Ready(aws, {i})}
  BY DEF MarkReady
<1>5. Touches(aws, aws', i) /\ aws'[i].st = "stopped" /\ PoolOwned(i)'
  BY <1>1, <1>3, <1>4, ReadyFacts DEF Touches, PoolOwned
<1>6. Lent' \subseteq Lent \cup {i} /\ warming' \subseteq warming
  BY DEF MarkReady, Lent, Giving
<1>7. \A r \in Runners : hand'[r] # i
  BY <1>1, PoolAssumption DEF OneOwner, Held
<1>8. CalmAt(i)'
  BY <1>5, <1>7 DEF CalmAt
<1> QED
  BY <1>1, <1>5, <1>6, <1>8, ExceptCalm

LEMMA PoolStepCalm ==
  ASSUME Ec2TypeOK, OwnerInv, Calm, PoolStep \/ TrimStep \/ \E n \in Sizes : SetTarget(n)
  PROVE  Calm'
<1> USE DEF poolRest, launchVars, awsVars
<1>0. aws \in AwsType /\ OneOwner /\ UNCHANGED <<at, hand>>
  BY DEF Ec2TypeOK, OwnerInv, AwsType, PoolStep, TrimStep, Discover, Undescribed, CheckLists,
     CheckSkipped, Check, Checked, Refresh, RefreshDone, FillRuns, Trim, TrimDone, SetTarget
<1>1. ASSUME ready' \subseteq ready, warming' \subseteq warming, listed' \subseteq listed
      PROVE  Fewer
  BY <1>0, <1>1 DEF Fewer, Lent, Giving
<1>2. CASE CheckLists
  <2>1. UNCHANGED <<aws, ready, warming>>
    BY <1>2 DEF CheckLists
  <2>2. ASSUME NEW i \in Instances PROVE CalmAt(i)'
    BY <1>0, <2>1, CalmFrame DEF Calm, Lent, Giving
  <2>3. ASSUME NEW p \in listed' PROVE p[2] # "up"
    <3>1. PICK i \in ready : p = <<i, Shown(i)>>
      BY <1>2, <2>3 DEF CheckLists
    <3>2. aws[i].st \in {"stopped", "gone"}
      BY <3>1 DEF Calm, CalmAt, Lent, Ec2TypeOK
    <3> QED
      BY <3>1, <3>2 DEF Shown
  <2> QED
    BY <2>2, <2>3 DEF Calm
<1>3. ASSUME NEW i \in Instances, Check(i) PROVE Calm'
  <2>1. <<i, "up">> \notin listed
    BY DEF Calm
  <2>2. /\ ready' \subseteq ready /\ UNCHANGED warming /\ listed' \subseteq listed
        /\ aws' \in {aws, SpotClosed(aws, i)}
    BY <1>3, <2>1 DEF Check, Checked
  <2> QED
    BY <1>1, <2>2, ClosedCalm
<1>4. ASSUME NEW i \in Instances, Refresh(i) PROVE Calm'
  <2>1. i \in warming /\ UNCHANGED listed
    BY <1>4 DEF Refresh
  <2>2. CASE Shown(i) = "stopped" /\ MarkReady(i)
    BY <1>0, <2>1, <2>2, MarkReadyCalm
  <2>3. CASE UNCHANGED <<aws, ready>> /\ warming' = warming \ {i}
    BY <1>1, <2>1, <2>3, SameCalm
  <2>4. ASSUME NEW ok \in BOOLEAN, Discard(i, ok), UNCHANGED ready, warming' \subseteq warming PROVE Calm'
    BY <1>1, <2>1, <2>4, DiscardCalm
  <2> QED
    BY <1>4, <2>2, <2>3, <2>4 DEF Refresh
<1>5. ASSUME NEW i \in Instances, FillRuns(i) PROVE Calm'
  <2>1. i \notin ready \cup warming \cup Held
    BY <1>5 DEF FillRuns, OwnerInv, KnownExist
  <2>2. PICK done \in BOOLEAN, ok \in BOOLEAN :
           /\ ok => done
           /\ aws' = IF done THEN [aws EXCEPT ![i] = PoolInstance] ELSE aws
           /\ warming' = IF ok THEN warming \cup {i} ELSE warming
    BY <1>5 DEF FillRuns, Call
  <2>3. /\ UNCHANGED <<ready, listed>> /\ \A r \in Runners : hand'[r] # i
        /\ i \notin Lent'
    BY <1>0, <1>5, <2>1, PoolAssumption DEF FillRuns, Held, Lent, Giving
  <2>4. CASE done
    <3>1. Touches(aws, aws', i) /\ aws'[i].st = "up" /\ PoolOwned(i)'
      BY <1>0, <2>2, <2>4 DEF AwsType, Touches, PoolInstance, NoInstance, PoolOwned
    <3>2. CalmAt(i)'
      BY <2>3, <3>1 DEF CalmAt
    <3>3. Lent' \subseteq Lent /\ warming' \subseteq warming \cup {i}
      BY <1>0, <2>2, <2>3 DEF Lent, Giving
    <3> QED
      BY <1>0, <2>3, <3>1, <3>2, <3>3, ExceptCalm
  <2>5. CASE ~done
    BY <1>1, <2>2, <2>3, <2>5, SameCalm
  <2> QED
    BY <2>4, <2>5
<1>6. ASSUME NEW i \in Instances, Trim(i) PROVE Calm'
  <2>1. PICK ok \in BOOLEAN : Discard(i, ok)
    BY <1>6 DEF Trim
  <2>2. ready' \subseteq ready /\ UNCHANGED <<warming, listed>>
    BY <1>6 DEF Trim
  <2> QED
    BY <1>1, <2>1, <2>2, DiscardCalm
<1>7. ASSUME UNCHANGED <<aws, ready, warming, listed>> PROVE Calm'
  BY <1>1, <1>7, SameCalm
<1> QED
  BY <1>2, <1>3, <1>4, <1>5, <1>6, <1>7, DiscoverCalm
     DEF PoolStep, TrimStep, Undescribed, CheckSkipped, RefreshDone, TrimDone, SetTarget

LEMMA LaunchFewer ==
  ASSUME NEW r \in Runners, UNCHANGED <<warming, listed>>,
         ready' \subseteq ready \/ (at[r] \in Claiming /\ ready' \subseteq ready \cup {hand[r]}),
         \A q \in Runners \ {r} : at'[q] = at[q] /\ hand'[q] = hand[q],
         at'[r] \in Claiming => hand'[r] \in Lent,
         at'[r] \in {"rewarm", "start"} => at'[r] = at[r] /\ hand'[r] = hand[r]
  PROVE  Fewer
<1>1. at[r] \in Claiming => hand[r] \in Lent
  BY DEF Lent, Giving
<1>2. ASSUME NEW q \in Runners, at'[q] \in Claiming PROVE hand'[q] \in Lent
  BY <1>2 DEF Lent, Giving
<1>3. Lent' \subseteq Lent
  BY <1>1, <1>2 DEF Lent, Giving
<1> QED
  BY <1>3 DEF Fewer

\* An instance in a claim is in no list, and in no other hand.
LEMMA ClaimedAlone ==
  ASSUME Ec2TypeOK, OneOwner, Calm, NEW r \in Runners, at[r] \in Holding
  PROVE  /\ hand[r] \in Instances \ (ready \cup warming)
         /\ \A q \in Runners \ {r} : hand[q] # hand[r]
         /\ at[r] \in Claiming => hand[r] \in Lent /\ aws[hand[r]].st \in {"stopped", "gone"}
         /\ at[r] \notin Claiming => hand[r] \notin Lent
<1>1. hand[r] \in Held /\ hand[r] \in Instances
  BY DEF Ec2TypeOK, Held
<1>2. hand[r] \notin ready \cup warming /\ \A q \in Runners \ {r} : hand[q] # hand[r]
  BY <1>1, PoolAssumption DEF OneOwner
<1>3. at[r] \in Claiming => hand[r] \in Lent
  BY DEF Lent, Giving
<1>4. at[r] \notin Claiming => hand[r] \notin Lent
  BY <1>2 DEF Lent, Giving
<1> QED
  BY <1>1, <1>2, <1>3, <1>4 DEF Calm, CalmAt

LEMMA PrepareCalm ==
  ASSUME Ec2TypeOK, OneOwner, Calm, NEW r \in Runners, Prepare(r)
  PROVE  Calm'
<1> DEFINE i == hand[r]
           claimed == Tagged(aws, i, "claimed", r)
<1>1. /\ at[r] = "prepare" /\ UNCHANGED <<ready, warming, listed, hand>>
      /\ aws' \in {aws, claimed}
  BY DEF Prepare, poolVars
<1>2. /\ i \in Instances \ (ready \cup warming) /\ i \in Lent /\ aws[i].st \in {"stopped", "gone"}
      /\ \A q \in Runners \ {r} : hand[q] # i
  BY <1>1, ClaimedAlone DEF Claiming, Holding
<1>3. aws \in AwsType /\ "claimed" \in Tags /\ at \in [Runners -> LaunchPlaces]
  BY DEF Ec2TypeOK, AwsType, Tags
<1>4. Touches(aws, claimed, i) /\ claimed[i].st = aws[i].st
  BY <1>2, <1>3, TaggedFacts
<1>5. aws[i].st # "gone" => claimed[i].tag = "claimed"
  BY <1>2, <1>3 DEF Tagged, AwsType, Instance
<1>6. Touches(aws, aws', i) /\ aws'[i].st = aws[i].st
  BY <1>1, <1>4 DEF Touches
<1>7. PICK place : /\ at' = [at EXCEPT ![r] = place]
                   /\ place = "rewarm" => Shown(i) # "stopped" \/ aws[i].st = "starting"
                   /\ place = "start" => aws[i].st = "stopped" /\ aws' = claimed
  BY DEF Prepare, Goes
<1>8. \A q \in Runners \ {r} : at'[q] = at[q]
  BY <1>3, <1>7
<1>9. at'[r] = "rewarm" => aws'[i].st = "gone"
  BY <1>2, <1>3, <1>6, <1>7 DEF Shown
<1>10. at'[r] = "start" => ~PoolOwned(i)'
  BY <1>1, <1>3, <1>5, <1>7 DEF PoolOwned
<1>11. CalmAt(i)'
  BY <1>1, <1>2, <1>6, <1>9, <1>10 DEF CalmAt
<1>12. Lent' \subseteq Lent
  BY <1>1, <1>2, <1>8 DEF Lent, Giving
<1> QED
  BY <1>1, <1>2, <1>6, <1>8, <1>11, <1>12, ExceptCalm

LEMMA StartCalm ==
  ASSUME Ec2TypeOK, OneOwner, Calm, NEW r \in Runners, StartInstances(r)
  PROVE  Calm'
<1> DEFINE i == hand[r]
<1>1. at[r] = "start" /\ UNCHANGED <<ready, warming, listed, hand>>
  BY DEF StartInstances, poolVars
<1>2. /\ i \in Instances \ (ready \cup warming) /\ i \notin Lent
      /\ \A q \in Runners \ {r} : hand[q] # i
  BY <1>1, ClaimedAlone DEF Claiming, Holding
<1>3. aws \in AwsType /\ at \in [Runners -> LaunchPlaces]
  BY DEF Ec2TypeOK, AwsType
<1>4. PICK place : /\ at' = [at EXCEPT ![r] = place]
                   /\ place \in {"spot", "unstarted"}
  BY DEF StartInstances, Goes
<1>5. aws' \in {aws, Started(aws, i)}
  <2> DEFINE started == IF aws[i].st = "stopped" /\ Startable(i) THEN Started(aws, i) ELSE aws
  <2>1. aws' \in {aws, started}
    BY DEF StartInstances
  <2> QED
    BY <2>1
<1>6. /\ Touches(aws, aws', i) /\ aws'[i].tag = aws[i].tag
  BY <1>2, <1>3, <1>5, StartedFacts DEF Touches
<1>7. ~PoolOwned(i)'
  BY <1>1, <1>2, <1>6 DEF Calm, CalmAt, PoolOwned
<1>8. Lent' \subseteq Lent
  BY <1>1, <1>3, <1>4 DEF Lent, Giving, Claiming
<1>9. CalmAt(i)'
  BY <1>1, <1>2, <1>3, <1>4, <1>7, <1>8 DEF CalmAt
<1> QED
  BY <1>1, <1>2, <1>3, <1>4, <1>6, <1>8, <1>9, ExceptCalm

\* What a claim gives back: gone for a rewarm, stopped or gone for the others.
LEMMA GivesBackCalm ==
  ASSUME Ec2TypeOK, OneOwner, Calm, NEW r \in Runners, Rewarm(r) \/ RequeueTagged(r)
  PROVE  Calm'
<1>0. at[r] \in {"rewarm", "retag"}
  BY DEF Rewarm, RequeueTagged
<1> PICK i \in Instances : i = hand[r]
  BY <1>0, ClaimedAlone DEF Claiming, Holding
<1>1. /\ UNCHANGED listed
      /\ hand' = [hand EXCEPT ![r] = NoInst]
      /\ at' = [at EXCEPT ![r] = IF at[r] = "rewarm" THEN "claim" ELSE "cold"]
      /\ ready' \in {ready, ready \cup {i}}
      /\ warming' = IF at[r] = "rewarm" THEN warming \cup {i} ELSE warming
  BY DEF Rewarm, RequeueTagged, LetsGo, Goes
<1>2. /\ i \notin ready \cup warming /\ i \in Lent /\ aws[i].st \in {"stopped", "gone"}
      /\ \A q \in Runners \ {r} : hand[q] # i
  BY <1>0, ClaimedAlone DEF Claiming, Holding
<1>3. /\ aws \in AwsType /\ at \in [Runners -> LaunchPlaces]
      /\ hand \in [Runners -> Instances \cup {NoInst}]
  BY DEF Ec2TypeOK, AwsType
<1>4. PICK tag \in Tags : aws' \in {aws, Tagged(aws, i, tag, NoRunner)}
  BY DEF Rewarm, RequeueTagged, Tags
<1>5. Touches(aws, aws', i) /\ aws'[i].st = aws[i].st
  BY <1>2, <1>3, <1>4, TaggedFacts DEF Touches
<1>6. at[r] = "rewarm" => aws[i].st = "gone"
  BY <1>2 DEF Calm, CalmAt
<1>7. \A q \in Runners : hand'[q] # i
  BY <1>1, <1>2, <1>3, PoolAssumption
<1>8. CalmAt(i)'
  BY <1>0, <1>1, <1>2, <1>5, <1>6, <1>7 DEF CalmAt
<1>9. Lent' \subseteq Lent
  BY <1>0, <1>1, <1>2, <1>3 DEF Lent, Giving, Claiming
<1>10. \A q \in Runners \ {r} : hand'[q] = hand[q] /\ at'[q] = at[q]
  BY <1>1, <1>3
<1>11. at'[r] \notin {"rewarm", "start"} /\ warming' \subseteq warming \cup {i}
  BY <1>0, <1>1, <1>3
<1> QED
  BY <1>1, <1>2, <1>5, <1>8, <1>9, <1>10, <1>11, ExceptCalm

LEMMA ColdCalm ==
  ASSUME Ec2TypeOK, OwnerInv, Calm, NEW r \in Runners, Cold(r)
  PROVE  Calm'
<1>1. /\ UNCHANGED <<ready, warming, listed>>
      /\ at \in [Runners -> LaunchPlaces] /\ hand \in [Runners -> Instances \cup {NoInst}]
  BY DEF Cold, poolVars, Ec2TypeOK
<1>2. PICK j \in Instances :
         /\ aws[j].st = "none" /\ Touches(aws, aws', j)
         /\ aws' = aws \/ aws'[j].tag = "none"
         /\ \/ hand' = [hand EXCEPT ![r] = j] /\ Goes(r, "wait")
            \/ Ends(r)
  BY ColdFacts
<1>3. /\ \A q \in Runners \ {r} : at'[q] = at[q] /\ hand'[q] = hand[q]
      /\ at'[r] \in {"wait", "idle"}
  BY <1>1, <1>2 DEF Ends, Goes
<1>4. Fewer
  BY <1>1, <1>3, LaunchFewer DEF Claiming
<1>5. j \notin ready \cup warming \cup Held
  BY <1>2 DEF OwnerInv, KnownExist
<1>6. CASE aws'[j].tag = "none"
  <2>1. j \notin Lent /\ \A q \in Runners : hand[q] # j
    BY <1>5, PoolAssumption DEF Lent, Giving, Held
  <2>2. CalmAt(j)'
    BY <1>1, <1>3, <1>4, <1>5, <1>6, <2>1 DEF CalmAt, Fewer, PoolOwned
  <2> QED
    BY <1>2, <1>4, <2>2, ExceptCalm DEF Fewer
<1> QED
  BY <1>2, <1>4, <1>6, SameCalm

LEMMA LaunchStepCalm ==
  ASSUME Ec2TypeOK, OwnerInv, Calm, NEW r \in Runners, Begin(r) \/ LaunchStep(r)
  PROVE  Calm'
<1> USE DEF poolVars, awsVars, waiters
<1>1. /\ aws \in AwsType /\ OneOwner
      /\ at \in [Runners -> LaunchPlaces] /\ hand \in [Runners -> Instances \cup {NoInst}]
      /\ at[r] \in Holding => hand[r] \in Instances
  BY DEF Ec2TypeOK, OwnerInv, AwsType
<1>2. CASE Begin(r) \/ ClaimEmpty(r)
  <2>1. PICK place \in {"claim", "cold"} : Goes(r, place)
    BY <1>2 DEF Begin, ClaimEmpty
  <2>2. UNCHANGED <<aws, ready, warming, listed, hand>>
    BY <1>2 DEF Begin, ClaimEmpty
  <2>3. Fewer
    BY <1>1, <2>1, <2>2, LaunchFewer DEF Goes, Claiming
  <2> QED
    BY <2>2, <2>3, SameCalm
<1>3. CASE Claim(r)
  <2>1. PICK i \in ready : ready' = ready \ {i} /\ hand' = [hand EXCEPT ![r] = i]
    BY <1>3 DEF Claim
  <2>2. i \in Lent /\ Goes(r, "prepare") /\ UNCHANGED <<aws, warming, listed>>
    BY <1>3 DEF Claim, Lent
  <2>3. Fewer
    BY <1>1, <2>1, <2>2, LaunchFewer DEF Goes
  <2> QED
    BY <2>2, <2>3, SameCalm
<1>4. CASE ClaimCancelled(r) \/ ColdRefused(r) \/ WaitEnds(r)
  <2>1. Ends(r) /\ UNCHANGED <<aws, ready, warming, listed>>
    BY <1>4 DEF ClaimCancelled, ColdRefused, WaitEnds
  <2>2. Fewer
    BY <1>1, <2>1, LaunchFewer DEF Ends, Goes, Claiming
  <2> QED
    BY <2>1, <2>2, SameCalm
<1>5. CASE ClaimDiscards(r) \/ RegisterRefused(r) \/ Unstarted(r)
  <2>1. PICK ok \in BOOLEAN : Discard(hand[r], ok)
    BY <1>5 DEF ClaimDiscards, Unstarted, RegisterRefused
  <2>2. Ends(r) \/ \E place \in {"claim", "cold"} : LetsGo(r, place)
    BY <1>5 DEF ClaimDiscards, Unstarted, RegisterRefused
  <2>3. at[r] \in Holding /\ UNCHANGED <<ready, warming, listed>>
    BY <1>5 DEF ClaimDiscards, Unstarted, RegisterRefused, Holding, Claiming
  <2>4. Fewer
    BY <1>1, <2>2, <2>3, LaunchFewer DEF LetsGo, Ends, Goes, Claiming
  <2> QED
    BY <1>1, <2>1, <2>3, <2>4, DiscardCalm
<1>6. CASE Requeue(r)
  <2>1. /\ at[r] \in Claiming /\ ready' = ready \cup {hand[r]} /\ LetsGo(r, "cold")
        /\ UNCHANGED <<aws, warming, listed>>
    BY <1>6 DEF Requeue, Claiming
  <2>2. Fewer
    BY <1>1, <2>1, LaunchFewer DEF LetsGo, Goes, Claiming
  <2> QED
    BY <2>1, <2>2, SameCalm
<1>7. CASE CancelSpot(r)
  <2>1. /\ at[r] \in Holding /\ aws' \in {aws, SpotClosed(aws, hand[r])} /\ Goes(r, "wait")
        /\ UNCHANGED <<ready, warming, listed, hand>>
    BY <1>7 DEF CancelSpot, Holding
  <2>2. Fewer
    BY <1>1, <2>1, LaunchFewer DEF Goes, Claiming
  <2> QED
    BY <1>1, <2>1, <2>2, ClosedCalm
<1>8. CASE WaitTerminates(r)
  <2>1. at[r] = "wait" /\ Terminate(r) /\ UNCHANGED <<ready, warming, listed, at, hand>>
    BY <1>8 DEF WaitTerminates
  <2>2. PICK i \in Instances : i = hand[r]
    BY <1>1, <2>1 DEF Holding
  <2> DEFINE closed == SpotClosed(aws, i)
  <2>3. aws' \in {aws, closed, Terminated(aws, i), Terminated(closed, i)}
    BY <2>1, <2>2 DEF Terminate
  <2>4. CASE aws' \in {aws, closed}
    BY <2>1, <2>4, SameIsFewer, ClosedCalm
  <2>5. ASSUME NEW a \in {aws, closed}, aws' = Terminated(a, i) PROVE Calm'
    <3>1. a \in AwsType /\ Touches(aws, a, i)
      BY <1>1, SpotClosedFacts DEF Touches
    <3>2. /\ Touches(a, Terminated(a, i), i)
          /\ Terminated(a, i)[i].st = "gone" /\ Terminated(a, i)[i].tag = "none"
      BY <3>1, TerminatedFacts
    <3>3. Touches(aws, aws', i) /\ aws'[i].st = "gone" /\ aws'[i].tag = "none"
      BY <2>5, <3>1, <3>2 DEF Touches
    <3>4. Settles(i)
      BY <3>3 DEF Settles
    <3> QED
      BY <2>1, <3>3, <3>4, SameIsFewer, SettledCalm
  <2> QED
    BY <2>3, <2>4, <2>5
<1>9. CASE WaitSeesRunning(r)
  BY <1>9, SameIsFewer, SameCalm DEF WaitSeesRunning
<1> QED
  BY <1>1, <1>2, <1>3, <1>4, <1>5, <1>6, <1>7, <1>8, <1>9,
     PrepareCalm, StartCalm, GivesBackCalm, ColdCalm DEF LaunchStep

LEMMA NextCalm ==
  ASSUME ReaperTypeOK, OwnerInv, UpGuests, Calm, [Next]_allVars, UNCHANGED surprises
  PROVE  Calm'
<1> USE DEF awsVars
<1>0. Ec2TypeOK /\ aws \in AwsType
  BY DEF ReaperTypeOK, Ec2TypeOK, AwsType
<1>1. ASSUME UNCHANGED processVars PROVE Fewer
  BY <1>1, SameIsFewer DEF processVars, poolVars, launchVars
<1>2. ASSUME NEW i \in Instances, AwsStep(i), UNCHANGED processVars PROVE Calm'
  BY <1>0, <1>2, AwsStepCalm
<1>3. ASSUME NEW i \in Instances, Fetch(i) \/ Expires(i) PROVE Calm'
  <2>1. /\ Touches(aws, aws', i) /\ aws'[i].st = aws[i].st /\ aws'[i].tag = aws[i].tag
        /\ UNCHANGED <<ready, warming, listed, at, hand>>
    BY <1>0, <1>3 DEF Fetch, Expires, poolVars, AwsType, Instance, Touches
  <2>2. Settles(i)
    BY <2>1 DEF Settles
  <2> QED
    BY <1>0, <2>1, <2>2, SameIsFewer, SettledCalm
<1>4. ASSUME NEW i \in Instances, Purged(i) PROVE Calm'
  <2>1. /\ Touches(aws, aws', i) /\ aws'[i].st = "none" /\ aws'[i].tag = "none"
        /\ i \notin ready \cup warming \cup Held /\ UNCHANGED processVars
    BY <1>0, <1>4 DEF Purged, AwsType, Touches, NoInstance
  <2>2. Settles(i)
    BY <2>1 DEF Settles
  <2> QED
    BY <1>0, <1>1, <2>1, <2>2, SettledCalm
<1>5. CASE PoolStep \/ TrimStep \/ \E n \in Sizes : SetTarget(n)
  BY <1>0, <1>5, PoolStepCalm
<1>6. ASSUME NEW r \in Runners, Begin(r) \/ LaunchStep(r) PROVE Calm'
  BY <1>0, <1>6, LaunchStepCalm
<1>7. CASE ReaperStep
  <2>1. Fewer
    BY <1>1, <1>7 DEF ReaperStep, SweepLists, Judge, AsksGitHub, Reap, SweepsRequest
  <2>2. ASSUME NEW v \in orphans, Reap(v) PROVE Calm'
    BY <1>0, <2>1, <2>2, DiscardCalm DEF Reap, ReaperTypeOK, Verdict
  <2>3. ASSUME NEW i \in Instances, SweepsRequest(i) PROVE Calm'
    <3>1. aws' \in {aws, SpotClosed(aws, i)}
      BY <2>3 DEF SweepsRequest
    <3> QED
      BY <1>0, <2>1, <3>1, ClosedCalm
  <2> QED
    BY <1>7, <2>1, <2>2, <2>3, SameCalm DEF ReaperStep, SweepLists, Judge, AsksGitHub
<1>8. CASE Crash
  <2>1. UNCHANGED aws /\ Fewer
    BY <1>8 DEF Crash, ProcessStarts, Fewer, Lent, Giving, Claiming
  <2> QED
    BY <2>1, SameCalm
<1>9. CASE UNCHANGED <<aws, processVars>>
  BY <1>1, <1>9, SameCalm
<1> QED
  BY <1>2, <1>3, <1>4, <1>5, <1>6, <1>7, <1>8, <1>9 DEF Next, allVars, JobLost

LEMMA InitCalm == Init => Calm
<1>1. Init => \A i \in Instances : aws[i].tag = "none"
  BY DEF Init, NoInstance
<1> QED
  BY <1>1 DEF Init, Calm, CalmAt, Lent, Giving, Claiming, PoolOwned

\* A used instance that no launch has comes into no launch's hands.
LEMMA NextHeld ==
  ASSUME ReaperTypeOK, [Next]_allVars, NEW i \in Instances, Used(i), i \notin Held
  PROVE  i \notin Held'
<1>1. hand \in [Runners -> Instances \cup {NoInst}] /\ \A r \in Runners : hand[r] # i
  BY PoolAssumption DEF ReaperTypeOK, Ec2TypeOK, Held
<1>2. ASSUME NEW r \in Runners, Begin(r) \/ LaunchStep(r) PROVE \A q \in Runners : hand'[q] # i
  <2>1. CASE Claim(r)
    <3>1. PICK j \in ready : hand' = [hand EXCEPT ![r] = j]
      BY <2>1 DEF Claim
    <3> QED
      BY <1>1, <3>1 DEF Used
  <2>2. CASE Cold(r)
    <3>1. PICK j \in Instances : /\ aws[j].st = "none"
                                 /\ hand' = [hand EXCEPT ![r] = j] \/ Ends(r)
      BY <2>2, ColdFacts DEF ReaperTypeOK
    <3> QED
      BY <1>1, <3>1, PoolAssumption DEF Used, Ends
  <2>3. CASE /\ Begin(r) \/ LaunchStep(r)
             /\ ~Claim(r) /\ ~Cold(r)
    <3>1. hand' \in {hand, [hand EXCEPT ![r] = NoInst]}
      BY <2>3 DEF Begin, LaunchStep, ClaimEmpty, ClaimCancelled, Prepare, Rewarm, ClaimDiscards,
         Requeue, RequeueTagged, StartInstances, Unstarted, RegisterRefused, CancelSpot,
         ColdRefused,
         WaitTerminates, WaitSeesRunning, WaitEnds, Ends, LetsGo
    <3> QED
      BY <1>1, <3>1, PoolAssumption
  <2> QED
    BY <1>2, <2>1, <2>2, <2>3
<1>3. CASE Crash
  BY <1>3, PoolAssumption DEF Crash, ProcessStarts, Held
<1>4. CASE UNCHANGED hand
  BY <1>4 DEF Held
<1>5. CASE PoolStep \/ TrimStep \/ \E n \in Sizes : SetTarget(n)
  BY <1>4, <1>5 DEF PoolStep, TrimStep, Discover, Undescribed, CheckLists, CheckSkipped, Check,
     Checked,
     Refresh, RefreshDone, FillRuns, Trim, TrimDone, SetTarget, poolRest, launchVars
<1>6. CASE ReaperStep
  BY <1>4, <1>6 DEF ReaperStep, SweepLists, Judge, AsksGitHub, Reap, SweepsRequest, processVars,
     launchVars
<1> QED
  BY <1>2, <1>3, <1>4, <1>5, <1>6
     DEF Next, allVars, processVars, launchVars, Fetch, Expires, Purged, JobLost, Held

\* What the reaper asks GitHub about: an instance that is used, under the name it
\* was listed with, and that no launch has once judge has looked.
Known ==
    \A v \in orphans : v.do \in {"ask", "asking", "agreed"} =>
        /\ Used(v.id)
        /\ aws[v.id].runner = v.runner \/ aws[v.id].st = "gone"
        /\ v.do # "ask" => v.id \notin Held

\* Only listing needs a calm account: from then on the others cannot make it
\* anything but used.
LEMMA NextKnown ==
  ASSUME ReaperTypeOK, OwnerInv, UpGuests, Calm, Known, [Next]_allVars
  PROVE  Known'
<1>1. CASE SweepLists
  <2>1. UNCHANGED <<aws, ready, warming, hand, at>> /\ orphans' = JudgedOrphans
    BY <1>1 DEF SweepLists, awsVars, processVars, poolVars, launchVars
  <2>2. ASSUME NEW v \in orphans', v.do \in {"ask", "asking", "agreed"}
        PROVE  v.do = "ask" /\ Used(v.id) /\ aws[v.id].runner = v.runner
    <3>1. PICK i \in Alive : ~PoolOwned(i) /\ v = Judged(i)
      BY <2>1, <2>2 DEF JudgedOrphans
    <3>2. v.id = i /\ v.runner = aws[i].runner /\ aws[i].st = "up" /\ v.do = "ask"
      BY <2>2, <3>1 DEF Judged
    <3>3. CalmAt(i) /\ i \in Instances
      BY <3>1 DEF Calm, Alive
    <3>4. i \notin ready \cup warming /\ \A r \in Runners : hand[r] = i => at[r] \notin Claiming
      BY <3>1, <3>2, <3>3 DEF CalmAt, Lent, Giving
    <3> QED
      BY <3>1, <3>2, <3>4 DEF Used
  <2> QED
    BY <2>1, <2>2 DEF Known, Used, PoolOwned
<1>2. ASSUME ~SweepLists, NEW v \in orphans', v.do \in {"ask", "asking", "agreed"}
      PROVE  /\ Used(v.id)'
             /\ aws'[v.id].runner = v.runner \/ aws'[v.id].st = "gone"
             /\ v.do # "ask" => v.id \notin Held'
  <2>1. PICK w \in orphans : /\ v.id = w.id /\ v.runner = w.runner
                             /\ w.do \in {"ask", "asking", "agreed"}
                             /\ v.do # "ask" => w.do # "ask" \/ w.id \notin live
    <3>1. CASE orphans' \subseteq orphans
      BY <1>2, <3>1
    <3>2. ASSUME NEW w \in orphans, Judge(w) \/ AsksGitHub(w)
          PROVE  \/ v \in orphans
                 \/ /\ v.id = w.id /\ v.runner = w.runner /\ w.do \in {"ask", "asking"}
                    /\ w.do # "ask" \/ w.id \notin live
      <4>1. w \in Verdict
        BY DEF ReaperTypeOK
      <4>2. CASE Judge(w)
        BY <1>2, <4>1, <4>2 DEF Judge, Verdict
      <4>3. CASE AsksGitHub(w)
        <5>1. w.do = "asking" /\ orphans' \subseteq orphans \cup {[w EXCEPT !.do = "agreed"]}
          BY <4>3 DEF AsksGitHub
        <5> QED
          BY <1>2, <4>1, <5>1 DEF Verdict
      <4> QED
        BY <3>2, <4>2, <4>3
    <3>3. \/ orphans' \subseteq orphans
          \/ \E w \in orphans : Judge(w) \/ AsksGitHub(w)
      BY <1>2 DEF Next, ReaperStep, Reap, SweepsRequest, Crash, ProcessStarts, Purged,
         allVars, reaperVars
    <3> QED
      BY <1>2, <3>1, <3>2, <3>3
  <2>2. w.id \in Instances /\ live = Held
    BY DEF ReaperTypeOK, Verdict, OwnerInv, OneOwner
  <2>3. /\ Used(w.id) /\ (aws[w.id].runner = w.runner \/ aws[w.id].st = "gone")
        /\ v.do # "ask" => w.id \notin Held
    BY <2>1, <2>2 DEF Known
  <2>4. ~Purged(w.id)
    BY DEF Purged
  <2>5. StaysUsed(w.id)
    BY <2>2, <2>3, <2>4, NextUsed
  <2>6. v.do # "ask" => w.id \notin Held'
    BY <2>2, <2>3, NextHeld
  <2> QED
    BY <2>1, <2>3, <2>5, <2>6 DEF StaysUsed
<1> QED
  BY <1>1, <1>2 DEF Known

LEMMA SurprisesFall ==
  ASSUME ReaperTypeOK, [Next]_allVars
  PROVE  surprises' \in Nat /\ surprises' <= surprises /\ surprises <= MaxSurprises
<1>1. surprises \in 0..MaxSurprises /\ MaxSurprises \in Nat
  BY AwsAssumption DEF ReaperTypeOK, Ec2TypeOK
<1>2. UNCHANGED surprises \/ (surprises > 0 /\ surprises' = surprises - 1)
  <2>1. ASSUME NEW i \in Instances, AwsStep(i) \/ Fetch(i) \/ Expires(i) \/ Purged(i)
        PROVE  UNCHANGED surprises \/ (surprises > 0 /\ surprises' = surprises - 1)
    BY <2>1 DEF AwsStep, Boots, PowersOff, Ages, JobStarts, JobEnds, SpotRestarts, EndedFromOutside,
       Fetch, Expires, Purged, awsVars
  <2>2. ASSUME PoolStep \/ TrimStep \/ \E n \in Sizes : SetTarget(n) PROVE UNCHANGED surprises
    BY <2>2 DEF PoolStep, TrimStep, Discover, Undescribed, CheckLists, CheckSkipped, Check, Checked,
       Refresh, RefreshDone, FillRuns, Trim, TrimDone, SetTarget, poolRest, awsVars
  <2>3. ASSUME NEW r \in Runners, Begin(r) \/ LaunchStep(r) \/ JobLost(r) PROVE UNCHANGED surprises
    BY <2>3 DEF Begin, JobLost, LaunchStep, Claim, ClaimEmpty, ClaimCancelled, Prepare, Rewarm,
       ClaimDiscards, Requeue, RequeueTagged, StartInstances, Unstarted, RegisterRefused,
       CancelSpot, Cold,
       ColdRefused, WaitTerminates, WaitSeesRunning, WaitEnds, awsVars
  <2>4. ASSUME ReaperStep \/ Crash PROVE UNCHANGED surprises
    BY <2>4 DEF ReaperStep, SweepLists, Judge, AsksGitHub, Reap, SweepsRequest, Crash, awsVars
  <2> QED
    BY <2>1, <2>2, <2>3, <2>4 DEF Next, allVars, awsVars
<1> QED
  BY <1>1, <1>2

\* A running orphan is nobody's, and has no job, when the reaper ends it with
\* GitHub's word, as long as no spot request has restarted an instance and none
\* was ended from outside: judge's one look at live, and the name it was listed
\* with, may be old by then, but only such a surprise makes them wrong (README).
THEOREM AgreedIsOrphan ==
  Spec => [][ surprises = MaxSurprises =>
                \A v \in orphans : Reap(v) /\ v.do = "agreed" =>
                   /\ v.id \notin ready \cup warming \cup live
                   /\ aws[v.id].guest # "job" ]_allVars
<1> DEFINE Undisturbed == surprises = MaxSurprises => Calm /\ Known
           Safe == surprises = MaxSurprises =>
                     \A v \in orphans : Reap(v) /\ v.do = "agreed" =>
                        /\ v.id \notin ready \cup warming \cup live
                        /\ aws[v.id].guest # "job"
<1>1. ReaperTypeOK /\ OwnerInv /\ [Next]_allVars => OwnerInv'
  BY NextOwners
<1>2. ReaperTypeOK /\ OwnerInv /\ GuestInv /\ AgreedGone /\ [Next]_allVars => GuestInv' /\ AgreedGone'
  BY NextGuests, NextAgreed
<1>3. Init => Undisturbed
  BY InitCalm DEF Init, Known
<1>4. ReaperTypeOK /\ OwnerInv /\ GuestInv /\ Undisturbed /\ [Next]_allVars => Undisturbed'
  <2> SUFFICES ASSUME ReaperTypeOK, OwnerInv, GuestInv, Undisturbed, [Next]_allVars,
                      surprises' = MaxSurprises
               PROVE  Calm' /\ Known'
    BY DEF Undisturbed
  <2>1. surprises = MaxSurprises /\ UNCHANGED surprises
    BY SurprisesFall, AwsAssumption DEF ReaperTypeOK, Ec2TypeOK
  <2> QED
    BY <2>1, NextCalm, NextKnown DEF GuestInv
<1>5. ReaperTypeOK /\ OwnerInv /\ GuestInv /\ AgreedGone /\ Undisturbed => Safe
  <2> SUFFICES ASSUME ReaperTypeOK, OwnerInv, GuestInv, AgreedGone, Undisturbed,
                      surprises = MaxSurprises, NEW v \in orphans, v.do = "agreed"
               PROVE  /\ v.id \notin ready \cup warming \cup live
                      /\ aws[v.id].guest # "job"
    BY DEF Safe
  <2>1. /\ Used(v.id) /\ v.id \notin Held
        /\ aws[v.id].runner = v.runner \/ aws[v.id].st = "gone"
    BY DEF Undisturbed, Known
  <2>2. v.id \in Instances /\ gh[v.runner] = "none"
    BY DEF ReaperTypeOK, Verdict, AgreedGone
  <2>3. aws[v.id].guest # "job"
    BY <2>1, <2>2 DEF GuestInv, UpGuests, JobBusy
  <2> QED
    BY <2>1, <2>3 DEF Used, OwnerInv, OneOwner
<1>6. ReaperTypeOK /\ OwnerInv /\ GuestInv /\ AgreedGone /\ Undisturbed => [Safe]_allVars
  BY <1>5
<1> HIDE DEF Undisturbed
<1> QED
  BY <1>1, <1>2, <1>3, <1>4, <1>6, InitOwners, InitGuests, Ec2TypesHold, PTL DEF Spec
=============================================================================
