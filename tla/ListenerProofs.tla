---------------------------- MODULE ListenerProofs -----------------------------
(***************************************************************************)
(* Theorems about Listener.tla, for any numbers of processes, tiers and    *)
(* faults.                                                                 *)
(***************************************************************************)
EXTENDS Listener, TLAPS

\* p is to delete the set of tier t when it stops: it registered it, knows the one
\* that exists, and is not through with the tier.
Owns(p, t) ==
    /\ proc[p] \notin {"unused", "down", "off"}
    /\ t \in created[p] /\ p \in known[t] /\ pc[p][t] # "off"

\* LastOneDeregisters is about the end alone. Until then every set has an owner
\* still at work, while nothing failed.
Registered == faults = 0 => \A t \in exists : \E p \in Procs : Owns(p, t)

ListenerInv == ListenerTypeOK /\ faults \in Nat /\ Registered

-----------------------------------------------------------------------------
(* Types.                                                                  *)

\* A process that gets somewhere with a tier stays where it is with the others.
LEMMA OnePlace ==
  ASSUME pc \in [Procs -> [Tiers -> Places]], NEW p \in Procs, NEW t \in Tiers,
         NEW to \in Places, pc' = [pc EXCEPT ![p][t] = to]
  PROVE  /\ pc' \in [Procs -> [Tiers -> Places]]
         /\ pc'[p][t] = to
         /\ \A q \in Procs, u \in Tiers : q # p \/ u # t => pc'[q][u] = pc[q][u]
OBVIOUS

\* Where each step of a tier moves it.
LEMMA Placed ==
  ASSUME ListenerTypeOK, NEW p \in Procs, NEW t \in Tiers,
         TierStep(p, t) \/ SessionFails(p, t) \/ Fatal(p, t)
  PROVE  /\ pc' \in [Procs -> [Tiers -> Places]]
         /\ \A q \in Procs, u \in Tiers : q # p \/ u # t => pc'[q][u] = pc[q][u]
<1>1. UNCHANGED pc \/ \E to \in Places : pc' = [pc EXCEPT ![p][t] = to]
  <2>1. ASSUME TierStep(p, t) PROVE UNCHANGED pc \/ \E to \in Places : pc' = [pc EXCEPT ![p][t] = to]
    BY <2>1 DEF TierStep, LookUp, Register, FirstOpen, StartFails, Grab, Recycle, CloseSession,
       Reopen, ReopenFails, Restarts, TierStopped, RunReturns, CloseAll, Deregister, Moves,
       Places, Starting, Running
  <2> QED
    BY <2>1 DEF SessionFails, Fatal, Moves, Places, Starting, Running
<1> QED
  BY <1>1, OnePlace DEF ListenerTypeOK

\* The types by what they are about.
SetTypes ==
    /\ exists \subseteq Tiers /\ stuck \subseteq Tiers
    /\ known \in [Tiers -> SUBSET Procs]
    /\ holder \in [Tiers -> Procs \cup {Nobody, Expiring}]
ProcTypes ==
    /\ proc \in [Procs -> Lives]
    /\ created \in [Procs -> SUBSET Tiers] /\ seen \in [Procs -> SUBSET Tiers]
PlaceTypes == pc \in [Procs -> [Tiers -> Places]]
GrabTypes == grabbed \in [Procs -> [Tiers -> {"none", "this", "old"}]]
GrabsLive == \A p \in Procs, t \in Tiers : grabbed[p][t] = "this" => pc[p][t] = "live"

LEMMA TypesSplit == ListenerTypeOK <=> SetTypes /\ ProcTypes /\ PlaceTypes /\ GrabTypes /\ GrabsLive
BY DEF ListenerTypeOK, SetTypes, ProcTypes, PlaceTypes, GrabTypes, GrabsLive

\* What a request whose answer is lost leaves at GitHub: a set nobody has, or a
\* session.
LEMMA Unknown ==
  ASSUME NEW p, NEW t, DoneUnknown(p, t)
  PROVE  /\ faults' = faults + 1 /\ UNCHANGED stuck
         /\ \/ /\ pc[p][t] = "absent" /\ t \notin exists
               /\ exists' = exists \cup {t} /\ known' = [known EXCEPT ![t] = {}]
               /\ UNCHANGED holder
            \/ /\ pc[p][t] \in {"opening", "reopen", "waiting"}
               /\ UNCHANGED <<exists, known>> /\ holder' = [holder EXCEPT ![t] = Expiring]
BY DEF DoneUnknown, Fault

\* What Recycle read of one session is changed together with that session alone.
LEMMA OneGrab ==
  ASSUME GrabTypes, NEW p \in Procs, NEW t \in Tiers, NEW to \in {"none", "this", "old"},
         grabbed' = [grabbed EXCEPT ![p][t] = to]
  PROVE  /\ GrabTypes' /\ grabbed'[p][t] = to
         /\ \A q \in Procs, u \in Tiers : q # p \/ u # t => grabbed'[q][u] = grabbed[q][u]
BY DEF GrabTypes

LEMMA GrabsKept ==
  ASSUME GrabsLive, NEW p \in Procs, NEW t \in Tiers,
         \A q \in Procs, u \in Tiers :
            q # p \/ u # t => pc'[q][u] = pc[q][u] /\ grabbed'[q][u] = grabbed[q][u],
         grabbed'[p][t] = "this" => pc'[p][t] = "live"
  PROVE  GrabsLive'
<1> SUFFICES ASSUME NEW q \in Procs, NEW u \in Tiers, grabbed'[q][u] = "this"
             PROVE  pc'[q][u] = "live"
  BY DEF GrabsLive
<1>1. CASE q = p /\ u = t
  BY <1>1
<1>2. CASE q # p \/ u # t
  BY <1>2 DEF GrabsLive
<1> QED
  BY <1>1, <1>2

LEMMA StartTypes ==
  ASSUME ListenerTypeOK, NEW p \in Procs, NEW t \in Tiers,
         LookUp(p, t) \/ Register(p, t) \/ FirstOpen(p, t) \/ StartFails(p, t)
  PROVE  ListenerTypeOK'
<1>1. /\ PlaceTypes'
      /\ \A q \in Procs, u \in Tiers : q # p \/ u # t => pc'[q][u] = pc[q][u]
  BY Placed DEF TierStep, PlaceTypes
<1>2. SetTypes /\ ProcTypes /\ PlaceTypes /\ GrabTypes /\ GrabsLive
  BY TypesSplit
<1>3. SetTypes'
  <2>1. CASE LookUp(p, t)
    BY <1>2, <2>1 DEF LookUp, SetTypes
  <2>2. CASE Register(p, t)
    BY <1>2, <2>2 DEF Register, SetTypes
  <2>3. CASE FirstOpen(p, t)
    BY <1>2, <2>3 DEF FirstOpen, Reoffers, SetTypes
  <2>4. CASE StartFails(p, t)
    BY <1>2, <2>4, Unknown DEF StartFails, github, SetTypes
  <2> QED
    BY <2>1, <2>2, <2>3, <2>4
<1>4. ProcTypes'
  <2>1. UNCHANGED seen /\ created' \in [Procs -> SUBSET Tiers]
    BY <1>2 DEF LookUp, Register, FirstOpen, StartFails, reconciler, ProcTypes
  <2>2. proc' \in [Procs -> Lives]
    BY <1>2 DEF LookUp, Register, FirstOpen, StartFails, Becomes, ProcTypes, Lives
  <2> QED
    BY <1>2, <2>1, <2>2 DEF ProcTypes
<1>5. UNCHANGED grabbed /\ pc[p][t] # "live"
  BY DEF LookUp, Register, FirstOpen, StartFails, Moves, reconciler, Starting
<1>6. GrabTypes' /\ GrabsLive'
  BY <1>1, <1>2, <1>5, GrabsKept DEF GrabTypes, GrabsLive
<1> QED
  BY <1>1, <1>3, <1>4, <1>6, TypesSplit, PTL

LEMMA RunTypes ==
  ASSUME ListenerTypeOK, NEW p \in Procs, NEW t \in Tiers,
         \/ SessionFails(p, t) \/ Grab(p, t) \/ Recycle(p, t) \/ CloseSession(p, t)
         \/ Reopen(p, t) \/ ReopenFails(p, t) \/ Fatal(p, t) \/ Restarts(p, t) \/ TierStopped(p, t)
  PROVE  ListenerTypeOK'
<1>1. /\ PlaceTypes'
      /\ \A q \in Procs, u \in Tiers : q # p \/ u # t => pc'[q][u] = pc[q][u]
  BY Placed DEF TierStep, PlaceTypes
<1>2. SetTypes /\ ProcTypes /\ PlaceTypes /\ GrabTypes /\ GrabsLive
  BY TypesSplit
<1>3. SetTypes'
  <2>1. UNCHANGED <<exists, known>> /\ (UNCHANGED stuck \/ Reoffers(t))
    BY Unknown DEF Moves, SessionFails, Grab, Recycle, CloseSession, Reopen, ReopenFails, Fatal,
       TierStopped, Restarts, github
  <2>2. \/ UNCHANGED holder \/ Closes(p, t) \/ holder' = [holder EXCEPT ![t] = p]
        \/ holder' = [holder EXCEPT ![t] = Expiring]
    BY Unknown DEF Moves, SessionFails, Grab, Recycle, CloseSession, Reopen, ReopenFails, Fatal,
       TierStopped, Restarts, github
  <2>3. stuck' \subseteq Tiers
    BY <1>2, <2>1 DEF Reoffers, SetTypes
  <2>4. holder' \in [Tiers -> Procs \cup {Nobody, Expiring}]
    BY <1>2, <2>2 DEF Closes, SetTypes
  <2> QED
    BY <1>2, <2>1, <2>3, <2>4 DEF SetTypes
<1>4. ProcTypes'
  <2>1. UNCHANGED created /\ \E life \in Lives : UNCHANGED proc \/ proc' = [proc EXCEPT ![p] = life]
    BY DEF SessionFails, Grab, Recycle, CloseSession, Reopen, ReopenFails, Fatal, TierStopped,
       Restarts,
       Becomes, Lives
  <2>2. UNCHANGED seen \/ seen' = SeenBy(p, t, stuck')
    BY DEF SessionFails, Grab, Recycle, CloseSession, Reopen, ReopenFails, Fatal, TierStopped,
       Restarts, reconciler
  <2>3. seen' \in [Procs -> SUBSET Tiers]
    BY <1>2, <2>2 DEF SeenBy, ProcTypes
  <2> QED
    BY <1>2, <2>1, <2>3 DEF ProcTypes
<1>5. CASE SessionFails(p, t) \/ Recycle(p, t)
  <2>1. PICK to \in {"none", "old"} :
          grabbed' = [grabbed EXCEPT ![p][t] = to] \/ (UNCHANGED grabbed /\ grabbed[p][t] # "this")
    <3>1. grabbed[p][t] # "this" => [grabbed EXCEPT ![p][t] = IF @ = "this" THEN "old" ELSE @] = grabbed
      BY <1>2 DEF GrabTypes
    <3> QED
      BY <1>5, <3>1 DEF SessionFails, SessionEnds, Recycle
  <2>2. GrabTypes' /\ grabbed'[p][t] # "this"
        /\ \A q \in Procs, u \in Tiers : q # p \/ u # t => grabbed'[q][u] = grabbed[q][u]
    BY <1>2, <2>1, OneGrab DEF GrabTypes
  <2>3. GrabsLive'
    BY <1>1, <1>2, <2>2, GrabsKept
  <2> QED
    BY <1>1, <1>3, <1>4, <2>2, <2>3, TypesSplit, PTL
<1>6. CASE Grab(p, t)
  <2>1. GrabTypes' /\ \A q \in Procs, u \in Tiers : q # p \/ u # t => grabbed'[q][u] = grabbed[q][u]
    BY <1>2, <1>6, OneGrab DEF Grab
  <2>2. pc'[p][t] = "live"
    BY <1>6 DEF Grab
  <2>3. GrabsLive'
    BY <1>1, <1>2, <2>1, <2>2, GrabsKept
  <2> QED
    BY <1>1, <1>3, <1>4, <2>1, <2>2, <2>3, TypesSplit, PTL
<1>7. CASE CloseSession(p, t) \/ Reopen(p, t) \/ ReopenFails(p, t) \/ Fatal(p, t) \/ Restarts(p, t) \/ TierStopped(p, t)
  <2>1. UNCHANGED grabbed /\ pc[p][t] # "live"
    BY <1>7 DEF CloseSession, Reopen, ReopenFails, Fatal, TierStopped, Restarts, Moves, reconciler
  <2>2. GrabTypes' /\ grabbed'[p][t] # "this"
    BY <1>2, <2>1 DEF GrabTypes, GrabsLive
  <2>3. GrabsLive'
    BY <1>1, <1>2, <2>1, <2>2, GrabsKept
  <2> QED
    BY <1>1, <1>3, <1>4, <2>1, <2>2, <2>3, TypesSplit, PTL
<1> QED
  BY <1>5, <1>6, <1>7

LEMMA EndTypes ==
  ASSUME ListenerTypeOK, NEW p \in Procs, NEW t \in Tiers,
         RunReturns(p, t) \/ CloseAll(p, t) \/ Deregister(p, t)
  PROVE  ListenerTypeOK'
<1>1. /\ PlaceTypes'
      /\ \A q \in Procs, u \in Tiers : q # p \/ u # t => pc'[q][u] = pc[q][u]
  BY Placed DEF TierStep, PlaceTypes
<1>2. SetTypes /\ ProcTypes /\ PlaceTypes /\ GrabTypes /\ GrabsLive
  BY TypesSplit
<1>3. SetTypes'
  <2>1. CASE RunReturns(p, t)
    BY <1>2, <2>1 DEF RunReturns, github, SetTypes
  <2>2. CASE CloseAll(p, t)
    BY <1>2, <2>2 DEF CloseAll, Closes, SetTypes
  <2>3. CASE Deregister(p, t)
    BY <1>2, <2>3 DEF Deregister, github, SetTypes
  <2> QED
    BY <2>1, <2>2, <2>3
<1>4. ProcTypes'
  BY <1>2 DEF RunReturns, CloseAll, Deregister, reconciler, ProcTypes
<1>5. CASE RunReturns(p, t)
  <2>1. PICK to \in {"none", "old"} :
          grabbed' = [grabbed EXCEPT ![p][t] = to] \/ (UNCHANGED grabbed /\ grabbed[p][t] # "this")
    <3>1. grabbed[p][t] # "this" => [grabbed EXCEPT ![p][t] = IF @ = "this" THEN "old" ELSE @] = grabbed
      BY <1>2 DEF GrabTypes
    <3> QED
      BY <1>5, <3>1 DEF RunReturns, SessionEnds
  <2>2. GrabTypes' /\ grabbed'[p][t] # "this"
        /\ \A q \in Procs, u \in Tiers : q # p \/ u # t => grabbed'[q][u] = grabbed[q][u]
    BY <1>2, <2>1, OneGrab DEF GrabTypes
  <2>3. GrabsLive'
    BY <1>1, <1>2, <2>2, GrabsKept
  <2> QED
    BY <1>1, <1>3, <1>4, <2>2, <2>3, TypesSplit, PTL
<1>6. CASE CloseAll(p, t) \/ Deregister(p, t)
  <2>1. UNCHANGED grabbed /\ pc[p][t] # "live"
    BY <1>6 DEF CloseAll, Deregister, Moves, reconciler
  <2>2. GrabTypes' /\ grabbed'[p][t] # "this"
    BY <1>2, <2>1 DEF GrabTypes, GrabsLive
  <2>3. GrabsLive'
    BY <1>1, <1>2, <2>1, <2>2, GrabsKept
  <2> QED
    BY <1>1, <1>3, <1>4, <2>1, <2>2, <2>3, TypesSplit, PTL
<1> QED
  BY <1>5, <1>6

LEMMA ProcessTypes ==
  ASSUME ListenerTypeOK, NEW p \in Procs,
         Start(p) \/ Serves(p) \/ Sigterm(p) \/ Exit(p) \/ Crash(p)
  PROVE  ListenerTypeOK'
<1>1. SetTypes /\ ProcTypes /\ PlaceTypes /\ GrabTypes /\ GrabsLive
  BY TypesSplit
<1>2. CASE Start(p) \/ Sigterm(p)
  <2>1. UNCHANGED <<github, pc, created, reconciler>> /\ proc' \in [Procs -> Lives]
    BY <1>1, <1>2 DEF Start, Sigterm, Becomes, ProcTypes, Lives
  <2> QED
    BY <1>1, <2>1 DEF github, reconciler, SetTypes, ProcTypes, PlaceTypes, GrabTypes, GrabsLive,
       ListenerTypeOK
<1>3. CASE Serves(p)
  <2>1. UNCHANGED <<github, created, reconciler>> /\ proc' \in [Procs -> Lives]
    BY <1>1, <1>3 DEF Serves, Becomes, ProcTypes, Lives
  <2>2. /\ PlaceTypes' /\ \A q \in Procs \ {p}, u \in Tiers : pc'[q][u] = pc[q][u]
        /\ \A u \in Tiers : pc'[p][u] = "live"
    <3>1. "live" \in Places
      BY DEF Places, Running
    <3> QED
      BY <1>1, <1>3, <3>1 DEF Serves, PlaceTypes
  <2>3. GrabsLive'
    BY <1>1, <2>1, <2>2 DEF reconciler, GrabsLive
  <2>4. SetTypes' /\ ProcTypes' /\ GrabTypes'
    BY <1>1, <2>1 DEF github, reconciler, SetTypes, ProcTypes, GrabTypes
  <2> QED
    BY <2>2, <2>3, <2>4, TypesSplit, PTL
<1>4. CASE Exit(p) \/ Crash(p)
  <2>1. PlaceTypes' /\ \A q \in Procs \ {p}, u \in Tiers : pc'[q][u] = pc[q][u]
    <3>1. "off" \in Places
      BY DEF Places
    <3> QED
      BY <1>1, <1>4, <3>1 DEF Exit, Crash, PlaceTypes
  <2>2. ProcTypes'
    BY <1>1, <1>4 DEF Exit, Crash, Becomes, Forgets, ProcTypes, Lives
  <2>3. /\ GrabTypes' /\ \A q \in Procs \ {p}, u \in Tiers : grabbed'[q][u] = grabbed[q][u]
        /\ \A u \in Tiers : grabbed'[p][u] = "none"
    BY <1>1, <1>4 DEF Exit, Crash, Forgets, GrabTypes
  <2>4. GrabsLive'
    BY <1>1, <2>1, <2>3 DEF GrabsLive
  <2>5. SetTypes'
    <3>1. CASE Exit(p)
      BY <1>1, <3>1 DEF Exit, SetTypes
    <3>2. CASE Crash(p)
      BY <1>1, <3>2 DEF Crash, SetTypes
    <3> QED
      BY <1>4, <3>1, <3>2
  <2> QED
    BY <2>1, <2>2, <2>3, <2>4, <2>5, TypesSplit, PTL
<1> QED
  BY <1>2, <1>3, <1>4

LEMMA NextTypes == ListenerTypeOK /\ [Next]_vars => ListenerTypeOK'
<1> SUFFICES ASSUME ListenerTypeOK, [Next]_vars PROVE ListenerTypeOK'
  OBVIOUS
<1>1. CASE UNCHANGED vars
  BY <1>1 DEF vars, github, reconciler, ListenerTypeOK
<1>2. ASSUME NEW t \in Tiers, Expires(t) \/ GetsStuck(t) PROVE ListenerTypeOK'
  BY <1>2 DEF Expires, GetsStuck, reconciler, ListenerTypeOK
<1>3. ASSUME NEW p \in Procs, NEW t \in Tiers, Message(p, t) PROVE ListenerTypeOK'
  BY <1>3 DEF Message, SeenBy, github, ListenerTypeOK
<1>4. ASSUME NEW p \in Procs, NEW t \in Tiers, TierStep(p, t) PROVE ListenerTypeOK'
  BY <1>4, StartTypes, RunTypes, EndTypes DEF TierStep
<1>5. ASSUME NEW p \in Procs, NEW t \in Tiers, SessionFails(p, t) \/ Fatal(p, t) PROVE ListenerTypeOK'
  BY <1>5, RunTypes
<1>6. ASSUME NEW p \in Procs, ProcessStep(p) \/ Start(p) \/ Sigterm(p) \/ Crash(p) PROVE ListenerTypeOK'
  BY <1>6, ProcessTypes DEF ProcessStep
<1> QED
  BY <1>1, <1>2, <1>3, <1>4, <1>5, <1>6 DEF Next


-----------------------------------------------------------------------------
(* Who deletes a set.                                                      *)

\* No step undoes a fault.
LEMMA FaultsCount ==
  ASSUME faults \in Nat, [Next]_vars
  PROVE  faults' \in Nat /\ faults' >= faults
<1>1. UNCHANGED faults \/ (faults < MaxFaults /\ faults' = faults + 1)
  BY DEF Next, vars, bounds, ProcessStep, Start, Serves, Exit, Sigterm, Crash, TierStep, LookUp,
     Register, FirstOpen, Reoffers, StartFails, Grab, Recycle, CloseSession, Closes, Reopen,
     ReopenFails, DoneUnknown, Restarts, TierStopped, RunReturns, CloseAll, Deregister, Message,
     SessionFails, Fatal, Expires, GetsStuck, Fault, NoFault
<1> QED
  BY <1>1

\* A step that leaves w's part of a set as it is.
LEMMA KeepsOwning ==
  ASSUME NEW w \in Procs, NEW t \in Tiers, Owns(w, t), proc'[w] \notin {"unused", "down", "off"},
         created[w] \subseteq created'[w], w \in known'[t], pc'[w][t] # "off"
  PROVE  Owns(w, t)'
BY DEF Owns

\* Startup. New closes and deletes what it created when a session cannot be opened.
LEMMA StartOwns ==
  ASSUME ListenerTypeOK, NEW p \in Procs, NEW u \in Tiers,
         LookUp(p, u) \/ Register(p, u) \/ FirstOpen(p, u) \/ StartFails(p, u),
         NEW t \in exists, NEW w \in Procs, Owns(w, t)
  PROVE  Owns(w, t)'
<1>1. t \in Tiers /\ w \in known[t] /\ t \in created[w]
  BY DEF Owns, ListenerTypeOK
<1>2. proc'[w] \notin {"unused", "down", "off"}
  BY DEF Owns, LookUp, Register, FirstOpen, StartFails, Becomes, ListenerTypeOK
<1>3. created[w] \subseteq created'[w]
  BY DEF LookUp, Register, FirstOpen, StartFails, ListenerTypeOK
<1>4. w \in known'[t]
  <2>1. CASE LookUp(p, u) \/ Register(p, u) \/ FirstOpen(p, u)
    BY <1>1, <2>1 DEF LookUp, Register, FirstOpen, github, ListenerTypeOK
  <2>2. CASE StartFails(p, u)
    <3>1. \/ UNCHANGED known
          \/ u \notin exists /\ known' = [known EXCEPT ![u] = {}]
      BY <2>2, Unknown DEF StartFails, github
    <3> QED
      BY <1>1, <3>1 DEF ListenerTypeOK
  <2> QED
    BY <2>1, <2>2
<1>5. pc'[w][t] # "off"
  <2>1. PICK to \in Places : pc' = [pc EXCEPT ![p][u] = to] /\ (u \in created[p] => to # "off")
    <3>1. CASE LookUp(p, u) \/ Register(p, u) \/ FirstOpen(p, u)
      BY <3>1 DEF LookUp, Register, FirstOpen, Moves, Places, Starting
    <3>2. CASE StartFails(p, u)
      <4>1. {"closed", "off"} \subseteq Places
        BY DEF Places
      <4>2. CASE u \in created[p]
        BY <3>2, <4>1, <4>2 DEF StartFails
      <4>3. CASE u \notin created[p]
        BY <3>2, <4>1, <4>3 DEF StartFails
      <4> QED
        BY <4>2, <4>3
    <3> QED
      BY <3>1, <3>2
  <2>2. pc \in [Procs -> [Tiers -> Places]]
    BY DEF ListenerTypeOK
  <2>3. CASE w = p /\ t = u
    BY <1>1, <2>1, <2>2, <2>3, OnePlace
  <2>4. CASE w # p \/ t # u
    BY <1>1, <2>1, <2>2, <2>4, OnePlace DEF Owns
  <2> QED
    BY <2>3, <2>4
<1> QED
  BY <1>1, <1>2, <1>3, <1>4, <1>5, KeepsOwning

\* A session, its end, its recycling and closeAll up to the deregistration.
LEMMA RunOwns ==
  ASSUME ListenerTypeOK, NEW p \in Procs, NEW u \in Tiers,
         \/ SessionFails(p, u) \/ Grab(p, u) \/ Recycle(p, u) \/ CloseSession(p, u)
         \/ Reopen(p, u) \/ ReopenFails(p, u) \/ Fatal(p, u) \/ Restarts(p, u) \/ TierStopped(p, u)
         \/ RunReturns(p, u) \/ CloseAll(p, u) \/ Message(p, u),
         NEW t \in exists, NEW w \in Procs, Owns(w, t)
  PROVE  Owns(w, t)'
<1>1. t \in Tiers
  BY DEF ListenerTypeOK
<1>2. UNCHANGED <<created, known>>
  BY Unknown DEF Moves, SessionFails, Grab, Recycle, CloseSession, Reopen, ReopenFails, Fatal,
     TierStopped, Restarts,
     RunReturns, CloseAll, Message, github
<1>3. proc'[w] \notin {"unused", "down", "off"}
  <2>1. \E life \in {"serving", "failing"} : UNCHANGED proc \/ proc' = [proc EXCEPT ![p] = life]
    BY DEF SessionFails, Grab, Recycle, CloseSession, Reopen, ReopenFails, Fatal, TierStopped,
       Restarts,
       RunReturns, CloseAll, Message, Becomes
  <2> QED
    BY <2>1 DEF Owns, ListenerTypeOK
<1>4. pc'[w][t] # "off"
  <2>1. UNCHANGED pc \/ \E to \in Places \ {"off"} : pc' = [pc EXCEPT ![p][u] = to]
    BY DEF SessionFails, Grab, Recycle, CloseSession, Reopen, ReopenFails, Fatal, TierStopped,
       Restarts,
       RunReturns, CloseAll, Message, Moves, Places, Running
  <2>2. pc \in [Procs -> [Tiers -> Places]] /\ pc[w][t] # "off"
    BY DEF ListenerTypeOK, Owns
  <2>3. ASSUME NEW to \in Places \ {"off"}, pc' = [pc EXCEPT ![p][u] = to] PROVE pc'[w][t] # "off"
    <3>1. /\ pc'[p][u] = to
          /\ \A q \in Procs, v \in Tiers : q # p \/ v # u => pc'[q][v] = pc[q][v]
      BY <2>2, <2>3, OnePlace
    <3> QED
      BY <1>1, <2>2, <3>1
  <2> QED
    BY <2>1, <2>2, <2>3
<1> QED
  BY <1>1, <1>2, <1>3, <1>4, KeepsOwning DEF Owns

\* ScaleSet.Close deletes the set of the last one that owns it, and leaves the
\* owner of another alone.
LEMMA DeregisterOwns ==
  ASSUME ListenerTypeOK, NEW p \in Procs, NEW u \in Tiers, Deregister(p, u),
         faults' = faults, faults \in Nat,
         NEW t \in exists', NEW w \in Procs, Owns(w, t)
  PROVE  Owns(w, t)'
<1>1. /\ UNCHANGED <<proc, created>> /\ t \in exists /\ t \in Tiers
      /\ pc' = [pc EXCEPT ![p][u] = "off"] /\ "off" \in Places
      /\ pc \in [Procs -> [Tiers -> Places]]
  BY DEF Deregister, Moves, github, Places, ListenerTypeOK
<1>2. CASE Deletes(p, u)
  <2>1. exists' = exists \ {u} /\ known' = [known EXCEPT ![u] = {}]
    BY <1>2 DEF Deregister, Fault
  <2>2. t # u /\ known'[t] = known[t]
    BY <1>1, <2>1 DEF ListenerTypeOK
  <2>3. pc'[w][t] = pc[w][t]
    BY <1>1, <2>2, OnePlace
  <2> QED
    BY <1>1, <2>2, <2>3, KeepsOwning DEF Owns
<1>3. CASE ~Deletes(p, u)
  <2>1. UNCHANGED known
    BY <1>3 DEF Deregister, github
  <2>2. p # w \/ u # t
    BY <1>3 DEF Deletes, Owns
  <2>3. pc'[w][t] = pc[w][t]
    BY <1>1, <2>2, OnePlace
  <2> QED
    BY <1>1, <2>1, <2>3, KeepsOwning DEF Owns
<1> QED
  BY <1>2, <1>3

\* A process ends only when it owns nothing.
LEMMA ProcessOwns ==
  ASSUME ListenerTypeOK, NEW p \in Procs, Start(p) \/ Serves(p) \/ Exit(p) \/ Sigterm(p),
         NEW t \in exists, NEW w \in Procs, Owns(w, t)
  PROVE  Owns(w, t)'
<1>1. t \in Tiers
  BY DEF ListenerTypeOK
<1>2. CASE Start(p) \/ Sigterm(p)
  BY <1>1, <1>2, KeepsOwning DEF Start, Sigterm, Becomes, github, Owns, ListenerTypeOK
<1>3. CASE Serves(p)
  <2>1. pc'[w][t] # "off" /\ proc'[w] \notin {"unused", "down", "off"}
    BY <1>1, <1>3 DEF Serves, Becomes, Owns, ListenerTypeOK
  <2> QED
    BY <1>1, <1>3, <2>1, KeepsOwning DEF Serves, github, Owns
<1>4. CASE Exit(p)
  <2>1. p # w
    BY <1>1, <1>4 DEF Exit, Owns
  <2>2. /\ proc'[w] = proc[w] /\ created'[w] = created[w] /\ w \in known'[t]
        /\ UNCHANGED pc
    BY <1>1, <1>4, <2>1 DEF Exit, Becomes, Forgets, Owns, ListenerTypeOK
  <2> QED
    BY <1>1, <2>2, KeepsOwning DEF Owns
<1> QED
  BY <1>2, <1>3, <1>4

LEMMA NextRegistered == ListenerInv /\ [Next]_vars => Registered'
<1> SUFFICES ASSUME ListenerInv, [Next]_vars, faults' = 0, NEW t \in exists'
             PROVE  \E p \in Procs : Owns(p, t)'
  BY DEF Registered
<1>1. ListenerTypeOK /\ faults \in Nat /\ faults = 0 /\ faults' = faults
  BY FaultsCount DEF ListenerInv
<1>2. \A u \in exists : \E w \in Procs : Owns(w, u)
  BY <1>1 DEF ListenerInv, Registered
<1>3. CASE UNCHANGED vars
  BY <1>2, <1>3 DEF vars, github, Owns
<1>4. CASE \E u \in Tiers : Expires(u) \/ GetsStuck(u)
  <2>1. UNCHANGED <<exists, known, proc, pc, created>>
    BY <1>4 DEF Expires, GetsStuck
  <2> QED
    BY <1>2, <2>1 DEF Owns
<1>5. ASSUME NEW p \in Procs, Start(p) \/ Serves(p) \/ Exit(p) \/ Sigterm(p)
      PROVE  \E w \in Procs : Owns(w, t)'
  <2>1. UNCHANGED exists
    BY <1>5 DEF Start, Serves, Exit, Sigterm, github
  <2> QED
    BY <1>1, <1>2, <1>5, <2>1, ProcessOwns
<1>6. ASSUME NEW p \in Procs, Crash(p) PROVE FALSE
  BY <1>1, <1>6 DEF Crash, Fault
<1>7. ASSUME NEW p \in Procs, NEW u \in Tiers, Register(p, u), t \notin exists
      PROVE  Owns(p, t)'
  <2>1. /\ t = u /\ proc'[p] = "starting"
        /\ known' = [known EXCEPT ![t] = {p}]
        /\ created' = [created EXCEPT ![p] = @ \cup {t}]
        /\ pc' = [pc EXCEPT ![p][t] = "opening"]
    BY <1>7 DEF Register, Moves
  <2>2. p \in known'[t] /\ t \in created'[p] /\ pc'[p][t] = "opening"
    BY <1>1, <1>7, <2>1 DEF ListenerTypeOK
  <2> QED
    BY <2>1, <2>2 DEF Owns
<1>8. ASSUME NEW p \in Procs, NEW u \in Tiers,
             \/ LookUp(p, u) \/ Register(p, u) \/ FirstOpen(p, u) \/ StartFails(p, u)
             \/ SessionFails(p, u) \/ Grab(p, u) \/ Recycle(p, u) \/ CloseSession(p, u)
             \/ Reopen(p, u) \/ ReopenFails(p, u) \/ Fatal(p, u) \/ Restarts(p, u) \/ TierStopped(p, u)
             \/ RunReturns(p, u) \/ CloseAll(p, u) \/ Message(p, u)
      PROVE  \E w \in Procs : Owns(w, t)'
  <2>1. t \in exists \/ Register(p, u)
    BY <1>1, <1>8, Unknown DEF Moves, LookUp, FirstOpen, StartFails, SessionFails, Grab, Recycle,
       CloseSession, Reopen,
       ReopenFails, Fatal, TierStopped, Restarts, RunReturns, CloseAll, Message, github
  <2> QED
    BY <1>1, <1>2, <1>7, <1>8, <2>1, StartOwns, RunOwns
<1>9. ASSUME NEW p \in Procs, NEW u \in Tiers, Deregister(p, u)
      PROVE  \E w \in Procs : Owns(w, t)'
  <2>1. t \in exists
    BY <1>9 DEF Deregister, github
  <2> QED
    BY <1>1, <1>2, <1>9, <2>1, DeregisterOwns
<1> QED
  BY <1>3, <1>4, <1>5, <1>6, <1>8, <1>9 DEF Next, ProcessStep, TierStep

LEMMA SpecListener == Spec => []ListenerInv
<1>1. Init => ListenerInv
  BY DEF Init, ListenerInv, ListenerTypeOK, Registered, Lives, Places
<1>2. ListenerInv /\ [Next]_vars => ListenerInv'
  BY NextTypes, NextRegistered, FaultsCount DEF ListenerInv
<1> QED
  BY <1>1, <1>2, PTL DEF Spec

-----------------------------------------------------------------------------
(* Theorems.                                                               *)

\* The types hold, and the cancel func Recycle read last is that of the session
\* there is, or nothing's.
THEOREM ListenerTypesHold == Spec => []ListenerTypeOK
<1>1. ListenerInv => ListenerTypeOK
  BY DEF ListenerInv
<1> QED
  BY <1>1, SpecListener, PTL

\* Whoever registers, reuses, loses and deletes the scale sets in whatever order:
\* if no request failed, the last process that closes its listeners leaves none.
THEOREM LastOneHolds == Spec => []LastOneDeregisters
<1>1. ListenerInv => LastOneDeregisters
  <2> SUFFICES ASSUME ListenerInv, \A p \in Procs : proc[p] \in {"unused", "off"}, faults = 0,
                      NEW t \in exists
               PROVE  FALSE
    BY DEF LastOneDeregisters
  <2>1. PICK p \in Procs : Owns(p, t)
    BY DEF ListenerInv, Registered
  <2> QED
    BY <2>1 DEF Owns
<1> QED
  BY <1>1, SpecListener, PTL
===============================================================================
