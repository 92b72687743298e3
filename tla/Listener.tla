------------------------------ MODULE Listener -------------------------------
(***************************************************************************)
(* Daemons that serve the same scale sets, as a redeploy or a crash leaves *)
(* them: registration, the message session and its reconnects              *)
(* (internal/listener/scaleset.go), the reconciler's recycling of it       *)
(* (internal/reconcile/reconcile.go), the tiers of one process and its end *)
(* (serveTiers and serve in cmd/firerunner/main.go), and GitHub's side.    *)
(*  proc[p]    a process; its supervisor starts a "down" one again         *)
(*  pc[p][t]   where p is with the scale set of tier t                     *)
(* Backoff, attempts and deadlines are left out: a wait ends some time.    *)
(***************************************************************************)
EXTENDS Integers, FiniteSets

CONSTANTS
    Procs,
    NTiers,      \* tiers, in the order of the configuration
    Nobody,      \* no session is active
    Expiring,    \* one is whose process is gone
    MaxFaults,   \* requests that fail although they need not, crashes among them: a bound
    MaxStuck     \* how often jobs are left unacquired: a bound

ASSUME ListenerAssumption ==
    /\ {NTiers, MaxFaults, MaxStuck} \subseteq Nat
    /\ Nobody # Expiring /\ {Nobody, Expiring} \cap Procs = {}

Tiers == 1 .. NTiers

VARIABLES
    exists,      \* tiers whose scale set is registered
    known,       \* known[t]: processes that have the ID of the set that exists
    holder,      \* whose session on the set is active
    stuck,       \* tiers with jobs that are available and nobody acquired
    proc, pc,
    created,     \* created[p]: the sets p registered itself
    seen,        \* seen[p]: tiers whose last statistics show stuck jobs
    grabbed,     \* the cancel func Recycle read: of the session there is, or of an older one
    faults, strandings

github == <<exists, known, holder, stuck>>
reconciler == <<seen, grabbed>>
bounds == <<faults, strandings>>
vars == <<github, proc, pc, created, reconciler, bounds>>

Lives == {"unused", "starting", "serving", "stopping", "failing", "down", "off"}
Starting == {"found", "absent", "opening"}
Running == {"live", "closing", "recycling", "reopen", "waiting", "ended"}
Places == {"off", "ready", "stopped", "shut", "closed"} \cup Starting \cup Running
Ending(p) == proc[p] \in {"stopping", "failing"}

\* Types; and the cancel func read last is that of the live session, if there is one.
ListenerTypeOK ==
    /\ exists \subseteq Tiers /\ stuck \subseteq Tiers
    /\ known \in [Tiers -> SUBSET Procs]
    /\ holder \in [Tiers -> Procs \cup {Nobody, Expiring}]
    /\ proc \in [Procs -> Lives]
    /\ pc \in [Procs -> [Tiers -> Places]]
    /\ {created, seen} \subseteq [Procs -> SUBSET Tiers]
    /\ grabbed \in [Procs -> [Tiers -> {"none", "this", "old"}]]
    /\ \A p \in Procs, t \in Tiers : grabbed[p][t] = "this" => pc[p][t] = "live"

Moves(p, t, from, to) == pc[p][t] \in from /\ pc' = [pc EXCEPT ![p][t] = to]
Becomes(p, life) == proc' = [proc EXCEPT ![p] = life]
Fault == faults < MaxFaults /\ faults' = faults + 1 /\ UNCHANGED strandings
NoFault == UNCHANGED bounds

\* What GitHub answers a request to open a session.
Opens(p, t) == p \in known[t] /\ holder[t] = Nobody
Gone(p, t) == p \notin known[t]

\* A process forgets what it had.
Forgets(p) ==
    /\ created' = [created EXCEPT ![p] = {}] /\ seen' = [seen EXCEPT ![p] = {}]
    /\ grabbed' = [grabbed EXCEPT ![p] = [t \in Tiers |-> "none"]]

-----------------------------------------------------------------------------
(* Startup: serve registers one tier after the other.                      *)

Start(p) ==
    /\ proc[p] \in {"unused", "down"}
    /\ Becomes(p, "starting")
    /\ UNCHANGED <<github, pc, created, reconciler, bounds>>

\* registerScaleSet looks the set up ...
LookUp(p, t) ==
    /\ proc[p] = "starting" /\ \A u \in 1 .. t - 1 : pc[p][u] = "ready"
    /\ IF t \in exists
       THEN Moves(p, t, {"off"}, "found") /\ known' = [known EXCEPT ![t] = @ \cup {p}]
       ELSE Moves(p, t, {"off"}, "absent") /\ UNCHANGED known
    /\ UNCHANGED <<exists, holder, stuck, proc, created, reconciler, bounds>>

\* ... and updates or creates it; what another process did meanwhile makes that fail.
Register(p, t) ==
    /\ proc[p] = "starting"
    /\ \/ /\ Moves(p, t, {"found"}, "opening") /\ p \in known[t]
          /\ UNCHANGED <<exists, known, created>>
       \/ /\ Moves(p, t, {"absent"}, "opening") /\ t \notin exists
          /\ exists' = exists \cup {t} /\ known' = [known EXCEPT ![t] = {p}]
          /\ created' = [created EXCEPT ![p] = @ \cup {t}]
    /\ UNCHANGED <<holder, stuck, proc, reconciler, bounds>>

\* Opening a session re-offers the jobs nobody acquired, "possibly".
Reoffers(t) ==
    \/ stuck' = stuck \ {t} /\ NoFault
    \/ t \in stuck /\ UNCHANGED stuck /\ Fault

FirstOpen(p, t) ==
    /\ proc[p] = "starting" /\ Opens(p, t)
    /\ Moves(p, t, {"opening"}, "ready")
    /\ holder' = [holder EXCEPT ![t] = p]
    /\ Reoffers(t)
    /\ UNCHANGED <<exists, known, proc, created, reconciler>>

\* What a request does at GitHub although its answer is lost: a set is created, that
\* nobody knows of; a session opened, that nobody has.
DoneUnknown(p, t) ==
    /\ Fault
    /\ \/ /\ pc[p][t] = "absent" /\ t \notin exists
          /\ exists' = exists \cup {t} /\ known' = [known EXCEPT ![t] = {}]
          /\ UNCHANGED <<holder, stuck>>
       \/ /\ pc[p][t] \in {"opening", "reopen", "waiting"} /\ Opens(p, t)
          /\ holder' = [holder EXCEPT ![t] = Expiring]
          /\ UNCHANGED <<exists, known, stuck>>

\* A request fails, 12 attempts meet a conflict, or SIGTERM ends the wait: the
\* listeners there are closed, and New deletes the set it created.
StartFails(p, t) ==
    /\ proc[p] \in {"starting", "stopping"} /\ pc[p][t] \in Starting
    /\ \/ DoneUnknown(p, t)
       \/ /\ CASE proc[p] = "stopping" -> NoFault
              [] pc[p][t] = "found" /\ Gone(p, t) -> NoFault
              [] pc[p][t] = "absent" /\ t \in exists -> NoFault
              [] pc[p][t] = "opening" /\ ~Opens(p, t) -> NoFault
              [] OTHER -> Fault
          /\ UNCHANGED github
    /\ pc' = [pc EXCEPT ![p][t] = IF t \in created[p] THEN "closed" ELSE "off"]
    /\ Becomes(p, IF proc[p] = "starting" THEN "failing" ELSE "stopping")
    /\ UNCHANGED <<created, reconciler>>

Serves(p) ==
    /\ proc[p] = "starting" /\ \A t \in Tiers : pc[p][t] = "ready"
    /\ Becomes(p, "serving")
    /\ pc' = [pc EXCEPT ![p] = [t \in Tiers |-> "live"]]
    /\ UNCHANGED <<github, created, reconciler, bounds>>

-----------------------------------------------------------------------------
(* ScaleSet.Run and the reconciler.                                        *)

\* runSession ends: what Recycle read is of an older session now.
SessionEnds(p, t) ==
    grabbed' = [grabbed EXCEPT ![p][t] = IF @ = "this" THEN "old" ELSE @]

\* Statistics come with a message, and with a new session.
SeenBy(p, t, now) ==
    [seen EXCEPT ![p] = IF t \in now THEN @ \cup {t} ELSE @ \ {t}]

\* A long poll returns, with statistics.
Message(p, t) ==
    /\ pc[p][t] = "live" /\ holder[t] = p
    /\ seen' = SeenBy(p, t, stuck)
    /\ UNCHANGED <<github, proc, pc, created, grabbed, bounds>>

SessionFails(p, t) ==
    /\ Moves(p, t, {"live"}, "closing")
    /\ IF holder[t] = p THEN Fault ELSE NoFault
    /\ SessionEnds(p, t)
    /\ UNCHANGED <<github, proc, created, seen>>

\* Recycle reads the cancel func of the live session under the lock ...
Grab(p, t) ==
    /\ proc[p] = "serving" /\ pc[p][t] = "live"
    /\ t \in seen[p] /\ grabbed[p][t] = "none"
    /\ grabbed' = [grabbed EXCEPT ![p][t] = "this"]
    /\ UNCHANGED <<github, proc, pc, created, seen, bounds>>

\* ... and calls it after: it cancels the session it belongs to.
Recycle(p, t) ==
    /\ grabbed[p][t] # "none"
    /\ IF pc[p][t] = "live" /\ grabbed[p][t] = "this"
       THEN Moves(p, t, {"live"}, "recycling") ELSE UNCHANGED pc
    /\ grabbed' = [grabbed EXCEPT ![p][t] = "none"]
    /\ UNCHANGED <<github, proc, created, seen, bounds>>

\* sess.Close; its error is dropped, and GitHub keeps the session for a while.
Closes(p, t) ==
    \/ holder' = [holder EXCEPT ![t] = IF @ = p THEN Nobody ELSE @] /\ NoFault
    \/ holder[t] = p /\ holder' = [holder EXCEPT ![t] = Expiring] /\ Fault

CloseSession(p, t) ==
    /\ \/ Moves(p, t, {"closing"}, "waiting")
       \/ Moves(p, t, {"recycling"}, "reopen")
    /\ Closes(p, t)
    /\ UNCHANGED <<exists, known, stuck, proc, created, reconciler>>

Reopen(p, t) ==
    /\ proc[p] = "serving" /\ Opens(p, t)
    /\ Moves(p, t, {"reopen", "waiting"}, "live")
    /\ holder' = [holder EXCEPT ![t] = p]
    /\ Reoffers(t)
    /\ seen' = SeenBy(p, t, stuck')
    /\ UNCHANGED <<exists, known, proc, created, grabbed>>

\* A session that does not open, whatever the error; its predecessor may have been
\* recycled.
ReopenFails(p, t) ==
    /\ proc[p] = "serving"
    /\ Moves(p, t, {"reopen", "waiting"}, "waiting")
    /\ \/ DoneUnknown(p, t)
       \/ UNCHANGED github /\ IF Opens(p, t) THEN Fault ELSE NoFault
    /\ UNCHANGED <<proc, created, reconciler>>

\* Rejected credentials: Run returns ErrFatal.  They may be rejected for every tier.
Fatal(p, t) ==
    /\ proc[p] = "serving"
    /\ IF \E u \in Tiers : pc[p][u] \in {"ended", "stopped"} THEN NoFault ELSE Fault
    /\ Moves(p, t, {"waiting"}, "ended")
    /\ UNCHANGED <<github, proc, created, reconciler>>

\* Wrong: compares before it counts its own tier.
AllBefore(p, t) == \A u \in Tiers : pc[p][u] = "stopped"

LastTier(p, t) == \A u \in Tiers \ {t} : pc[p][u] = "stopped"

\* serveTiers counts the tier under mu, and leaves the process to the others.
TierStopped(p, t) ==
    /\ proc[p] = "serving"
    /\ Moves(p, t, {"ended"}, "stopped")
    /\ Becomes(p, IF LastTier(p, t) THEN "failing" ELSE "serving")
    /\ UNCHANGED <<github, created, reconciler, bounds>>

\* Wrong: a set that is gone is waited for.
NeverGone(p, t) == FALSE

SetGone(p, t) == Gone(p, t)

\* ErrRestart, which ends every tier.
Restarts(p, t) ==
    /\ proc[p] = "serving" /\ SetGone(p, t)
    /\ Moves(p, t, {"waiting"}, "shut")
    /\ Becomes(p, "failing")
    /\ UNCHANGED <<github, created, reconciler, bounds>>

-----------------------------------------------------------------------------
(* The end of a process.                                                   *)

Sigterm(p) ==
    /\ proc[p] \in {"starting", "serving"}
    /\ Becomes(p, "stopping")
    /\ UNCHANGED <<github, pc, created, reconciler, bounds>>

\* ctx is done: Run returns, but for a Close under way, or serveTiers sees it.
RunReturns(p, t) ==
    /\ Ending(p)
    /\ Moves(p, t, {"live", "reopen", "waiting", "ended"}, "shut")
    /\ SessionEnds(p, t)
    /\ UNCHANGED <<github, proc, created, seen, bounds>>

\* closeAll, after the drain: ScaleSet.Close closes the session ...
CloseAll(p, t) ==
    /\ Ending(p)
    /\ \A u \in Tiers : pc[p][u] \notin Running \cup Starting \cup {"closed"}
    /\ \A u \in 1 .. t - 1 : pc[p][u] = "off"
    /\ Moves(p, t, {"ready", "shut", "stopped"}, "closed")
    /\ Closes(p, t)
    /\ UNCHANGED <<exists, known, stuck, proc, created, reconciler>>

\* Wrong: a set another process registered is left to it.
Nothing(p, t) == FALSE

\* ... and deletes a set that is p's own.
Deletes(p, t) == t \in created[p] /\ p \in known[t]

Deregister(p, t) ==
    /\ Ending(p) /\ Moves(p, t, {"closed"}, "off")
    /\ IF Deletes(p, t)
       THEN \/ /\ exists' = exists \ {t} /\ stuck' = stuck \ {t}
               /\ known' = [known EXCEPT ![t] = {}]
               /\ holder' = [holder EXCEPT ![t] = Nobody]
               /\ NoFault
            \/ UNCHANGED github /\ Fault
       ELSE UNCHANGED <<github, bounds>>
    /\ UNCHANGED <<proc, created, reconciler>>

\* A process that failed is started again; one that was asked to stop is not.
Exit(p) ==
    /\ Ending(p) /\ \A t \in Tiers : pc[p][t] = "off"
    /\ Becomes(p, IF proc[p] = "failing" THEN "down" ELSE "off")
    /\ Forgets(p)
    /\ known' = [t \in Tiers |-> known[t] \ {p}]
    /\ UNCHANGED <<exists, holder, stuck, pc, bounds>>

\* A message deleted and not acted on leaves its jobs available.
Crash(p) ==
    /\ proc[p] \notin {"unused", "down", "off"} /\ Fault
    /\ Becomes(p, "down") /\ Forgets(p)
    /\ pc' = [pc EXCEPT ![p] = [t \in Tiers |-> "off"]]
    /\ known' = [t \in Tiers |-> known[t] \ {p}]
    /\ holder' = [t \in Tiers |-> IF holder[t] = p THEN Expiring ELSE holder[t]]
    /\ stuck' \in {stuck, stuck \cup {t \in exists : holder[t] = p}}
    /\ UNCHANGED exists

Expires(t) ==
    /\ holder[t] = Expiring
    /\ holder' = [holder EXCEPT ![t] = Nobody]
    /\ UNCHANGED <<exists, known, stuck, proc, pc, created, reconciler, bounds>>

\* An acquire that failed, say.
GetsStuck(t) ==
    /\ t \in exists \ stuck /\ strandings < MaxStuck
    /\ stuck' = stuck \cup {t}
    /\ strandings' = strandings + 1
    /\ UNCHANGED <<exists, known, holder, proc, pc, created, reconciler, faults>>

Init ==
    /\ exists = {} /\ stuck = {}
    /\ known = [t \in Tiers |-> {}] /\ holder = [t \in Tiers |-> Nobody]
    /\ proc = [p \in Procs |-> "unused"]
    /\ pc = [p \in Procs |-> [t \in Tiers |-> "off"]]
    /\ created = [p \in Procs |-> {}] /\ seen = [p \in Procs |-> {}]
    /\ grabbed = [p \in Procs |-> [t \in Tiers |-> "none"]]
    /\ faults = 0 /\ strandings = 0

\* What a process does by itself once it runs, and the goroutine of each tier,
\* with a poll that cannot succeed failing.
ProcessStep(p) == (proc[p] = "down" /\ Start(p)) \/ Serves(p) \/ Exit(p)

TierStep(p, t) ==
    \/ LookUp(p, t) \/ Register(p, t) \/ FirstOpen(p, t) \/ StartFails(p, t)
    \/ Grab(p, t) \/ Recycle(p, t)
    \/ CloseSession(p, t) \/ Reopen(p, t) \/ ReopenFails(p, t)
    \/ Restarts(p, t) \/ TierStopped(p, t)
    \/ RunReturns(p, t) \/ CloseAll(p, t) \/ Deregister(p, t)

Next ==
    \/ \E p \in Procs :
          \/ ProcessStep(p) \/ Start(p) \/ Sigterm(p) \/ Crash(p)
          \/ \E t \in Tiers : \/ TierStep(p, t) \/ Message(p, t)
                              \/ SessionFails(p, t) \/ Fatal(p, t)
    \/ \E t \in Tiers : Expires(t) \/ GetsStuck(t)

Spec == Init /\ [][Next]_vars

\* Supervisor, process and tier goroutines go on; a poll that cannot succeed
\* fails, one that can returns; GitHub lets a session without a process expire.
Fairness ==
    /\ \A p \in Procs :
          /\ WF_vars(ProcessStep(p))
          /\ \A t \in Tiers :
                WF_vars(\/ TierStep(p, t)
                        \/ Message(p, t) /\ seen' # seen
                        \/ SessionFails(p, t) /\ NoFault)
    /\ WF_vars(\E t \in Tiers : Expires(t))

FairSpec == Spec /\ Fairness

-----------------------------------------------------------------------------
(* Properties.                                                             *)

\* Without a crash or a failed request, the last process to stop leaves no scale
\* set behind, in whichever order they created, reused and deleted it.
LastOneDeregisters ==
    (\A p \in Procs : proc[p] \in {"unused", "off"}) /\ faults = 0
        => exists = {}

Alone(p) ==
    /\ proc[p] \notin {"unused", "off", "stopping"}
    /\ \A q \in Procs \ {p} : proc[q] \in {"unused", "off"}

\* Once the other process is gone, the one that stays serves every tier: with a
\* session on a set that exists, though that set was deleted under it or the old
\* session was left open, and with no job left that nobody acquired. It may do
\* without a tier that stopped for good, but never without all of them.
RedeployServes ==
    \A p \in Procs :
        Alone(p) ~> \/ ~Alone(p)
                    \/ /\ \A t \in Tiers :
                             \/ pc[p][t] = "live" /\ holder[t] = p /\ t \notin stuck
                             \/ pc[p][t] = "stopped"
                       /\ \E t \in Tiers : pc[p][t] = "live"
=============================================================================
