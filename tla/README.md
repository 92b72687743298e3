# firerunner in TLA+

Specifications, model-checking configurations and machine-checked proofs for
firerunner, a Go program that serves GitHub Actions jobs on one-shot virtual
machines. Each definition is translated from the Go source; `PROJECT.json`
maps it to its file and lines.

## The system

A *tier* is a `runs-on` label with a machine shape. For each tier one listener
holds a message session with GitHub, one scheduler turns GitHub's job counts
into launches, and a provisioner (Firecracker on this host, or EC2) runs each
launch's machine until its one job is over. `main.go` wires the tiers together
and drains them on shutdown.

| Component (source) | State | Operations | Interacts with |
|---|---|---|---|
| Scheduler (`internal/scheduler`) | counters `running`, `pending`, `backingOff`; map of handles with flags busy, cancelled, removing, completed; removal queue and loop; last job count; floor | `Reconcile`, `SetMin`, `launchOne`, re-plan on exit, `maintainMinimum`, scale-down, removal loop, `MarkBusy`, `MarkCompleted`, `CancelLost`, `Drain` | listener callbacks, provisioner, JIT source, reconciler, schedule, shared `PendingLaunches` |
| Listener (`internal/listener`) | the session, the cancel function of the running session, statistics, client pool, last advertised capacity | `Run` (reconnect with backoff), `Recycle`, message callbacks, `JITSource.Generate`, `RemoveRunner`, `Exists`, `Close` | GitHub, scheduler, reconciler |
| Reconciler (`internal/reconcile`) | timers since a drift was first seen | `Check` | listener statistics and `Recycle`, scheduler `IdleRunners`/`CancelLost` |
| EC2 pool, launch, reaper (`internal/ec2`) | ready list, warming map, live set, tags at AWS | `Pool.Run`, `claim`, `SetTarget`, `Launch`, `waiter.run`, `Sweep` | AWS, JIT server, scheduler |
| JIT server (`internal/jitserver`) | one-time config per address, tombstones | `Register`, `Revoke`, `claim` | guests, EC2 launch |
| Firecracker (`internal/provisioner`) | slot pool, tap and network namespace per slot, watchdog and lifetime timers | `Launch`, `CleanupStale`, network set-up | host, scheduler, job identity |
| Job identity (`internal/jobidentity`) | a file per address, leases, in-flight resolutions | `Register`, `Start`, `refresh`, `Release`, `Close`, `Resolve` | GitHub, Firecracker, cache server |
| Cache server (`internal/cacheserver`) | entries, staged blocks, index file | create, upload, finalize, lookup, download, evict, gc, load | guests, job identity |
| Schedule (`internal/schedule`) | last applied sizes | `At`, `Follow` | pool, scheduler |
| Health (`internal/health`), configuration (`internal/config`), diagnostics (`internal/diag`), egress rules, artifact proxy | reporting, parsing, formatting or stateless I/O | | |

### What is hard here

* **Scheduler.** Every launch is a goroutine with six ways out; its handle's
  flags are set by the console reader, the message loop, the removal loop, the
  reconciler and the shutdown watcher. Correct means: the counters are the
  launches they stand for and never pass Max; a machine that has a job is never
  cancelled; scaling down leaves what the queue and the floor need; a removal
  is in one place until it is settled; a shutdown completes and leaves nothing
  running.
* **Removal.** Deregistering an idle runner takes up to three requests, each
  can fail, and GitHub may assign a job in between. Correct means: a machine
  GitHub gave a job is not cancelled, even before its guest knows; an unknown
  outcome settles; a machine whose runner is gone does not idle for ever.
* **Demand.** Job counts describe the past: a message is acted on after
  machines have exited and jobs have ended. Correct means: a queued job is
  served, with and without another message, and no runner is started for the
  job of the machine whose exit freed the place.
* **EC2.** State lives in tags at AWS, listings are old when used, any call can
  fail between two others, and a crash can fall anywhere. Correct means: no
  machine that runs a job is terminated, and none is leaked.
* **Cache server, identity.** File and network I/O happen outside the locks;
  addresses are reused by later machines. Correct means: no machine reads with
  another's identity, and a finalized entry is the bytes its client uploaded.
* **Host.** Tiers draw on one pool of slots, commands fail half-way, and a
  slot's address carries the identity of whoever had it. Correct means: no slot
  is lost or given out twice, nothing of a machine is published once its slot
  went back, the watchdog condemns no machine that has registered, and the
  tiers together do not advertise what the host does not have.
* **Listener.** A session is replaced while something else cancels it; a
  successor finds its predecessor's session and scale set, and may lose them.
  Correct means: the daemon that stays serves every tier in the end.

## Modules

| Module | Models |
|---|---|
| `Scheduler` | one tier's scheduler in an open environment |
| `Removal` | `Scheduler` with `RemoveRunner`, the reconciler's repair and GitHub's view of runners |
| `Demand` | `Scheduler` with GitHub's queue, the message loop and the guests |
| `MCScheduler`, `MCRemoval`, `MCDemand` | the same, with the symmetry TLC uses |
| `SchedulerProofs` | theorems about `Scheduler` |
| `RemovalProofs`, `DemandProofs` | that the two closed systems are the open one, and theorems about each |
| `Aws` | the account: instances, tags, spot requests, calls that fail or lose their answer |
| `Ec2Pool` | one EC2 tier's pool goroutine and `SetTarget` over `Aws` |
| `Ec2Launch` | `Ec2Pool` with launches, their waiters and the JIT server |
| `Reaper` | `Ec2Launch` with the reaper and crashes of the process |
| `MCReaper` | the same, with the symmetry TLC uses |
| `Ec2Proofs`, `EndProofs` | theorems about `Reaper`: who owns an instance, and what ends it |
| `Leases` | what a guest address promises to whoever reads the identity published at it (abstract) |
| `Host`, `MCHost` | microVM launches of several tiers over one slot pool, with the identity registry, `Capacity`, and crashes; implements `Leases` |
| `HostProofs` | theorems about `Host`, and that it implements `Leases` |
| `CacheServer`, `MCCache` | the Actions cache, whose requests are authorised by what `Leases` publishes |
| `CacheProofs` | theorems about `CacheServer` and `Leases` |
| `Listener`, `MCListener` | daemons that overlap on the same scale sets: registration, sessions, reconnects, recycling, the end of a tier and of a process |
| `ListenerProofs` | theorems about `Listener` |

`Removal` and `Demand` EXTEND `Scheduler` and close its environment in two
ways: `Removal` has the requests of a removal in detail and leaves job counts
arbitrary, `Demand` has the jobs in detail and answers a removal in one step.
Each of their steps is a step of the open scheduler with its effect at GitHub,
or leaves the scheduler alone (the lemmas `RemovalIsScheduler` and
`RefinesScheduler`; this is how the modules are built and says nothing of the
code), so the scheduler's invariants hold in them and their proofs start from
those. `Leases` stands between `Host`, which implements it (`ImplementsLeases`,
checked and proved), and `CacheServer`, which extends it: the cache reads the
identity files of another process, and relies on no more than `Leases` says of
them.

### Scheduler

An action is one critical section of `Scheduler.mu`, or a step of a goroutine
between two of them. A launch is an element of `Launches` and `pc[l]` is where
its goroutine is:

| `pc` | `launchOne` |
|---|---|
| `decided` | counted by `commit`, its `go` statement not yet run (the closure `reconcileLocked` returns runs after the unlock) |
| `spawned` | before the check of `ctx` |
| `jit` | in `JIT.Generate` |
| `entered` | after `enter()`, before `track` |
| `vm` | tracked in `active`, in `Provisioner.Launch` |
| `failed`, `backoff`, `finish` | before `backoff` takes the lock, asleep in it, and after it until `finish()` |
| `tail`, `topup` | out of `running`, before and after `maintainMinimum`'s check of `ctx` |

The handle's flags are sets of launches. `completedAt` and `reconciles` serve
one comparison, kept as the set `seen`. The removal loop is `remover` (`off`,
`top`, `calling`, `pause`) and the name it works on, `removal`. Left out: how
long a backoff sleeps, `Capacity` (a read, in `Host`), logging.
A name is used again once nothing holds it, which the random suffix of real
names only makes rarer.

### Removal and Demand

`gh[l]` is GitHub's view of the runner. In `Removal`, `call` is where
`RemoveRunner` is: `lookup`, `delete`, `verify`, then its answer, which
`settleRemoval` acts on in a later step. The lookup may fail, the DELETE may be
applied, refused or never arrive, and its response may be lost. In `Demand`,
`queued` are jobs without a runner, `inbox` the message being applied:
completions first, the desired count last, as the library calls them. The
history variable `counted` remembers whose jobs the last count included.
Boots fail, and VMs exit before their job is over (`VMFails`), at any time.
The floor of `Demand` keeps the value it starts with; `SetMin` is an action of
`Scheduler` and `Removal`.

### The EC2 tier

The state is in two places. `aws` is what the account keeps through a crash:
for each instance its state (`starting` is one that has been started and is
still described as stopped), the state tag and `TagRunner`, whether its
persistent spot request is open, what its guest does, and whether it is past
the reaper's grace. The rest (`ready`, `warming`, `live`, the JIT `config` of
each address, the launches) is the process's, and `Crash` loses it.

An action is one AWS call or one critical section. `Call(done, ok)` is an
answer: the call took effect or not, and was answered so or with an error, so
an error says nothing about the effect. Cancelling a request and terminating
its instance are one action with every prefix as an outcome (`Discard`).

`Prepare` may find that the JIT server refuses the address, as another launch
is registered at it (`ErrRegistered`, place `refused`): the instance is
discarded and the launch fails without a cold one (`RegisterRefused`). That is
all there is of an address that AWS gives again before `Revoke`; configs are
kept per instance. `WaitTerminates` has a launch's `ctx` end only while its
guest has no job. That is not this code's doing: the scheduler cancels no busy
machine (`BusyNeverCancelled`, `JobNeverStranded`), and the model takes it from
there.

| State | Code |
|---|---|
| `poolAt` | `Pool.Run`: `discover` once, then `check` (`checking` while it works through its listing), `refresh`, `trim`, and `run` in `fill` |
| `resizing` | a `SetTarget` trims beside it |
| `at[r]`: `claim`, `prepare`, `rewarm`, `requeue`, `retag`, `discard` | `claim`, and its ways of giving an instance back |
| `start`, `unstarted`, `spot` | `StartInstances`, its failure, and the request's release |
| `refused` | `Register` was refused |
| `cold`, `wait` | `RunInstances` without the pool, and `waiter.run` with `awaitStart`, `terminating`, `spotLeft` |
| `orphans`, `requests` | what `Sweep` listed and has not yet acted on, with `judge`'s verdict |

The listing of `checkReady` (`listed`) and of `Sweep` are kept and used later,
as in the code: launches claim and start instances in between.

### Host and Leases

A launch is a runner, named for its tier, and `pc[r]` is where its goroutine
is: `pending` until `Launch` is entered, `register` with a slot, then
`network`, `boot`, `arm`, `wait` in `cmd.Wait`, and the deferred functions in
their order, `unplug` and `release`. `free` is the stack of `ipam`. A VM's
address and tap are its slot's, so `record` and `device` are indexed by slot;
they are what the host keeps through `Crash`, and `Restart` does what
`NewRegistry`, `newIPAM` and `CleanupStale` do. `SetupNet` is a row of commands
that may stop after the first one, which makes the device. The watchdog is
`timer` (set, fired, and killing once it has released the lock) with the flags
`connected` and `killed`. `leased` is the registry's memory and `asking` are
the resolutions under way, which read the lease again before they publish.
`Capacity` reads the tiers' counts and the free slots in one state; the code
reads them one after the other, and what changes in between is not in the
model.

`Leases` has an address's user (`occupant`), what is published there
(`record`) and who has had one (`past`). In the mapping a slot that is neither
held nor free, or any slot while the process is down, is `Unusable`; a
refreshed record is a stutter.

Left out: the firewall rules of `applyNetwork`, the jail and work directories,
cgroups, a record's expiry (the refresher writes it well before), and
`GitHub.Resolve`, which ends with an answer or none.

### CacheServer

The requests being served are `handler`, each with the runner that sent it and
the address it came from, at `auth` (the body is not read), `io` (it waits for
the entry's `ioMu`) or `write` (an upload holds `ioMu` while its body arrives).
Each of the three uploads is an action that opens it, `OpenUpload`, where
`writeFile` truncates the blob or the block, and one that ends it with the
body's end or failure, `WriteBlob`, `PutBlock`, `CommitBlocks`. Nothing says
that the second ever comes: the server sets no deadline on a body. The janitor,
which takes no `ioMu`, may come in between; what it unlinked is then written
nowhere, and is noted as staged even so. `Authority` is the identity found at
the address when the request looks, checked against the machine that opened the
connection. `entries` keeps every entry this process made, because a request
may hold one that has left the map (`reclaimed` by a new reservation or `gc`,
`evicted`). `index`, `blobs` and `blocks` are the files, which `Crash` leaves.
Steps under one lock are one action. An upload's last write and its note under
`mu` are one, and so are the moment a create's rights are read and its section
under `mu`, and a block list's last byte, the assembly and the rename. `client`
is how far a job's save is: it sends the next request when the one before was
answered, and may send an upload twice. A lookup changes `UsedAt` and saves
the index: any complete entry may be the least recently used one, and a reservation may
grow `stale`.

An entry's size is one, so `FitsTheCap` counts. An upload that outlives `gc`'s
30 minutes notes staged bytes for an entry that is gone, and they count
towards the cap until a restart; after a restart such an entry's id may be
used again over its blob. Both are in the model, and no property forbids them.

### Listener

`pc[p][t]` is where process `p` is with tier `t`: the steps of
`registerScaleSet` one tier after the other, `live` in a session, `closing`,
`recycling`, `reopen`, `waiting` for a retry, and the ends, `stopped` alone or
`shut` with the process. GitHub's side is the sets that exist, who knows the id
of the one that does, whose session is active (`holder`; that of a process that
died is `Expiring`) and which tiers have jobs that are available and nobody
acquired (`stuck`), as a message deleted before it was acted on leaves them.
The reconciler reads the session's cancel function and calls it in another step
(`grabbed`). A request may fail, or be applied while its answer is lost
(`DoneUnknown`), as when SIGTERM cuts a create short: a set is then registered
that its creator does not know as its own, or a session is open that nobody
has. A tier that gives up is `ended` (`Fatal`), and counted by `serveTiers` in
another step (`TierStopped`), which ends the process with its last tier. Left
out: how long a wait is, `RecycleEvery`, which spaces recycles, and that a new
session's statistics arrive a little after it opened.

## Runs

| Run | Asks |
|---|---|
| `scheduler_open` | types, counters, single ownership of removals, quiet drain, busy machines, scale-down and exits, demand met as far as Max allows, in an open environment with shutdown at any time |
| `removal` | no machine with a job at GitHub is cancelled, with the floor changing while the tier serves; every removal settles; a machine GitHub forgot goes |
| `demand_serves` | with boots that fail and machines that exit early: a queued job is served, with messages and by an exit alone; an exit re-plans with a count that leaves its own job out; a shutdown completes |
| `ec2_pool` | every instance has one owner and serves one job, and the pool is not overfilled, while it is resized and instances restart or end by themselves |
| `ec2_orphans` | with a crash and a failing call: no termination with an open request, no job ended of an orphan whose runner GitHub agreed to deregister, every orphan ended at last |
| `host_slots` | every slot accounted for, a VM on its own device, published identities as `Leases` promises, what the tiers advertise, the watchdog's verdict, launches and pending identities that end; with commands and writes that fail and a crash |
| `cache_store` | one entry per key, complete entries whole, a reported save there, requests that act for their own job, the cap, an upload that stalls holding up only its own guest; with addresses used again, the janitor and a crash |
| `cache_stalls` | a reservation gives its key back at last, though no body ever arrives, jobs go without a finalize, saves fail and the process dies |
| `listener` | the daemon that stays serves, and the last one deregisters; with a crash, a request that fails, or one that is applied and answered with an error |
| `ec2_reaps_owned`, `host_leak`, `cache_restart` | statements of the source the code does not keep (below) |

The runs that can come to a stop do not check deadlock: after a shutdown and
its drain, or when every launch, entry or process of the instance is used up.
The types of `Removal`, `Demand`, `CacheServer`, `Host` and `Listener`
(`RemovalTypeOK`, `DemandTypeOK`, `CacheTypeOK`, `HostTypeOK`,
`ListenerTypeOK`) hold in the same instances too. No run lists
them, as only a slip of the model breaks them; the inductive invariants of the
proofs contain them.

`removal` has no shutdown: the shutdown watcher cancels every idle VM without
asking GitHub, which is what it is for, so what is asked of removals is asked of
a tier that serves. `demand_serves` has the shutdown.

### Bounds

Two or three launch identifiers with Max 1 or 2: one more than Max, so that a
launch in its tail and its replacement coexist, and an identifier is free when
an exit re-plans. Two jobs at once (more than one place, so that a queue
exists), floors 0 and 1. Three launches give scale-down a choice, a queue of
two removals with a third machine busy, and a re-plan racing a Reconcile. The
runs with liveness, `removal` and `demand_serves`, have two identifiers, the
first with two places (two removals queue behind each other) and the second
with one (a job queues behind a machine that must exit). Job counts are bounded
by `MaxJobs`; in `Demand` the bound is on jobs outstanding at once, not on a
behaviour's jobs. Symmetry is used only without liveness.

`ec2_pool` has three instances and one launch, so that a pool of at most one
can be overfilled by more than the one a launch may give back, and one surprise
(a spot restart or a termination from outside). `ec2_orphans` has two
instances: one to lose in a crash and one that its successor launches, one
call that fails (`MaxFaults`) and one crash (`MaxCrashes`). A call that fails
because the scheduler ended the launch's `ctx` needs no bound (`Fails`). The
proofs have none of these bounds.

`host_slots` has one slot and two tiers with one launch each: a slot released
by one and drawn by the other shows every reuse, and two launches for one slot
every over-advertisement; a crash leaves a device or a record to the launch
after it. `cache_store` has one address and two machines that use it one after
the other, two keys, two requests at a time (`Handlers`), two entries (`MaxId`)
of which one fits (`MaxSize`), and a crash. The cap's general case, with
several uploads that take room, is the theorem's (`CapHolds`). `cache_stalls`
has one key and one request at a time, as what it asks is of one reservation.
`listener` has two processes, a running one and its successor, two tiers (so
that the first can end while the second serves), one request that fails or
loses its answer or one crash (`MaxFaults`), and jobs left unacquired once
(`MaxStuck`).

### Fairness

Weak fairness of a goroutine's own steps is what Go's scheduler and bounded
calls give: `RemoveRunner`'s requests time out after 15 s each, a backoff is a
timer, a machine's lifetime is capped. Strong fairness is assumed of three
things outside the program in `FairRemovalSpec`: a runner asked about again and
again is looked up, and deleted, successfully some of the times, and the
reconciler finds a runner GitHub no longer knows idle at some of its looks. In
`Demand`, GitHub hands a queued job to a connected runner and jobs end.
`QueueMoves` alone assumes that the long poll keeps returning (it does every
50 s), as a premise of its own; `SlotServesQueue` and `ShutdownDrains` hold
when it never does. `QueueMoves` also has as a premise that failures end some
time: a tier whose machines all fail serves nobody. How many there were before,
and what their backoffs and exits left in the counters, is open. That boots
fail or machines exit early is never assumed to happen.

`FairSpec` of `Reaper` has the reaper's goroutine run, launches carried through
(each call and each wait has a timeout), instances boot and grow old, guests
without a job power off, jobs end, and GitHub fail the job of a runner that is
lost. The pool goroutine needs none: what it follows is not an orphan.

`Host` has a launch's goroutine and the registry's go on while the process is
up: each command and each write ends, a resolution has 30 s. Nothing is assumed
of guests, so `LaunchEnds` has the lifetime's timer as its premise
(`Lifetimes`), as `MaxVMLifetime` may be 0. `Listener` has the goroutines of a
process and of its tiers go on, polls answered, and GitHub expire the session
of a process that is gone. `FairSpec` of `CacheServer` has time pass, so that
a reservation grows stale, the janitor tick, and a process that died started
again. It assumes nothing of guests: an upload under way may never get its
body, and so never give up `ioMu`. Whom that delays is `StallsOwnOnly`.

### Statements the code does not keep

Shown by a run:

* `ec2_reaps_owned`. "Reaper ends what this install launched and no longer
  owns": a claim's CreateTags that was applied and answered with an error puts
  a pool instance back as ready while AWS has it as claimed, and the reaper
  ends it (`ReapsOnlyOrphans`). `checkReady` later drops it.
* `host_leak`. `Launch` says it reaps everything: a launch whose `setupNet` is
  cut short returns before it defers `teardownNet`, so its device stays when
  its slot goes back (`FreeSlotsClean`). The slot is the next to be acquired,
  and launches on it fail until a start's `CleanupStale`. `OwnDevice` holds
  all the same: no VM runs on that device. Where the commands themselves work
  this is the only leak (`OnlyCutShortLeaks`).
* `cache_restart`. An entry is restorable once it is complete: an eviction
  removes the blob first and the index is saved later, so a crash in between
  brings back a complete entry without its blob (`CompleteRestorable`), whose
  key can neither be restored nor saved until it is evicted. The crash is
  needed: only the load after one loses a blob (`OnlyLoadLoses`,
  `RestorableUntilCrash`).

Met while modelling or proving, and in the steps of the model:

* "It never ends a job", says the reaper's comment. `judge` looks at `live`
  once, asks GitHub about the name it listed, and reaps without another look.
  An instance that a spot request restarted while it was tagged claimed, and
  that was requeued and powered off since, can be claimed again, started and
  given a job while `Remove` (two requests of 15 s at most) and the calls of
  `reap` go on: GitHub agrees about the old name and the job ends. The proof of
  `OrphanJobsSpared` failed at exactly this step, and TLC finds it, 27 states
  deep, with one instance, two launches and one surprise. The property is
  therefore about instances that still carry the name GitHub was asked about;
  for those it is proved. `ec2_orphans` has one launch and cannot tell the two.
  Without such a restart, or an end from outside, the comment is right about
  what GitHub agreed to: `AgreedIsOrphan` proves that what is ended then is
  nobody's and has no job. The stopped instance of `ec2_reaps_owned`, which
  is ended without asking GitHub, is the other case.
* `reclaimQueued` counts each machine it takes off the removal queue as one
  that serves again, though `live()` does not count a machine whose job was
  reported complete. At Max, a `Reconcile` can so leave an idle machine queued
  for removal while jobs wait (13 states), where its comment says that a
  reversal "keeps its warm VMs". And a `replan` that took back only such a
  machine launches nothing, so a job waits though a place is free (15 states);
  `replan`'s comment has it launch what `Reconcile` would, which commits
  launches after what it reclaimed. It lasts until that machine exits or the
  next message. `DemandMet` counts these machines apart (`Forgone`), and is
  proved for everything else. With one place, as in `demand_serves`, it cannot
  happen.
* `reclaimQueued` returns a machine to the pool while its removal is unknown,
  though `core/types.go` says it must not be treated as able to take a job. The
  reconciler's repair ends it (`UnknownRunnerGoes`).
* A retried removal whose lookup fails is reported as still registered, though
  the earlier attempt may have removed it.
* A re-plan's job count is stale by more than queued jobs: it may count a job
  that ended on another machine.
* `connectWatchdog.stop` says that after it returns the kill path can no longer
  run: a callback that has its verdict kills after its unlock. The process has
  ended by then, so nothing comes of it.
* `Close` of a scale set deletes it when this process created it: a set another
  daemon reuses since goes with it, and that daemon registers it again
  (`RedeployServes`).

Not in the model: `ensureHostCacheInput` and its relatives find a rule by a
substring of its comment, so the tag of port 80 is found in that of port 8080.

A nuance that is not a violation: `live()` leaves out launches asleep in
backoff, but a launch that has failed and not reached `backoff`'s lock, or has
left it and not reached `finish()`, still counts. A job can wait on it until
the next message (`QueueMoves`).

## Proofs

`SchedulerProofs` proves, for any finite set of launches, any Max, floors and
job counts, from the named assumptions of `Scheduler`:

* `TypeCorrect`: `TypeOK` is inductive. Each action has a lemma for what it
  does to the handles' flags; `ReconcileLockedTypes` and `FinishTypes` serve
  every action that plans.
* `BusySpared` (`BusyNeverCancelled`): from `TypeOK`, no action adds a busy
  handle to `cancelled`. `ScaleDown` picks from `Idle`, which leaves busy
  handles out; the other paths look again under the lock.
* `DrainIsQuiet` (`DrainedIsQuiet`): strengthened to `QuietInv`, which adds the
  order of shutdown, drain and its return. `CtxDoneStaysQuiet` is the heart:
  once `ctx` has ended no step leaves the quiet locations.
* `CountersHold` (`PlacesHeld`): with `TypeOK`, inductive as it stands.
  `MoveCounts` and `CommitCounts` say what one launch's move and a commit of n
  launches do to the number of launches at a set of locations; `PlanBounds`
  keeps a commit within Max, for `Reconcile`, `SetMin`, a re-plan and a top-up
  alike.
* `RemovalsHeld` (`RemovalOwned`): strengthened to `OwnInv`. `OneInFlight` says
  that the loop has a name in hand only while it calls, and that the handle is
  marked: otherwise `scaleDown` could queue a handle that is being removed.
  `NamesOld` says that no queued name belongs to a launch that has no handle
  yet, whose handle would then come into the world queued but unmarked.
* `DemandKept` (`ScaleDownKeepsDemand`): from `PlacesHeld`, which ties
  `running` to what `scaleDown` may count as usable (`LiveCounts`).
* `ExitsShrink` (`ExitNeverGrows`): a re-plan or a top-up commits at most the
  place its exit gave up, and none once a drain began.
* `DemandIsMet` (`DemandMet`): the other direction, that a plan does enough.
  `Able` are the machines that can serve; `reclaimQueued` counts entries of the
  queue, which are as many machines only because no machine is queued twice
  (`ReclaimedCounts`, from `OwnInv`), and `AbleAgain` says what its machines
  add to those that serve, `completed` ones left out.

`RemovalProofs`:

* `JobsSafe` (`JobNeverStranded`), for schedulers with a Remover (without one
  the code ends idle machines without asking). Strengthened to `RemovalInv`:
  jobs are in VMs (`JobsInVMs`), and once `RemoveRunner` is to answer that the
  runner is gone GitHub gives it no job (`CallInFlight`), however late
  `settleRemoval` acts on the answer and whichever requests were lost.

`DemandProofs`, from `DemandAssumption` too:

* `ReplansLeaveOut` (`ReplanLeavesOutOwnJob`): strengthened to `KnownInVM` and
  `CountsOthers`, over the scheduler's own invariants (`RefinesScheduler`, for
  which each message's desired count is one the open scheduler allows,
  `Bounded`). A count was taken with the completions of its message, so it
  leaves out the jobs reported with it or before it; what the scheduler last
  counted leaves out every job whose handle saw a later `Reconcile` (`seen`).

`Ec2Proofs` and `EndProofs` prove, for any number of instances, launches,
failing calls, surprises and crashes, from `AwsAssumption`, `PoolAssumption`
and `CrashAssumption`:

* `Ec2TypesHold`: `ReaperTypeOK` is inductive. The state is split in what the
  account, the pool and the launches own (`Parts`), and each helper on the
  account (`TaggedFacts`, `DiscardFacts`, ...) says what it leaves alone.
* `OwnersHold` (`OneOwner`): strengthened to `OwnerInv`. A claiming launch's
  instance has no config yet (`NoConfigYet`), or a launch that gives it back
  would leave one behind; what the program knows exists at AWS (`KnownExist`),
  or a new instance could be one that is already owned; and a discovery is only
  to come while nothing of the pool is owned (`ColdYet`), or it would list
  what a launch holds.
* `PoolNotOverfilled` (`NeverOverfilled`): strengthened to `RoomLeft`, which
  counts with `ready` and `warming` what claims under way may still give back
  (`Giving`): `fill` does not see those when it counts.
* `SpotsHold` (`NoReplacement`): with `OwnerInv`, strengthened to `SpotInv`: a
  cold instance never has a request, so it may end by powering off, and a
  waiter that has not noted its request as left over (`spotLeft`) has closed
  it, so it need not cancel it before it terminates. `Closes` is what every
  step but a termination from outside does to the requests.
* `JobsSpared` (`OrphanJobsSpared`): strengthened to `GuestInv` and
  `AgreedGone`. A guest with a job is a runner GitHub has as busy (`JobBusy`),
  alone under its name (`OneJob`); no instance of the pool has a guest, so no
  tag renames one (`PoolClean`), and a config waits for the runner the instance
  is named for (`ConfigNamed`). From the answer on, GitHub gives the runner of
  an agreed verdict no job (`AgreedGone`). `Quiet` is what most steps do to
  the guests: nothing but end them.
* `OneShotHolds` (`OneShot`): an instance whose guest was started is not the
  pool's again. What is not used is new, in the pool's lists, in a claim's hands
  or tagged for the pool (`Unspent`), and has no guest (`PoolClean`). No tag
  that is applied late gives a used one back (`TagsUnspent`), and what
  `discover`, `refresh` and a claim take in was unspent (`TakesUnspent`).
* `AgreedIsOrphan`: while `surprises` has not been drawn on. A step either keeps
  a used instance used and under its name, or AWS forgets it (`StaysUsed`), so
  what is needed is that what the reaper lists as running is used. That is
  `Calm`: what is ready or may be given back is stopped, what is warming or
  starting is tagged as such. A spot request that restarts a stopped instance
  breaks it, which is the step the section above describes. `Known` carries it
  from the listing over `judge`'s look and GitHub's answer to the end.

`HostProofs`, from `HostAssumption`, for any number of slots, tiers, launches
and crashes:

* `SlotsHold` (`SlotsAccounted`): strengthened to `SlotInv`. A slot has one
  holder; it is on the stack exactly when nobody holds it and no record is left
  at it (`FreeExactly`); a holder's record is its own (`OwnRecords`); after a
  crash nobody holds any (`DownIsEmpty`).
* `HostTypesHold` (`HostTypeOK`): the bound on the stack is not a type fact, it
  follows from the stack being without repetition.
* `OnlyCutShortLeaks`, where `CommandsFail` is false: a tap that is more than
  half made is that of a launch which has yet to unplug it (`TapHeld`), and a
  free slot has no holder.
* `OwnDeviceHolds` (`OwnDevice`) and `VerdictHolds` (`VerdictStands`): from
  `OwnTap` and `Verdict`, which are about each stage of a launch.
* `CapacityHolds` (`CapacityFits`): by counting the launches of a tier at each
  stage (`CapacitySums`); a tier's counts fit its Max (`TiersFit`).
* `RefinesLeases` (`ImplementsLeases`): initial states to initial states, and
  each step to a step of `Leases` or a stutter. The mapping is not touched by
  most steps; acquiring, giving back, publishing, a crash and a restart have
  each a lemma that names the step of `Leases` it is.

`CacheProofs`, from `CacheAssumption`, `NothingAssumption` and
`LeasesAssumption`:

* `CacheTypesHold`, `OneEntryHolds` (`OneEntryPerKey`): `StoreInv`. What is
  live has a key of its own, in the map and in the index (`OneLive`), ids are
  given in order (`Numbered`), and the index names only entries the map had
  (`IndexAgrees`), so a restart brings back no second entry.
* `WholeHolds` (`CompleteIsWhole`): `SaveInv`. A request that waits for or
  holds `ioMu` acts for its entry's reserver (`Requests`), the upload that holds
  it is alone at its blob (`Writers`), and a client that was told its upload is
  in has one (`Uploaded`).
* `SavedHolds`, `ActsForItselfHolds`, `CapHolds`: `SavedIsThere`,
  `ActsForItself` and `FitsTheCap` from the same invariant; `evictLRU`'s loop
  stops under the cap or with nothing left to evict.
* `OnlyLoadLoses` and `RestorableUntilCrash`: no step of a running server leaves
  a complete entry without its blob, so the blob is there until the first
  crash.
* `StallsHold` (`StallsOwnOnly`): from `Requests`. Whoever waits for `ioMu` or
  holds it was found to be the entry's reserver when it looked, and an entry's
  reserver never changes: a finalize finds its entry by the key, but takes it
  only if it is its own.
* `RecordIsOwn`: in `Leases`, the identity found at a machine's address is its
  own. The induction needs that nothing is left at a free address
  (`NothingLeft`).

`ListenerProofs`, from `ListenerAssumption`, for any number of processes and
tiers:

* `ListenerTypesHold`, and `LastOneHolds` (`LastOneDeregisters`): strengthened
  to `Registered`: while nothing failed, each registered set has a process that
  made it, knows it, and has not come to the end of its tier.

The assumptions are about constants alone: sets that are finite in any run
(launches, instances, runners, slots, tiers), bounds that are numbers, and
placeholder values (`NoLaunch`, `NoSlot`, `NoRecord`, ...) that are none of the
things they stand in for. Each inductive invariant also holds, by TLC, in
the instances of its module's runs.

Every safety and action property of the passing runs is proved. Only
model-checked is liveness, which is outside the prover's reach:
`RemovalSettles`, `UnknownRunnerGoes`, `QueueMoves`, `SlotServesQueue`,
`ShutdownDrains`, `OrphansEnd`, `LaunchEnds`, `PendingEnds`, `KeysComeFree`,
`RedeployServes`.

## Plan

Done: the scheduler with its removals and its demand, the EC2 tier with the
JIT server's entries, the host with the identities of its machines, the cache
server, the listener, the two refinements, and the theorems above. What the
liveness properties rest on is proved as invariants and step properties: a
queued removal has a loop (`RemovalOwned`), a plan or an exit leaves no place
free that the queue asks for, but for what `Forgone` counts (`DemandMet`), and
a stalled upload holds up only its own guest (`StallsHold`).

Left: that a `Host` launch and an `Ec2Launch` launch are each a `Launch` of
`Scheduler`, so that the scheduler's theorems speak of either provisioner by
name. Their modules have what a launch does and not what the scheduler made of
its result.

## Not modelled

Configuration parsing, health and diagnostic reporting, nftables and jail
command lines, the artifact proxy, deployment, images and scripts: formatting
or stateless I/O, with no state a step could leave wrong. `Schedule.At` is a
calculation on the clock, and `Follow` applies its sizes in a loop; what a
changed size does is in `SetMin` and `SetTarget`, at any time.
`GitHub.Resolve` and its coalescing of requests: a resolution gives an answer
or none. Of the cache server: the order in which `match` tries keys, downloads,
counters and the cap of one entry. Of the identity registry: that a record
expires 90 s after it was last written, and a `Close` that follows a drain.
Of the EC2 tier: the
walk over markets, instance types and subnets and the AMI cache (which instance
is launched, not whose it is), the watcher's batching, `MaxLifetime` (off, as it
ends a busy orphan by design), dry run, and tiers that keep no pool. An
instance whose tag fails in `discover` is in neither list until a restart; the
model has the step, and no property forbids it.
