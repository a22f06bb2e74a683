# Verification of the service manager of oxidized-systemd

The repository is a reimplementation of systemd in Rust: the manager that runs
as PID 1 (`crates/systemd`, `crates/libsystemd`) and some eighty daemons and
tools. This project is about the manager: how it accounts for jobs, how it starts
a unit with all it pulls in, waits for a service to be ready, starts one for a
connection, stops units in order, and restarts and mourns a service while
several threads do so at once. Paths below are relative to
`src/crates/libsystemd/src/`.

## 1. The system

PID 1 is a set of threads around one table of units (`RuntimeInfo`, an
`RwLock`). What matters here:

| part | state | operations | interacts with |
|---|---|---|---|
| job registry (`units/jobs.rs`) | `next_id`, `jobs`, `by_unit`, `run_queue`, behind one mutex | create (merge, refuse, replace), set_running, set_waiting, add_waiter, enqueue, enqueue_ready, requeue_after_finish, pop_ready, set_deadline, pop_expired, finish | control threads (`JobHandle`), the dispatcher, the boot drive and its pool |
| dispatcher (`entrypoints/dispatcher.rs`) | an event queue, the parked chains by pid, the parked start waits, the stop graph | ChildExit, StopUnitTree, GcUnneeded, start chains and waits, expiry of deadlines | the reaper and control threads send events; it forks helpers, writes statuses and finishes jobs |
| stop graph and stop chains (`dispatcher.rs`, `unitset_manipulation/stop_chain.rs`) | counts of dependents not down yet, parents to credit, root jobs, targets of PropagatesStopTo=, the phase of each chain | begin_stop_tree, service_stop_chain_step and its continuations, on_stop_chain_finished | registry, unit status, processes |
| unit state machine (`units/unit.rs`, `units/status.rs`) | the status (an `RwLock`) and the type-specific state (another) of each unit | activate, deactivate, reactivate | everybody |
| services (`services/services.rs`) | pid, manual_stop, process group | start, kill, terminate_gracefully, sweep | PID table |
| exit handling (`services/service_exit_handler.rs`) | none of its own: a thread per exit | head (on the dispatcher), tail, handle_pending_restart | unit state machine |
| reaper (`signal_handler.rs`) | PID table | SIGCHLD | dispatcher |
| control (`control/control.rs`) | none of its own: a thread per client | start, stop, restart, --no-block forms, queries | all of the above |
| starts (`unitset_manipulation/activate.rs`) | none of its own: closures on thread pools | activate_needed_units (the sweep), activate_unit, before-chains, finish_deferred_start | unit status, dispatcher (parked starts) |
| boot job graph (`unitset_manipulation/activate.rs`) | the registry's run queue, JOB_GRAPH_BOOT_DRAINING | producer, drive_run_queue, pool workers | registry, unit status, parked starts |
| notifications (`notification_handler.rs`) | a buffer per service | read sockets, apply READY=1 and EXTEND_TIMEOUT_USEC= | dispatcher, start waits |
| socket activation (`socket_activation.rs`, `sockets/`) | the flags and counters of each socket, the fd store, an eventfd | wait_for_socket, handle_accept_no, handle_accept_yes, rate limits | activate_unit; stops re-arm its sockets |

Hard to get right, and hard to test:

* ids and queue entries outlive the job they name, and clients block on jobs
  that are merged, replaced or timed out;
* the stop graph is updated by handlers that call each other recursively, by
  overlapping requests and by events queued in between;
* the exit of a process is looked at by the stop chain, by a restart that waits
  for it and by a tail, in any order, and each of them decides from state the
  others are changing;
* the status and the service state have a lock each, and are read and written
  in several critical sections per operation;
* a unit with several predecessors is handed to a pool by each of them, by the
  passes of a sweep, by the drive and by completions, each of which looks first;
* a start is registered, reported, timed out and finished by different threads,
  in any order;
* a socket's thread sleeps on flags that others change.

What makes each part correct: the registry never loses a reply and never
completes the wrong job; the stop graph stops dependents first, each unit once,
and answers every client; a service has one main
process that its unit knows of, a stop sticks, an exit is noticed, and nobody
waits for ever; a start respects After=, happens once, leaves nothing behind and
settles; a deadline hits nobody who has reported; a connection is answered and a
limit is final. `PROJECT.json` lists the components and the hazards with their
lines.

## 2. Modules

`JobOps` - the registry as operators on a record of its four fields, one
operator per method. Each method runs under the registry's mutex, so it is one
step. An `Instant` is abstracted to none, armed or due.

`JobRegistry` (extends `JobOps`) - the registry with its users. An *owner* is a
thread or a queued event that remembers a job id: a `JobHandle`, a
`StopUnitTree` event, the monitor thread of `start --no-block`, a pool worker.
`drive` is what the boot drive remembers between two acquisitions of the mutex.
What decides a result (unit status, exit codes, readiness) is chosen freely.
`requeue_after_finish` is part of the registry's interface and so an action,
although only tests call it today.

`JobOpsProofs`, `JobRegistryProofs`, `StopGraphProofs`, `ServiceLifecycleProofs`,
`StartSweepProofs`, `BootDriveProofs`, `StartWaitProofs`, `SocketActivationProofs` -
the lemmas and theorems of section 5.

`StopGraph` (extends `JobOps`) - the dispatcher while it stops units. The
dispatcher is one thread, but its handlers recurse; `work` is its call stack with
the innermost call last, so that the order of updates within a handler, including `begin_stop_tree` inside
`on_stop_chain_finished`, is the code's. Lists of units are walked in any order.
`parked[u]` counts the chain entries of a unit by phase. `owed[c][p]` counts how
often `p` occurs in `parents[c]`, because a unit that requires and is bound to
another occurs twice and is counted twice.

`OrderedStop` - what stopping promises, without graph, chains, jobs and
dispatcher: a unit begins to stop, and goes down, only when its dependents are
down; an answer is true; everyone is answered. `StopGraph` implements it when
requests do not overlap: `StopsInOrder` is the abstract specification under the
mapping `PhaseOf` (up, stopping once an ExecStop= command runs or the status
says so, down).

`ServiceLifecycle` - one Type=simple service, its processes, the PID table, the
reaper, the dispatcher's queue and stop chain, the tails of exits, and control
threads. `pc[t]` is what thread `t` does next; a step is one critical section of
the code. `lock` is the service-state lock, which activate, deactivate and
reactivate hold to the end. `readers` are the tails that hold the status lock
while they wait for the state lock; every other access to the status takes its
lock for one step (`Sets` waits for the readers). `wanted` is a history
variable: what a client that looked on would expect.

`StartSweep` (extends `JobOps` for its units and ids) - activate_needed_units. A
*task* is a closure on a thread pool and `step` the critical section of
activate_unit, Unit::activate or finish_deferred_start it does next; `work` is a
bag, because the same unit may be on a pool several times in the same place. A
service forks, is parked with the dispatcher (`mail`, then `waits`) and is
finished by a task of its own; the before-chain goes with the wait. activate_unit
reads the status, checks assertions and conditions, and reads it again under the
unit's lock: three steps (`Enter`, `Check`, `Act`).
`UnstartedDeps` is the readiness test of all walks. The sweep makes passes
until one has started nothing.

`BootDrive` (extends `StartSweep`) - the producer, the drive and the workers of
the boot job graph on top of the same tasks and parked starts, with the registry
of `JobOps`: the composition of the two. Between two acquisitions of the
registry's mutex the drive remembers what it has in the code, and a worker
carries the id of its job. Mounts are done by the worker itself; devices start
when udev says so. The producer's 300 s may be over at any of its ticks (`GiveUp`).

`StartWait` - one parked start in detail, for every Type=: the process, the
notification socket, its reader and buffer, the two queues of the dispatcher,
the entry of start_waits with its confirmation, deadline, grace, SIGTERM and
SIGKILL, the finisher threads, the watcher of a bus name, the ExecStopPost= chain
and the tail of the exit handler. `Verdict` is evaluate_start_wait.

`SocketActivation` - one socket, its service and the thread between them: what
it gathers, the sleep in select, the two rate limits, handle_accept_no with the
part of activate_unit that decides what it gets to see, handle_accept_yes, and
the others: stops that re-arm, starts that ExecCondition= skips, restarts of the
socket unit (open_all, then ExecStartPost= under the socket's lock, then the eventfd),
starts by clients and by the boot if the service is in its graph (`wanted`), a
conflicting unit.

`MC_*` - the constants of the runs. Unit files are maps (`RequiredBy`,
`After`, ...) defined there.

A start appears in four modules because four questions are asked of it, each at
the grain it needs: `StartSweep` has many units and one step for a report,
`StartWait` one unit and every step of a report, `ServiceLifecycle` every step of
fork, exit and stop, and `SocketActivation` the flags around it.

Definitions whose comment begins with *Fault* are variants of the definition
below them with a plausible bug; they are not used by the specifications.

## 3. Runs

| run | expect | what it shows |
|---|---|---|
| `job_registry` | pass | TypeOK, OneJobPerUnit, RunQueueSound, HoldersMatch, WaiterAccounting, NoDowngrade with two units, two owners, the drive, one blocked client and three ids |
| `stop_serial` | pass | five units with every kind of dependency, requests one after the other, two restarts: TypeOK, OneChain, NothingForgotten, StopsInOrder (the refinement of `OrderedStop`, liveness included), UnneededCollected |
| `stop_overlap` | pass | two stops and a start that overlap freely: NothingForgotten, StopAnswered, StopTakesEffect |
| `service_no_restart` | pass | Restart=no, three requests of any kind: TypeOK, NoOrphan |
| `service_auto_restart` | pass | Restart=on-failure, three stops: NoOrphan, StopSticks, StatusTellsTruth, ExitNoticed |
| `sweep_start` | pass | five units, two fan-ins, one of them a parked start that may fail, a failing condition and a failing assertion: TypeOK, OrderRespected, SettledStays, ClosureSettles |
| `boot_drain` | pass | a boot of four units with a device, a mount that may fail, a parked service, a job that may expire early and a second starter: BootTypeOK, OrderRespected, NoStrandedJob, BootComplete, BootReturns |
| `start_wait` | pass | one start of each type, parked once or twice: TypeOK, NoIdleVerdict, TermIsDeserved, StartSettles |
| `socket_activation` | pass | a simple, a notify and an Accept=yes socket with every trouble the handler sees, in the graph of the boot or not: TypeOK, SleepIsInformed, LimitIsFinal, TriggerAnswered |
| `service_restart_race` | violation | NoOrphan: a restart against the tail of the exit it caused or met |
| `start_lost_exit` | violation | StartedMeansAlive: an exit between the two writes of the finisher |
| `socket_deaf` | violation | ConnectionAnswered: a start that fails after it was handed over |

### Bounds

* `job_registry`: three ids (`MaxId` = 4, the last is never handed out) allow a
  job, its replacement and the replacement of that; two units let an id be
  mistaken for another unit's; two owners let one be late. One waiter is enough,
  since no operation compares waiters. Symmetry permutes units and owners.
* `stop_serial`: the graph has a chain of dependents of depth three, a unit that
  is counted twice, one edge of each kind, a PropagatesStopTo= and a
  StopWhenUnneeded= unit with two needers. Two clients and two restarts let a
  unit be stopped, started and stopped again.
* `StopGraph` takes requests while `IdsRemain`: job ids do not run out.
* `stop_overlap`: a dependent, and a PropagatesStopTo= target below it. OneChain
  and StopsInOrder are not properties of this run: they fail when requests overlap
  (section 4).
* `service_no_restart`: three requests and three processes: the first process,
  its replacement and the replacement of that. `service_auto_restart`: five
  processes and three stops, so that a stop can come before, in and after the
  window of a due restart. It has no manual starts; with them NoOrphan is the
  finding of `service_restart_race`, and the locks may deadlock (section 4).
* `GivesUp`: whether a restart may run out of patience with a process that is
  not reaped (five seconds in a restart or a stop, two in the activate path of
  reactivate). The passing runs allow it; the violations are shown without it,
  so they do not depend on a slow reaper.
* `sweep_start`: a unit reached by two completions at once is the smallest case
  in which two tasks race for one start; one such unit parks, so that the second
  task may find it forked. Nothing is ordered after it, since a second pass loses
  the chain of such a service (section 4).
  No bound: a sweep ends by itself.
* `boot_drain`: a chain device, mount, service, with a unit that is only ordered
  after the service and that another thread starts, too. Four ids (`MaxId` = 5)
  are one per unit; more change nothing, since the run never needs a fifth job (TLC
  reaches the same states with `MaxId` = 7). `Slow` are the units whose start may take longer than the 90 s of their
  job before they have left NeverStarted: a worker that waits for its turn on the
  pool, a slow mount(2). In the run that is the last unit; section 4 has what a slow
  mount does.
* `start_wait`: a process sends READY=1 and EXTEND_TIMEOUT_USEC= once each, in
  either order or not at all, exits once, cleanly or not, and a start of any type may
  be parked a second time (`Reparked`). The reader may get to the socket before a
  deadline or not. `Contended` is FALSE: the cleanup of a failed start finds the
  table free (section 4 has what happens otherwise).
* `socket_activation`: a trigger limit of two (one for a poll limit), two
  connections, one refused or skipped start and two interventions by others are
  enough for a re-arm, a second trigger and a limit hit by it. The simple socket has
  DeferTrigger=, the notify one FlushPending=. `socket_deaf` needs one connection.
* A service phase has at most one command (more repeat the same step), and a
  process that exits is reaped in any later step.

A terminal state of `ServiceLifecycle` is a system at rest with its requests
used up, so deadlock is not checked there; an exit nobody deals with is what
ExitNoticed is for. The same holds of the other start modules: a sweep, a
boot and a start end, and a socket whose connections are used up rests;
ClosureSettles, BootReturns, StartSettles and TriggerAnswered tell a rest from a
hang.

### Fairness

`StopGraph` assumes that the dispatcher keeps running and that every parked
chain is advanced: its process exits, or its deadline passes and the dispatcher
kills it (TimeoutStopSec= and the helper window; `infinity` is excluded).
`ServiceLifecycle` assumes that every thread is scheduled, that zombies are
reaped, and that a process that was sent SIGTERM or SIGKILL exits; the code
escalates to SIGKILL after TimeoutStopSec=. Requests, exits of the service's own
accord and timeouts are never assumed to happen.

`StartSweep` assumes that pool threads and the dispatcher run and that a parked
start is reported, dies or times out, which `StartWait` shows (StartSettles)
from the scheduling of the threads and the passing of deadlines alone: nothing is
asked of the process. `BootDrive` needs strong fairness where a thread waits for
the registry's mutex, which the drive takes and releases over and over, and for
the events the dispatcher takes between two drives: the lock is a mutex, and the
queue is first come, first served. Devices that are not `Absent` appear. The
producer's deadline may come at any tick, but is relied on only when nothing else
can happen (`Stuck`).
`SocketActivation` needs it for `Wake` and `Admit`: signals that interrupt select
and writers that defeat a try_read come and go, and neither comes first for ever;
and for the end of a start, which others may disable for a while. The boot starts
the service only where it is in its graph; nobody is assumed to start another one.
Pauses elapse, stops end and a conflicting unit ends; connections and
interventions are never assumed to happen.

## 4. Findings

Each is a run whose counterexample is short enough to read; `PROJECT.json`
quotes the sentence it contradicts.

1. *Two restarts of one exit* (`service_restart_race`). The start of the
   replacement clears manual_stop before the tail has read it.
2. *An exit that belongs to nobody* (`start_lost_exit`). The finisher clears
   signaled_ready and then sets Started. A process that exits in between looks
   like one that died without reporting, which the exit handler leaves to the
   parked wait; there is none any more, and the unit stays Started.
3. *A socket goes deaf* (`socket_deaf`). Only the handler that marked the socket
   and the stop of a service clear the mark; a start that fails after it was
   handed over does neither.

### Also met

The models show these, too; they have no run of their own.

Stops (`StopGraph`):

* A second stop of a unit that is being stopped finishes the shared job at once,
  so both clients hear Done while ExecStop= runs (`dispatcher.rs:988`), though the
  client's contract is "returns when stopped" (`control/control.rs:6084`). The stop
  itself takes effect (StopTakesEffect).
* A GcUnneeded event is handled while chains of the tree are parked, though
  `dispatcher.rs:384` says it runs on a settled graph; its closure takes them in
  and starts them again (OneChain with a StopWhenUnneeded= unit whose needer has
  dependents that are slow to stop).
* Units that are PartOf= each other wait for each other; the recursive path has a
  guard for cycles, `begin_stop_tree` has none (`dispatcher.rs:1050`).

One service (`ServiceLifecycle`):

* A stop between the last status check of a due restart and its reactivation is
  undone by it (`service_exit_handler.rs:654`), though an explicit stop is to
  "suppress automatic restart regardless of Restart= policy" (`:1418`). StopSticks
  has this window as its exception (`Overtaken`): TLC has it violated without, and
  holds that no other restart gets through.
* A restart between the stale check of a tail and its deactivation has the
  replacement killed (`service_exit_handler.rs:1678`). The comment at the check
  also says that a service without a pid is skipped; the code deactivates it.
* A tail holds the status lock and waits for the state lock, reactivate the other
  way round (`service_exit_handler.rs:1663` against the lock order of
  `control/unit_properties.rs:215`): with manual restarts both wait for ever.
* A systemctl start that shortcuts a pending restart finds the dead process in
  srvc.pid and is refused with AlreadyHasPID; and a start between a tail's
  deactivation and its failed status is shown as failed while it runs.

Starts (`StartSweep`, `BootDrive`):

* A later pass of a sweep meets a parked service still Starting and parks it
  again with an empty before-chain; what was ordered after it is then left to
  the next pass, if there is one (`activate.rs:444`, `dispatcher.rs:603`).
* A notify service with two predecessors that complete together is started by both:
  each has read NeverStarted (`activate.rs:429`) before the other takes the unit's
  lock. The second finds a pid, is refused with AlreadyHasPID, and the unit is Failed
  while it runs, though extra walks "cannot double-start anything" (`:1061`, also
  `:1889`). `sweep_start` has such a service; SettledStays excepts exactly this and
  shows that no other settled unit is taken back.
* A unit that fails its assertion, or a wait that ends in failure with its chain
  dropped, leaves soft dependents to the next pass.
* A mount done by the drive stays NeverStarted during mount(2). If that takes longer
  than the job's deadline the job is gone, the producer makes another one, and the
  unit is mounted twice; if the second mount fails after the first has let a
  dependent begin, the dependent ends with a DependencyError and what is ordered
  after it goes first (`Slow` = {mnt} breaks OrderRespected).
* The producer's 300 s run out on the wall clock, with jobs Running and units
  startable (four chained starts of 90 s do); it returns and the drive goes on
  behind its back. BootComplete is about a producer that returns because no job is
  left.
* A unit whose required dependency failed keeps its job Waiting, and the producer
  returns only at its deadline of 300 s; BootReturns holds because of it alone.

One start (`StartWait`):

* READY=1 that nobody has read when the deadline passes is read and applied by the
  grace (`notification_handler.rs:325`: "to rescue a sent-but-unread [...] READY"), but
  the wait is not evaluated again (`dispatcher.rs:772`): the service is ready, stays
  Starting and is terminated. TermIsDeserved and NoIdleVerdict except exactly this
  (`grace = "late"`).
* deferred_start_fail_cleanup gives up when its try_read fails, and the unit stays
  Starting (`Contended` = TRUE breaks StartSettles).
* A start of a notify, forking or dbus service that is parked twice can be
  terminated after it was finished by the first wait; TermIsDeserved excepts it
  (`Refound`).
* READY=1 that is unread when the exit of its sender is handled is lost: the start
  fails with a protocol error.

Sockets (`SocketActivation`):

* A start that meets a dependency which is not up leaves the mark on the socket,
  because that "resolves on its own once the deps come up"
  (`socket_activation.rs:514`). Where the service is not in the graph of the boot
  (`services.rs:804`) nobody starts it then, and the socket is deaf: TLC has
  ConnectionAnswered violated with `Wanted` = {FALSE}. TriggerAnswered excepts it.
* A socket unit whose ExecStartPost= failed has its fd in the store and is failed;
  the thread watches it from its next wake-up on, and starts the service for it.
* active_accept_connections is never counted down, so that MaxConnections= bounds
  the connections there have ever been, not the "currently active" ones of
  `sockets/network_sockets.rs:406`.
* A oneshot that exits cleanly keeps the status Started and re-arms the socket "so
  socket activation can re-trigger" (`service_exit_handler.rs:1272`); the next
  connection finds the service started, is ignored, and the mark stays.
* A socket whose deferral has ended waits for the next wake-up of select, which
  may have no timeout; the ones that were due are forgotten when select is
  interrupted.
* A socket that failed with DeferTriggerMaxSec= is re-armed by a later stop of its
  service; one that hit its trigger limit stays failed when it is restarted.

## 5. Proofs

A proof module `XProofs` extends the module it is about. What it proves holds for
any sets of units, clients, owners and pids, any dependency graph and any value of
the other constants that satisfies the assumptions stated beside them
(`MaxIdAssumption`, `GraphAssumption`, ...); these are the shapes the code's types
give, that there are finitely many units, and for a boot (`BootAssumption`) that the
2^32 job ids are more than there are units. Hypotheses beyond that are part of the
theorem; what each excludes is said below.

| theorem | states | hypothesis |
|---|---|---|
| `JobRegistryProofs!TypeCorrect`, `UniqueJobs`, `QueueCorrect`, `LateFinishHarmless` | `[]TypeOK`, `[]OneJobPerUnit`, `[]RunQueueSound`, `[]HoldersMatch` | |
| `JobRegistryProofs!EveryClientHearsOnce` | `[]WaiterAccounting` | |
| `JobRegistryProofs!MergeKeepsPromise` | `NoDowngrade` | |
| `StopGraphProofs!StopTypes` | `[]TypeOK` | |
| `StopGraphProofs!NothingIsForgotten` | `[]NothingForgotten` | `Acyclic` |
| `StopGraphProofs!OneChainEach` | `[]OneChain` | `~Overlap`, `ApartFromTrees` |
| `StopGraphProofs!StopsAreOrdered` | `StopsInOrder`: `StopGraph` implements `OrderedStop` | the same, and `StopAnswered` |
| `ServiceLifecycleProofs!LifecycleTypes` | `[]TypeOK` | |
| `ServiceLifecycleProofs!NoProcessIsLost`, `StopsStick` | `[]NoOrphan`, `[]StopSticks` | `RestartDecisions = {FALSE} \/ Requests \subseteq {"stop"}` |
| `ServiceLifecycleProofs!StatusIsTrue` | `[]StatusTellsTruth` | `Requests \subseteq {"stop"}` |
| `StartSweepProofs!SweepTypes`, `OrderHolds` | `[]TypeOK`, `[]OrderRespected` | |
| `BootDriveProofs!BootTypes`, `NoJobIsStranded` | `[]BootTypeOK`, `[]NoStrandedJob` | |
| `BootDriveProofs!BootOrder`, `BootIsComplete` | `[]OrderRespected`, `[]BootComplete` | `StartedOnce` |
| `StartWaitProofs!StartWaitTypes` | `[]TypeOK` | |
| `StartWaitProofs!NoVerdictMissed`, `TimeoutIsDeserved` | `[]NoIdleVerdict`, `TermIsDeserved` | |
| `SocketActivationProofs!SocketTypes`, `NoMissedRearm`, `TriggerLimitHolds` | `[]TypeOK`, `[]SleepIsInformed`, `[]LimitIsFinal` | |

`JobOpsProofs` has the lemmas about the operations of the registry as functions of
its value; `JobRegistryProofs`, `StopGraphProofs` and `BootDriveProofs` rest on it.
`BootDriveProofs` also rests on `StartSweepProofs`, whose lemmas are about single
steps of a task.

### The hypotheses

* `Acyclic`: no set of units in which everyone has a dependent in the set. Units that
  are PartOf= each other wait for each other for ever; `begin_stop_tree` has no guard
  against it (section 4). Requests may overlap in any way.
* `~Overlap`: a stop or start is asked for when the stops before it are over; section 4
  has what happens otherwise. The graph may have cycles.
* `ApartFromTrees`: what is stopped in the course of another stop, by PropagatesStopTo=
  or StopWhenUnneeded=, is a unit nothing depends on. `begin_stop_tree` only asks
  whether its root is in the graph. With web PartOf= app, app requiring db and
  PropagatesStopTo=db in web, a stop of app runs app's ExecStop= when web is down, and
  then begins the tree of db: app is up still, so it is a member and a leaf of that
  tree, too, and its chain is started again. TLC finds this on these constants, where
  the refinement fails, too.
* `StopAnswered`: the liveness half of `OrderedStop`, which follows from fairness only.
  `stop_serial` checks the whole refinement under `FairSpec`; the theorem has the steps.
* `RestartDecisions = {FALSE}` is Restart=no with any requests, `Requests \subseteq
  {"stop"}` any Restart= with stops only. The rest is a systemctl start or restart
  that meets an automatic restart, where the code breaks NoOrphan: the finding of
  `service_restart_race`. So the proof and the counterexample share the cases between
  them. StopSticks has the same hypothesis since its proof rests on the same
  invariants; its content with stops only is that a stop is undone by a restart that is
  past its last look at the status and by no other.
* `StartedOnce` is `OthersApart` and `Slow` = {}: no job expires while its unit is still
  NeverStarted (section 4 has what a slow mount does; `boot_drain` allows it for one
  unit). `OthersApart` has two parts. `Reached` holds no mount and no
  service whose start is parked: what socket activation, the exit handler or udev start
  beside the drive, and the before-chains of these starts, do not get to units whose start
  takes several steps without the unit's lock; with `Also` = {mnt} on the constants of
  `boot_drain` TLC has OrderRespected violated. And devices are ordered after nothing:
  udev flips their status without a look at After=. `MC_BootDrive` assumes OthersApart,
  so that TLC evaluates it on the constants of `boot_drain`.

### The inductive invariants

None of the properties is inductive alone; TLC checked each strengthening below on the
constants of the runs before it was proved.

*Registry.* `finish` finds the entry to remove through `by_unit`, so queue and index
have to be carried together; and that a late finish is harmless needs that ids are
never handed out again:

    IInv == TypeOK /\ Sound(reg) /\ every held id, and the drive's, is Known

`Sound` says that index, jobs and queue agree and that every installed id is below
`next_id`, `Known(r, id, u)` that the id is below `next_id` and, if installed, a job of
`u`. `Evolves(r, s)` relates the registry before and after an operation: `next_id` does
not decrease, a job that stays keeps its unit and does at least what it did, and a new
job has an id that was not handed out before. Each operation is proved Sound and
evolving once (`FinishSound`, `CreateSound`, ...); an action then needs only that what
is held stays Known (`StepKept`). For WaiterAccounting, `Wakes(r, s, ws)` says that an
operation removes one job and hands back exactly its waiters, and `SameClients` that it
touches none; every step is one or the other, or attaches a client that had asked for
nothing. The theorems rest on the bound `IdsRemain`: ids are not reused, which holds for
the first 2^32 - 1 jobs.

*Stop graph.* A unit of the graph that waits must wait for something. `pending_counts`
is a number, so the invariant says what stands behind it:

    CountsBacked == \A p \in active : counts[p] <= Outstanding(p)
    ActiveMoves  == \A u \in active : counts[u] > 0 \/ Busy(u)

`Outstanding(p)` sums what the children of p in `parents` owe it and the credits of
children that are down which on_stop_chain_finished, still on the stack, has not given
yet. More may be outstanding than is counted: with overlapping requests an edge of an
earlier transaction can outlive the count it was for. Sums over a finite set are cardinalities of a set of pairs
(`Total`), since an induction over the set is out of the prover's reach. At rest nobody
is Busy and nothing is on the stack, so every active unit has an active child; on an
acyclic graph there is none. Clients are covered by `ClientsHeld`: an unanswered client
is attached to an installed job that is in rootJobs, in an event or in a frame, whose
holder will finish it.

*Stops one after the other.* `SerialInv` adds to this that the counts are not too low
either, and that whoever is at work is so once:

    Exact             == \A p \in Unit : IF p \in active THEN Outstanding(p) <= counts[p]
                                         ELSE Outstanding(p) = 0
    DependentsCounted == every dependent of an active p is down, or active and owes p
    OneAtWork         == one chain each; the units on the stack or on a chain are in
                         the graph, wait for nobody and are not both

From the first two: a unit whose count reaches 0 has no dependent left that is up
(`DependentsAreDown`), which is what every step of a chain needs to be a step of
`OrderedStop` (`ChainShows`). OneAtWork is preserved because a count reaches 0 with one
credit only, which needs that no two frames of the stack are about one unit and that
on_stop_chain_finished is the innermost call when it begins (`Tidy`). `BeginsApart`
says that an event or call that begins a tree finds either an empty graph or
is about a unit without dependents, and `JobsMatch` that the jobs that clients wait for
are those of the unit they asked for, so that an answer at the end of a tree, or for a
root that is down, is true. `UpToTheEnd` and `StopShows` tie the status to
where the chain is.

*One service.* With Restart=no a tail can only end (`TailsOnlyEnd`) and between the last
sweep of a stop and the next request nobody of the control interface is at work
(`NobodyAsks`). With stops only, what was swept stays down because a tail that is not
past its last look finds the status that the stop left. With automatic restarts there may be many exits over time but only one
at once: `Bodies` are the processes that live, are zombies, whose exit is queued or in
the dispatcher's hand, `Mourners` the tails at work; there is at most one of each, and
both only when the tail has just started the process (`OneBody`, `OneMourner`). That
needs that whoever works holds the lock (`Locked`) and clears the pid before it starts
(`Cleared`). As long as nobody asked, the status follows the two (`Follows`).

*Sweep.* `InFlight`: whatever is on a pool, in the dispatcher's mail or parked was
startable and still is; `Skips`: a unit that was skipped has a failing condition and is
not started after all, nor asked to, so that a settled unit stays settled. `Closure` is the least set
that holds the root and is closed under what it pulls in, which is what the walk of
collect_unit_start_subgraph computes.

*Boot.* That no job is stranded relates the registry, the tasks and the drive:

    DriveInv == BootTypeOK /\ Sound(reg) /\ Turns /\ TasksMatch /\ TasksMove /\ NoStrandedJob

`TasksMatch`: the id a worker carries is that of its unit's job, or of one that is gone;
ids are not handed out again, so a late set_waiting or finish hits nobody else.
`TasksMove`: a worker leaves its unit only when its status has moved on. What a step does
to the tasks and to the registry is stated once, without naming the step (`TaskFlow`,
`RegFlow`), and NoStrandedJob is preserved by any step of that kind. For the other two
theorems `BootInv` adds `SweepInv` and

    Ripe     what is on a pool, queued or under way was Ready and still is
    Covered  a unit of the closure that is NeverStarted has a job, and is in the
             activation set the drive took before it let go of the registry; a job
             that expires or ends in an error is that of a unit under way
    Ends     nothing is at work before the jobs are there; a producer that is done
             found no job
    Alone    a unit other starters do not get to is in one place: with the drive, with
             one worker, or with the dispatcher
    Locks    who has a unit's state has it alone, and the status agrees

`Ready` asks with the whole closure as activation set and the drive with the units that
have jobs; by Covered the drive's set is no smaller where it matters. Ripe survives
because settled units stay settled (`ReadyKept`). That they do needs Alone and Locks
(with `Held` and `Origins`, which say who carries what): a second start of a unit that
is Started would take it back to Starting, or to Failed. By Covered, `Lost` is always empty in such a
boot: the producer's periodic top-up of the jobs is a precaution there.

*One start.* `Looked`: a wait that stays parked was looked at after the last change, or
its report came with the grace (`Reported`).
TermIsDeserved also needs that a wait is the only one who ends its start
(`WaitDecides`), from `FirstPark` (the registration is handled before any other event of
the start) and `ExitFirst` (whoever ends a oneshot has its exit).

*Sockets.* SleepIsInformed is inductive together with the types, LimitIsFinal,
`NotDeferred` (a socket that is being handled is not deferred) and `OneStopper`; the
types need that no connection is counted twice (`Accounted`) and that one that is
given back was counted (`InstanceCounted`).

### Only model-checked

SettledStays, which needs an invariant like `Alone` for the sweep, and all liveness,
which is out of the prover's reach:
StopAnswered (part of the refinement of `OrderedStop`), UnneededCollected, BootReturns and
the temporal properties of the other runs. So is induction over data: that `Members` is
what the loop of begin_stop_tree collects is a matter of its definition.

## 6. Not modelled

In the modelled parts: masked units, KillMode= other than control-group,
Restart= for types other than simple, RELOADING=1 (which counts as ready), the steps
of ExecCondition= and ExecStartPre= chains, the commands of a oneshot after the first, Conflicts= between units of one sweep,
Requisite=, OnFailure=, Upholds=, RestartMode=, frozen units, removal of a unit
from the table while it is being stopped, job ids after 2^32, several sockets of
one service. A stop is requested with job mode replace; that its client gives up after
120 s, and that a start which was asked for meanwhile is carried out at its end
(`control/control.rs:6182`), are left out. `BootDrive` leaves out the sweeps that udev, the exit handler and
the producer's fallback after 20 s run beside the drive; the tasks such a sweep
would add are those of `StartSweep`, and `OtherStart` stands for one of them.

Whole components left out are in `PROJECT.json` with the reason. The table lock
and the slice limits are the two of the manager that have a question left in
them; both would need every user of the table or of a slice in one model. The
other eighty programs of the repository (udevd, journald, logind, networkd,
resolved, repart, homed, nspawn, analyze, ...) are most of its lines and none of
the manager: each is a program of its own, many of them sequential tools that
parse, format and call the kernel. A model of the manager says nothing about
them, and no claim about them is made.

## 7. Plan

Done: the registry (core), stops in dependency order and the abstract specification
they implement, one service's life, starts by sweep and by job graph, the parked
start, socket activation, and the theorems of section 5: every invariant of the passing
runs. Left, in this order:

1. SettledStays as a theorem, with an invariant like `Alone` for the sweep.
2. OrderRespected of the boot without `Reached \cap (Mounts \cup Deferring) = {}`, for
   the starts that do keep the order when they meet the drive, and with `Slow` units
   that nothing is ordered after.
3. The sweeps that run beside the drive (section 6), with the tasks of `StartSweep` in
   `BootDrive`.
4. What section 4 lists under *Also met*, as runs of their own.
