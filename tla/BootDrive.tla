----------------------------- MODULE BootDrive -----------------------------
(***************************************************************************)
(* The job graph of the boot: activate_needed_units_via_job_graph (the     *)
(* producer thread), drive_run_queue (a step of the dispatcher's loop) and *)
(* the pool workers it hands the units to.  The tasks of the workers and   *)
(* the parked starts are those of StartSweep; the sweeps themselves, which *)
(* udev, the exit handler and the producer's fallback after 20 s run       *)
(* beside the drive, are left to StartSweep.                               *)
(*                                                                         *)
(*   reg       the job registry                                            *)
(*   drive     where the dispatcher is in drive_run_queue, the activation  *)
(*             set it took, and the job it popped                          *)
(*   wake      whether a JobQueued event is on its way; the event carries  *)
(*             nothing, so several of them are one                         *)
(*   draining  JOB_GRAPH_BOOT_DRAINING                                     *)
(*   producer  where the producer is                                       *)
(*                                                                         *)
(* All jobs are Start jobs; the jobs control threads install meanwhile are *)
(* in JobRegistry.                                                         *)
(***************************************************************************)
EXTENDS StartSweep

CONSTANTS
    Absent,       \* devices that never appear
    Also,         \* units of the closure that another thread starts, too
    Slow          \* units that may still be NeverStarted 90 s after their
                  \* job was dispatched: a full pool, a slow mount or condition

ASSUME BootAssumption ==
    /\ Absent \subseteq Devices /\ Slow \subseteq Unit
    /\ Also \subseteq Closure
    /\ Cardinality(Unit) < MaxId   \* there are job ids enough for a boot

VARIABLES reg, drive, wake, draining, producer

bootVars == << reg, drive, wake, draining, producer >>
vars == << sweepVars, bootVars >>

Off == [pc |-> "idle", set |-> {}, id |-> NoJob]

BootTypeOK ==
    /\ TypeOK
    /\ IsRegistry(reg)
    /\ drive \in [pc : {"idle", "retire", "prime", "pop", "popped", "start"},
                  set : SUBSET Unit, id : JobId \cup {NoJob}]
    /\ wake \in BOOLEAN /\ draining \in BOOLEAN
    /\ producer \in {"install", "arm", "tick", "done", "gaveUp"}

(* Phase 1 of the drive keeps the registry locked over two steps here.     *)
RegistryFree == drive.pc # "prime"

StatusOf(id) == status[reg.jobs[id].unit]

UnitsWithJobs == DOMAIN reg.byUnit

(* enqueue_ready, given the activation set.                                *)
Enqueue(r, set) ==
    \E ids \in IdOrder(ReadyIds(r, {u \in Unit : Startable(u, set)})) :
        reg' = EnqueueAll(r, ids)

(* create for each of the units, which have no job or a Start job already, *)
(* in some order.                                                          *)
CreateAll(r, units) ==
    LET new  == units \ DOMAIN r.byUnit
        ids  == r.nextId .. (r.nextId + Cardinality(new) - 1)
        unit == CHOOSE f \in [ids -> new] : \A u \in new : \E i \in ids : f[i] = u
        job(u) == [unit |-> u, kind |-> "Start", state |-> "Waiting",
                   deadline |-> "none", waiters |-> {}]
    IN  [nextId   |-> r.nextId + Cardinality(new),
         jobs     |-> [i \in Installed(r) \cup ids |->
                         IF i \in ids THEN job(unit[i]) ELSE r.jobs[i]],
         byUnit   |-> [u \in DOMAIN r.byUnit \cup new |->
                         IF u \in new THEN CHOOSE i \in ids : unit[i] = u
                         ELSE r.byUnit[u]],
         runQueue |-> r.runQueue]

(* finish for each of the jobs; the others stay queued in their order.     *)
FinishAll(r, ids) ==
    LET kept == {k \in 1 .. Len(r.runQueue) : r.runQueue[k] \notin ids}
    IN  \E order \in IdOrder(kept) :
          reg' = [nextId   |-> r.nextId,
                  jobs     |-> [i \in Installed(r) \ ids |-> r.jobs[i]],
                  byUnit   |-> [u \in {v \in DOMAIN r.byUnit : r.byUnit[v] \notin ids}
                                  |-> r.byUnit[u]],
                  runQueue |-> [k \in 1 .. Cardinality(kept) |-> r.runQueue[order[k]]]]

-----------------------------------------------------------------------------
(* drive_run_queue, after every event while the producer drains. *)

AfterEvent == drive' = IF draining THEN [Off EXCEPT !.pc = "retire"] ELSE Off

TakeWake ==
    /\ drive.pc = "idle" /\ wake
    /\ wake' = FALSE
    /\ AfterEvent
    /\ UNCHANGED << sweepVars, reg, draining, producer >>

(* The start waits of the dispatcher are events too.                       *)
TakeStartEvent ==
    /\ drive.pc = "idle"
    /\ DispatcherStep
    /\ AfterEvent
    /\ UNCHANGED << reg, wake, draining, producer >>

(* Fault: every job is retired whose unit is not Starting.                 *)
RetirableIdle ==
    {id \in Installed(reg) : StatusOf(id) # "Starting" \/ id \in Expired(reg)}

(* The jobs of Phase 1: Running ones whose unit has settled, Waiting ones  *)
(* whose unit is Started, and those past their deadline.                   *)
Retirable ==
    {id \in Installed(reg) : \/ reg.jobs[id].state = "Running" /\ StatusOf(id) \in Settled
                             \/ reg.jobs[id].state = "Waiting" /\ StatusOf(id) = "Started"
                             \/ id \in Expired(reg)}

DriveRetire ==
    /\ drive.pc = "retire"
    /\ IF Installed(reg) = {} THEN drive' = Off /\ reg' = reg
       ELSE /\ drive' = [Off EXCEPT !.pc = "prime", !.set = UnitsWithJobs]
            /\ FinishAll(reg, Retirable)
    /\ UNCHANGED << sweepVars, wake, draining, producer >>

DrivePrime ==
    /\ drive.pc = "prime"
    /\ Enqueue(reg, drive.set)
    /\ drive' = [Off EXCEPT !.pc = "pop"]
    /\ UNCHANGED << sweepVars, wake, draining, producer >>

DrivePop ==
    /\ drive.pc = "pop"
    /\ \/ \E k \in 1 .. Len(reg.runQueue) :
            /\ FirstWaiting(reg, k)
            /\ reg' = PopReady(reg, k)
            /\ drive' = [Off EXCEPT !.pc = "popped", !.id = reg.runQueue[k]]
       \/ /\ \A k \in 1 .. Len(reg.runQueue) : ~FirstWaiting(reg, k)
          /\ reg' = [reg EXCEPT !.runQueue = << >>]
          /\ drive' = Off
    /\ UNCHANGED << sweepVars, wake, draining, producer >>

(* Only a unit that is still NeverStarted is dispatched: another thread    *)
(* may have begun it since.                                                *)
DriveLook ==
    LET id    == drive.id
        known == id \in Installed(reg)
        fresh == known /\ StatusOf(id) = "NeverStarted"
    IN  /\ drive.pc = "popped"
        /\ drive' = IF fresh THEN [drive EXCEPT !.pc = "start"] ELSE [Off EXCEPT !.pc = "pop"]
        /\ reg' = IF ~known \/ fresh THEN reg
                  ELSE IF StatusOf(id) = "Started" THEN Finish(reg, id)
                  ELSE SetRunning(reg, id)
        /\ UNCHANGED << sweepVars, wake, draining, producer >>

(* The job gets its 90 s and the pool its task.                            *)
DriveStart ==
    LET id == drive.id
    IN  /\ drive.pc = "start"
        /\ drive' = [Off EXCEPT !.pc = "pop"]
        /\ reg' = SetDeadline(SetRunning(reg, id), id)
        /\ work' = work (+) SetToBag({NewTask(u, "job", id) :
                              u \in {v \in UnitsWithJobs : reg.byUnit[v] = id}})
        /\ UNCHANGED << status, forked, ready, mail, waits, sweep, wake, draining, producer >>

(* 90 s from the dispatch pass: the deadline wheel wakes the dispatcher.   *)
JobDue(id) ==
    /\ id \in Installed(reg) /\ reg.jobs[id].deadline = "armed" /\ RegistryFree
    /\ StatusOf(id) = "Starting" \/ (StatusOf(id) = "NeverStarted" /\ reg.jobs[id].unit \in Slow)
    /\ reg' = [reg EXCEPT !.jobs[id].deadline = "due"]
    /\ wake' = TRUE
    /\ UNCHANGED << sweepVars, drive, draining, producer >>

-----------------------------------------------------------------------------
(* The pool workers of the drive. *)

Notice == wake' = (wake \/ draining)

(* A mount runs outside the unit's locks with a scratch status: the unit   *)
(* stays NeverStarted until the result is written.                         *)
MountBegins(t) ==
    /\ t.step = "queued" /\ t.by = "job" /\ t.unit \in Mounts
    /\ Return(t, "mounting", FALSE)
    /\ UNCHANGED << status, forked, ready, mail, waits, sweep, bootVars >>

(* Fault: the status of a mount that failed is not written.                *)
MountEndsQuietly(t) ==
    /\ t.step = "mounting"
    /\ \/ SetStatus(t.unit, "Started") /\ Return(t, "quit", FALSE)
       \/ t.unit \in MayFail /\ status' = status /\ Return(t, "quit", FALSE)
    /\ UNCHANGED << forked, ready, mail, waits, sweep, bootVars >>

MountEnds(t) ==
    /\ t.step = "mounting"
    /\ \/ SetStatus(t.unit, "Started") /\ Return(t, "quit", FALSE)
       \/ t.unit \in MayFail /\ SetStatus(t.unit, "Failed") /\ Return(t, "err", FALSE)
    /\ UNCHANGED << forked, ready, mail, waits, sweep, bootVars >>

(* A start that is left Starting is parked without a before-chain.         *)
JobLeave(t) ==
    /\ t.by = "job" /\ t.step \in {"ret", "quit"}
    /\ mail' = IF t.step = "ret" /\ status[t.unit] = "Starting"
               THEN Append(mail, [unit |-> t.unit, chain |-> FALSE]) ELSE mail
    /\ Become(t, {})
    /\ Notice
    /\ UNCHANGED << status, forked, ready, waits, sweep, reg, drive, draining, producer >>

JobError(t) ==
    /\ t.by = "job" /\ t.step = "err" /\ RegistryFree
    /\ reg' = Finish(reg, t.id)
    /\ Become(t, {})
    /\ Notice
    /\ UNCHANGED << status, forked, ready, mail, waits, sweep, drive, draining, producer >>

BootWorker(t) ==
    \/ WorkerStep(t) /\ UNCHANGED bootVars
    \/ MountBegins(t) \/ MountEnds(t) \/ JobLeave(t) \/ JobError(t)

-----------------------------------------------------------------------------
(* The producer. *)

InstallJobs ==
    /\ producer = "install" /\ RegistryFree
    /\ Enqueue(CreateAll(reg, Closure), Closure)
    /\ wake' = TRUE
    /\ producer' = "arm"
    /\ UNCHANGED << sweepVars, drive, draining >>

(* The flag goes up only after the first JobQueued was sent.               *)
Arm ==
    /\ producer = "arm"
    /\ draining' = TRUE
    /\ producer' = "tick"
    /\ UNCHANGED << sweepVars, reg, drive, wake >>

Drained ==
    /\ producer = "tick" /\ RegistryFree /\ Installed(reg) = {}
    /\ draining' = FALSE
    /\ producer' = "done"
    /\ UNCHANGED << sweepVars, reg, drive, wake >>

(* The 200 ms nudge.                                                       *)
Nudge ==
    /\ producer = "tick" /\ RegistryFree /\ Installed(reg) # {}
    /\ wake' = TRUE
    /\ UNCHANGED << sweepVars, reg, drive, draining, producer >>

(* Units of the closure that have been left without a job.                 *)
Lost == {u \in Closure \ UnitsWithJobs : status[u] = "NeverStarted"}

(* Bound: MaxId jobs.                                                      *)
IdsRemain == reg.nextId + Cardinality(Lost) <= MaxId

(* Every tenth tick.                                                       *)
TopUp ==
    /\ producer = "tick" /\ RegistryFree /\ Installed(reg) # {} /\ IdsRemain
    /\ Enqueue(CreateAll(reg, Lost), Closure)
    /\ wake' = TRUE
    /\ UNCHANGED << sweepVars, drive, draining, producer >>

(* Fault: no deadline.                                                     *)
GiveUpNever == FALSE /\ UNCHANGED vars

(* The 300 s of the producer are over, whatever the jobs are at.           *)
GiveUp ==
    /\ producer = "tick" /\ RegistryFree /\ Installed(reg) # {}
    /\ draining' = FALSE
    /\ producer' = "gaveUp"
    /\ UNCHANGED << sweepVars, reg, drive, wake >>

(* udev announces a device.                                                *)
Plug(u) ==
    /\ u \in Devices \ Absent /\ status[u] = "NeverStarted"
    /\ SetStatus(u, "Started")
    /\ UNCHANGED << forked, ready, work, mail, waits, sweep, bootVars >>

(* Socket activation, the exit handler or udev hands a unit to a pool that *)
(* has a job, too, as long as they find it NeverStarted.                   *)
OtherStart(u) ==
    /\ u \in Also /\ producer = "tick"
    /\ status[u] = "NeverStarted" /\ Startable(u, Closure)
    /\ \A t \in Tasks : t.unit = u => t.by = "job"
    /\ work' = work (+) SetToBag({NewTask(u, "chain", NoJob)})
    /\ UNCHANGED << status, forked, ready, mail, waits, sweep, bootVars >>

-----------------------------------------------------------------------------

Drive == DriveRetire \/ DrivePrime \/ DrivePop \/ DriveLook \/ DriveStart

Producer == InstallJobs \/ Arm \/ Drained \/ GiveUp

BootNext ==
    \/ \E t \in Tasks : BootWorker(t)
    \/ TakeWake \/ TakeStartEvent \/ Drive
    \/ \E id \in JobId : JobDue(id)
    \/ Producer \/ Nudge \/ TopUp
    \/ \E u \in Unit : Plug(u) \/ OtherStart(u)

BootInit ==
    /\ Nothing
    /\ sweep = [pc |-> "idle", before |-> 0]
    /\ reg = EmptyRegistry
    /\ drive = Off
    /\ wake = FALSE /\ draining = FALSE
    /\ producer = "install"

(* Nothing of the closure can move any more.                               *)
Stuck ==
    /\ work = EmptyBag /\ mail = << >> /\ drive.pc = "idle"
    /\ Installed(reg) # {} /\ Retirable = {}
    /\ \A id \in Installed(reg) :
         reg.jobs[id].state = "Waiting" /\ ~Startable(reg.jobs[id].unit, Closure)
    /\ \A u \in Unit : status[u] # "Starting"
    /\ \A u \in Devices \ Absent : status[u] = "Started"

(* The deadline of the producer may come at any time; that it comes is     *)
(* only relied on when nothing else can happen.                            *)
BootFairness ==
    /\ WF_vars(\E t \in Tasks : BootWorker(t))
    /\ SF_vars(\E t \in Tasks : JobError(t))
    /\ WF_vars(TakeWake) /\ WF_vars(Drive)
    /\ SF_vars(drive.pc = "idle" /\ Register /\ TakeStartEvent)
    /\ \A u \in Deferring :
         SF_vars(drive.pc = "idle" /\ (NotifyReady(u) \/ StartFails(u)) /\ TakeStartEvent)
    /\ SF_vars(InstallJobs \/ Arm \/ Drained) /\ SF_vars(Stuck /\ GiveUp)
    /\ SF_vars(Nudge) /\ SF_vars(TopUp)
    /\ \A u \in Devices : WF_vars(Plug(u))

BootSpec == BootInit /\ [][BootNext]_vars /\ BootFairness

-----------------------------------------------------------------------------
(* A boot whose units are started once. *)

(* The units the walks of other starters get to: what they start, and what *)
(* is ordered after it.                                                    *)
Reached ==
    {u \in Unit : \A S \in SUBSET Unit :
        Also \subseteq S /\ (\A v \in S : Before(v) \cap Closure \subseteq S) => u \in S}

(* Other starters do not get to mounts and to services whose start is      *)
(* parked; devices, which udev starts, are ordered after nothing.          *)
OthersApart ==
    /\ Reached \cap (Mounts \cup Deferring) = {}
    /\ \A u \in Devices \cap Unit : After[u] = {}

-----------------------------------------------------------------------------
(* Properties. *)

(* A Running job is never left to itself: the drive holds it, a worker     *)
(* carries it, or its unit is Starting or settled, so that a later scan    *)
(* retires it.                                                             *)
NoStrandedJob ==
    \A id \in Installed(reg) : reg.jobs[id].state = "Running" =>
        \/ drive.id = id
        \/ \E t \in Tasks : t.by = "job" /\ t.id = id
        \/ StatusOf(id) # "NeverStarted"

(* The producer returns, even if a required unit has failed: nothing but   *)
(* its deadline ends the wait then.                                        *)
BootReturns == <>(producer \in {"done", "gaveUp"})

(* An empty registry means what the producer takes it for.  Workers, scans *)
(* and the deadlines of the jobs all finish jobs; still, when the producer *)
(* returns without its own deadline, no unit of the closure is left that   *)
(* nobody has begun: a unit whose job expired first has a worker.          *)
BootComplete ==
    producer = "done" => \A u \in Closure :
        status[u] # "NeverStarted" \/ \E t \in Tasks : t.unit = u
=============================================================================
