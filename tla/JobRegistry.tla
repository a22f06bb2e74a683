----------------------------- MODULE JobRegistry -----------------------------
(***************************************************************************)
(* The job registry with everybody who uses it: control threads with a     *)
(* JobHandle, clients blocked on a stop, --no-block monitors, the stop     *)
(* graph of the dispatcher, and the boot drive with its pool workers.      *)
(*                                                                         *)
(* An owner is a thread, or an event in a queue, that remembers a job id   *)
(* and will call finish on it later, without knowing what has happened to  *)
(* the job since.  held[o] is what owner o remembers.  drive is what the   *)
(* drive remembers, between two acquisitions of the registry's mutex, of   *)
(* the job it popped.  asked and replies record the reply channels: those  *)
(* handed to add_waiter, and what each has received.                       *)
(*                                                                         *)
(* What decides a result (unit states, exit codes, readiness) is outside   *)
(* this module and chosen freely here.                                     *)
(***************************************************************************)
EXTENDS JobOps

CONSTANTS
    Owner,      \* threads and queued events that hold a job id
    Requested   \* the kinds JobHandle users ask for

ASSUME RequestedAssumption == Requested \subseteq Kind

VARIABLES reg, held, drive, asked, replies

vars == << reg, held, drive, asked, replies >>

Role == {"handle", "tree", "monitor", "worker"}

Free == [role |-> "free", unit |-> "none", id |-> NoJob]

Held == [role : Role, unit : Unit, id : JobId]

Driving == [role : {"popped", "start"}, unit : Unit, id : JobId]

TypeOK ==
    /\ IsRegistry(reg)
    /\ held \in [Owner -> Held \cup {Free}]
    /\ drive \in Driving \cup {Free}
    /\ asked \subseteq Waiter
    /\ replies \in [Waiter -> Seq(Result)]

Init ==
    /\ reg = EmptyRegistry
    /\ held = [o \in Owner |-> Free]
    /\ drive = Free
    /\ asked = {}
    /\ replies = [w \in Waiter |-> << >>]

-----------------------------------------------------------------------------

(* sender.send(result) on each of the channels in ws.                      *)
Answer(ws, result) ==
    [w \in Waiter |-> IF w \in ws THEN Append(replies[w], result)
                      ELSE replies[w]]

(* finish, with the replies it sends.                                      *)
DoFinish(id, result) ==
    /\ reg' = Finish(reg, id)
    /\ replies' = Answer(Woken(reg, id), result)

(* Bound: ids are not reused, which the code reaches after 2^32 - 1        *)
(* installed jobs.                                                         *)
IdsRemain == reg.nextId < MaxId

(* What create sends to the channels of the job it replaces.               *)
AnswerSuperseded(u, kind, mode) ==
    replies' = Answer(Superseded(reg, u, kind, mode), "Canceled")

Take(o, role, u, id) ==
    /\ held[o] = Free
    /\ held' = [held EXCEPT ![o] = [role |-> role, unit |-> u, id |-> id]]

Release(o) == held' = [held EXCEPT ![o] = Free]

-----------------------------------------------------------------------------
(* Control threads with a JobHandle. *)

(* JobHandle::create; on an error the handler returns it to its client.    *)
HandleCreate(o, u, kind, mode) ==
    LET id == CreatedId(reg, u, kind, mode)
    IN  /\ IdsRemain
        /\ reg' = SetRunning(Create(reg, u, kind, mode), id)
        /\ AnswerSuperseded(u, kind, mode)
        /\ IF id = NoJob THEN held[o] = Free /\ held' = held
           ELSE Take(o, "handle", u, id)
        /\ UNCHANGED << drive, asked >>

(* JobHandle::finish, or its drop on an early return (Failed).             *)
HandleFinish(o, result) ==
    /\ held[o].role = "handle"
    /\ DoFinish(held[o].id, result)
    /\ Release(o)
    /\ UNCHANGED << drive, asked >>

(* A start above its slice's soft limit parks its job as Waiting.          *)
HandlePark(o) ==
    /\ held[o].role = "handle"
    /\ reg' = SetWaiting(reg, held[o].id)
    /\ UNCHANGED << held, drive, asked, replies >>

HandleResume(o) ==
    /\ held[o].role = "handle"
    /\ reg' = SetRunning(reg, held[o].id)
    /\ UNCHANGED << held, drive, asked, replies >>

-----------------------------------------------------------------------------
(* Stops through the dispatcher: the StopUnitTree event holds the job.     *)

(* stop_units_via_tree: create, set_running, add_waiter in one critical    *)
(* section, then the event is sent.                                        *)
StopRequest(o, w, u, mode) ==
    LET id == CreatedId(reg, u, "Stop", mode)
    IN  /\ IdsRemain
        /\ w \notin asked
        /\ id # NoJob
        /\ reg' = AddWaiter(SetRunning(Create(reg, u, "Stop", mode), id), id, w)
        /\ AnswerSuperseded(u, "Stop", mode)
        /\ asked' = asked \cup {w}
        /\ Take(o, "tree", u, id)
        /\ UNCHANGED drive

(* StopNoBlock: nobody waits.                                              *)
StopNoBlock(o, u) ==
    LET id == CreatedId(reg, u, "Stop", "Replace")
    IN  /\ IdsRemain
        /\ reg' = SetRunning(Create(reg, u, "Stop", "Replace"), id)
        /\ AnswerSuperseded(u, "Stop", "Replace")
        /\ Take(o, "tree", u, id)
        /\ UNCHANGED << drive, asked >>

(* finish_stop_root: the stop graph completes the job of a root.           *)
TreeFinish(o) ==
    /\ held[o].role = "tree"
    /\ DoFinish(held[o].id, "Done")
    /\ Release(o)
    /\ UNCHANGED << drive, asked >>

-----------------------------------------------------------------------------
(* StartNoBlock and the thread that polls the unit's status. *)

NoBlockCreate(o, u) ==
    LET id == CreatedId(reg, u, "Start", "Replace")
    IN  /\ IdsRemain
        /\ reg' = Create(reg, u, "Start", "Replace")
        /\ AnswerSuperseded(u, "Start", "Replace")
        /\ Take(o, "monitor", u, id)
        /\ UNCHANGED << drive, asked >>

MonitorRun(o) ==
    /\ held[o].role = "monitor"
    /\ reg' = SetRunning(reg, held[o].id)
    /\ UNCHANGED << held, drive, asked, replies >>

MonitorFinish(o, result) ==
    /\ held[o].role = "monitor"
    /\ DoFinish(held[o].id, result)
    /\ Release(o)
    /\ UNCHANGED << drive, asked >>

-----------------------------------------------------------------------------
(* The boot job graph: the producer, the drive and its pool workers. *)

BootCreate(u) ==
    /\ IdsRemain
    /\ reg' = Create(reg, u, "Start", "Replace")
    /\ AnswerSuperseded(u, "Start", "Replace")
    /\ UNCHANGED << held, drive, asked >>

EnqueueReady(ready) ==
    /\ \E ids \in IdOrder(ReadyIds(reg, ready)) : reg' = EnqueueAll(reg, ids)
    /\ UNCHANGED << held, drive, asked, replies >>

RequeueAfterFinish(neighbours, ready) ==
    /\ \E ids \in AnyOrder(NeighbourIds(reg, neighbours, ready)) :
         reg' = EnqueueAll(reg, ids)
    /\ UNCHANGED << held, drive, asked, replies >>

(* Phase 1 runs under one acquisition of the mutex; each job it finishes   *)
(* is a step of its own here, which only adds interleavings.  It finishes  *)
(* the Start jobs whose unit got where it is going, ...                    *)
DriveRetire(id, result) ==
    /\ drive = Free
    /\ id \in Installed(reg)
    /\ reg.jobs[id].kind = "Start"
    /\ reg.jobs[id].state = "Running" \/ result = "Done"
    /\ DoFinish(id, result)
    /\ UNCHANGED << held, drive, asked >>

(* ... and the jobs that pop_expired reports.                              *)
DriveExpire(id) ==
    /\ drive = Free
    /\ id \in Expired(reg)
    /\ DoFinish(id, "Timeout")
    /\ UNCHANGED << held, drive, asked >>

(* Phase 2 takes the mutex once per step: pop, ...                         *)
DrivePop ==
    /\ drive = Free
    /\ \E k \in 1 .. Len(reg.runQueue) :
         LET id == reg.runQueue[k]
         IN  /\ FirstWaiting(reg, k)
             /\ reg' = PopReady(reg, k)
             /\ drive' = [role |-> "popped", unit |-> reg.jobs[id].unit,
                          id |-> id]
    /\ UNCHANGED << held, asked, replies >>

(* (pop_ready returns None: what is left of the queue is stale)            *)
DrivePopNone ==
    /\ drive = Free
    /\ reg.runQueue # << >>
    /\ ~\E k \in 1 .. Len(reg.runQueue) : FirstWaiting(reg, k)
    /\ reg' = [reg EXCEPT !.runQueue = << >>]
    /\ UNCHANGED << held, drive, asked, replies >>

(* ... look the job up again: only a Start that is still there goes on, ...*)
DriveLookup ==
    /\ drive.role = "popped"
    /\ drive' = IF drive.id \in Installed(reg) /\ reg.jobs[drive.id].kind = "Start"
                THEN [drive EXCEPT !.role = "start"] ELSE Free
    /\ UNCHANGED << reg, held, asked, replies >>

(* ... read the unit's status: a started unit's job is done, ...           *)
DriveAlreadyStarted ==
    /\ drive.role = "start"
    /\ DoFinish(drive.id, "Done")
    /\ drive' = Free
    /\ UNCHANGED << held, asked >>

(* ... a unit somebody else is handling is left to Phase 1, ...            *)
DriveLeave ==
    /\ drive.role = "start"
    /\ reg' = SetRunning(reg, drive.id)
    /\ drive' = Free
    /\ UNCHANGED << held, asked, replies >>

(* ... and a unit that was never started goes to a pool worker.            *)
DriveDispatch(o) ==
    /\ drive.role = "start"
    /\ reg' = SetDeadline(SetRunning(reg, drive.id), drive.id)
    /\ Take(o, "worker", drive.unit, drive.id)
    /\ drive' = Free
    /\ UNCHANGED << asked, replies >>

(* activate_unit fails, or succeeds and leaves the job to Phase 1.         *)
WorkerFail(o) ==
    /\ held[o].role = "worker"
    /\ DoFinish(held[o].id, "Failed")
    /\ Release(o)
    /\ UNCHANGED << drive, asked >>

WorkerReturn(o) ==
    /\ held[o].role = "worker"
    /\ Release(o)
    /\ UNCHANGED << reg, drive, asked, replies >>

DeadlinePasses(id) ==
    /\ id \in Installed(reg)
    /\ reg.jobs[id].deadline = "armed"
    /\ reg' = [reg EXCEPT !.jobs[id].deadline = "due"]
    /\ UNCHANGED << held, drive, asked, replies >>

-----------------------------------------------------------------------------

Next ==
    \/ \E o \in Owner, u \in Unit, k \in Requested, m \in Mode :
         HandleCreate(o, u, k, m)
    \/ \E o \in Owner, r \in {"Done", "Failed"} : HandleFinish(o, r)
    \/ \E o \in Owner : HandlePark(o) \/ HandleResume(o)
    \/ \E o \in Owner, w \in Waiter, u \in Unit, m \in Mode :
         StopRequest(o, w, u, m)
    \/ \E o \in Owner, u \in Unit : StopNoBlock(o, u)
    \/ \E o \in Owner : TreeFinish(o)
    \/ \E o \in Owner, u \in Unit : NoBlockCreate(o, u)
    \/ \E o \in Owner : MonitorRun(o)
    \/ \E o \in Owner, r \in {"Done", "Failed", "Canceled", "Timeout"} :
         MonitorFinish(o, r)
    \/ \E u \in Unit : BootCreate(u)
    \/ \E ready \in SUBSET Unit : EnqueueReady(ready)
    \/ \E ns, ready \in SUBSET Unit : RequeueAfterFinish(ns, ready)
    \/ \E id \in JobId, r \in {"Done", "Failed", "Canceled"} : DriveRetire(id, r)
    \/ \E id \in JobId : DriveExpire(id) \/ DeadlinePasses(id)
    \/ DrivePop \/ DrivePopNone \/ DriveLookup
    \/ DriveAlreadyStarted \/ DriveLeave
    \/ \E o \in Owner : DriveDispatch(o) \/ WorkerFail(o) \/ WorkerReturn(o)

Spec == Init /\ [][Next]_vars

-----------------------------------------------------------------------------

(* by_unit and jobs agree: a unit has at most one installed job, every     *)
(* installed job is the one its unit's entry names, and no entry dangles   *)
(* (create indexes jobs with it and would panic).                          *)
OneJobPerUnit ==
    /\ \A u \in DOMAIN reg.byUnit :
         /\ reg.byUnit[u] \in Installed(reg)
         /\ reg.jobs[reg.byUnit[u]].unit = u
    /\ \A id \in Installed(reg) :
         /\ HasJob(reg, reg.jobs[id].unit)
         /\ reg.byUnit[reg.jobs[id].unit] = id

(* The run queue names installed jobs only, each once, whatever was        *)
(* merged, replaced or finished after it was enqueued; this is what        *)
(* enqueue's contains check and finish's retain are for.                   *)
RunQueueSound ==
    /\ Queued(reg) \subseteq Installed(reg)
    /\ \A i, j \in 1 .. Len(reg.runQueue) :
         i # j => reg.runQueue[i] # reg.runQueue[j]

(* Whatever an owner or the drive remembers, the job of that id, if there  *)
(* still is one, is a job of the unit it was remembered for: a late        *)
(* finish, after the job was replaced or timed out, never completes the    *)
(* job of another unit.                                                    *)
HoldersMatch ==
    \A h \in {held[o] : o \in Owner} \cup {drive} :
        h.id \in Installed(reg) => reg.jobs[h.id].unit = h.unit

(* A blocked client is attached to exactly one installed job and has heard *)
(* nothing, or it has heard exactly once and is attached to none: no reply *)
(* is lost when a job is merged, replaced, timed out or finished twice.    *)
WaiterAccounting ==
    \A w \in Waiter :
        LET on == {id \in Installed(reg) : w \in reg.jobs[id].waiters}
        IN  CASE w \notin asked -> on = {} /\ replies[w] = << >>
              [] w \in asked /\ replies[w] = << >> -> \E id \in on : on = {id}
              [] OTHER -> on = {} /\ Len(replies[w]) = 1

(* A job an owner still waits for is never downgraded: a merge leaves it   *)
(* as it was or makes it do more.                                          *)
NoDowngrade ==
    [][\A id \in Installed(reg) \cap DOMAIN reg'.jobs :
         Includes(reg'.jobs[id].kind, reg.jobs[id].kind)]_vars
=============================================================================
