--------------------------- MODULE ServiceLifecycle ---------------------------
(***************************************************************************)
(* One Type=simple service and everybody who starts, stops and mourns it:  *)
(*                                                                         *)
(*   the SIGCHLD reaper      signal_handler.rs                             *)
(*   the dispatcher          dispatch_one and the stop chain               *)
(*   exit tails              service_exit_handler, one thread per exit,    *)
(*                           and handle_pending_restart                    *)
(*   control threads         systemctl start and systemctl restart         *)
(*                                                                         *)
(* The state lock of the service (svc.state) orders some of this: a thread *)
(* that starts, restarts or deactivates the unit holds it all the way, the *)
(* others take it for one step.  The status has a lock of its own; a read  *)
(* or a write of it is one step, except that a tail keeps its read lock    *)
(* while it waits for the state lock (Stale), and no write gets through    *)
(* until it lets go.                                                       *)
(*                                                                         *)
(* A thread is a control thread or the tail of the pid whose exit it       *)
(* handles.  pc[t] is what thread t does next.                             *)
(***************************************************************************)
EXTENDS Integers, Sequences, FiniteSets

CONSTANTS
    Control,           \* control threads
    MaxPid,            \* bound: processes ever forked
    MaxRequests,       \* bound: requests ever made
    Requests,          \* what is requested: "start", "restart", "stop"
    RestartDecisions,  \* what Restart= can decide on an exit: {FALSE} for no,
                       \* {TRUE} for always, BOOLEAN for on-failure
    HasExecStop,       \* whether the unit has an ExecStop= command
    GivesUp            \* whether a process may take longer to be reaped than
                       \* a restart waits for it (5 or 2 seconds)

ASSUME LifecycleAssumption ==
    /\ MaxPid \in Nat \ {0}
    /\ MaxRequests \in Nat
    /\ Requests \subseteq {"start", "restart", "stop"}
    /\ RestartDecisions \in SUBSET BOOLEAN \ {{}}
    /\ HasExecStop \in BOOLEAN
    /\ GivesUp \in BOOLEAN
    /\ Control \cap 1 .. MaxPid = {}

VARIABLES
    status,      \* unit.common.status; Failed is Stopped(StoppedUnexpected)
    pid,         \* srvc.pid
    manualStop,  \* srvc.manual_stop
    lock,        \* who holds svc.state across steps
    readers,     \* the tails that hold the status lock for reading
    live,        \* the processes that run
    signalled,   \* those among them that were sent SIGTERM or SIGKILL
    zombies,     \* exited and not reaped yet
    table,       \* the PID table's entry of each pid
    events,      \* the dispatcher's queue
    disp,        \* what the dispatcher does next
    chain,       \* where the parked stop chain of the unit is, and on whom
    pc,
    old,         \* the pid that thread t replaces
    requests,    \* requests made so far
    wanted       \* "stopping" while a stop runs, "down" after it, until the
                 \* next start request

procs == << live, signalled, zombies, table >>
disps == << events, disp, chain >>
threads == << pc, old >>
wishes == << requests, wanted >>
locks == << lock, readers >>
unit == << status, pid, manualStop, locks >>
vars == << unit, procs, disps, threads, wishes >>

Pid == 1 .. MaxPid
NoPid == 0
Nobody == 0
StopEvent == 0
Thread == Control \cup Pid

Status == {"NeverStarted", "Starting", "Started", "Stopping", "Stopped",
           "Failed", "Restarting"}
Stopped == {"Stopped", "Failed"}
Down == Stopped \cup {"NeverStarted"}

NoChain == [at |-> "none", on |-> NoPid]
Rest == [step |-> "idle", on |-> NoPid]

Steps ==
    {"idle", "policy", "guard", "restart", "pending", "limit", "clear", "reactivate",
     "locked", "begin", "decided", "term", "sweep", "reaped", "start",
     "spawned", "stale", "stalePid", "deactivate", "mark", "check", "activate"}

(* What a thread is doing when it kills or starts the service.             *)
Ops == {"none", "full", "activate", "reactivate", "deactivate"}

TypeOK ==
    /\ status \in Status
    /\ pid \in Pid \cup {NoPid}
    /\ manualStop \in BOOLEAN
    /\ lock \in Thread \cup {Nobody}
    /\ readers \subseteq Pid
    /\ signalled \subseteq live
    /\ live \cup zombies \subseteq Pid
    /\ live \cap zombies = {}
    /\ table \in [Pid -> {"none", "service", "exited"}]
    /\ events \in Seq({StopEvent} \cup Pid)
    /\ disp \in [step : {"idle", "head", "mainExit", "fork", "term", "signal",
                         "sweep", "final"},
                 on : Pid \cup {NoPid}]
    /\ chain \in [at : {"none", "exec", "main"}, on : Pid \cup {NoPid}]
    /\ pc \in [Thread -> [step : Steps, op : Ops]]
    /\ old \in [Thread -> Pid \cup {NoPid}]
    /\ requests \in 0 .. MaxRequests
    /\ wanted \in {"any", "stopping", "down"}

At(step, op) == [step |-> step, op |-> op]
Idle == At("idle", "none")

Init ==
    /\ status = "Started"
    /\ pid = 1
    /\ manualStop = FALSE
    /\ lock = Nobody
    /\ readers = {}
    /\ live = {1}
    /\ signalled = {}
    /\ zombies = {}
    /\ table = [p \in Pid |-> IF p = 1 THEN "service" ELSE "none"]
    /\ events = << >>
    /\ disp = Rest
    /\ chain = NoChain
    /\ pc = [t \in Thread |-> Idle]
    /\ old = [t \in Thread |-> NoPid]
    /\ requests = 0
    /\ wanted = "any"

Free == lock = Nobody

Go(t, step, op) == pc' = [pc EXCEPT ![t] = At(step, op)]
Done(t) == pc' = [pc EXCEPT ![t] = Idle]
Doing(t, step) == pc[t].step = step

(* A write of the status, which has to wait for its readers.               *)
Sets(s) == readers = {} /\ status' = s

Unlock == lock' = Nobody /\ UNCHANGED readers

-----------------------------------------------------------------------------
(* Processes. *)

(* A process exits, by itself or of a signal.                              *)
Exit(p) ==
    /\ p \in live
    /\ live' = live \ {p}
    /\ signalled' = signalled \ {p}
    /\ zombies' = zombies \cup {p}
    /\ UNCHANGED << table, unit, disps, threads, wishes >>

(* The reaper: the PID table first, then the event.                        *)
Reap(p) ==
    /\ p \in zombies
    /\ zombies' = zombies \ {p}
    /\ table' = [table EXCEPT ![p] = "exited"]
    /\ events' = Append(events, p)
    /\ UNCHANGED << live, signalled, unit, disp, chain, threads, wishes >>

(* The pid that a stop signals: srvc.pid or else what the PID table has.   *)
Target == IF pid # NoPid THEN {pid} ELSE {p \in Pid : table[p] = "service"}

Running == {p \in Target : table[p] = "service"}

-----------------------------------------------------------------------------
(* Requests. *)

MayRequest(kind) == kind \in Requests /\ requests < MaxRequests

RequestStop ==
    /\ MayRequest("stop")
    /\ events' = Append(events, StopEvent)
    /\ requests' = requests + 1
    /\ UNCHANGED << unit, procs, disp, chain, threads, wanted >>

(* systemctl start forgets that the unit was stopped or is about to be     *)
(* restarted, ...                                                          *)
RequestStart(t) ==
    /\ MayRequest("start")
    /\ pc[t] = Idle
    /\ Sets(IF status \in Stopped \cup {"Restarting"} THEN "NeverStarted" ELSE status)
    /\ Go(t, "check", "activate")
    /\ requests' = requests + 1
    /\ wanted' = "any"
    /\ UNCHANGED << pid, manualStop, locks, procs, disps, old >>

(* ... and activate_unit looks at the status before Unit::activate does.   *)
CheckStart(t) ==
    /\ Doing(t, "check")
    /\ IF status \in {"Started", "Starting"} \cup Stopped
       THEN Done(t) ELSE Go(t, "activate", "activate")
    /\ UNCHANGED << unit, procs, disps, old, wishes >>

RequestRestart(t) ==
    /\ MayRequest("restart")
    /\ pc[t] = Idle
    /\ Go(t, "reactivate", "none")
    /\ requests' = requests + 1
    /\ wanted' = "any"
    /\ UNCHANGED << unit, procs, disps, old >>

-----------------------------------------------------------------------------
(* Unit::activate, Unit::reactivate and Unit::deactivate, by any thread;   *)
(* they keep the state lock from their first step to their last.           *)

LockState(t) ==
    /\ pc[t].step \in {"activate", "reactivate", "deactivate"}
    /\ Free
    /\ lock' = t
    /\ Go(t, "locked", pc[t].step)
    /\ UNCHANGED << status, pid, manualStop, readers, procs, disps, old, wishes >>

(* Nothing to activate or to deactivate: the lock is given back.           *)
ActivateNot(t) ==
    /\ pc[t] = At("locked", "activate")
    /\ status \in {"Started", "Failed"}
    /\ Unlock
    /\ Done(t)
    /\ UNCHANGED << status, pid, manualStop, procs, disps, old, wishes >>

DeactivateNot(t) ==
    /\ pc[t] = At("locked", "deactivate")
    /\ status \in Stopped
    /\ Unlock
    /\ Go(t, "mark", "none")
    /\ UNCHANGED << status, pid, manualStop, procs, disps, old, wishes >>

(* Otherwise the decision is made and the status written a step later.     *)
Decide(t) ==
    /\ \/ pc[t] = At("locked", "activate") /\ status \notin {"Started", "Failed"}
       \/ pc[t] = At("locked", "deactivate") /\ status \notin Stopped
    /\ Go(t, "begin", pc[t].op)
    /\ UNCHANGED << unit, procs, disps, old, wishes >>

Activate(t) ==
    /\ pc[t] = At("begin", "activate")
    /\ Sets("Starting")
    /\ Go(t, "start", "activate")
    /\ UNCHANGED << pid, manualStop, locks, procs, disps, old, wishes >>

Deactivate(t) ==
    /\ pc[t] = At("begin", "deactivate")
    /\ Sets("Stopping")
    /\ Go(t, "term", "deactivate")
    /\ UNCHANGED << pid, manualStop, locks, procs, disps, old, wishes >>

Reactivate(t) ==
    /\ pc[t] = At("locked", "reactivate")
    /\ Sets("Restarting")
    /\ Go(t, "decided", IF status = "Started" THEN "full" ELSE "activate")
    /\ UNCHANGED << pid, manualStop, locks, procs, disps, old, wishes >>

(* A started service is killed first; of any other only a pid that was     *)
(* left behind.                                                            *)
ReactivateFull(t) ==
    /\ pc[t] = At("decided", "full")
    /\ Sets("Stopping")
    /\ Go(t, "term", "full")
    /\ UNCHANGED << pid, manualStop, locks, procs, disps, old, wishes >>

(* Fault: the pid is signalled without a look at whether it still runs.    *)
ReactivateSignalsBlindly(t) ==
    /\ pc[t] = At("decided", "activate")
    /\ signalled' = signalled \cup ({pid} \ {NoPid})
    /\ old' = [old EXCEPT ![t] = pid]
    /\ pid' = NoPid
    /\ Go(t, "reaped", "activate")
    /\ UNCHANGED << status, manualStop, locks, live, zombies, table, disps, wishes >>

(* Fault: the pid is forgotten and nothing is signalled.                   *)
ReactivateForgetsPid(t) ==
    /\ pc[t] = At("decided", "activate")
    /\ old' = [old EXCEPT ![t] = NoPid]
    /\ pid' = NoPid
    /\ Go(t, "reaped", "activate")
    /\ UNCHANGED << status, manualStop, locks, procs, disps, wishes >>

ReactivateStopped(t) ==
    /\ pc[t] = At("decided", "activate")
    /\ signalled' = signalled \cup ({pid} \cap live)
    /\ old' = [old EXCEPT ![t] = pid]
    /\ pid' = NoPid
    /\ Go(t, "reaped", "activate")
    /\ UNCHANGED << status, manualStop, locks, live, zombies, table, disps, wishes >>

(* Service::kill: ExecStop= has run; SIGTERM, then TimeoutStopSec= or the  *)
(* exit, ExecStopPost= and the sweep of the control group with SIGKILL.    *)
KillTerm(t) ==
    /\ Doing(t, "term")
    /\ manualStop' = TRUE
    /\ signalled' = signalled \cup (Running \cap live)
    /\ old' = [old EXCEPT ![t] = pid]
    /\ Go(t, "sweep", pc[t].op)
    /\ UNCHANGED << status, pid, locks, live, zombies, table, disps, wishes >>

(* A failing ExecStop= or ExecStopPost= ends a restart here.               *)
KillSweep(t) ==
    /\ Doing(t, "sweep")
    /\ signalled' = live
    /\ pid' = NoPid
    /\ \/ Go(t, "reaped", pc[t].op) /\ UNCHANGED << status, locks >>
       \/ /\ pc[t].op = "full"
          /\ Sets("Stopped") /\ Unlock /\ Done(t)
    /\ UNCHANGED << manualStop, live, zombies, table, disps, old, wishes >>

(* Wait until the PID table has the old process as exited, or give up      *)
(* after some seconds.                                                     *)
Reaped(t) ==
    /\ Doing(t, "reaped")
    /\ old[t] # NoPid /\ ~GivesUp => table[old[t]] # "service"
    /\ IF pc[t].op = "deactivate"
       THEN Sets("Stopped") /\ Unlock /\ Go(t, "mark", "none")
       ELSE Go(t, "start", pc[t].op) /\ UNCHANGED << status, locks >>
    /\ UNCHANGED << pid, manualStop, procs, disps, old, wishes >>

(* Service::start: refused with AlreadyHasPID, ...                         *)
Refused(t) == Doing(t, "start") /\ pid # NoPid

StartRefused(t) ==
    /\ Refused(t)
    /\ Sets("Failed") /\ Unlock /\ Done(t)
    /\ UNCHANGED << pid, manualStop, procs, disps, old, wishes >>

(* ... failed on the way, ...                                              *)
StartFails(t) ==
    /\ Doing(t, "start")
    /\ pid = NoPid
    /\ manualStop' = FALSE
    /\ Sets("Failed") /\ Unlock /\ Done(t)
    /\ UNCHANGED << pid, procs, disps, old, wishes >>

(* ... or done: the fork and the PID table entry are one critical section. *)
Fresh == {p \in Pid : \A q \in p .. MaxPid :
                        table[q] = "none" /\ q \notin live \cup zombies /\ pc[q] = Idle}

Spawn(t) ==
    /\ Doing(t, "start")
    /\ pid = NoPid
    /\ \E p \in Fresh :
         /\ \A q \in Fresh : p <= q
         /\ manualStop' = FALSE
         /\ pid' = p
         /\ live' = live \cup {p}
         /\ table' = [table EXCEPT ![p] = "service"]
    /\ Go(t, "spawned", pc[t].op)
    /\ UNCHANGED << status, locks, signalled, zombies, disps, old, wishes >>

(* Fault: the status follows a start but not a restart.                    *)
SpawnedStarting(t) ==
    /\ Doing(t, "spawned")
    /\ Sets(IF status = "Starting" THEN "Started" ELSE status)
    /\ Unlock
    /\ Done(t)
    /\ UNCHANGED << pid, manualStop, procs, disps, old, wishes >>

(* The status follows unless the exit of the new process got there first.  *)
Spawned(t) ==
    /\ Doing(t, "spawned")
    /\ Sets(IF \/ pc[t].op = "full" /\ status \notin Down
               \/ pc[t].op = "activate" /\ status \in {"Starting", "Restarting"}
            THEN "Started" ELSE status)
    /\ Unlock
    /\ Done(t)
    /\ UNCHANGED << pid, manualStop, procs, disps, old, wishes >>

-----------------------------------------------------------------------------
(* The dispatcher. *)

DispGo(step, p) == disp' = [step |-> step, on |-> p]
DispIdle == disp = Rest

(* An exit that the parked stop chain waits for, or any other exit.        *)
TakeExit ==
    /\ DispIdle
    /\ events # << >>
    /\ Head(events) # StopEvent
    /\ events' = Tail(events)
    /\ IF chain.at = "main" /\ chain.on = Head(events)
       THEN /\ table' = [table EXCEPT ![Head(events)] = "none"]
            /\ DispGo("mainExit", Head(events))
       ELSE DispGo("head", Head(events)) /\ UNCHANGED table
    /\ UNCHANGED << unit, live, signalled, zombies, chain, threads, wishes >>

(* begin_stop_tree for one unit: nothing to do when it is down or being    *)
(* stopped already.                                                        *)
TakeStop ==
    /\ DispIdle
    /\ events # << >>
    /\ Head(events) = StopEvent
    /\ events' = Tail(events)
    /\ IF chain # NoChain \/ status \in Down THEN UNCHANGED << disp, wanted >>
       ELSE /\ DispGo(IF HasExecStop THEN "fork" ELSE "term", NoPid)
            /\ wanted' = IF \A c \in Control : pc[c] = Idle THEN "stopping" ELSE wanted
    /\ UNCHANGED << unit, procs, chain, threads, requests >>

(* service_exit_head records the exit; the rest is for a thread.           *)
ExitHead ==
    /\ disp.step = "head"
    /\ Free
    /\ Go(disp.on, "policy", "none")
    /\ disp' = Rest
    /\ UNCHANGED << unit, procs, events, chain, old, wishes >>

ForkExecStop ==
    /\ disp.step = "fork"
    /\ Free
    /\ chain' = [at |-> "exec", on |-> NoPid]
    /\ disp' = Rest
    /\ UNCHANGED << unit, procs, events, threads, wishes >>

ExecStopExits ==
    /\ DispIdle
    /\ chain.at = "exec"
    /\ DispGo("term", NoPid)
    /\ UNCHANGED << unit, procs, events, chain, threads, wishes >>

(* InitiateTerm: the status first, then the flag and the signal under the  *)
(* lock.                                                                   *)
TermStatus ==
    /\ disp.step = "term"
    /\ Sets(IF status \in Stopped THEN status ELSE "Stopping")
    /\ DispGo("signal", NoPid)
    /\ UNCHANGED << pid, manualStop, locks, procs, events, chain, threads, wishes >>

TermSignal ==
    /\ disp.step = "signal"
    /\ Free
    /\ manualStop' = TRUE
    /\ \/ \E p \in Running :
            /\ signalled' = signalled \cup ({p} \cap live)
            /\ chain' = [at |-> "main", on |-> p]
            /\ disp' = Rest
       \/ /\ Running = {}
          /\ DispGo("sweep", NoPid)
          /\ UNCHANGED << signalled, chain >>
    /\ UNCHANGED << status, pid, locks, live, zombies, table, events, threads, wishes >>

(* The main process exits, or TimeoutStopSec= passes and it is killed.     *)
MainExited ==
    /\ disp.step = "mainExit"
    /\ Free
    /\ DispGo("sweep", NoPid)
    /\ UNCHANGED << unit, procs, events, chain, threads, wishes >>

MainTimeout ==
    /\ DispIdle
    /\ chain.at = "main"
    /\ DispGo("sweep", NoPid)
    /\ UNCHANGED << unit, procs, events, chain, threads, wishes >>

(* Fault: nothing is swept.                                                *)
FinalNoSweep ==
    /\ disp.step = "sweep"
    /\ Free
    /\ pid' = NoPid
    /\ DispGo("final", NoPid)
    /\ UNCHANGED << status, manualStop, locks, procs, events, chain, threads,
                    wishes >>

(* An automatic restart is past its last look at the status, or has        *)
(* written over the Stopping of the stop.                                  *)
Overtaken ==
    \/ status \notin {"Stopping"} \cup Stopped
    \/ \E p \in Pid : pc[p].step \in {"restart", "clear", "reactivate"}

(* finalize_stop_chain: the sweep under the lock, then the status.         *)
FinalSweep ==
    /\ disp.step = "sweep"
    /\ Free
    /\ signalled' = live
    /\ pid' = NoPid
    /\ DispGo("final", NoPid)
    /\ wanted' = IF Overtaken THEN "any" ELSE wanted
    /\ UNCHANGED << status, manualStop, locks, live, zombies, table, events, chain,
                    threads, requests >>

FinalStatus ==
    /\ disp.step = "final"
    /\ Sets("Stopped")
    /\ chain' = NoChain
    /\ disp' = Rest
    /\ wanted' = IF wanted = "stopping" THEN "down" ELSE wanted
    /\ UNCHANGED << pid, manualStop, locks, procs, events, threads, requests >>

-----------------------------------------------------------------------------
(* The tail of an exit. *)

(* manual_stop suppresses Restart=; otherwise the policy decides.          *)
Policy(p) ==
    /\ Doing(p, "policy")
    /\ Free
    /\ IF manualStop THEN Done(p)
       ELSE \E again \in RestartDecisions :
              Go(p, "guard", IF again THEN "activate" ELSE "none")
    /\ UNCHANGED << unit, procs, disps, old, wishes >>

(* A unit that is not up has been taken care of by somebody else.          *)
Guard(p) ==
    /\ Doing(p, "guard")
    /\ LET again == pc[p].op = "activate"
       IN  IF status \in {"Started", "Starting"} \/ (again /\ status = "Failed")
           THEN Go(p, IF again THEN "restart" ELSE "stale", "none")
           ELSE Done(p)
    /\ UNCHANGED << unit, procs, disps, old, wishes >>

BeginRestart(p) ==
    /\ Doing(p, "restart")
    /\ Sets("Restarting")
    /\ Go(p, "pending", "none")
    /\ UNCHANGED << pid, manualStop, locks, procs, disps, old, wishes >>

(* Fault: a restart whose time has come is not called off.                 *)
PendingAnyway(p) ==
    /\ Doing(p, "pending")
    /\ Go(p, "clear", "none") \/ Go(p, "limit", "none")
    /\ UNCHANGED << unit, procs, disps, old, wishes >>

(* handle_pending_restart: while RestartSec= passes and once more after    *)
(* it, the restart is called off if the status is another by now.          *)
Pending(p) ==
    /\ Doing(p, "pending")
    /\ \/ status = "Restarting" /\ Go(p, "clear", "none")
       \/ status = "Restarting" /\ Go(p, "limit", "none")
       \/ status # "Restarting" /\ Done(p)
    /\ UNCHANGED << unit, procs, disps, old, wishes >>

(* The start rate limit is hit.                                            *)
RateLimited(p) ==
    /\ Doing(p, "limit")
    /\ Sets("Failed")
    /\ Done(p)
    /\ UNCHANGED << pid, manualStop, locks, procs, disps, old, wishes >>

ClearPid(p) ==
    /\ Doing(p, "clear")
    /\ Free
    /\ pid' = NoPid
    /\ Go(p, "reactivate", "none")
    /\ UNCHANGED << status, manualStop, locks, procs, disps, old, wishes >>

(* Without a restart the unit is deactivated, unless it is being stopped   *)
(* or the process was replaced.  The read lock on the status is kept while *)
(* the state lock is awaited.                                              *)
Stale(p) ==
    /\ Doing(p, "stale")
    /\ IF status = "Stopping"
       THEN Done(p) /\ UNCHANGED readers
       ELSE Go(p, "stalePid", "none") /\ readers' = readers \cup {p}
    /\ UNCHANGED << status, pid, manualStop, lock, procs, disps, old, wishes >>

(* Fault: the unit's own dead process counts as its replacement.           *)
StaleIfAnyPid(p) ==
    /\ Doing(p, "stalePid")
    /\ Free
    /\ IF pid # NoPid THEN Done(p) ELSE Go(p, "deactivate", "none")
    /\ readers' = readers \ {p}
    /\ UNCHANGED << status, pid, manualStop, lock, procs, disps, old, wishes >>

StalePid(p) ==
    /\ Doing(p, "stalePid")
    /\ Free
    /\ IF pid \notin {NoPid, p} THEN Done(p) ELSE Go(p, "deactivate", "none")
    /\ readers' = readers \ {p}
    /\ UNCHANGED << status, pid, manualStop, lock, procs, disps, old, wishes >>

(* An unclean exit makes the unit failed.                                  *)
Mark(p) ==
    /\ Doing(p, "mark")
    /\ UNCHANGED status \/ Sets("Failed")
    /\ Done(p)
    /\ UNCHANGED << pid, manualStop, locks, procs, disps, old, wishes >>

-----------------------------------------------------------------------------

Dispatcher ==
    \/ TakeExit \/ TakeStop \/ ExitHead \/ ForkExecStop \/ ExecStopExits
    \/ TermStatus \/ TermSignal \/ MainExited \/ MainTimeout
    \/ FinalSweep \/ FinalStatus

Works(t) ==
    \/ LockState(t) \/ ActivateNot(t) \/ DeactivateNot(t) \/ Decide(t)
    \/ Activate(t)
    \/ Reactivate(t) \/ ReactivateFull(t) \/ ReactivateStopped(t)
    \/ Deactivate(t) \/ KillTerm(t) \/ KillSweep(t) \/ Reaped(t)
    \/ StartRefused(t) \/ StartFails(t) \/ Spawn(t) \/ Spawned(t)

ExitTail(p) ==
    \/ Policy(p) \/ Guard(p) \/ BeginRestart(p) \/ Pending(p)
    \/ RateLimited(p) \/ ClearPid(p)
    \/ Stale(p) \/ StalePid(p) \/ Mark(p)

Next ==
    \/ \E p \in Pid : Exit(p) \/ Reap(p)
    \/ RequestStop
    \/ \E t \in Control : RequestStart(t) \/ CheckStart(t) \/ RequestRestart(t)
    \/ Dispatcher
    \/ \E t \in Thread : Works(t)
    \/ \E p \in Pid : ExitTail(p)

Spec == Init /\ [][Next]_vars

(* Threads are scheduled, exits are reaped, and signalled processes exit.  *)
FairSpec ==
    /\ Spec
    /\ WF_vars(Dispatcher)
    /\ \A p \in Pid : /\ WF_vars(Reap(p))
                      /\ WF_vars(p \in signalled /\ Exit(p))
                      /\ WF_vars(ExitTail(p))
    /\ \A t \in Thread : WF_vars(Works(t))
    /\ \A t \in Control : WF_vars(CheckStart(t))

-----------------------------------------------------------------------------

(* The unit never loses sight of a process: whatever runs and was not told *)
(* to go is the main process that srvc.pid names.  In particular there are *)
(* never two of them.                                                      *)
NoOrphan == live \ signalled \subseteq {pid}

(* A stop sticks: once it is over, nothing of the service runs until       *)
(* somebody asks for it, whatever exits are still on their way and even if *)
(* Restart= was about to start it again; only a restart that has looked at *)
(* the status for the last time before the stop swept the unit gets        *)
(* through (Overtaken).                                                    *)
StopSticks == wanted = "down" => live \ signalled = {}

(* As long as nobody has interfered, and once everything has been dealt    *)
(* with, the status tells whether the service runs.                        *)
AtRest ==
    /\ events = << >> /\ zombies = {} /\ signalled = {} /\ disp = Rest
    /\ chain = NoChain
    /\ \A t \in Thread : pc[t] = Idle

StatusTellsTruth ==
    AtRest /\ requests = 0 => (status = "Started" <=> live # {})

(* An exit is always dealt with: the unit does not stay Started without a  *)
(* process.                                                                *)
ExitNoticed == (status = "Started" /\ live = {}) ~> (status # "Started" \/ live # {})
=============================================================================
