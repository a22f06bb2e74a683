----------------------------- MODULE StartSweep -----------------------------
(***************************************************************************)
(* Starting a unit with everything it pulls in: activate_needed_units, the *)
(* fixpoint sweep behind systemctl start, isolate and udev, with the pool  *)
(* workers that run activate_unit and the starts they leave to the         *)
(* dispatcher (units/unitset_manipulation/activate.rs).                    *)
(*                                                                         *)
(*   status   UnitStatus of every unit.  "Skipped" stands for StoppedFinal *)
(*            and ConditionSkipped, "Failed" for StoppedUnexpected         *)
(*   forked   services whose main process is running (srvc.pid is set)     *)
(*   ready    services whose READY=1 has been applied (signaled_ready)     *)
(*   work     the closures on the thread pools, a bag: the same unit may   *)
(*            be on a pool several times                                   *)
(*   mail     StartServiceWait events on their way to the dispatcher       *)
(*   waits    start_waits of the dispatcher: for a unit, whether the wait  *)
(*            carries the unit's before-chain                              *)
(*   sweep    the thread in activate_needed_units                          *)
(*                                                                         *)
(* A before-chain is Before[u] or empty, hence a BOOLEAN.  Requisite=,     *)
(* Conflicts=, OnFailure= and the Upholds= retry are left out.             *)
(***************************************************************************)
EXTENDS JobOps, Bags

CONSTANTS
    After,        \* After[u]: the units u is ordered after
    Requires,     \* Requires[u]: its Requires= and BindsTo=
    Wants,        \* Wants[u]: its Wants= and Upholds=
    Triggers,     \* Triggers[u]: the services of socket unit u
    Goal,         \* the unit that is started
    Devices,      \* .device units, which only udev starts
    Mounts,       \* .mount and .swap units
    Deferring,    \* the services, all Type=notify: their start is parked
    MayFail,      \* units whose start may fail
    ConditionFails, AssertFails   \* units with a failing Condition*/Assert*

ASSUME GraphAssumption ==
    /\ IsFiniteSet(Unit)
    /\ {After, Requires, Wants, Triggers} \subseteq [Unit -> SUBSET Unit]
    /\ Goal \in Unit
    /\ Deferring \subseteq Unit \ (Devices \cup Mounts)

VARIABLES status, forked, ready, work, mail, waits, sweep

sweepVars == << status, forked, ready, work, mail, waits, sweep >>

Status  == {"NeverStarted", "Starting", "Started", "Skipped", "Failed"}
Stopped == {"Skipped", "Failed"}
Settled == {"Started"} \cup Stopped

(* by tells who put the task on a pool: a job of the boot drive, the sweep *)
(* (which joins its pool), or the completion of a parked start.            *)
Task == [unit : Unit, by : {"job", "sweep", "chain"}, id : JobId \cup {NoJob},
         step : {"queued", "check", "act", "locked", "mounting", "ret", "err", "quit",
                 "chain", "finish"},
         chain : BOOLEAN]

Tasks == BagToSet(work)

TypeOK ==
    /\ status \in [Unit -> Status]
    /\ forked \subseteq Deferring
    /\ ready \subseteq Deferring
    /\ IsABag(work) /\ Tasks \subseteq Task
    /\ mail \in Seq([unit : Unit, chain : BOOLEAN])
    /\ DOMAIN waits \subseteq Deferring
    /\ \A u \in DOMAIN waits : waits[u] \in BOOLEAN
    /\ sweep \in [pc : {"idle", "pass", "join", "done"}, before : 0 .. Cardinality(Unit)]

-----------------------------------------------------------------------------
(* Dependencies. *)

(* The before-chain of a unit.                                             *)
Before(u) == {v \in Unit : u \in After[v]}

(* collect_unit_start_subgraph: the closure under start_before_this and    *)
(* start_concurrently_with_this, which together are what u pulls in, and   *)
(* the services of sockets.                                                *)
Pulled(u) == Requires[u] \cup Wants[u] \cup Triggers[u]

(* The least such set: the loop ends when a round adds nothing.            *)
Closure ==
    {u \in Unit : \A S \in SUBSET Unit :
        Goal \in S /\ (\A v \in S : Pulled(v) \subseteq S) => u \in S}

(* Fault: a unit that is only ordered never blocks while NeverStarted.     *)
UnstartedIgnoresSet(u, set) ==
    {d \in After[u] : CASE d \in Requires[u] -> status[d] # "Started"
                        [] d \in Wants[u] \ Requires[u] -> status[d] \notin Settled
                        [] OTHER             -> status[d] = "Starting"}

(* unstarted_deps: what u still waits for.  A unit that is only ordered    *)
(* before u counts while it starts, and before that if it is in the        *)
(* activation set.                                                         *)
UnstartedDeps(u, set) ==
    {d \in After[u] :
       CASE d \in Requires[u] -> status[d] # "Started"
         [] d \in Wants[u] \ Requires[u] -> status[d] \notin Settled
         [] OTHER             -> \/ status[d] = "Starting"
                                 \/ status[d] = "NeverStarted" /\ d \in set}

(* find_startable_units, also the is_ready of the job graph.               *)
Startable(u, set) == u \notin Devices /\ UnstartedDeps(u, set) = {}

(* state_transition_starting has a check of its own, which is weaker.      *)
TransitionAllowed(u) ==
    \A d \in After[u] :
       CASE d \in Requires[u] -> status[d] \in {"Started", "Skipped"}
         [] d \in Wants[u] \ Requires[u] -> status[d] # "NeverStarted"
         [] OTHER             -> status[d] # "Starting"

-----------------------------------------------------------------------------
(* Tasks.  Become replaces one task by others.                             *)

Become(t, S) == work' = (work (-) SetToBag({t})) (+) SetToBag(S)

Return(t, step, chain) == Become(t, {[t EXCEPT !.step = step, !.chain = chain]})

SetStatus(u, s) == status' = [status EXCEPT ![u] = s]

NewTask(u, by, id) ==
    [unit |-> u, by |-> by, id |-> id, step |-> "queued", chain |-> FALSE]

(* activate_units_recursive: the startable units among ids go on the pool. *)
Dispatched(ids, by) ==
    {NewTask(u, by, NoJob) : u \in {v \in ids \cap Closure : Startable(v, Closure)}}

(* activate_unit does not touch a unit that is Starting, Started, stopping *)
(* or stopped.                                                             *)
LeftAlone(u) == status[u] # "NeverStarted"

(* activate_unit reads the status once.  The mounts of the boot drive go   *)
(* another way (MountBegins of BootDrive).                                 *)
Enter(t) ==
    /\ t.step = "queued" /\ ~(t.by = "job" /\ t.unit \in Mounts)
    /\ Return(t, IF LeftAlone(t.unit) THEN "ret" ELSE "check", FALSE)
    /\ UNCHANGED << status, forked, ready, mail, waits, sweep >>

(* An assertion that fails fails the unit; a condition that fails ends it  *)
(* without an error; neither looks at the status again.  Otherwise a       *)
(* second read, was_already_started, tells whether the chain is returned.  *)
Check(t) ==
    LET u == t.unit
    IN  /\ t.step = "check"
        /\ \/ /\ u \in AssertFails
              /\ Return(t, "err", FALSE)
              /\ SetStatus(u, "Failed")
           \/ /\ u \in ConditionFails \ AssertFails
              /\ Return(t, "ret", TRUE)
              /\ SetStatus(u, "Skipped")
           \/ /\ u \notin ConditionFails \cup AssertFails
              /\ Return(t, "act", status[u] # "Started")
              /\ status' = status
        /\ UNCHANGED << forked, ready, mail, waits, sweep >>

(* Unit::activate holds the state lock of the unit from here on.           *)
StateLocked(u) == \E t \in Tasks : t.unit = u /\ t.step = "locked"

(* Fault: Unit::activate does not look at the status under the lock.       *)
ActUnseen(t) ==
    /\ t.step = "act" /\ ~StateLocked(t.unit)
    /\ IF TransitionAllowed(t.unit)
       THEN Return(t, "locked", t.chain) /\ SetStatus(t.unit, "Starting")
       ELSE Return(t, "err", FALSE) /\ status' = status
    /\ UNCHANGED << forked, ready, mail, waits, sweep >>

(* Unit::activate up to state_transition_starting.  A unit that is found   *)
(* Started returns its before-chain unless it was Started before, one that *)
(* failed returns none; a DependencyError leaves the unit as it is.        *)
Act(t) ==
    LET u == t.unit
    IN  /\ t.step = "act" /\ ~StateLocked(u)
        /\ IF status[u] \in {"Started", "Failed"}
           THEN Return(t, "ret", t.chain /\ status[u] = "Started") /\ status' = status
           ELSE IF TransitionAllowed(u)
           THEN Return(t, "locked", t.chain) /\ SetStatus(u, "Starting")
           ELSE Return(t, "err", FALSE) /\ status' = status
        /\ UNCHANGED << forked, ready, mail, waits, sweep >>

(* The activate of the unit's type, under the state lock.  A notify        *)
(* service forks and stays Starting; if it has a process already, start()  *)
(* fails with AlreadyHasPID.  Every error here is swallowed: the           *)
(* before-chain is returned as if the unit had started.                    *)
Perform(t) ==
    LET u == t.unit
    IN  /\ t.step = "locked"
        /\ \/ /\ u \in Deferring \ forked
              /\ forked' = forked \cup {u}
              /\ ready' = ready \ {u}
              /\ status' = status
           \/ /\ u \in MayFail \/ u \in Deferring \cap forked
              /\ SetStatus(u, "Failed")
              /\ UNCHANGED << forked, ready >>
           \/ /\ u \notin Deferring
              /\ SetStatus(u, "Started")
              /\ UNCHANGED << forked, ready >>
        /\ Return(t, "ret", t.chain)
        /\ UNCHANGED << mail, waits, sweep >>

(* The closure of activate_units_recursive after activate_unit: a unit     *)
(* found Starting is parked on the dispatcher (detect_deferred_kind,       *)
(* park_deferred_start), whoever started it; otherwise the before-chain    *)
(* goes on the pool as a task of its own.                                  *)
Leave(t) ==
    /\ t.step = "ret" /\ t.by # "job"
    /\ \/ /\ status[t.unit] = "Starting"
          /\ mail' = Append(mail, [unit |-> t.unit, chain |-> t.chain])
          /\ Become(t, {})
       \/ /\ status[t.unit] # "Starting"
          /\ Return(t, "chain", t.chain)
          /\ mail' = mail
    /\ UNCHANGED << status, forked, ready, waits, sweep >>

(* An error ends the walk here.                                            *)
LeaveWithError(t) ==
    /\ t.step = "err" /\ t.by # "job"
    /\ Become(t, {})
    /\ UNCHANGED << status, forked, ready, mail, waits, sweep >>

Chain(t) ==
    /\ t.step = "chain"
    /\ Become(t, IF t.chain THEN Dispatched(Before(t.unit), t.by) ELSE {})
    /\ UNCHANGED << status, forked, ready, mail, waits, sweep >>

-----------------------------------------------------------------------------
(* Parked starts, on the dispatcher.  StartWait has the rest of their life.*)

Parked(u, step) ==
    [unit |-> u, by |-> "chain", id |-> NoJob, step |-> step, chain |-> TRUE]

(* progress_start_wait of a wait of u, given whether READY=1 has been      *)
(* applied.  An abandoned wait and a finished start go on with the chain.  *)
Progress(u, chain, signaled) ==
    LET spawn(step) == work' = work (+) SetToBag({[Parked(u, step) EXCEPT !.chain = chain]})
        pending     == status[u] = "Starting" /\ ~signaled
    IN  /\ waits' = IF pending THEN With(waits, u, chain) ELSE Without(waits, u)
        /\ CASE status[u] # "Starting" /\ chain     -> spawn("chain")
             [] status[u] = "Starting" /\ signaled  -> spawn("finish")
             [] OTHER                               -> work' = work

(* Fault: any unit is parked.                                              *)
RegisterAny ==
    /\ mail # << >>
    /\ mail' = Tail(mail)
    /\ Progress(Head(mail).unit, Head(mail).chain, Head(mail).unit \in ready)
    /\ UNCHANGED << status, forked, ready, sweep >>

(* Fault: a READY=1 that came before the registration is not seen.         *)
RegisterUnseen ==
    /\ mail # << >>
    /\ mail' = Tail(mail)
    /\ LET u == Head(mail).unit
       IN  IF u \in Deferring THEN Progress(u, Head(mail).chain, FALSE)
           ELSE UNCHANGED << work, waits >>
    /\ UNCHANGED << status, forked, ready, sweep >>

(* register_start_wait: start_wait_setup refuses a unit that is no service *)
(* (those of this model are all Type=notify); a wait that is there already *)
(* is replaced.                                                            *)
Register ==
    /\ mail # << >>
    /\ mail' = Tail(mail)
    /\ LET u == Head(mail).unit
       IN  IF u \in Deferring THEN Progress(u, Head(mail).chain, u \in ready)
           ELSE UNCHANGED << work, waits >>
    /\ UNCHANGED << status, forked, ready, sweep >>

(* The Notify event with READY=1.                                          *)
NotifyReady(u) ==
    /\ u \in forked \ ready
    /\ ready' = ready \cup {u}
    /\ IF u \in DOMAIN waits THEN Progress(u, waits[u], TRUE)
       ELSE UNCHANGED << work, waits >>
    /\ UNCHANGED << status, forked, mail, sweep >>

(* The process dies, or times out, before READY=1: fail_start_with_poststop*)
(* ends the wait and drops its chain.                                      *)
StartFails(u) ==
    /\ u \in (DOMAIN waits \cap forked \cap MayFail) \ ready
    /\ status[u] = "Starting"
    /\ forked' = forked \ {u}
    /\ waits' = Without(waits, u)
    /\ SetStatus(u, "Failed")
    /\ UNCHANGED << ready, work, mail, sweep >>

(* finish_deferred_start, on a finisher thread.                            *)
FinishStart(t) ==
    /\ t.step = "finish"
    /\ \/ /\ status[t.unit] = "Starting"
          /\ SetStatus(t.unit, "Started")
          /\ Return(t, "chain", t.chain)
       \/ /\ status[t.unit] # "Starting"
          /\ Become(t, {})
          /\ status' = status
    /\ UNCHANGED << forked, ready, mail, waits, sweep >>

-----------------------------------------------------------------------------
(* activate_needed_units_with_source. *)

StartedCount == Cardinality({u \in Closure : status[u] = "Started"})

SweepPass ==
    /\ sweep.pc = "pass"
    /\ sweep' = [pc |-> "join", before |-> StartedCount]
    /\ work' = work (+) SetToBag(Dispatched(Closure, "sweep"))
    /\ UNCHANGED << status, forked, ready, mail, waits >>

(* tpool.join(), then another pass if this one started something.  No more *)
(* units start than there are, so max_passes is never the reason to stop.  *)
SweepJoin ==
    /\ sweep.pc = "join"
    /\ \A t \in Tasks : t.by # "sweep"
    /\ sweep' = [sweep EXCEPT !.pc = IF StartedCount = sweep.before THEN "done" ELSE "pass"]
    /\ UNCHANGED << status, forked, ready, work, mail, waits >>

WorkerStep(t) ==
    Enter(t) \/ Check(t) \/ Act(t) \/ Perform(t) \/ Leave(t) \/ LeaveWithError(t) \/ Chain(t)
             \/ FinishStart(t)

DispatcherStep == Register \/ \E u \in Deferring : NotifyReady(u) \/ StartFails(u)

SweepStep == SweepPass \/ SweepJoin

Next == (\E t \in Tasks : WorkerStep(t)) \/ DispatcherStep \/ SweepStep

Nothing ==
    /\ status = [u \in Unit |-> "NeverStarted"]
    /\ forked = {} /\ ready = {}
    /\ work = EmptyBag
    /\ mail = << >> /\ waits = << >>

Init == Nothing /\ sweep = [pc |-> "pass", before |-> 0]

(* Pool threads and the dispatcher run; a service sends READY=1, or dies,  *)
(* or its TimeoutStartSec= fires.                                          *)
Fairness ==
    /\ WF_sweepVars(\E t \in Tasks : WorkerStep(t))
    /\ WF_sweepVars(Register)
    /\ \A u \in Deferring : WF_sweepVars(NotifyReady(u) \/ StartFails(u))
    /\ WF_sweepVars(SweepStep)

Spec == Init /\ [][Next]_sweepVars /\ Fairness

-----------------------------------------------------------------------------
(* Properties. *)

(* After= holds between any two units of the closure: when a unit has left *)
(* NeverStarted, every unit it is ordered after has settled, whichever of  *)
(* the walks, passes and completions came first.                           *)
OrderRespected ==
    \A u \in Closure : status[u] # "NeverStarted" =>
        \A d \in After[u] \cap Closure : status[d] \in Settled

(* Several walks may be past the first look at the status of the same      *)
(* unit.  None of them starts it again once it has settled; only a service *)
(* that parks may be failed by the one that finds it running.              *)
SettledStays ==
    [][\A u \in Unit : status[u] \in Settled =>
          status'[u] = status[u] \/ (u \in Deferring /\ status'[u] = "Failed")]_sweepVars

(* In the end no start hangs, and no unit of the closure that could be     *)
(* started is left NeverStarted: whoever completed the last unit it waited *)
(* for, or a pass of the sweep after that, has started it.                 *)
ClosureSettles ==
    <>[](\A u \in Closure : \/ status[u] \in Settled
                            \/ status[u] = "NeverStarted" /\ ~Startable(u, Closure))
=============================================================================
