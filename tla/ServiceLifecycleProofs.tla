------------------------ MODULE ServiceLifecycleProofs ------------------------
(***************************************************************************)
(* Proofs about ServiceLifecycle, for any number of processes, requests    *)
(* and control threads.                                                    *)
(*                                                                         *)
(* NoOrphan does not hold for every service: a restart that races the tail *)
(* of an exit breaks it (run service_restart_race).  It is proved for the  *)
(* two halves of which that race needs both: services without Restart=,    *)
(* whatever is requested, and services that nobody but Restart= starts.    *)
(***************************************************************************)
EXTENDS ServiceLifecycle, SequenceTheorems, TLAPS

(* An event that is taken is the exit of a process.                        *)
TakenIsPid == disp.step \in {"head", "mainExit"} => disp.on \in Pid

(* TypeOK by the groups of variables that a step leaves alone together.    *)
UnitTyped ==
    /\ status \in Status
    /\ pid \in Pid \cup {NoPid}
    /\ manualStop \in BOOLEAN
    /\ lock \in Thread \cup {Nobody}
    /\ readers \subseteq Pid

ProcsTyped ==
    /\ signalled \subseteq live
    /\ live \cup zombies \subseteq Pid
    /\ live \cap zombies = {}
    /\ table \in [Pid -> {"none", "service", "exited"}]

DispTyped ==
    /\ events \in Seq({StopEvent} \cup Pid)
    /\ disp \in [step : {"idle", "head", "mainExit", "fork", "term", "signal",
                         "sweep", "final"},
                 on : Pid \cup {NoPid}]
    /\ chain \in [at : {"none", "exec", "main"}, on : Pid \cup {NoPid}]
    /\ TakenIsPid

ThreadsTyped ==
    /\ pc \in [Thread -> [step : Steps, op : Ops]]
    /\ old \in [Thread -> Pid \cup {NoPid}]

WishesTyped ==
    /\ requests \in 0 .. MaxRequests
    /\ wanted \in {"any", "stopping", "down"}

Typed == UnitTyped /\ ProcsTyped /\ DispTyped /\ ThreadsTyped /\ WishesTyped

(* Where the tail of an exit can be: it looks into the exit, ...           *)
Noticing(x) ==
    \/ x.step \in {"policy", "guard", "stale", "stalePid", "deactivate"} /\ x.op = "none"
    \/ x.step \in {"locked", "begin"} /\ x.op = "deactivate"

(* ... deactivates the unit, ...                                           *)
Ending(x) ==
    \/ x.step \in {"term", "sweep", "reaped"} /\ x.op = "deactivate"
    \/ x.step = "mark" /\ x.op = "none"

(* ... has been told to restart it, ...                                    *)
Reviving(x) ==
    \/ x.step = "guard" /\ x.op = "activate"
    \/ x.step = "restart" /\ x.op = "none"

(* ... restarts it, ...                                                    *)
Restarting(x) ==
    \/ x.step \in {"pending", "limit", "clear", "reactivate"} /\ x.op = "none"
    \/ x.step = "locked" /\ x.op = "reactivate"
    \/ x.step \in {"decided", "reaped", "start", "spawned"} /\ x.op = "activate"

(* ... or kills the process that somebody started in the meantime.         *)
Replacing(x) ==
    x.step \in {"decided", "term", "sweep", "reaped", "start", "spawned"} /\ x.op = "full"

Resting(x) == x.step = "idle" /\ x.op = "none"

-----------------------------------------------------------------------------
(* Restart=no. *)

TailsOnlyEnd == \A p \in Pid : Resting(pc[p]) \/ Noticing(pc[p]) \/ Ending(pc[p])

(* Between the sweep that ends a stop and the next request.                *)
Swept == wanted = "down" \/ (wanted = "stopping" /\ disp.step = "final")

NobodyAsks == wanted # "any" => \A t \in Control : Resting(pc[t])

NothingRuns == Swept => live \ signalled = {}

NoRestartInv == Typed /\ TailsOnlyEnd /\ NoOrphan /\ NobodyAsks /\ NothingRuns

-----------------------------------------------------------------------------
(* Automatic restarts and stops. *)

TailsEndOrRestart ==
    \A p \in Pid : \/ Resting(pc[p]) \/ Noticing(pc[p]) \/ Ending(pc[p])
                   \/ Reviving(pc[p]) \/ Restarting(pc[p]) \/ Replacing(pc[p])

(* An exit on its way from the process to its tail.                        *)
Exits == {i \in 1 .. Len(events) : events[i] # StopEvent}

InQueue == {events[i] : i \in Exits}

InHand == IF disp.step \in {"head", "mainExit"} THEN {disp.on} ELSE {}

Bodies == live \cup zombies \cup InQueue \cup InHand

Mourners == {p \in Pid : pc[p].step # "idle"}

OneBody ==
    /\ \A p, q \in Bodies : p = q
    /\ \A i, j \in Exits : i = j
    /\ (live \cup zombies) \cap (InQueue \cup InHand) = {}
    /\ InQueue \cap InHand = {}

OneMourner ==
    /\ \A p, q \in Mourners : p = q
    /\ Bodies # {} => \A t \in Mourners : pc[t].step = "spawned"

Held == {"locked", "begin", "decided", "term", "sweep", "reaped", "start",
         "spawned"}

Locked == \A p \in Pid : pc[p].step \in Held <=> lock = p

Cleared == \A p \in Pid : pc[p].step \in {"reaped", "start"} => pid = NoPid

(* As long as nobody asked for anything the status follows the one process *)
(* and its one tail.                                                       *)
Untouched ==
    /\ disp.step \in {"idle", "head"}
    /\ chain = NoChain
    /\ \A i \in 1 .. Len(events) : events[i] # StopEvent
Follows ==
    /\ \A p \in Bodies : pid = p /\ ~manualStop
    /\ Mourners = {} /\ Bodies # {} => status = "Started"
    /\ Mourners = {} /\ Bodies = {} => status \in Stopped
    /\ \A t \in Mourners :
         /\ Noticing(pc[t]) \/ Reviving(pc[t])
              => status = "Started" /\ pid = t /\ ~manualStop
         /\ Restarting(pc[t]) => status = "Restarting"
         /\ ~Replacing(pc[t])
         /\ pc[t].step = "spawned" => Bodies # {}
         /\ pc[t].step = "mark" => status \in Stopped

Undisturbed == requests = 0 => Untouched /\ Follows

(* A failed unit has neither a process nor a tail.                         *)
FailedIsQuiet == status = "Failed" => Bodies = {} /\ Mourners = {}

(* A tail that has yet to look at the status.                              *)
CalledOff(x) ==
    \/ Resting(x) \/ Noticing(x) \/ Ending(x)
    \/ x.step = "guard" /\ x.op = "activate"
    \/ x.step \in {"pending", "limit"} /\ x.op = "none"

(* From the sweep of a stop on, the status sends every tail home.          *)
Quiet ==
    Swept => /\ live \ signalled = {}
             /\ status \in {"Stopping"} \cup Stopped
             /\ \A p \in Pid : CalledOff(pc[p])

ControlRests == \A t \in Control : Resting(pc[t])

StopOnlyInv ==
    /\ Typed /\ NoOrphan /\ ControlRests /\ TailsEndOrRestart
    /\ OneBody /\ OneMourner /\ Locked /\ Cleared /\ Undisturbed
    /\ FailedIsQuiet /\ Quiet

-----------------------------------------------------------------------------
(* Types. *)

LEMMA TypedIsTypeOK == Typed => TypeOK
  BY DEF Typed, TypeOK, UnitTyped, ProcsTyped, DispTyped, ThreadsTyped, WishesTyped

LEMMA PidFacts == NoPid \notin Pid /\ Nobody \notin Pid /\ StopEvent \notin Pid /\ 1 \in Pid
                  /\ Pid \subseteq Nat
  BY LifecycleAssumption DEF Pid, NoPid, Nobody, StopEvent

LEMMA InitTyped == Init => Typed
<1> SUFFICES ASSUME Init PROVE Typed
  OBVIOUS
<1>1. UnitTyped /\ ProcsTyped
  BY PidFacts DEF Init, UnitTyped, ProcsTyped, Status
<1>2. DispTyped
  BY DEF Init, DispTyped, TakenIsPid, Rest, NoChain
<1>3. ThreadsTyped /\ WishesTyped
  BY LifecycleAssumption DEF Init, ThreadsTyped, WishesTyped, Idle, At, Steps, Ops
<1> QED BY <1>1, <1>2, <1>3 DEF Typed

LEMMA WorksTyped ==
    ASSUME Typed, NEW t \in Thread, Works(t)
    PROVE  Typed'
<1>1. UnitTyped /\ ProcsTyped /\ DispTyped /\ ThreadsTyped /\ WishesTyped
  BY DEF Typed
<1>2. pc[t].step \in Steps /\ pc[t].op \in Ops
  BY <1>1 DEF ThreadsTyped
<1>3. DispTyped' /\ WishesTyped'
  BY <1>1 DEF DispTyped, TakenIsPid, WishesTyped, disps, wishes, Works, LockState,
     ActivateNot, DeactivateNot, Decide, Activate, Reactivate, ReactivateFull,
     ReactivateStopped, Deactivate, KillTerm, KillSweep, Reaped, StartRefused,
     StartFails, Spawn, Spawned
<1>4. ThreadsTyped'
  BY <1>1, <1>2 DEF ThreadsTyped, UnitTyped, Go, Done, At, Idle, Steps, Ops, Works,
     LockState, ActivateNot, DeactivateNot, Decide, Activate, Reactivate,
     ReactivateFull, ReactivateStopped, Deactivate, KillTerm, KillSweep, Reaped,
     StartRefused, StartFails, Spawn, Spawned
<1>5. UnitTyped'
  BY <1>1, PidFacts DEF UnitTyped, Status, Sets, Unlock, locks, unit, Works, LockState,
     ActivateNot, DeactivateNot, Decide, Activate, Reactivate, ReactivateFull,
     ReactivateStopped, Deactivate, KillTerm, KillSweep, Reaped, StartRefused,
     StartFails, Spawn, Spawned, Refused, Fresh
<1>6. ProcsTyped'
  <2>1. CASE Spawn(t)
    BY <1>1, <2>1, PidFacts DEF ProcsTyped, Spawn, Fresh, Pid
  <2>2. CASE ~Spawn(t)
    BY <1>1, <2>2 DEF ProcsTyped, procs, Running, Works, LockState,
       ActivateNot, DeactivateNot, Decide, Activate, Reactivate, ReactivateFull,
       ReactivateStopped, Deactivate, KillTerm, KillSweep, Reaped, StartRefused,
       StartFails, Spawned
  <2> QED BY <2>1, <2>2
<1> QED BY <1>3, <1>4, <1>5, <1>6 DEF Typed

LEMMA TailTyped ==
    ASSUME Typed, NEW p \in Pid, ExitTail(p)
    PROVE  Typed'
<1>1. UnitTyped /\ ProcsTyped /\ DispTyped /\ ThreadsTyped /\ WishesTyped /\ p \in Thread
  BY DEF Typed, Thread
<1>2. DispTyped' /\ WishesTyped' /\ ProcsTyped'
  BY <1>1 DEF DispTyped, TakenIsPid, WishesTyped, ProcsTyped, disps, wishes, procs,
     ExitTail, Policy, Guard, BeginRestart, Pending, RateLimited, ClearPid, Stale,
     StalePid, Mark
<1>3. ThreadsTyped'
  BY <1>1 DEF ThreadsTyped, Go, Done, At, Idle, Steps, Ops, ExitTail, Policy, Guard,
     BeginRestart, Pending, RateLimited, ClearPid, Stale, StalePid, Mark
<1>4. UnitTyped'
  BY <1>1 DEF UnitTyped, Status, Sets, locks, unit, ExitTail, Policy, Guard,
     BeginRestart, Pending, RateLimited, ClearPid, Stale, StalePid, Mark
<1> QED BY <1>2, <1>3, <1>4 DEF Typed

LEMMA DispatcherTyped ==
    ASSUME Typed, Dispatcher
    PROVE  Typed'
<1>1. UnitTyped /\ ProcsTyped /\ DispTyped /\ ThreadsTyped /\ WishesTyped
  BY DEF Typed
<1>2. events # << >> => Head(events) \in {StopEvent} \cup Pid
                        /\ Tail(events) \in Seq({StopEvent} \cup Pid)
  BY <1>1 DEF DispTyped
<1>3. UnitTyped' /\ WishesTyped'
  BY <1>1 DEF UnitTyped, WishesTyped, Status, Sets, locks, unit, wishes, Dispatcher,
     TakeExit, TakeStop, ExitHead, ForkExecStop, ExecStopExits, TermStatus,
     TermSignal, MainExited, MainTimeout, FinalSweep, FinalStatus
<1>4. ProcsTyped'
  BY <1>1, <1>2 DEF ProcsTyped, procs, Dispatcher,
     TakeExit, TakeStop, ExitHead, ForkExecStop, ExecStopExits, TermStatus,
     TermSignal, MainExited, MainTimeout, FinalSweep, FinalStatus
<1>5. ThreadsTyped'
  <2>1. CASE ExitHead
    <3>1. disp.on \in Thread
      BY <1>1, <2>1 DEF DispTyped, TakenIsPid, ExitHead, Thread
    <3> QED BY <1>1, <2>1, <3>1 DEF ThreadsTyped, ExitHead, Go, At, Steps, Ops
  <2>2. CASE ~ExitHead
    BY <1>1, <2>2 DEF ThreadsTyped, threads, Dispatcher,
       TakeExit, TakeStop, ForkExecStop, ExecStopExits, TermStatus,
       TermSignal, MainExited, MainTimeout, FinalSweep, FinalStatus
  <2> QED BY <2>1, <2>2
<1>6. DispTyped'
  <2>1. CASE TakeExit
    BY <1>1, <1>2, <2>1 DEF DispTyped, TakenIsPid, TakeExit, DispGo
  <2>2. CASE TakeStop
    BY <1>1, <1>2, <2>2 DEF DispTyped, TakenIsPid, TakeStop, DispGo
  <2>3. CASE TermSignal
    <3>1. Running \subseteq Pid
      BY <1>1 DEF UnitTyped, Running, Target
    <3> HIDE DEF Running
    <3> QED BY <1>1, <2>3, <3>1 DEF DispTyped, TakenIsPid, TermSignal, DispGo, Rest
  <2>4. CASE ~TakeExit /\ ~TakeStop /\ ~TermSignal
    BY <1>1, <2>4 DEF DispTyped, TakenIsPid, DispGo, Rest, NoChain, Dispatcher,
       ExitHead, ForkExecStop, ExecStopExits, TermStatus, MainExited, MainTimeout,
       FinalSweep, FinalStatus
  <2> QED BY <2>1, <2>2, <2>3, <2>4
<1> QED BY <1>3, <1>4, <1>5, <1>6 DEF Typed

LEMMA OthersTyped ==
    ASSUME Typed,
           \/ \E p \in Pid : Exit(p) \/ Reap(p)
           \/ RequestStop
           \/ \E t \in Control : RequestStart(t) \/ CheckStart(t) \/ RequestRestart(t)
    PROVE  Typed'
<1>1. UnitTyped /\ ProcsTyped /\ DispTyped /\ ThreadsTyped /\ WishesTyped
  BY DEF Typed
<1>2. ASSUME NEW p \in Pid, Exit(p) \/ Reap(p) PROVE Typed'
  <2>1. UnitTyped' /\ WishesTyped' /\ ThreadsTyped'
    BY <1>1, <1>2 DEF UnitTyped, WishesTyped, ThreadsTyped, unit, locks, wishes,
       threads, Exit, Reap
  <2>2. ProcsTyped' /\ DispTyped'
    BY <1>1, <1>2 DEF ProcsTyped, DispTyped, TakenIsPid, disps, Exit, Reap
  <2> QED BY <2>1, <2>2 DEF Typed
<1>3. CASE RequestStop
  <2>1. UnitTyped' /\ ThreadsTyped' /\ ProcsTyped'
    BY <1>1, <1>3 DEF UnitTyped, ProcsTyped, ThreadsTyped, unit, locks, procs,
       threads, RequestStop
  <2>2. WishesTyped' /\ DispTyped'
    BY <1>1, <1>3, LifecycleAssumption DEF WishesTyped, DispTyped, TakenIsPid,
       RequestStop, MayRequest
  <2> QED BY <2>1, <2>2 DEF Typed
<1>4. ASSUME NEW t \in Control, RequestStart(t) \/ CheckStart(t) \/ RequestRestart(t)
      PROVE  Typed'
  <2>1. UnitTyped' /\ ProcsTyped' /\ DispTyped'
    BY <1>1, <1>4 DEF UnitTyped, ProcsTyped, DispTyped, TakenIsPid, Status, Stopped,
       Sets, unit, locks, procs, disps, RequestStart, CheckStart, RequestRestart
  <2>2. WishesTyped'
    BY <1>1, <1>4, LifecycleAssumption DEF WishesTyped, wishes, MayRequest,
       RequestStart, CheckStart, RequestRestart
  <2>3. ThreadsTyped'
    BY <1>1, <1>4 DEF ThreadsTyped, Go, Done, At, Idle, Steps, Ops, Thread,
       RequestStart, CheckStart, RequestRestart
  <2> QED BY <2>1, <2>2, <2>3 DEF Typed
<1> QED BY <1>2, <1>3, <1>4

LEMMA TypedInductive == Typed /\ [Next]_vars => Typed'
<1> SUFFICES ASSUME Typed, [Next]_vars PROVE Typed'
  OBVIOUS
<1>1. CASE UNCHANGED vars
  BY <1>1 DEF Typed, UnitTyped, ProcsTyped, DispTyped, TakenIsPid, ThreadsTyped,
     WishesTyped, vars, unit, locks, procs, disps, threads, wishes
<1> QED BY <1>1, OthersTyped, DispatcherTyped, WorksTyped, TailTyped DEF Next

(* The state keeps its types: no thread writes a value that the code's     *)
(* types exclude, a tail is started only for a process that exited, and    *)
(* only processes that run are ever signalled.                             *)
THEOREM LifecycleTypes == Spec => []TypeOK
<1>1. Init => Typed
  BY InitTyped
<1> QED BY <1>1, TypedInductive, TypedIsTypeOK, PTL DEF Spec

-----------------------------------------------------------------------------
(* Restart=no. *)

LEMMA RestingIdle ==
    ASSUME ThreadsTyped, NEW t \in Thread
    PROVE  Resting(pc[t]) <=> pc[t] = Idle
  BY DEF ThreadsTyped, Resting, Idle, At

(* Signals, exits and starts, and what they leave running untold.          *)
LEMMA OrphanStep ==
    ASSUME Typed, NoOrphan, [Next]_vars,
           \A p \in Pid : pc[p].step = "clear" => live \ signalled = {}
    PROVE  NoOrphan'
<1>1. UnitTyped /\ ProcsTyped
  BY DEF Typed
<1>2. CASE UNCHANGED vars
  BY <1>2 DEF NoOrphan, vars, unit, procs
<1>3. ASSUME NEW p \in Pid, Exit(p) \/ Reap(p) PROVE NoOrphan'
  BY <1>3 DEF Exit, Reap, NoOrphan, unit
<1>4. CASE RequestStop
  BY <1>4 DEF RequestStop, NoOrphan, unit, procs
<1>5. ASSUME NEW t \in Control, RequestStart(t) \/ CheckStart(t) \/ RequestRestart(t)
      PROVE  NoOrphan'
  BY <1>5 DEF RequestStart, CheckStart, RequestRestart, NoOrphan, unit, procs
<1>6. CASE Dispatcher
  <2>1. CASE FinalSweep
    BY <2>1 DEF FinalSweep, NoOrphan
  <2>2. CASE ~FinalSweep
    BY <1>6, <2>2 DEF NoOrphan, unit, procs, Dispatcher,
       TakeExit, TakeStop, ExitHead, ForkExecStop, ExecStopExits, TermStatus,
       TermSignal, MainExited, MainTimeout, FinalStatus
  <2> QED BY <2>1, <2>2
<1>7. ASSUME NEW t \in Thread, Works(t) PROVE NoOrphan'
  <2>1. CASE Spawn(t)
    BY <1>1, <2>1, PidFacts DEF Spawn, NoOrphan, ProcsTyped
  <2>2. CASE ReactivateStopped(t)
    BY <2>2 DEF ReactivateStopped, NoOrphan
  <2>3. CASE KillSweep(t)
    BY <2>3 DEF KillSweep, NoOrphan
  <2>4. CASE ~Spawn(t) /\ ~ReactivateStopped(t) /\ ~KillSweep(t)
    BY <1>7, <2>4 DEF NoOrphan, unit, procs, Works, LockState, ActivateNot,
       DeactivateNot, Decide, Activate, Reactivate, ReactivateFull, Deactivate,
       KillTerm, Reaped, StartRefused, StartFails, Spawned
  <2> QED BY <2>1, <2>2, <2>3, <2>4
<1>8. ASSUME NEW p \in Pid, ExitTail(p) PROVE NoOrphan'
  <2>1. CASE ClearPid(p)
    BY <2>1 DEF ClearPid, Doing, NoOrphan, procs
  <2>2. CASE ~ClearPid(p)
    BY <1>8, <2>2 DEF NoOrphan, unit, procs, ExitTail, Policy, Guard,
       BeginRestart, Pending, RateLimited, Stale, StalePid, Mark
  <2> QED BY <2>1, <2>2
<1> QED BY <1>2, <1>3, <1>4, <1>5, <1>6, <1>7, <1>8 DEF Next

(* Whose move a step is.                                                   *)
LEMMA Mover ==
    ASSUME Typed, [Next]_vars, NEW q \in Thread
    PROVE  \/ pc'[q] = pc[q]
           \/ Works(q)
           \/ q \in Pid /\ ExitTail(q)
           \/ ExitHead /\ q = disp.on
           \/ q \in Control /\ (RequestStart(q) \/ CheckStart(q) \/ RequestRestart(q))
<1>1. pc \in [Thread -> [step : Steps, op : Ops]] /\ Pid \subseteq Thread /\ Control \subseteq Thread
  BY DEF Typed, ThreadsTyped, Thread
<1>2. CASE \/ UNCHANGED vars \/ RequestStop
           \/ \E p \in Pid : Exit(p) \/ Reap(p)
  BY <1>2 DEF vars, threads, RequestStop, Exit, Reap
<1>3. CASE Dispatcher
  <2>1. CASE ExitHead
    <3>1. disp.on \in Thread
      BY <1>1, <2>1 DEF Typed, DispTyped, TakenIsPid, ExitHead
    <3> QED BY <1>1, <2>1, <3>1 DEF ExitHead, Go
  <2>2. CASE ~ExitHead
    BY <1>3, <2>2 DEF threads, Dispatcher,
       TakeExit, TakeStop, ForkExecStop, ExecStopExits, TermStatus,
       TermSignal, MainExited, MainTimeout, FinalSweep, FinalStatus
  <2> QED BY <2>1, <2>2
<1>4. ASSUME NEW t \in Thread, t # q, NEW x, pc' = [pc EXCEPT ![t] = x]
      PROVE  pc'[q] = pc[q]
  BY <1>1, <1>4
<1>5. ASSUME NEW t \in Control, t # q,
             RequestStart(t) \/ CheckStart(t) \/ RequestRestart(t)
      PROVE  pc'[q] = pc[q]
  BY <1>1, <1>4, <1>5 DEF RequestStart, CheckStart, RequestRestart, Go, Done
<1>6. ASSUME NEW t \in Thread, t # q, Works(t) PROVE pc'[q] = pc[q]
  BY <1>4, <1>6 DEF Works, LockState, ActivateNot, DeactivateNot, Decide, Activate,
     Reactivate, ReactivateFull, ReactivateStopped, Deactivate, KillTerm, KillSweep,
     Reaped, StartRefused, StartFails, Spawn, Spawned, Go, Done
<1>7. ASSUME NEW p \in Pid, p # q, ExitTail(p) PROVE pc'[q] = pc[q]
  BY <1>1, <1>4, <1>7 DEF ExitTail, Policy, Guard, BeginRestart, Pending,
     RateLimited, ClearPid, Stale, StalePid, Mark, Go, Done
<1> QED BY <1>2, <1>3, <1>5, <1>6, <1>7 DEF Next

LEMMA TailsOnlyEndStep ==
    ASSUME RestartDecisions = {FALSE}, Typed, TailsOnlyEnd, [Next]_vars
    PROVE  TailsOnlyEnd'
<1>1. ThreadsTyped /\ DispTyped /\ Control \cap Pid = {}
  BY LifecycleAssumption DEF Typed, Pid
<1> SUFFICES ASSUME NEW q \in Pid
             PROVE  Resting(pc'[q]) \/ Noticing(pc'[q]) \/ Ending(pc'[q])
  BY DEF TailsOnlyEnd
<1>2. q \in Thread /\ (Resting(pc[q]) \/ Noticing(pc[q]) \/ Ending(pc[q]))
  BY DEF TailsOnlyEnd, Thread
<1>3. CASE pc'[q] = pc[q]
  BY <1>2, <1>3
<1>4. CASE ExitHead /\ q = disp.on
  BY <1>1, <1>2, <1>4 DEF ExitHead, Go, At, ThreadsTyped, Noticing
<1>5. CASE Works(q)
  <2>1. pc[q].step \in {"deactivate", "locked", "begin", "term", "sweep", "reaped"}
        /\ (pc[q].step = "deactivate" => pc[q].op = "none")
        /\ (pc[q].step # "deactivate" => pc[q].op = "deactivate")
    BY <1>2, <1>5 DEF Resting, Noticing, Ending, Works, LockState, ActivateNot,
       DeactivateNot, Decide, Activate, Reactivate, ReactivateFull,
       ReactivateStopped, Deactivate, KillTerm, KillSweep, Reaped, StartRefused,
       StartFails, Spawn, Spawned, Refused, Doing, At
  <2> QED
    BY <1>1, <1>2, <1>5, <2>1 DEF ThreadsTyped, Resting, Noticing, Ending, Works,
       LockState, ActivateNot, DeactivateNot, Decide, Activate, Reactivate,
       ReactivateFull, ReactivateStopped, Deactivate, KillTerm, KillSweep, Reaped,
       StartRefused, StartFails, Spawn, Spawned, Refused, Doing, At, Go, Done, Idle
<1>6. CASE ExitTail(q)
  BY <1>1, <1>2, <1>6 DEF ThreadsTyped, Resting, Noticing, Ending, ExitTail, Policy,
     Guard, BeginRestart, Pending, RateLimited, ClearPid, Stale, StalePid, Mark,
     Doing, Go, Done, At, Idle
<1>7. ~(q \in Control)
  BY <1>1
<1> QED BY <1>2, <1>3, <1>4, <1>5, <1>6, <1>7, Mover

(* Only the dispatcher moves the dispatcher, and only it and requests      *)
(* change what is wanted.                                                  *)
LEMMA WishSteps ==
    ASSUME [Next]_vars
    PROVE  /\ wanted' \in {wanted, "any"} \/ TakeStop \/ FinalStatus
           /\ disp' = disp \/ Dispatcher
<1>1. CASE UNCHANGED vars
  BY <1>1 DEF vars, disps, wishes
<1>2. CASE RequestStop \/ \E p \in Pid : Exit(p) \/ Reap(p)
  BY <1>2 DEF RequestStop, Exit, Reap, disps, wishes
<1>3. CASE \E t \in Control : RequestStart(t) \/ CheckStart(t) \/ RequestRestart(t)
  BY <1>3 DEF RequestStart, CheckStart, RequestRestart, disps, wishes
<1>4. CASE Dispatcher
  BY <1>4 DEF Dispatcher, TakeExit, ExitHead, ForkExecStop, ExecStopExits,
     TermStatus, TermSignal, MainExited, MainTimeout, FinalSweep, wishes
<1>5. CASE \E t \in Thread : Works(t)
  BY <1>5 DEF Works, LockState, ActivateNot, DeactivateNot, Decide, Activate, Reactivate,
     ReactivateFull, ReactivateStopped, Deactivate, KillTerm, KillSweep, Reaped,
     StartRefused, StartFails, Spawn, Spawned, disps, wishes
<1>6. CASE \E p \in Pid : ExitTail(p)
  BY <1>6 DEF ExitTail, Policy, Guard, BeginRestart, Pending, RateLimited, ClearPid,
     Stale, StalePid, Mark, disps, wishes
<1> QED BY <1>1, <1>2, <1>3, <1>4, <1>5, <1>6 DEF Next

(* Without a fork no more runs, and nothing that was told to go is untold. *)
LEMMA NoFork ==
    ASSUME [Next]_vars, Typed, \A t \in Thread : ~Spawn(t)
    PROVE  live' \subseteq live /\ signalled \cap live' \subseteq signalled'
<1>1. CASE UNCHANGED vars
  BY <1>1 DEF vars, procs
<1>2. CASE RequestStop \/ \E p \in Pid : Exit(p) \/ Reap(p)
  BY <1>2 DEF RequestStop, Exit, Reap, procs
<1>3. CASE \E t \in Control : RequestStart(t) \/ CheckStart(t) \/ RequestRestart(t)
  BY <1>3 DEF RequestStart, CheckStart, RequestRestart, procs
<1>4. CASE Dispatcher
  BY <1>4 DEF Dispatcher, TakeExit, TakeStop, ExitHead, ForkExecStop, ExecStopExits,
     TermStatus, TermSignal, MainExited, MainTimeout, FinalSweep, FinalStatus, procs
<1>5. CASE \E t \in Thread : Works(t)
  BY <1>5 DEF Works, LockState, ActivateNot, DeactivateNot, Decide, Activate, Reactivate,
     ReactivateFull, ReactivateStopped, Deactivate, KillTerm, KillSweep, Reaped,
     StartRefused, StartFails, Spawned, procs
<1>6. CASE \E p \in Pid : ExitTail(p)
  BY <1>6 DEF ExitTail, Policy, Guard, BeginRestart, Pending, RateLimited, ClearPid,
     Stale, StalePid, Mark, procs
<1> QED BY <1>1, <1>2, <1>3, <1>4, <1>5, <1>6 DEF Next

(* While a stop is under way or over, nobody is asking for a start: a      *)
(* request makes wanted "any".                                             *)
LEMMA NobodyAsksStep ==
    ASSUME Typed, NobodyAsks, [Next]_vars
    PROVE  NobodyAsks'
<1> SUFFICES ASSUME wanted' # "any", NEW t \in Control PROVE Resting(pc'[t])
  BY DEF NobodyAsks
<1>1. t \in Thread /\ Control \cap Pid = {} /\ ThreadsTyped /\ DispTyped
  BY LifecycleAssumption DEF Thread, Pid, Typed
<1>2. Resting(pc[t])
  <2>1. CASE TakeStop /\ wanted' # wanted
    <3>1. pc[t] = Idle
      BY <2>1 DEF TakeStop, wishes
    <3> QED BY <1>1, <3>1, RestingIdle
  <2>2. CASE wanted = "any" /\ ~TakeStop
    BY <2>2, WishSteps DEF FinalStatus
  <2>3. CASE wanted # "any"
    BY <2>3 DEF NobodyAsks
  <2> QED BY <2>1, <2>2, <2>3
<1>3. ~Works(t)
  BY <1>2 DEF Resting, Works, LockState, ActivateNot,
     DeactivateNot, Decide, Activate, Reactivate, ReactivateFull,
     ReactivateStopped, Deactivate, KillTerm, KillSweep, Reaped, StartRefused,
     StartFails, Spawn, Spawned, Refused, Doing, At
<1>4. ~(RequestStart(t) \/ CheckStart(t) \/ RequestRestart(t))
  BY <1>2 DEF Resting, RequestStart, CheckStart, RequestRestart, Doing
<1>5. ~(ExitHead /\ t = disp.on)
  BY <1>1 DEF ExitHead, DispTyped, TakenIsPid
<1> QED BY <1>1, <1>2, <1>3, <1>4, <1>5, Mover

(* The sweep is where a stop becomes a swept one.                          *)
LEMMA SweptBefore ==
    ASSUME [Next]_vars, ~FinalSweep, Swept'
    PROVE  Swept
<1>1. CASE TakeStop
  BY <1>1 DEF TakeStop, Swept, DispGo, DispIdle, Rest, wishes
<1>2. CASE FinalStatus
  BY <1>2 DEF FinalStatus, Swept, Rest
<1>3. CASE ~TakeStop /\ ~FinalStatus
  <2>1. wanted' = wanted
    BY <1>3, WishSteps DEF Swept
  <2>2. disp'.step = "final" => disp.step = "final"
    <3>1. disp' = disp \/ Dispatcher
      BY WishSteps
    <3>2. CASE Dispatcher
      BY <1>3, <3>2 DEF Dispatcher, TakeExit, ExitHead, ForkExecStop,
         ExecStopExits, TermStatus, TermSignal, MainExited, MainTimeout, DispGo, Rest
    <3> QED BY <3>1, <3>2
  <2> QED BY <2>1, <2>2 DEF Swept
<1> QED BY <1>1, <1>2, <1>3

(* Nobody else could fork: a tail ends, and no control thread is at work.  *)
LEMMA NothingRunsStep ==
    ASSUME RestartDecisions = {FALSE}, Typed, TailsOnlyEnd, NobodyAsks, NothingRuns,
           [Next]_vars
    PROVE  NothingRuns'
<1> SUFFICES ASSUME Swept' PROVE live' \ signalled' = {}
  BY DEF NothingRuns
<1>1. CASE FinalSweep
  BY <1>1 DEF FinalSweep
<1>2. CASE ~FinalSweep
  <2>3. wanted # "any" /\ live \ signalled = {}
    BY <1>2, SweptBefore DEF NothingRuns, Swept
  <2>4. ASSUME NEW t \in Thread PROVE ~Spawn(t)
    <3>1. CASE t \in Control
      BY <2>3, <3>1 DEF NobodyAsks, Resting, Spawn, Doing
    <3>2. CASE t \in Pid
      BY <3>2 DEF TailsOnlyEnd, Resting, Noticing, Ending, Spawn, Doing
    <3> QED BY <3>1, <3>2 DEF Thread
  <2>5. live' \subseteq live /\ signalled \cap live' \subseteq signalled'
    BY <2>4, NoFork
  <2> QED BY <2>3, <2>5
<1> QED BY <1>1, <1>2

LEMMA NoRestartInductive ==
    ASSUME RestartDecisions = {FALSE}
    PROVE  (Init => NoRestartInv) /\ (NoRestartInv /\ [Next]_vars => NoRestartInv')
<1>1. ASSUME Init PROVE NoRestartInv
  <2>1. Typed /\ \A t \in Thread : Resting(pc[t])
    BY <1>1, InitTyped DEF Init, Resting, Idle, At
  <2> QED BY <1>1, <2>1 DEF Init, NoRestartInv, TailsOnlyEnd, NoOrphan, NobodyAsks,
              NothingRuns, Swept, Thread
<1>2. ASSUME NoRestartInv, [Next]_vars PROVE NoRestartInv'
  <2>1. \A p \in Pid : pc[p].step # "clear"
    BY <1>2 DEF NoRestartInv, TailsOnlyEnd, Resting, Noticing, Ending
  <2> QED BY <1>2, <2>1, TypedInductive, OrphanStep, TailsOnlyEndStep,
             NobodyAsksStep, NothingRunsStep DEF NoRestartInv
<1> QED BY <1>1, <1>2

-----------------------------------------------------------------------------
(* Automatic restarts and stops: the tails, the lock and the pid. *)

LEMMA WorkersWork ==
    ASSUME NEW t, Works(t)
    PROVE  pc[t].step \in Held \cup {"activate", "reactivate", "deactivate"}
  BY DEF Held, Works, LockState, ActivateNot,
     DeactivateNot, Decide, Activate, Reactivate, ReactivateFull,
     ReactivateStopped, Deactivate, KillTerm, KillSweep, Reaped, StartRefused,
     StartFails, Spawn, Spawned, Refused, Doing, At

LEMMA TailsWork ==
    ASSUME NEW p, ExitTail(p)
    PROVE  pc[p].step \in {"policy", "guard", "restart", "pending", "limit", "clear",
                           "stale", "stalePid", "mark"}
  BY DEF ExitTail, Policy, Guard, BeginRestart, Pending, RateLimited, ClearPid,
     Stale, StalePid, Mark, Doing

LEMMA ControlRestsStep ==
    ASSUME Requests \subseteq {"stop"}, Typed, ControlRests, [Next]_vars
    PROVE  ControlRests'
<1> SUFFICES ASSUME NEW t \in Control PROVE Resting(pc'[t])
  BY DEF ControlRests
<1>1. t \in Thread /\ Control \cap Pid = {} /\ Resting(pc[t])
  BY LifecycleAssumption DEF Thread, Pid, ControlRests
<1>2. ~Works(t)
  BY <1>1, WorkersWork DEF Resting, Held
<1>3. ~(RequestStart(t) \/ CheckStart(t) \/ RequestRestart(t))
  BY <1>1 DEF Resting, RequestStart, CheckStart, RequestRestart, MayRequest, Doing
<1>4. ~(ExitHead /\ t = disp.on)
  BY <1>1 DEF ExitHead, Typed, DispTyped, TakenIsPid
<1> QED BY <1>1, <1>2, <1>3, <1>4, Mover

LEMMA TailsStep ==
    ASSUME Typed, TailsEndOrRestart, [Next]_vars
    PROVE  TailsEndOrRestart'
<1>1. ThreadsTyped /\ DispTyped /\ Control \cap Pid = {}
  BY LifecycleAssumption DEF Typed, Pid
<1> SUFFICES ASSUME NEW q \in Pid
             PROVE  \/ Resting(pc'[q]) \/ Noticing(pc'[q]) \/ Ending(pc'[q])
                    \/ Reviving(pc'[q]) \/ Restarting(pc'[q]) \/ Replacing(pc'[q])
  BY DEF TailsEndOrRestart
<1>2. /\ q \in Thread
      /\ \/ Resting(pc[q]) \/ Noticing(pc[q]) \/ Ending(pc[q])
         \/ Reviving(pc[q]) \/ Restarting(pc[q]) \/ Replacing(pc[q])
  BY DEF TailsEndOrRestart, Thread
<1>3. CASE pc'[q] = pc[q]
  BY <1>2, <1>3
<1>4. CASE ExitHead /\ q = disp.on
  BY <1>1, <1>2, <1>4 DEF ExitHead, Go, At, ThreadsTyped, Noticing
<1>5. CASE Works(q)
  <2>1. CASE Noticing(pc[q]) \/ Ending(pc[q])
    BY <1>1, <1>2, <1>5, <2>1 DEF ThreadsTyped, Resting, Noticing, Ending, Works,
       LockState, ActivateNot, DeactivateNot, Decide, Activate, Reactivate,
       ReactivateFull, ReactivateStopped, Deactivate, KillTerm, KillSweep, Reaped,
       StartRefused, StartFails, Spawn, Spawned, Refused, Doing, At, Go, Done, Idle
  <2>2. CASE Reviving(pc[q]) \/ Restarting(pc[q]) \/ Replacing(pc[q])
    BY <1>1, <1>2, <1>5, <2>2 DEF ThreadsTyped, Resting, Reviving, Restarting,
       Replacing, Works,
       LockState, ActivateNot, DeactivateNot, Decide, Activate, Reactivate,
       ReactivateFull, ReactivateStopped, Deactivate, KillTerm, KillSweep, Reaped,
       StartRefused, StartFails, Spawn, Spawned, Refused, Doing, At, Go, Done, Idle
  <2>3. CASE Resting(pc[q])
    BY <1>5, <2>3, WorkersWork DEF Resting, Held
  <2> QED BY <1>2, <2>1, <2>2, <2>3
<1>6. CASE ExitTail(q)
  BY <1>1, <1>2, <1>6 DEF ThreadsTyped, Resting, Noticing, Ending, Reviving,
     Restarting, Replacing, ExitTail, Policy,
     Guard, BeginRestart, Pending, RateLimited, ClearPid, Stale, StalePid, Mark,
     Doing, Go, Done, At, Idle
<1>7. ~(q \in Control)
  BY <1>1
<1> QED BY <1>2, <1>3, <1>4, <1>5, <1>6, <1>7, Mover

(* Nobody else takes the lock while it is held, and who gives it back is   *)
(* through with what needs it.                                             *)
LEMMA LockedStep ==
    ASSUME Typed, ControlRests, TailsEndOrRestart, Locked, Cleared, [Next]_vars
    PROVE  Locked' /\ Cleared'
<1>1. /\ pc \in [Thread -> [step : Steps, op : Ops]] /\ Pid \subseteq Thread
      /\ Nobody \notin Pid /\ NoPid \notin Pid
  BY PidFacts DEF Typed, ThreadsTyped, Thread
<1>2. CASE UNCHANGED << pc, lock, pid >>
  BY <1>2 DEF Locked, Cleared
<1>3. CASE UNCHANGED vars \/ RequestStop \/ \E p \in Pid : Exit(p) \/ Reap(p)
  BY <1>2, <1>3 DEF vars, unit, locks, threads, RequestStop, Exit, Reap
<1>4. ASSUME NEW t \in Control, RequestStart(t) \/ CheckStart(t) \/ RequestRestart(t)
      PROVE  Locked' /\ Cleared'
  <2>1. t \notin Pid /\ t \in Thread /\ pc[t].step # "check"
    BY LifecycleAssumption DEF Pid, Thread, ControlRests, Resting
  <2>2. lock' = lock /\ pid' = pid /\ \A p \in Pid : pc'[p] = pc[p]
    BY <1>1, <1>4, <2>1 DEF RequestStart, CheckStart, RequestRestart, Go, Done, unit, locks
  <2> QED BY <2>2 DEF Locked, Cleared
<1>5. CASE Dispatcher
  <2>1. CASE ExitHead
    <3>1. disp.on \in Pid /\ lock = Nobody
      BY <2>1 DEF ExitHead, Free, Typed, DispTyped, TakenIsPid
    <3> QED BY <1>1, <2>1, <3>1 DEF ExitHead, Go, At, unit, locks, Locked, Cleared, Held
  <2>2. CASE FinalSweep
    BY <1>1, <2>2 DEF FinalSweep, locks, threads, Locked, Cleared
  <2>3. CASE ~ExitHead /\ ~FinalSweep
    BY <1>2, <1>5, <2>3 DEF unit, locks, threads, Dispatcher, TakeExit, TakeStop,
       ForkExecStop, ExecStopExits, TermStatus, TermSignal, MainExited, MainTimeout,
       FinalStatus
  <2> QED BY <2>1, <2>2, <2>3
<1>6. ASSUME NEW t \in Thread, Works(t) PROVE Locked' /\ Cleared'
  <2>1. t \in Pid
    BY <1>6, WorkersWork DEF ControlRests, Resting, Held, Thread
  <2>2. ASSUME NEW x, pc' = [pc EXCEPT ![t] = x],
               \/ x.step \in Held /\ lock' = t /\ (lock = t \/ lock = Nobody)
               \/ x.step \notin Held /\ lock = t /\ lock' = Nobody,
               pid' \in {pid, NoPid} \/ x.step \notin {"reaped", "start"},
               x.step \in {"reaped", "start"} => pid' = NoPid,
               pid' \in {pid, NoPid} \/ lock = t
        PROVE  Locked' /\ Cleared'
    <3>1. Locked'
      BY <1>1, <2>1, <2>2 DEF Locked
    <3>2. Cleared'
      BY <1>1, <2>1, <2>2 DEF Locked, Cleared, Held
    <3> QED BY <3>1, <3>2
  <2>3. /\ pc[t].step \in Held => lock = t
        /\ pc[t].step \in {"reaped", "start"} => pid = NoPid
        /\ pc[t] # At("begin", "activate")
    BY <2>1 DEF Locked, Cleared, TailsEndOrRestart, Resting, Noticing, Ending,
       Reviving, Restarting, Replacing, At
  <2>4. CASE LockState(t)
    BY <2>2, <2>4 DEF LockState, Free, Go, At, Held
  <2>5. CASE ActivateNot(t) \/ DeactivateNot(t)
    <3>1. pc[t].step = "locked" /\ lock' = Nobody /\ pid' = pid
      BY <2>5 DEF ActivateNot, DeactivateNot, Unlock, At
    <3>2. lock = t
      BY <2>3, <3>1 DEF Held
    <3>3. pc' = [pc EXCEPT ![t] = At("idle", "none")] \/ pc' = [pc EXCEPT ![t] = At("mark", "none")]
      BY <2>5 DEF ActivateNot, DeactivateNot, Go, Done, Idle
    <3> QED BY <2>2, <3>1, <3>2, <3>3 DEF At, Held
  <2>10. CASE Decide(t) \/ Deactivate(t)
    BY <2>2, <2>3, <2>10 DEF Decide, Deactivate, Go, At, Held, unit, locks
  <2>6. CASE Reactivate(t) \/ ReactivateFull(t) \/ ReactivateStopped(t)
    BY <2>2, <2>3, <2>6 DEF Reactivate, ReactivateFull, ReactivateStopped,
       Go, At, Held, locks
  <2>7. CASE KillTerm(t) \/ KillSweep(t) \/ Reaped(t)
    BY <2>2, <2>3, <2>7 DEF KillTerm, KillSweep, Reaped, Unlock, Doing,
       Go, Done, Idle, At, Held, locks
  <2>8. CASE StartRefused(t) \/ StartFails(t) \/ Spawned(t)
    BY <2>2, <2>3, <2>8 DEF StartRefused, StartFails, Spawned, Refused, Unlock, Doing,
       Done, Idle, At, Held
  <2>9. CASE Spawn(t)
    BY <2>2, <2>3, <2>9 DEF Spawn, Doing, Go, At, Held, locks
  <2> QED BY <1>6, <2>3, <2>4, <2>5, <2>6, <2>7, <2>8, <2>9, <2>10 DEF Works, Activate
<1>7. ASSUME NEW p \in Pid, ExitTail(p) PROVE Locked' /\ Cleared'
  <2>1. pc[p].step \notin Held
    BY <1>7, TailsWork DEF Held
  <2>2. lock' = lock /\ pid' \in {pid, NoPid}
    BY <1>7 DEF ExitTail, Policy, Guard, BeginRestart, Pending, RateLimited, ClearPid,
       Stale, StalePid, Mark, unit, locks
  <2>3. ASSUME NEW x, pc' = [pc EXCEPT ![p] = x], x.step \notin Held
        PROVE  Locked' /\ Cleared'
    BY <1>1, <2>1, <2>2, <2>3 DEF Locked, Cleared, Held
  <2> QED BY <1>7, <2>3 DEF ExitTail, Policy, Guard, BeginRestart, Pending, RateLimited,
             ClearPid, Stale, StalePid, Mark, Go, Done, Idle, At, Held
<1> QED BY <1>3, <1>4, <1>5, <1>6, <1>7 DEF Next

-----------------------------------------------------------------------------
(* The one process and its one tail. *)

LEMMA QueueGrows ==
    ASSUME DispTyped, NEW e \in {StopEvent} \cup Pid, events' = Append(events, e)
    PROVE  /\ e = StopEvent => Exits' = Exits /\ InQueue' = InQueue
           /\ e # StopEvent => /\ Exits' = Exits \cup {Len(events) + 1}
                               /\ InQueue' = InQueue \cup {e}
<1>1. /\ Len(events) \in Nat /\ Len(events') = Len(events) + 1
      /\ \A i \in 1 .. Len(events) : events'[i] = events[i]
      /\ events'[Len(events) + 1] = e
  BY DEF DispTyped
<1>2. ASSUME NEW i PROVE i \in 1 .. Len(events') <=> i \in 1 .. Len(events) \/ i = Len(events) + 1
  BY <1>1
<1>3. e = StopEvent => Exits' = Exits
  BY <1>1, <1>2 DEF Exits
<1>4. e # StopEvent => Exits' = Exits \cup {Len(events) + 1}
  BY <1>1, <1>2 DEF Exits
<1>5. \A i \in Exits : events'[i] = events[i]
  BY <1>1 DEF Exits
<1> QED BY <1>1, <1>3, <1>4, <1>5 DEF InQueue

LEMMA QueueShrinks ==
    ASSUME DispTyped, events # << >>, events' = Tail(events), \A i, j \in Exits : i = j
    PROVE  /\ Head(events) = StopEvent => InQueue' = InQueue
           /\ Head(events) # StopEvent => InQueue = {Head(events)} /\ InQueue' = {} /\ Exits' = {}
           /\ \A i, j \in Exits' : i = j
<1>1. /\ Len(events) \in Nat \ {0} /\ Len(events') = Len(events) - 1
      /\ \A i \in 1 .. Len(events) - 1 : events'[i] = events[i + 1]
      /\ Head(events) = events[1]
  BY DEF DispTyped
<1>2. ASSUME NEW i \in Exits' PROVE i + 1 \in Exits /\ events'[i] = events[i + 1] /\ i \in Nat \ {0}
  BY <1>1, <1>2 DEF Exits
<1>3. ASSUME NEW i \in Exits, i # 1 PROVE i - 1 \in Exits' /\ events'[i - 1] = events[i]
  <2>1. i \in 1 .. Len(events) /\ i - 1 \in 1 .. Len(events) - 1 /\ (i - 1) + 1 = i
        /\ events[i] # StopEvent
    BY <1>1, <1>3 DEF Exits
  <2> QED BY <1>1, <2>1 DEF Exits
<1>4. \A i, j \in Exits' : i = j
  BY <1>2
<1>5. CASE Head(events) = StopEvent
  <2>1. 1 \notin Exits
    BY <1>1, <1>5 DEF Exits
  <2>2. ASSUME NEW e \in InQueue' PROVE e \in InQueue
    BY <1>2, <2>2 DEF InQueue
  <2>3. ASSUME NEW e \in InQueue PROVE e \in InQueue'
    BY <1>3, <2>1, <2>3 DEF InQueue
  <2> QED BY <1>4, <1>5, <2>2, <2>3
<1>6. CASE Head(events) # StopEvent
  <2>1. 1 \in Exits
    BY <1>1, <1>6 DEF Exits
  <2>2. Exits = {1}
    BY <2>1
  <2>3. Exits' = {}
    BY <1>2, <2>2
  <2> QED BY <1>1, <1>4, <1>6, <2>2, <2>3 DEF InQueue
<1> QED BY <1>5, <1>6

(* What becomes of the process and its exit in a step.                     *)
BodySame == Bodies' = Bodies
BodyMourned == ExitHead /\ Bodies = {disp.on} /\ Bodies' = {}
BodyBuried == MainExited /\ Bodies' = {}
BodyBorn == \E t \in Mourners : Spawn(t) /\ Bodies = {} /\ Bodies' = {pid'}

LEMMA BodiesStep ==
    ASSUME Typed, ControlRests, OneBody, OneMourner, [Next]_vars
    PROVE  OneBody' /\ (BodySame \/ BodyMourned \/ BodyBuried \/ BodyBorn)
<1>1. DispTyped /\ ProcsTyped /\ StopEvent \notin Pid
  BY PidFacts DEF Typed
<1>2. CASE UNCHANGED << live, zombies, events >> /\ InHand' = InHand
  BY <1>2 DEF OneBody, BodySame, Bodies, InQueue, Exits
<1>3. CASE UNCHANGED vars
  BY <1>2, <1>3 DEF vars, procs, disps, InHand
<1>4. ASSUME NEW p \in Pid, Exit(p) PROVE OneBody' /\ BodySame
  <2>1. live' \cup zombies' = live \cup zombies /\ InQueue' = InQueue /\ InHand' = InHand
        /\ Exits' = Exits
    BY <1>4 DEF Exit, disps, InQueue, Exits, InHand
  <2> QED BY <2>1 DEF OneBody, BodySame, Bodies
<1>5. ASSUME NEW p \in Pid, Reap(p) PROVE OneBody' /\ BodySame
  <2>1. /\ p \in zombies /\ zombies' = zombies \ {p} /\ live' = live
        /\ events' = Append(events, p) /\ InHand' = InHand
    BY <1>5 DEF Reap, InHand
  <2>2. Exits' = Exits \cup {Len(events) + 1} /\ InQueue' = InQueue \cup {p}
    BY <1>1, <2>1, QueueGrows
  <2>3. live \cup zombies = {p} /\ InQueue = {} /\ InHand = {} /\ live = {}
    BY <1>1, <2>1 DEF OneBody, Bodies, ProcsTyped
  <2>4. Exits = {}
    BY <2>3 DEF InQueue
  <2>5. Bodies' = Bodies
    BY <2>1, <2>2, <2>3 DEF Bodies
  <2>6. OneBody'
    BY <2>1, <2>2, <2>3, <2>4, <2>5 DEF OneBody
  <2> QED BY <2>5, <2>6 DEF BodySame
<1>6. CASE RequestStop
  <2>1. /\ live' = live /\ zombies' = zombies /\ InHand' = InHand
        /\ events' = Append(events, StopEvent)
    BY <1>6 DEF RequestStop, InHand, procs
  <2>2. Exits' = Exits /\ InQueue' = InQueue
    BY <1>1, <2>1, QueueGrows
  <2> QED BY <2>1, <2>2 DEF OneBody, BodySame, Bodies
<1>7. CASE \E t \in Control : RequestStart(t) \/ CheckStart(t) \/ RequestRestart(t)
  BY <1>2, <1>7 DEF RequestStart, CheckStart, RequestRestart, procs, disps, InHand
<1>8. CASE Dispatcher
  <2>1. CASE TakeExit
    <3>1. /\ live' = live /\ zombies' = zombies /\ InHand = {} /\ InHand' = {Head(events)}
          /\ events # << >> /\ Head(events) # StopEvent /\ events' = Tail(events)
      BY <2>1 DEF TakeExit, DispIdle, Rest, DispGo, InHand
    <3>2. InQueue = {Head(events)} /\ InQueue' = {} /\ Exits' = {}
      BY <1>1, <3>1, QueueShrinks DEF OneBody
    <3>3. Bodies' = Bodies
      BY <3>1, <3>2 DEF Bodies
    <3>4. OneBody'
      BY <3>1, <3>2, <3>3 DEF OneBody
    <3> QED BY <3>3, <3>4 DEF BodySame
  <2>2. CASE TakeStop
    <3>1. /\ live' = live /\ zombies' = zombies /\ InHand = {} /\ InHand' = {}
          /\ events # << >> /\ Head(events) = StopEvent /\ events' = Tail(events)
      BY <2>2 DEF TakeStop, DispIdle, Rest, DispGo, InHand, procs
    <3>2. InQueue' = InQueue /\ \A i, j \in Exits' : i = j
      BY <1>1, <3>1, QueueShrinks DEF OneBody
    <3> QED BY <3>1, <3>2 DEF OneBody, BodySame, Bodies
  <2>3. CASE ExitHead \/ MainExited
    <3>1. /\ live' = live /\ zombies' = zombies /\ events' = events
          /\ InHand = {disp.on} /\ InHand' = {}
      BY <2>3 DEF ExitHead, MainExited, DispGo, Rest, InHand, procs
    <3>2. InQueue' = InQueue /\ Exits' = Exits
      BY <3>1 DEF InQueue, Exits
    <3>3. Bodies = {disp.on} /\ Bodies' = {}
      BY <3>1, <3>2 DEF Bodies, OneBody
    <3>4. OneBody'
      BY <3>1, <3>2, <3>3 DEF OneBody
    <3> QED BY <2>3, <3>3, <3>4 DEF BodyMourned, BodyBuried
  <2>4. CASE ~TakeExit /\ ~TakeStop /\ ~ExitHead /\ ~MainExited
    BY <1>2, <1>8, <2>4 DEF Dispatcher, ForkExecStop, ExecStopExits, TermStatus,
       TermSignal, MainTimeout, FinalSweep, FinalStatus, DispIdle, DispGo, Rest,
       InHand, procs
  <2> QED BY <2>1, <2>2, <2>3, <2>4
<1>9. ASSUME NEW t \in Thread, Works(t)
      PROVE  OneBody' /\ (BodySame \/ BodyMourned \/ BodyBuried \/ BodyBorn)
  <2>1. CASE Spawn(t)
    <3>1. t \in Pid /\ pc[t].step = "start" /\ t \in Mourners
      BY <2>1 DEF Spawn, Doing, ControlRests, Resting, Thread, Mourners
    <3>2. Bodies = {}
      BY <3>1 DEF OneMourner
    <3>3. /\ live' = live \cup {pid'} /\ zombies' = zombies /\ events' = events
          /\ InHand' = InHand
      BY <2>1 DEF Spawn, disps, InHand
    <3>4. /\ live' = {pid'} /\ zombies' = {} /\ InHand' = {} /\ InQueue' = {} /\ Exits' = {}
      <4>1. InQueue' = InQueue /\ Exits' = Exits /\ InQueue = {} /\ InHand = {}
            /\ live = {} /\ zombies = {}
        BY <3>2, <3>3 DEF Bodies, InQueue, Exits
      <4>2. Exits = {}
        BY <4>1 DEF InQueue
      <4> QED BY <3>3, <4>1, <4>2
    <3>5. Bodies' = {pid'}
      BY <3>4 DEF Bodies
    <3>6. OneBody'
      BY <3>4, <3>5 DEF OneBody
    <3> QED BY <2>1, <3>1, <3>2, <3>5, <3>6 DEF BodyBorn
  <2>2. CASE ~Spawn(t)
    BY <1>2, <1>9, <2>2 DEF Works, LockState, ActivateNot, DeactivateNot, Decide,
       Activate, Reactivate, ReactivateFull, ReactivateStopped, Deactivate, KillTerm,
       KillSweep, Reaped, StartRefused, StartFails, Spawned, procs, disps, InHand
  <2> QED BY <2>1, <2>2
<1>10. CASE \E p \in Pid : ExitTail(p)
  BY <1>2, <1>10 DEF ExitTail, Policy, Guard, BeginRestart, Pending, RateLimited,
     ClearPid, Stale, StalePid, Mark, procs, disps, InHand
<1> QED BY <1>3, <1>4, <1>5, <1>6, <1>7, <1>8, <1>9, <1>10 DEF Next

(* An exit is handed to a tail when there is no other.                     *)
LEMMA HeadAlone ==
    ASSUME Typed, OneBody, OneMourner, Locked, ExitHead
    PROVE  /\ disp.on \in Pid
           /\ Mourners = {} /\ Bodies = {disp.on}
           /\ Mourners' = {disp.on} /\ Bodies' = {}
           /\ pc'[disp.on] = At("policy", "none")
<1>1. disp.on \in Pid /\ disp.on \in Bodies /\ lock = Nobody /\ InHand = {disp.on}
  BY DEF ExitHead, Free, Bodies, InHand, Typed, DispTyped, TakenIsPid
<1>2. pc \in [Thread -> [step : Steps, op : Ops]] /\ Pid \subseteq Thread
  BY DEF Typed, ThreadsTyped, Thread
<1>3. Mourners = {}
  <2> SUFFICES ASSUME NEW t \in Mourners PROVE FALSE
    OBVIOUS
  <2>1. lock = t /\ t \in Pid
    BY <1>1 DEF OneMourner, Mourners, Locked, Held
  <2> QED BY <1>1, <2>1, PidFacts
<1>4. pc' = [pc EXCEPT ![disp.on] = At("policy", "none")]
  BY DEF ExitHead, Go
<1>5. pc'[disp.on] = At("policy", "none")
  BY <1>1, <1>2, <1>4
<1>6. Mourners' = {disp.on}
  BY <1>1, <1>2, <1>3, <1>4 DEF Mourners, At
<1>7. disp' = Rest /\ live' = live /\ zombies' = zombies /\ events' = events
  BY DEF ExitHead, procs
<1>8. live = {} /\ zombies = {} /\ InQueue = {} /\ InHand' = {} /\ InQueue' = InQueue
  BY <1>1, <1>7 DEF OneBody, Bodies, InHand, InQueue, Exits, Rest
<1> QED BY <1>1, <1>3, <1>5, <1>6, <1>7, <1>8 DEF Bodies

(* A tail starts when the exit before it has been dealt with.              *)
LEMMA MournersStep ==
    ASSUME Typed, ControlRests, OneBody, OneMourner, Locked, [Next]_vars
    PROVE  OneMourner'
<1>1. BodySame \/ BodyMourned \/ BodyBuried \/ BodyBorn
  BY BodiesStep
<1>2. pc \in [Thread -> [step : Steps, op : Ops]] /\ Pid \subseteq Thread
  BY DEF Typed, ThreadsTyped, Thread
<1>3. ASSUME \A p \in Pid : pc'[p] = pc[p], Bodies' \subseteq Bodies PROVE OneMourner'
  BY <1>3 DEF OneMourner, Mourners
<1>4. ASSUME NEW t \in Pid, t \in Mourners, Works(t) \/ ExitTail(t) PROVE OneMourner'
  <2>1. PICK x : pc' = [pc EXCEPT ![t] = x]
    BY <1>4 DEF Works, LockState, ActivateNot, DeactivateNot, Decide,
       Activate, Reactivate, ReactivateFull, ReactivateStopped, Deactivate, KillTerm,
       KillSweep, Reaped, StartRefused, StartFails, Spawn, Spawned, ExitTail, Policy,
       Guard, BeginRestart, Pending, RateLimited, ClearPid, Stale, StalePid, Mark, Go, Done
  <2>2. Mourners' \subseteq {t} /\ Mourners = {t}
    BY <1>2, <1>4, <2>1 DEF OneMourner, Mourners
  <2>3. CASE Spawn(t)
    BY <1>2, <1>4, <2>2, <2>3 DEF Spawn, Go, At, OneMourner
  <2>4. CASE ~Spawn(t) /\ pc[t].step # "spawned"
    <3>1. Bodies = {} /\ Bodies' = {}
      BY <1>1, <2>2, <2>4 DEF OneMourner, BodySame, BodyMourned, BodyBuried, BodyBorn
    <3> QED BY <2>2, <3>1 DEF OneMourner
  <2>5. CASE pc[t].step = "spawned"
    <3>1. pc' = [pc EXCEPT ![t] = Idle]
      BY <1>4, <2>5, TailsWork DEF Works, LockState, ActivateNot, DeactivateNot, Decide,
       Activate, Reactivate, ReactivateFull, ReactivateStopped, Deactivate, KillTerm,
       KillSweep, Reaped, StartRefused, StartFails, Spawn, Spawned, Refused, Doing, At, Done
    <3>2. Mourners' = {}
      BY <1>2, <1>4, <2>2, <3>1 DEF Mourners, Idle, At
    <3> QED BY <3>2 DEF OneMourner
  <2> QED BY <2>3, <2>4, <2>5
<1>5. CASE ExitHead
  BY <1>5, HeadAlone DEF OneMourner
<1>6. CASE \E t \in Thread : Works(t)
  <2>1. PICK t \in Thread : Works(t)
    BY <1>6
  <2>2. t \in Pid /\ t \in Mourners
    BY <2>1, WorkersWork DEF ControlRests, Resting, Held, Thread, Mourners
  <2> QED BY <1>4, <2>1, <2>2
<1>7. CASE \E t \in Pid : ExitTail(t)
  BY <1>4, <1>7, TailsWork DEF Mourners
<1>8. CASE ~(\E t \in Thread : Works(t)) /\ ~(\E t \in Pid : ExitTail(t))
  <2>1. CASE ExitHead
    BY <1>5, <2>1
  <2>2. CASE ~ExitHead
    <3>1. ASSUME NEW p \in Pid PROVE pc'[p] = pc[p]
      <4>1. p \notin Control /\ p \in Thread
        BY LifecycleAssumption DEF Pid, Thread
      <4> QED BY <1>8, <2>2, <4>1, Mover
    <3>2. Bodies' \subseteq Bodies
      BY <1>1, <1>8, <2>2 DEF BodySame, BodyMourned, BodyBuried, BodyBorn, Works,
         Mourners, Thread
    <3> QED BY <1>3, <3>1, <3>2
  <2> QED BY <2>1, <2>2
<1> QED BY <1>6, <1>7, <1>8

-----------------------------------------------------------------------------
(* Before the first request. *)

LEMMA UntouchedStep ==
    ASSUME Requests \subseteq {"stop"}, Typed, ControlRests, Untouched, [Next]_vars,
           requests' = 0, requests = 0
    PROVE  Untouched' /\ (Dispatcher => TakeExit \/ ExitHead)
<1>1. DispTyped /\ StopEvent \notin Pid
  BY PidFacts DEF Typed
<1>2. CASE UNCHANGED << disp, chain, events >> /\ ~Dispatcher
  BY <1>2 DEF Untouched
<1>3. CASE Dispatcher
  <2>1. TakeExit \/ ExitHead
    <3>1. ~TakeStop
      <4>1. events # << >> => Head(events) = events[1] /\ 1 \in 1 .. Len(events)
        BY <1>1 DEF DispTyped
      <4> QED BY <4>1 DEF TakeStop, Untouched
    <3>2. chain.at = "none"
      BY DEF Untouched, NoChain
    <3> QED BY <1>3, <3>1, <3>2 DEF Untouched, Dispatcher, ForkExecStop, ExecStopExits,
               TermStatus, TermSignal, MainExited, MainTimeout, FinalSweep, FinalStatus
  <2>2. CASE TakeExit
    <3>1. chain' = chain /\ disp'.step = "head"
      BY <2>2 DEF TakeExit, Untouched, NoChain, DispGo
    <3>2. /\ Len(events) \in Nat \ {0} /\ Len(events') = Len(events) - 1
          /\ \A i \in 1 .. Len(events) - 1 : events'[i] = events[i + 1]
      BY <1>1, <2>2 DEF TakeExit, DispTyped
    <3>3. \A i \in 1 .. Len(events') : events'[i] # StopEvent
      BY <3>2 DEF Untouched
    <3> QED BY <2>1, <3>1, <3>3 DEF Untouched
  <2>3. CASE ExitHead
    BY <2>1, <2>3 DEF ExitHead, Untouched, Rest
  <2> QED BY <2>1, <2>2, <2>3
<1>4. ASSUME NEW p \in Pid, Exit(p) \/ Reap(p), ~Dispatcher PROVE Untouched'
  <2>1. CASE Exit(p)
    BY <1>2, <1>4, <2>1 DEF Exit, disps
  <2>2. CASE Reap(p)
    <3>1. /\ Len(events) \in Nat /\ Len(events') = Len(events) + 1
          /\ \A i \in 1 .. Len(events) : events'[i] = events[i]
          /\ events'[Len(events) + 1] = p
      BY <1>1, <2>2 DEF Reap, DispTyped
    <3>2. \A i \in 1 .. Len(events') : events'[i] # StopEvent
      BY <1>1, <3>1 DEF Untouched
    <3> QED BY <2>2, <3>2 DEF Reap, Untouched
  <2> QED BY <1>4, <2>1, <2>2
<1>5. ~RequestStop
  BY DEF RequestStop
<1>6. CASE ~Dispatcher /\ ~(\E p \in Pid : Exit(p) \/ Reap(p))
  <2>1. CASE UNCHANGED vars
    BY <1>2, <1>6, <2>1 DEF vars, disps
  <2>2. ASSUME NEW t \in Control, RequestStart(t) \/ CheckStart(t) \/ RequestRestart(t)
        PROVE  Untouched'
    BY <1>2, <1>6, <2>2 DEF RequestStart, CheckStart, RequestRestart, disps
  <2>3. ASSUME NEW t \in Thread, Works(t) PROVE Untouched'
    BY <1>2, <1>6, <2>3 DEF Works, LockState, ActivateNot, DeactivateNot, Decide,
       Activate, Reactivate, ReactivateFull, ReactivateStopped, Deactivate, KillTerm,
       KillSweep, Reaped, StartRefused, StartFails, Spawn, Spawned, disps
  <2>4. ASSUME NEW p \in Pid, ExitTail(p) PROVE Untouched'
    BY <1>2, <1>6, <2>4 DEF ExitTail, Policy, Guard, BeginRestart, Pending, RateLimited,
       ClearPid, Stale, StalePid, Mark, disps
  <2> QED BY <1>5, <1>6, <2>1, <2>2, <2>3, <2>4 DEF Next
<1> QED BY <1>3, <1>4, <1>6

(* A tail that works alone and leaves no process behind.                   *)
LEMMA AloneFollows ==
    ASSUME Typed, NEW t \in Pid, Mourners = {t}, Bodies' = {}, NEW s, NEW o,
           pc' = [pc EXCEPT ![t] = At(s, o)],
           s \in {"idle", "mark"} => status' \in Stopped,
           (\/ s \in {"policy", "guard", "restart", "stale", "stalePid", "deactivate"}
            \/ s \in {"locked", "begin"} /\ o = "deactivate")
              => status' = "Started" /\ pid' = t /\ ~manualStop',
           (\/ s \in {"pending", "limit", "clear", "reactivate"}
            \/ s = "locked" /\ o = "reactivate"
            \/ s # "guard" /\ o = "activate")
              => status' = "Restarting",
           o # "full", s # "spawned"
    PROVE  Follows'
<1>1. pc \in [Thread -> [step : Steps, op : Ops]] /\ t \in Thread /\ Pid \subseteq Thread
  BY DEF Typed, ThreadsTyped, Thread
<1>2. /\ pc'[t].step = s /\ pc'[t].op = o
      /\ Mourners' = IF s = "idle" THEN {} ELSE {t}
  BY <1>1 DEF Mourners, At
<1>3. ASSUME s # "idle"
      PROVE  /\ Noticing(pc'[t]) \/ Reviving(pc'[t])
                  => status' = "Started" /\ pid' = t /\ ~manualStop'
             /\ Restarting(pc'[t]) => status' = "Restarting"
             /\ ~Replacing(pc'[t])
  BY <1>2 DEF Noticing, Reviving, Restarting, Replacing
<1> QED BY <1>2, <1>3 DEF Follows

LEMMA WorksFollows ==
    ASSUME Typed, TailsEndOrRestart, OneMourner, Locked, Cleared, Follows,
           NEW t \in Pid, t \in Mourners, Works(t),
           BodySame \/ BodyBorn
    PROVE  Follows'
<1>1. /\ Mourners = {t}
      /\ \/ Noticing(pc[t]) \/ Ending(pc[t]) \/ Reviving(pc[t]) \/ Restarting(pc[t])
      /\ Noticing(pc[t]) \/ Reviving(pc[t]) => status = "Started" /\ pid = t /\ ~manualStop
      /\ Restarting(pc[t]) => status = "Restarting"
      /\ pc[t].step = "mark" => status \in Stopped
      /\ pc[t].step \in {"reaped", "start"} => pid = NoPid
  BY DEF OneMourner, Mourners, Follows, Cleared, TailsEndOrRestart, Resting
<1>2. pc \in [Thread -> [step : Steps, op : Ops]] /\ t \in Thread /\ Pid \subseteq Thread
  BY DEF Typed, ThreadsTyped, Thread
<1>3. CASE Spawn(t)
  <2>1. pc[t].step = "start" /\ pc[t].op = "activate" /\ status = "Restarting"
    BY <1>1, <1>3 DEF Spawn, Doing, Noticing, Ending, Reviving, Restarting
  <2>2. Bodies' = {pid'} /\ manualStop' = FALSE /\ status' = status
    BY <1>1, <1>3, <2>1 DEF BodySame, BodyBorn, OneMourner, Spawn, Bodies
  <2>3. pc'[t] = At("spawned", "activate") /\ Mourners' = {t}
    BY <1>1, <1>2, <1>3, <2>1 DEF Spawn, Go, Mourners, At
  <2> QED BY <2>1, <2>2, <2>3 DEF Follows, At, Noticing, Reviving, Restarting, Replacing
<1>4. CASE Spawned(t)
  <2>1. pc[t].step = "spawned" /\ pc[t].op = "activate" /\ status = "Restarting" /\ Bodies # {}
    BY <1>1, <1>4 DEF Spawned, Doing, Noticing, Ending, Reviving, Restarting, Follows
  <2>2. Bodies' = Bodies /\ manualStop' = manualStop /\ status' = "Started" /\ pid' = pid
    BY <1>4, <2>1 DEF BodySame, BodyBorn, Spawned, Sets
  <2>3. Mourners' = {}
    BY <1>1, <1>2, <1>4 DEF Spawned, Done, Idle, At, Mourners
  <2> QED BY <2>1, <2>2, <2>3 DEF Follows
<1>5. CASE ~Spawn(t) /\ ~Spawned(t)
  <2>1. pc[t].step # "spawned"
    BY <1>1, <1>5 DEF Works, LockState, ActivateNot, DeactivateNot, Decide,
       Activate, Reactivate, ReactivateFull, ReactivateStopped, Deactivate, KillTerm,
       KillSweep, Reaped, StartRefused, StartFails, Refused, Doing, At
  <2>2. Bodies' = {}
    BY <1>1, <1>5, <2>1 DEF BodySame, BodyBorn, OneMourner
  <2>3. CASE LockState(t)
    <3>1. /\ pc' = [pc EXCEPT ![t] = At("locked", pc[t].step)]
          /\ status' = status /\ pid' = pid /\ manualStop' = manualStop
      BY <2>3 DEF LockState, Go
    <3>2. CASE pc[t].step = "deactivate"
      <4>1. status = "Started" /\ pid = t /\ ~manualStop
        BY <1>1, <3>2 DEF Noticing, Ending, Reviving, Restarting
      <4> QED BY <1>1, <2>2, <3>1, <3>2, <4>1, AloneFollows
    <3>3. CASE pc[t].step = "reactivate"
      <4>1. status = "Restarting"
        BY <1>1, <3>3 DEF Noticing, Ending, Reviving, Restarting
      <4> QED BY <1>1, <2>2, <3>1, <3>3, <4>1, AloneFollows
    <3> QED BY <1>1, <2>3, <3>2, <3>3 DEF LockState, Noticing, Ending, Reviving, Restarting
  <2>4. CASE ActivateNot(t) \/ DeactivateNot(t) \/ Decide(t) \/ Activate(t)
    BY <1>1, <2>2, <2>4, AloneFollows DEF ActivateNot, DeactivateNot, Decide, Activate,
       Go, At, Noticing, Ending, Reviving, Restarting, Replacing, unit, Stopped
  <2>5. CASE Reactivate(t) \/ ReactivateFull(t) \/ ReactivateStopped(t)
    BY <1>1, <2>2, <2>5, AloneFollows DEF Reactivate, ReactivateFull, ReactivateStopped,
       Sets, Go, At, Noticing, Ending, Reviving, Restarting, Replacing
  <2>6. CASE Deactivate(t) \/ KillTerm(t) \/ KillSweep(t)
    <3>1. pc[t].op = "deactivate"
      BY <1>1, <2>6 DEF Deactivate, KillTerm, KillSweep, Doing, At,
         Noticing, Ending, Reviving, Restarting
    <3>2. \/ pc' = [pc EXCEPT ![t] = At("term", "deactivate")]
          \/ pc' = [pc EXCEPT ![t] = At("sweep", "deactivate")]
          \/ pc' = [pc EXCEPT ![t] = At("reaped", "deactivate")]
      BY <2>6, <3>1 DEF Deactivate, KillTerm, KillSweep, Go
    <3> QED BY <1>1, <2>2, <3>2, AloneFollows
  <2>7. CASE Reaped(t)
    BY <1>1, <2>2, <2>7, AloneFollows DEF Reaped, Sets, Doing, Stopped,
       Go, At, Noticing, Ending, Reviving, Restarting, Replacing
  <2>8. CASE StartRefused(t) \/ StartFails(t)
    BY <1>1, <2>2, <2>8, AloneFollows DEF StartRefused, StartFails, Sets, Refused, Doing,
       Done, Idle, At, Stopped, Noticing, Ending, Reviving, Restarting, Replacing
  <2> QED BY <1>5, <2>3, <2>4, <2>5, <2>6, <2>7, <2>8 DEF Works
<1> QED BY <1>3, <1>4, <1>5

LEMMA TailFollows ==
    ASSUME Typed, TailsEndOrRestart, OneMourner, Follows,
           NEW t \in Pid, t \in Mourners, ExitTail(t), BodySame
    PROVE  Follows'
<1>1. /\ Mourners = {t}
      /\ \/ Noticing(pc[t]) \/ Ending(pc[t]) \/ Reviving(pc[t]) \/ Restarting(pc[t])
      /\ Noticing(pc[t]) \/ Reviving(pc[t]) => status = "Started" /\ pid = t /\ ~manualStop
      /\ Restarting(pc[t]) => status = "Restarting"
      /\ pc[t].step = "mark" => status \in Stopped
  BY DEF OneMourner, Mourners, Follows, TailsEndOrRestart, Resting
<1>2. Bodies' = {}
  <2>1. pc[t].step # "spawned"
    BY TailsWork
  <2> QED BY <2>1 DEF BodySame, OneMourner
<1>3. CASE Policy(t) \/ Guard(t)
  <2>1. status = "Started" /\ pid = t /\ ~manualStop
    BY <1>1, <1>3 DEF Policy, Guard, Doing, Noticing, Ending, Reviving, Restarting
  <2>2. status' = status /\ pid' = pid /\ manualStop' = manualStop
    BY <1>3 DEF Policy, Guard, unit
  <2>3. \/ pc' = [pc EXCEPT ![t] = At("guard", "activate")]
        \/ pc' = [pc EXCEPT ![t] = At("guard", "none")]
        \/ pc' = [pc EXCEPT ![t] = At("restart", "none")]
        \/ pc' = [pc EXCEPT ![t] = At("stale", "none")]
    BY <1>3, <2>1 DEF Policy, Guard, Go
  <2> QED BY <1>1, <1>2, <2>1, <2>2, <2>3, AloneFollows
<1>7. CASE BeginRestart(t)
  BY <1>1, <1>2, <1>7, AloneFollows DEF BeginRestart, Sets, Go
<1>4. CASE Pending(t) \/ ClearPid(t)
  <2>1. status = "Restarting"
    BY <1>1, <1>4 DEF Pending, ClearPid, Doing, Noticing, Ending, Reviving, Restarting
  <2>2. \/ pc' = [pc EXCEPT ![t] = At("clear", "none")]
        \/ pc' = [pc EXCEPT ![t] = At("limit", "none")]
        \/ pc' = [pc EXCEPT ![t] = At("reactivate", "none")]
    BY <1>4, <2>1 DEF Pending, ClearPid, Go
  <2>3. status' = status
    BY <1>4 DEF Pending, ClearPid, unit
  <2> QED BY <1>1, <1>2, <2>1, <2>2, <2>3, AloneFollows
<1>8. CASE RateLimited(t)
  BY <1>1, <1>2, <1>8, AloneFollows DEF RateLimited, Sets, Stopped, Done, Idle
<1>5. CASE Stale(t) \/ StalePid(t)
  BY <1>1, <1>2, <1>5, AloneFollows DEF Stale, StalePid, Doing, unit,
     Go, Done, Idle, At, Noticing, Ending, Reviving, Restarting, Replacing
<1>6. CASE Mark(t)
  <2>1. status' \in Stopped /\ pc' = [pc EXCEPT ![t] = At("idle", "none")]
    BY <1>1, <1>6 DEF Mark, Sets, Doing, Stopped, Done, Idle
  <2> QED BY <1>1, <1>2, <2>1, AloneFollows
<1> QED BY <1>3, <1>4, <1>5, <1>6, <1>7, <1>8 DEF ExitTail

LEMMA FollowsStep ==
    ASSUME Requests \subseteq {"stop"}, StopOnlyInv, [Next]_vars
    PROVE  Undisturbed'
<1> SUFFICES ASSUME requests' = 0 PROVE Untouched' /\ Follows'
  BY DEF Undisturbed
<1>1. /\ Typed /\ ControlRests /\ TailsEndOrRestart /\ OneBody /\ OneMourner /\ Locked
      /\ Cleared /\ StopEvent \notin Pid
  BY PidFacts DEF StopOnlyInv
<1>2. requests = 0
  <2>1. requests \in Nat
    BY <1>1, LifecycleAssumption DEF Typed, WishesTyped
  <2>2. requests' \in {requests, requests + 1}
    <3>1. CASE UNCHANGED vars
      BY <3>1 DEF vars, wishes
    <3>2. CASE RequestStop \/ \E p \in Pid : Exit(p) \/ Reap(p)
      BY <3>2 DEF RequestStop, Exit, Reap, wishes
    <3>3. CASE \E t \in Control : RequestStart(t) \/ CheckStart(t) \/ RequestRestart(t)
      BY <3>3 DEF RequestStart, CheckStart, RequestRestart, wishes
    <3>4. CASE Dispatcher
      BY <3>4 DEF Dispatcher, TakeExit, TakeStop, ExitHead, ForkExecStop, ExecStopExits,
         TermStatus, TermSignal, MainExited, MainTimeout, FinalSweep, FinalStatus, wishes
    <3>5. CASE \E t \in Thread : Works(t)
      BY <3>5 DEF Works, LockState, ActivateNot, DeactivateNot, Decide,
         Activate, Reactivate, ReactivateFull, ReactivateStopped, Deactivate, KillTerm,
         KillSweep, Reaped, StartRefused, StartFails, Spawn, Spawned, wishes
    <3>6. CASE \E p \in Pid : ExitTail(p)
      BY <3>6 DEF ExitTail, Policy, Guard, BeginRestart, Pending, RateLimited,
         ClearPid, Stale, StalePid, Mark, wishes
    <3> QED BY <3>1, <3>2, <3>3, <3>4, <3>5, <3>6 DEF Next
  <2> QED BY <2>1, <2>2
<1>3. Untouched /\ Follows
  BY <1>2 DEF StopOnlyInv, Undisturbed
<1>4. Untouched' /\ (Dispatcher => TakeExit \/ ExitHead)
  BY <1>1, <1>2, <1>3, UntouchedStep
<1>5. BodySame \/ BodyMourned \/ BodyBuried \/ BodyBorn
  BY <1>1, BodiesStep
<1>6. ~MainExited
  BY <1>3 DEF MainExited, Untouched
<1>7. CASE BodySame /\ UNCHANGED << status, pid, manualStop, pc >>
  <2>1. Mourners' = Mourners /\ Bodies' = Bodies
    BY <1>7 DEF Mourners, BodySame
  <2>2. Follows'
    BY <1>3, <1>7, <2>1 DEF Follows
  <2> QED BY <1>4, <2>2
<1>8. CASE UNCHANGED vars \/ TakeExit \/ \E p \in Pid : Exit(p) \/ Reap(p)
  <2>1. UNCHANGED << status, pid, manualStop, pc >>
    BY <1>8 DEF vars, TakeExit, Exit, Reap, unit, threads
  <2>2. BodySame
    <3>1. ~ExitHead
      <4> SUFFICES ASSUME ExitHead PROVE FALSE
        OBVIOUS
      <4>1. Mourners = {} /\ Mourners' = {disp.on}
        BY <1>1, HeadAlone
      <4>2. Mourners' = Mourners
        BY <2>1 DEF Mourners
      <4> QED BY <4>1, <4>2
    <3>2. ASSUME NEW t \in Mourners, Spawn(t) PROVE FALSE
      <4>1. t \in DOMAIN pc
        BY <1>1 DEF Mourners, Typed, ThreadsTyped, Thread
      <4>2. PICK o : pc' = [pc EXCEPT ![t] = At("spawned", o)]
        BY <3>2 DEF Spawn, Go
      <4>3. pc[t] = At("spawned", o)
        BY <2>1, <4>1, <4>2
      <4> QED BY <3>2, <4>3 DEF Spawn, Doing, At
    <3> QED BY <1>5, <1>6, <3>1, <3>2 DEF BodyMourned, BodyBuried, BodyBorn
  <2> QED BY <1>7, <2>1, <2>2
<1>9. CASE ExitHead
  <2>1. PICK p : p = disp.on
    OBVIOUS
  <2>2. /\ p \in Pid /\ Mourners = {} /\ Bodies = {p} /\ Mourners' = {p} /\ Bodies' = {}
        /\ pc'[p] = At("policy", "none")
    BY <1>1, <1>9, <2>1, HeadAlone
  <2>3. status = "Started" /\ pid = p /\ ~manualStop
    BY <1>3, <2>2 DEF Follows
  <2>4. status' = status /\ pid' = pid /\ manualStop' = manualStop
    BY <1>9 DEF ExitHead, unit
  <2> QED BY <2>2, <2>3, <2>4, <1>4 DEF Follows, At, Noticing, Reviving, Restarting, Replacing
<1>10. ~RequestStop
  BY <1>2 DEF RequestStop
<1>11. ASSUME NEW t \in Control, RequestStart(t) \/ CheckStart(t) \/ RequestRestart(t)
       PROVE  FALSE
  BY <1>1, <1>11 DEF ControlRests, Resting, RequestStart, CheckStart, RequestRestart,
     MayRequest, Doing
<1>12. ASSUME NEW t \in Thread, Works(t) PROVE Follows'
  <2>1. t \in Pid /\ t \in Mourners
    BY <1>1, <1>12, WorkersWork DEF ControlRests, Resting, Held, Thread, Mourners
  <2>2. ~ExitHead
    <3> SUFFICES ASSUME ExitHead PROVE FALSE
      OBVIOUS
    <3> QED BY <1>1, <2>1, HeadAlone
  <2>3. BodySame \/ BodyBorn
    BY <1>5, <1>6, <2>2 DEF BodyMourned, BodyBuried
  <2> QED BY <1>1, <1>3, <1>12, <2>1, <2>3, WorksFollows
<1>13. ASSUME NEW t \in Pid, ExitTail(t) PROVE Follows'
  <2>1. t \in Mourners
    BY <1>13, TailsWork DEF Mourners
  <2>2. ~ExitHead
    <3> SUFFICES ASSUME ExitHead PROVE FALSE
      OBVIOUS
    <3> QED BY <1>1, <2>1, HeadAlone
  <2>3. live' = live
    BY <1>13 DEF ExitTail, Policy, Guard, BeginRestart, Pending, RateLimited,
       ClearPid, Stale, StalePid, Mark, procs
  <2>4. BodySame
    <3>1. ~BodyBorn
      <4> SUFFICES ASSUME NEW q \in Mourners, Spawn(q), Bodies' = {pid'}, Bodies = {} PROVE FALSE
        BY DEF BodyBorn
      <4>1. q = t
        BY <1>1, <2>1 DEF OneMourner
      <4> QED BY <1>13, <4>1, TailsWork DEF Spawn, Doing
    <3> QED BY <1>5, <1>6, <2>2, <3>1 DEF BodyMourned, BodyBuried
  <2> QED BY <1>1, <1>3, <1>13, <2>1, <2>4, TailFollows
<1> QED BY <1>4, <1>8, <1>9, <1>10, <1>11, <1>12, <1>13 DEF Next

(* A tail that fails the unit is the last that is heard of it.             *)
LEMMA FailedStep ==
    ASSUME StopOnlyInv, [Next]_vars
    PROVE  FailedIsQuiet'
<1> SUFFICES ASSUME status' = "Failed" PROVE Bodies' = {} /\ Mourners' = {}
  BY DEF FailedIsQuiet
<1>1. /\ Typed /\ ControlRests /\ TailsEndOrRestart /\ OneBody /\ OneMourner /\ Locked
      /\ FailedIsQuiet
  BY DEF StopOnlyInv
<1>2. pc \in [Thread -> [step : Steps, op : Ops]] /\ Pid \subseteq Thread
  BY <1>1 DEF Typed, ThreadsTyped, Thread
<1>3. BodySame \/ BodyMourned \/ BodyBuried \/ BodyBorn
  BY <1>1, BodiesStep
<1>4. CASE status = "Failed"
  <2>1. Bodies = {} /\ Mourners = {}
    BY <1>1, <1>4 DEF FailedIsQuiet
  <2>2. Bodies' = {}
    BY <1>3, <2>1 DEF BodySame, BodyMourned, BodyBuried, BodyBorn
  <2>3. ASSUME NEW q \in Pid PROVE pc'[q] = pc[q]
    <3>1. ~Works(q) /\ ~ExitTail(q) /\ ~(ExitHead /\ q = disp.on) /\ q \notin Control
      <4>1. pc[q].step = "idle"
        BY <2>1 DEF Mourners
      <4>2. ~(ExitHead /\ q = disp.on)
        BY <1>1, <2>1, HeadAlone
      <4> QED BY <4>1, <4>2, WorkersWork, TailsWork, LifecycleAssumption DEF Held, Pid
    <3> QED BY <1>1, <1>2, <3>1, Mover
  <2> QED BY <2>1, <2>2, <2>3 DEF Mourners
<1>5. ASSUME status # "Failed", NEW t \in Pid, t \in Mourners, pc[t].step # "spawned",
             pc' = [pc EXCEPT ![t] = Idle], ~Spawn(t), ~ExitHead
      PROVE  Bodies' = {} /\ Mourners' = {}
  <2>1. Mourners = {t} /\ Bodies = {}
    BY <1>1, <1>5 DEF OneMourner, Mourners
  <2>2. Mourners' = {}
    BY <1>2, <1>5, <2>1 DEF Mourners, Idle, At
  <2>3. Bodies' = {}
    BY <1>3, <1>5, <2>1 DEF BodySame, BodyMourned, BodyBuried, BodyBorn
  <2> QED BY <2>2, <2>3
<1>6. CASE status # "Failed"
  <2>1. CASE UNCHANGED vars \/ RequestStop \/ \E p \in Pid : Exit(p) \/ Reap(p)
    BY <1>6, <2>1 DEF vars, unit, RequestStop, Exit, Reap
  <2>2. ASSUME NEW t \in Control, RequestStart(t) \/ CheckStart(t) \/ RequestRestart(t)
        PROVE  FALSE
    BY <1>6, <2>2 DEF RequestStart, CheckStart, RequestRestart, Sets, unit, Stopped
  <2>3. CASE Dispatcher
    BY <1>6, <2>3 DEF Dispatcher, TakeExit, TakeStop, ExitHead, ForkExecStop, ExecStopExits,
       TermStatus, TermSignal, MainExited, MainTimeout, FinalSweep, FinalStatus, Sets, unit,
       Stopped
  <2>4. ASSUME NEW t \in Thread, Works(t) PROVE Bodies' = {} /\ Mourners' = {}
    <3>1. StartRefused(t) \/ StartFails(t)
      BY <1>6, <2>4 DEF Works, LockState, ActivateNot, DeactivateNot, Decide,
         Activate, Reactivate, ReactivateFull, ReactivateStopped, Deactivate, KillTerm,
         KillSweep, Reaped, Spawn, Spawned, Sets, unit
    <3>2. t \in Pid /\ t \in Mourners /\ pc[t].step = "start"
      BY <1>1, <3>1 DEF StartRefused, StartFails, Refused, Doing, ControlRests, Resting,
         Thread, Mourners
    <3>3. pc' = [pc EXCEPT ![t] = Idle]
      BY <3>1 DEF StartRefused, StartFails, Done
    <3>4. ~Spawn(t)
      <4> SUFFICES ASSUME Spawn(t) PROVE FALSE
        OBVIOUS
      <4> QED BY <1>2, <3>2, <3>3 DEF Spawn, Go, At, Idle
    <3>5. ~ExitHead
      BY <1>1, <3>2, HeadAlone
    <3> QED BY <1>5, <1>6, <3>2, <3>3, <3>4, <3>5
  <2>5. ASSUME NEW p \in Pid, ExitTail(p) PROVE Bodies' = {} /\ Mourners' = {}
    <3>1. RateLimited(p) \/ Mark(p)
      BY <1>6, <2>5 DEF ExitTail, Policy, Guard, BeginRestart, Pending, ClearPid,
         Stale, StalePid, Sets, unit
    <3>2. p \in Mourners /\ pc[p].step # "spawned" /\ pc[p].step # "start"
      BY <3>1 DEF RateLimited, Mark, Doing, Mourners
    <3>3. pc' = [pc EXCEPT ![p] = Idle]
      BY <3>1 DEF RateLimited, Mark, Done
    <3>4. ~Spawn(p) /\ ~ExitHead
      BY <1>1, <3>2, HeadAlone DEF Spawn, Doing
    <3> QED BY <1>5, <1>6, <3>2, <3>3, <3>4
  <2> QED BY <2>1, <2>2, <2>3, <2>4, <2>5 DEF Next
<1> QED BY <1>4, <1>6

(* A swept unit stays down: the tails find Stopping or Stopped, and none   *)
(* of them gets to a start.                                                *)
LEMMA QuietStep ==
    ASSUME StopOnlyInv, [Next]_vars
    PROVE  Quiet'
<1> SUFFICES ASSUME Swept'
             PROVE  /\ live' \ signalled' = {}
                    /\ status' \in {"Stopping"} \cup Stopped
                    /\ \A p \in Pid : CalledOff(pc'[p])
  BY DEF Quiet
<1>1. /\ Typed /\ ControlRests /\ TailsEndOrRestart /\ OneMourner /\ Locked
      /\ FailedIsQuiet /\ Quiet
  BY DEF StopOnlyInv
<1>2. pc \in [Thread -> [step : Steps, op : Ops]] /\ Pid \subseteq Thread
  BY <1>1 DEF Typed, ThreadsTyped, Thread
<1>3. CASE FinalSweep
  <2>1. /\ lock = Nobody /\ ~Overtaken /\ signalled' = live /\ live' = live
        /\ status' = status /\ pc' = pc
    BY <1>3 DEF FinalSweep, Free, Swept, Rest, DispGo, threads
  <2>2. ASSUME NEW p \in Pid PROVE CalledOff(pc[p])
    <3>1. pc[p].step \notin Held /\ pc[p].step \notin {"restart", "clear", "reactivate"}
      BY <1>1, <2>1, PidFacts DEF Locked, Overtaken
    <3> QED BY <1>1, <3>1 DEF TailsEndOrRestart, CalledOff, Reviving, Restarting, Replacing, Held
  <2> QED BY <2>1, <2>2 DEF Overtaken
<1>4. CASE ~FinalSweep
  <2>1. /\ live \ signalled = {} /\ status \in {"Stopping"} \cup Stopped
        /\ \A p \in Pid : CalledOff(pc[p])
    BY <1>1, <1>4, SweptBefore DEF Quiet
  <2>2. ASSUME NEW t \in Thread PROVE ~Spawn(t)
    BY <1>1, <2>1 DEF Thread, ControlRests, CalledOff, Resting, Noticing, Ending, Spawn, Doing
  <2>3. live' \ signalled' = {}
    BY <1>1, <2>1, <2>2, NoFork
  <2>4. ASSUME NEW q \in Pid PROVE CalledOff(pc'[q])
    <3>1. CASE pc'[q] = pc[q]
      BY <2>1, <3>1
    <3>2. CASE ExitHead /\ q = disp.on
      BY <1>2, <3>2 DEF ExitHead, Go, At, CalledOff, Noticing
    <3>3. CASE Works(q)
      <4>1. Noticing(pc[q]) \/ Ending(pc[q])
        BY <2>1, <3>3, WorkersWork DEF CalledOff, Resting, Held
      <4>2. Noticing(pc'[q]) \/ Ending(pc'[q])
        BY <1>2, <3>3, <4>1 DEF Noticing, Ending, Works,
           LockState, ActivateNot, DeactivateNot, Decide, Activate, Reactivate,
           ReactivateFull, ReactivateStopped, Deactivate, KillTerm, KillSweep, Reaped,
           StartRefused, StartFails, Spawn, Spawned, Refused, Doing, At, Go, Done, Idle
      <4> QED BY <4>2 DEF CalledOff
    <3>4. CASE ExitTail(q)
      <4>1. status \in {"Stopping", "Stopped"}
        <5>1. q \in Mourners
          BY <3>4, TailsWork DEF Mourners
        <5> QED BY <1>1, <2>1, <5>1 DEF FailedIsQuiet, Stopped
      <4> QED BY <1>2, <2>1, <3>4, <4>1 DEF CalledOff, Resting, Noticing, Ending, ExitTail,
                 Policy, Guard, BeginRestart, Pending, RateLimited, ClearPid, Stale, StalePid,
                 Mark, Doing, Go, Done, At, Idle
    <3>5. q \in Thread /\ q \notin Control
      BY <1>2, LifecycleAssumption DEF Pid
    <3> QED BY <1>1, <3>1, <3>2, <3>3, <3>4, <3>5, Mover
  <2>5. status' \in {"Stopping"} \cup Stopped
    <3>1. CASE UNCHANGED vars \/ RequestStop \/ \E p \in Pid : Exit(p) \/ Reap(p)
      BY <2>1, <3>1 DEF vars, unit, RequestStop, Exit, Reap
    <3>2. ASSUME NEW t \in Control, RequestStart(t) \/ CheckStart(t) \/ RequestRestart(t)
          PROVE  FALSE
      BY <3>2, WishSteps DEF RequestStart, CheckStart, RequestRestart, Swept, StopOnlyInv,
         ControlRests, Resting, Doing
    <3>3. CASE Dispatcher
      BY <2>1, <3>3 DEF Dispatcher, TakeExit, TakeStop, ExitHead, ForkExecStop,
         ExecStopExits, TermStatus, TermSignal, MainExited, MainTimeout, FinalSweep,
         FinalStatus, Sets, unit, Stopped
    <3>4. ASSUME NEW t \in Thread, Works(t) PROVE status' \in {"Stopping"} \cup Stopped
      <4>1. t \in Pid
        BY <1>1, <3>4, WorkersWork DEF ControlRests, Resting, Held, Thread
      <4>2. Noticing(pc[t]) \/ Ending(pc[t])
        BY <2>1, <3>4, <4>1, WorkersWork DEF CalledOff, Resting, Held
      <4> QED
        BY <2>1, <3>4, <4>2 DEF Noticing, Ending, Works, LockState, ActivateNot, DeactivateNot,
           Decide, Activate, Reactivate, ReactivateFull, ReactivateStopped, Deactivate,
           KillTerm, KillSweep, Reaped, StartRefused, StartFails, Spawn, Spawned, Refused,
           Doing, At, Sets, unit, Stopped
    <3>5. ASSUME NEW p \in Pid, ExitTail(p) PROVE status' \in {"Stopping"} \cup Stopped
      <4>1. pc[p].step # "restart"
        BY <2>1 DEF CalledOff, Resting, Noticing, Ending
      <4> QED
        BY <2>1, <3>5, <4>1 DEF ExitTail, Policy, Guard, BeginRestart, Pending, RateLimited,
           ClearPid, Stale, StalePid, Mark, Doing, Sets, unit, Stopped
    <3> QED BY <3>1, <3>2, <3>3, <3>4, <3>5 DEF Next
  <2> QED BY <2>3, <2>4, <2>5
<1> QED BY <1>3, <1>4

LEMMA StopOnlyInductive ==
    ASSUME Requests \subseteq {"stop"}
    PROVE  (Init => StopOnlyInv) /\ (StopOnlyInv /\ [Next]_vars => StopOnlyInv')
<1>1. ASSUME Init PROVE StopOnlyInv
  <2>1. Typed /\ \A t \in Thread : Resting(pc[t])
    BY <1>1, InitTyped DEF Init, Resting, Idle, At
  <2>2. Exits = {} /\ InQueue = {} /\ InHand = {} /\ Bodies = {1} /\ Mourners = {}
    <3>1. Len(events) = 0 /\ 1 .. 0 = {} /\ disp.step = "idle"
      BY <1>1 DEF Init, Rest
    <3>2. Exits = {} /\ InQueue = {} /\ InHand = {}
      BY <3>1 DEF Exits, InQueue, InHand
    <3> QED BY <1>1, <2>1, <3>2 DEF Init, Bodies, Mourners, Resting, Thread
  <2>3. ControlRests /\ TailsEndOrRestart /\ NoOrphan
    BY <1>1, <2>1 DEF Init, ControlRests, TailsEndOrRestart, NoOrphan, Thread
  <2>4. OneBody /\ OneMourner
    BY <2>2 DEF OneBody, OneMourner
  <2>5. Locked /\ Cleared
    BY <1>1, <2>1, PidFacts DEF Init, Locked, Cleared, Resting, Held, Thread
  <2>6. Undisturbed
    <3>1. Len(events) = 0 /\ 1 .. 0 = {}
      BY <1>1 DEF Init
    <3>2. Untouched
      BY <1>1, <3>1 DEF Init, Untouched, Rest
    <3> QED BY <1>1, <2>2, <3>2 DEF Init, Undisturbed, Follows
  <2>7. FailedIsQuiet /\ Quiet
    BY <1>1 DEF Init, FailedIsQuiet, Quiet, Swept
  <2> QED BY <2>1, <2>3, <2>4, <2>5, <2>6, <2>7 DEF StopOnlyInv
<1>2. ASSUME StopOnlyInv, [Next]_vars PROVE StopOnlyInv'
  <2>1. ASSUME NEW p \in Pid, pc[p].step = "clear" PROVE live \ signalled = {}
    BY <1>2, <2>1 DEF StopOnlyInv, OneMourner, Mourners, Bodies
  <2>2. NoOrphan'
    BY <1>2, <2>1, OrphanStep DEF StopOnlyInv
  <2>3. Typed' /\ ControlRests' /\ TailsEndOrRestart' /\ Locked' /\ Cleared'
    BY <1>2, TypedInductive, ControlRestsStep, TailsStep, LockedStep DEF StopOnlyInv
  <2>4. OneBody' /\ OneMourner'
    BY <1>2, BodiesStep, MournersStep DEF StopOnlyInv
  <2>5. Undisturbed'
    BY <1>2, FollowsStep
  <2>6. FailedIsQuiet' /\ Quiet'
    BY <1>2, FailedStep, QuietStep
  <2> QED BY <2>2, <2>3, <2>4, <2>5, <2>6 DEF StopOnlyInv
<1> QED BY <1>1, <1>2

-----------------------------------------------------------------------------
(* The theorems. *)

(* The service never has a process that nobody knows of: what runs and was *)
(* not told to go is the one that srvc.pid names.  This holds with         *)
(* Restart=no whatever is requested, and with any Restart= as long as only *)
(* stops are requested; what is left is a systemctl start or restart that  *)
(* meets an automatic restart, where the code breaks it.                   *)
THEOREM NoProcessIsLost ==
    ASSUME RestartDecisions = {FALSE} \/ Requests \subseteq {"stop"}
    PROVE  Spec => []NoOrphan
<1>1. NoRestartInv => NoOrphan
  BY DEF NoRestartInv
<1>2. StopOnlyInv => NoOrphan
  BY DEF StopOnlyInv
<1>3. CASE RestartDecisions = {FALSE}
  <2>1. (Init => NoRestartInv) /\ (NoRestartInv /\ [Next]_vars => NoRestartInv')
    BY <1>3, NoRestartInductive
  <2> QED BY <1>1, <2>1, PTL DEF Spec
<1>4. CASE Requests \subseteq {"stop"}
  <2>1. (Init => StopOnlyInv) /\ (StopOnlyInv /\ [Next]_vars => StopOnlyInv')
    BY <1>4, StopOnlyInductive
  <2> QED BY <1>2, <2>1, PTL DEF Spec
<1> QED BY <1>3, <1>4

(* A stop sticks: once the stop of a service that may restart by itself is *)
(* over, nothing of it runs that was not told to go, although exits, tails *)
(* and a pending restart may all be on their way.  The hypothesis is that  *)
(* of NoProcessIsLost.  What Overtaken exempts is exempt for a reason: a   *)
(* restart that is past its last look does start the service again.        *)
THEOREM StopsStick ==
    ASSUME RestartDecisions = {FALSE} \/ Requests \subseteq {"stop"}
    PROVE  Spec => []StopSticks
<1>1. NoRestartInv => StopSticks
  BY DEF NoRestartInv, NothingRuns, Swept, StopSticks
<1>2. StopOnlyInv => StopSticks
  BY DEF StopOnlyInv, Quiet, Swept, StopSticks
<1>3. CASE RestartDecisions = {FALSE}
  <2>1. (Init => NoRestartInv) /\ (NoRestartInv /\ [Next]_vars => NoRestartInv')
    BY <1>3, NoRestartInductive
  <2> QED BY <1>1, <2>1, PTL DEF Spec
<1>4. CASE Requests \subseteq {"stop"}
  <2>1. (Init => StopOnlyInv) /\ (StopOnlyInv /\ [Next]_vars => StopOnlyInv')
    BY <1>4, StopOnlyInductive
  <2> QED BY <1>2, <2>1, PTL DEF Spec
<1> QED BY <1>3, <1>4

(* After any number of exits and automatic restarts that nobody interfered *)
(* with, when all is dealt with, the status is Started exactly when the    *)
(* service runs.                                                           *)
THEOREM StatusIsTrue ==
    ASSUME Requests \subseteq {"stop"}
    PROVE  Spec => []StatusTellsTruth
<1>1. ASSUME StopOnlyInv PROVE StatusTellsTruth
  <2> SUFFICES ASSUME AtRest, requests = 0 PROVE status = "Started" <=> live # {}
    BY DEF StatusTellsTruth
  <2>1. Follows
    BY <1>1 DEF StopOnlyInv, Undisturbed
  <2>2. Mourners = {}
    BY DEF AtRest, Mourners, Thread, Idle, At
  <2>3. Bodies = live
    <3>1. Len(events) = 0 /\ 1 .. 0 = {} /\ disp.step = "idle" /\ zombies = {}
      BY DEF AtRest, Rest
    <3>2. InQueue = {} /\ InHand = {}
      BY <3>1 DEF Exits, InQueue, InHand
    <3> QED BY <3>1, <3>2 DEF Bodies
  <2> QED BY <2>1, <2>2, <2>3 DEF Follows, Stopped
<1> QED BY <1>1, StopOnlyInductive, PTL DEF Spec
=============================================================================
