----------------------------- MODULE StartWait -----------------------------
(***************************************************************************)
(* The life of one parked start: a service has been forked and is          *)
(* Starting, and the dispatcher waits for what its Type= takes as          *)
(* readiness.  Around it run the process, the thread that reads            *)
(* notifications, the finisher threads, the tail of the exit handler and   *)
(* the watcher of a bus name.                                              *)
(*                                                                         *)
(*   conf     Type=, whether there is an ExecStopPost=, and whether the    *)
(*            start has been parked a second time                          *)
(*   status   unit.common.status; Failed is Stopped(StoppedUnexpected)     *)
(*   srvc     main_exit_status, whether the main_pid atomic is set,        *)
(*            signaled_ready, and how EXTEND_TIMEOUT_USEC= stands          *)
(*   proc     the ExecStart process, the daemon it left, or nothing        *)
(*   sent, socket, buffer   datagrams: sent so far, in the socket, read    *)
(*   notify   a Notify event is in the high queue; the event only says     *)
(*            that the buffer has something, so several of them are one    *)
(*   queue    the normal queue of the dispatcher                           *)
(*   wait     the entry of start_waits, or NoWait.  Its deadline is a      *)
(*            matter of when Expire happens; its grace is "late" when the  *)
(*            deadline itself has read the READY=1                         *)
(*   finish   the finisher threads, a bag of where they are                *)
(*   tail     the tail of the exit handler                                 *)
(*   poststop the ExecStopPost= chain of a failed start runs               *)
(*   watchers threads that wait for the bus name                           *)
(*   termed   the wait has sent SIGTERM                                    *)
(*                                                                         *)
(* Restart=no, RemainAfterExit=no, ExitType=main; ExecStartPost= may fail. *)
(* StartSweep has the chains behind the start.                             *)
(***************************************************************************)
EXTENDS Naturals, Sequences, Bags

CONSTANTS
    Types,       \* Type= of the service: any of AllTypes
    Reparked,    \* the types of which a start may be parked twice
    Contended    \* whether a writer may hold RuntimeInfo when the cleanup of
                 \* a failed start comes

AllTypes == {"notify", "oneshot", "forking", "exec", "dbus"}

ASSUME StartWaitAssumption ==
    /\ Types \subseteq AllTypes /\ Types # {}
    /\ Reparked \subseteq Types
    /\ Contended \in BOOLEAN

VARIABLES conf, status, srvc, proc, sent, socket, buffer, notify, queue, wait,
          finish, tail, poststop, watchers, termed

unit == << conf, status, srvc >>
notes == << sent, socket, buffer >>
disp == << notify, queue, wait, poststop, termed >>
threads == << finish, tail, watchers >>
vars == << unit, proc, notes, disp, threads >>

Datagram == {"READY", "EXTEND"}
Codes == {"ok", "fail", "203"}
NoWait == << >>
Wait == [grace : {"unused", "used", "late"}, term : BOOLEAN,
         dbus : {FALSE, conf.type = "dbus"}, confirm : {FALSE, conf.type = "exec"}]

TypeOK ==
    /\ conf \in [type : Types, stoppost : BOOLEAN, again : BOOLEAN]
    /\ status \in {"Starting", "Started", "Stopped", "Failed"}
    /\ srvc \in [exit : {"none"} \cup Codes, mainPid : BOOLEAN, ready : BOOLEAN,
                 extend : {"none", "runs", "over"}]
    /\ proc \in {"main", "daemon", "none"}
    /\ sent \subseteq Datagram /\ socket \subseteq sent /\ buffer \subseteq sent
    /\ notify \in BOOLEAN
    /\ queue \in Seq({"park", "named", "unnamed"} \cup Codes)
    /\ wait \in Wait \cup {NoWait}
    /\ IsABag(finish) /\ BagToSet(finish) \subseteq {"check", "post", "clear", "flip"}
    /\ tail \in [at : {"none", "look", "act"}, code : {"none"} \cup Codes]
    /\ poststop \in BOOLEAN
    /\ watchers \in Nat
    /\ termed \in BOOLEAN

NoTail == [at |-> "none", code |-> "none"]

-----------------------------------------------------------------------------
(* The process and the readers. *)

Send(d) ==
    /\ proc # "none" /\ d \notin sent
    /\ d = "READY" => conf.type = "notify"
    /\ sent' = sent \cup {d}
    /\ socket' = socket \cup {d}
    /\ UNCHANGED << unit, proc, buffer, disp, threads >>

(* The process exits and is reaped.  The parent of a forking service that  *)
(* exits in order leaves a daemon behind.                                  *)
ProcessExits(code) ==
    /\ proc = "main"
    /\ code = "203" => conf.type = "exec" /\ ~termed
    /\ proc' = IF conf.type = "forking" /\ code = "ok" THEN "daemon" ELSE "none"
    /\ queue' = Append(queue, code)
    /\ UNCHANGED << unit, notes, notify, wait, poststop, termed, threads >>

(* handle_all_streams.                                                     *)
ReadSocket ==
    /\ socket # {}
    /\ socket' = {}
    /\ buffer' = buffer \cup socket
    /\ notify' = TRUE
    /\ UNCHANGED << unit, proc, sent, queue, wait, poststop, termed, threads >>

ExtensionEnds ==
    /\ srvc.extend = "runs"
    /\ srvc' = [srvc EXCEPT !.extend = "over"]
    /\ UNCHANGED << conf, status, proc, notes, disp, threads >>

(* Another pass of a sweep finds the service Starting (Leave of            *)
(* StartSweep).                                                            *)
ParkAgain ==
    /\ conf.type \in Reparked /\ status = "Starting" /\ ~conf.again
    /\ conf' = [conf EXCEPT !.again = TRUE]
    /\ queue' = Append(queue, "park")
    /\ UNCHANGED << status, srvc, proc, notes, notify, wait, poststop, termed, threads >>

(* wait_for_name_system_bus: the name appears, or its timeout passes.      *)
WatcherReports(event) ==
    /\ watchers > 0 /\ event \in {"named", "unnamed"}
    /\ event = "named" => proc = "main"
    /\ watchers' = watchers - 1
    /\ queue' = Append(queue, event)
    /\ UNCHANGED << unit, proc, notes, notify, wait, poststop, termed, finish, tail >>

-----------------------------------------------------------------------------
(* Verdicts. *)

(* evaluate_start_wait, with the service's state s.  RELOADING=1, which    *)
(* counts as ready, comes after a READY=1 and is left out.                 *)
Verdict(w, s, confirmed) ==
    LET ofExit == [none |-> "Pending", ok |-> "Ready", fail |-> "Fail"]
    IN  IF status # "Starting" THEN "Abandoned" ELSE
        CASE conf.type = "oneshot"   -> IF s.exit = "fail" THEN "Abandoned" ELSE ofExit[s.exit]
          [] conf.type = "forking"   -> ofExit[s.exit]
          [] conf.type = "exec"      -> IF s.exit = "203" THEN "Fail"
                                        ELSE IF confirmed THEN "Ready" ELSE "Pending"
          [] conf.type = "dbus"      -> IF w.dbus THEN "Ready"
                                        ELSE IF s.exit # "none" THEN "Abandoned" ELSE "Pending"
          [] conf.type = "notify"    -> IF s.ready THEN "Ready"
                                        ELSE IF s.exit # "none" THEN "Fail" ELSE "Pending"

(* deferred_start_fail_cleanup gives up when RuntimeInfo is not free: what *)
(* the status may be after it.                                             *)
CleanedUp == (IF Contended THEN {status} ELSE {})
             \cup {IF status = "Starting" THEN "Failed" ELSE status}

(* fail_start_with_poststop: with an ExecStopPost= the unit stays Starting *)
(* until that has run.  The processes are killed; the exit of the main one *)
(* comes as an event; q is the queue without the event at hand.            *)
FailStart(q) ==
    /\ \/ /\ conf.stoppost
          /\ poststop' = TRUE /\ status' = status
          /\ proc' = "none"
       \/ /\ ~conf.stoppost
          /\ poststop' = poststop /\ status' \in CleanedUp
          /\ proc' = IF status' = "Starting" THEN proc ELSE "none"
    /\ queue' = IF proc = "main" /\ proc' = "none" THEN Append(q, "fail") ELSE q
    /\ finish' = finish
    /\ wait' = NoWait

(* progress_start_wait of the wait w when the service's state is s.  A     *)
(* forking service's exit status is used up by the verdict.                *)
Progress(w, s, confirmed, q) ==
    LET v == Verdict(w, s, confirmed)
    IN  /\ srvc' = IF v = "Ready" /\ conf.type = "forking" THEN [s EXCEPT !.exit = "none"] ELSE s
        /\ IF v = "Fail" THEN FailStart(q)
           ELSE /\ wait' = IF v = "Pending" THEN w ELSE NoWait
                /\ finish' = IF v = "Ready" THEN finish (+) SetToBag({"check"}) ELSE finish
                /\ queue' = q
                /\ UNCHANGED << status, poststop, proc >>

ProgressParked(s, q) ==
    IF wait = NoWait
    THEN srvc' = s /\ queue' = q /\ UNCHANGED << status, poststop, proc, wait, finish >>
    ELSE Progress(wait, s, FALSE, q)

-----------------------------------------------------------------------------
(* The dispatcher: high events before normal ones, deadlines when there    *)
(* are none.                                                               *)

(* apply_notify: what the datagrams in ds make of the service's state.     *)
Applied(ds) ==
    [srvc EXCEPT !.ready = @ \/ "READY" \in ds,
                 !.extend = IF "EXTEND" \in ds THEN "runs" ELSE @]

(* Fault: the notification is applied and the wait not looked at.          *)
OnNotifyApplies ==
    /\ notify
    /\ notify' = FALSE
    /\ buffer' = {}
    /\ srvc' = Applied(buffer)
    /\ UNCHANGED << conf, status, proc, sent, socket, queue, wait, poststop, termed, threads >>

OnNotify ==
    /\ notify
    /\ notify' = FALSE
    /\ buffer' = {}
    /\ ProgressParked(Applied(buffer), queue)
    /\ UNCHANGED << conf, sent, socket, termed, tail, watchers >>

Turn(event) == ~notify /\ queue # << >> /\ Head(queue) = event

(* service_exit_head leaves the exit of a Starting service to its wait if  *)
(* the wait decides on it.                                                 *)
Suppresses ==
    /\ status = "Starting"
    /\ \/ conf.type = "forking"
       \/ conf.type = "notify" /\ ~srvc.ready

OnExit(code) ==
    /\ Turn(code)
    /\ tail' = IF Suppresses THEN tail ELSE [at |-> "look", code |-> code]
    /\ ProgressParked([srvc EXCEPT !.exit = code, !.mainPid = FALSE], Tail(queue))
    /\ UNCHANGED << conf, notes, notify, watchers, termed >>

(* Fault: every start is confirmed after 500 ms.                           *)
NewWaitConfirmed == [grace |-> "unused", term |-> FALSE, dbus |-> FALSE, confirm |-> TRUE]

NewWait == [grace |-> "unused", term |-> FALSE, dbus |-> FALSE, confirm |-> conf.type = "exec"]

(* Fault: the wait is parked without a look at what came before it.        *)
OnParkUnseen ==
    /\ Turn("park")
    /\ watchers' = IF conf.type = "dbus" THEN watchers + 1 ELSE watchers
    /\ wait' = NewWait /\ queue' = Tail(queue)
    /\ UNCHANGED << unit, proc, notes, notify, poststop, termed, finish, tail >>

(* register_start_wait: readiness may be there already.                    *)
OnPark ==
    /\ Turn("park")
    /\ watchers' = IF conf.type = "dbus" THEN watchers + 1 ELSE watchers
    /\ Progress(NewWait, srvc, FALSE, Tail(queue))
    /\ UNCHANGED << conf, notes, notify, tail, termed >>

OnName(event) ==
    /\ event \in {"named", "unnamed"} /\ Turn(event)
    /\ IF wait = NoWait THEN ProgressParked(srvc, Tail(queue))
       ELSE IF event = "named" THEN Progress([wait EXCEPT !.dbus = TRUE], srvc, FALSE, Tail(queue))
       ELSE FailStart(Tail(queue)) /\ srvc' = srvc
    /\ UNCHANGED << conf, notes, notify, tail, watchers, termed >>

Quiet == ~notify /\ queue = << >> /\ wait # NoWait

(* The 500 ms after which an exec() counts as done.                        *)
ExpireConfirm ==
    /\ Quiet /\ wait.confirm
    /\ Progress([wait EXCEPT !.confirm = FALSE], srvc, TRUE, queue)
    /\ UNCHANGED << conf, notes, notify, tail, watchers, termed >>

(* TimeoutStartSec= and any extension of it are over.                      *)
Due == Quiet /\ ~wait.confirm /\ srvc.extend # "runs"

(* Once, the socket is read here, since the reader may be far behind, and  *)
(* the start gets 2 s more.  The wait is not looked at again.              *)
ExpireGrace ==
    /\ Due /\ ~wait.term /\ wait.grace = "unused"
    /\ srvc' = Applied(socket \cup buffer)
    /\ socket' = {} /\ buffer' = {}
    /\ wait' = [wait EXCEPT !.grace = IF "READY" \in socket \cup buffer THEN "late" ELSE "used"]
    /\ UNCHANGED << conf, status, proc, sent, notify, queue, poststop, termed, threads >>

(* Fault: no SIGTERM is remembered.                                        *)
ExpireTermAgain ==
    /\ Due /\ ~wait.term /\ wait.grace # "unused"
    /\ termed' = (proc # "none")
    /\ wait' = [wait EXCEPT !.grace = "unused"]
    /\ UNCHANGED << unit, proc, notes, notify, queue, poststop, threads >>

ExpireTerm ==
    /\ Due /\ ~wait.term /\ wait.grace # "unused"
    /\ termed' = (proc # "none")
    /\ wait' = [wait EXCEPT !.term = TRUE]
    /\ UNCHANGED << unit, proc, notes, notify, queue, poststop, threads >>

(* TimeoutStopSec= later.  A process that has gone has its events on their *)
(* way.                                                                    *)
ExpireKill ==
    /\ Due /\ wait.term
    /\ IF status # "Starting"
       THEN wait' = NoWait /\ UNCHANGED << status, srvc, proc, queue, poststop, finish >>
       ELSE IF ~srvc.mainPid THEN Progress(wait, srvc, FALSE, queue)
       ELSE FailStart(queue) /\ srvc' = srvc
    /\ UNCHANGED << conf, notes, notify, tail, watchers, termed >>

(* The ExecStopPost= chain of a failed start ends.                         *)
PoststopEnds ==
    /\ poststop
    /\ poststop' = FALSE
    /\ status' \in CleanedUp
    /\ UNCHANGED << conf, srvc, proc, notes, notify, queue, wait, threads, termed >>

-----------------------------------------------------------------------------
(* The threads that end a start. *)

FinisherAt(from, to) ==
    /\ BagIn(from, finish)
    /\ finish' = (finish (-) SetToBag({from})) (+) SetToBag(to)

(* finish_deferred_start in four steps.                                    *)
FinishCheck ==
    /\ FinisherAt("check", IF status = "Starting" THEN {"post"} ELSE {})
    /\ UNCHANGED << unit, proc, notes, disp, tail, watchers >>

(* ExecStartPost=.                                                         *)
FinishPost ==
    /\ \/ FinisherAt("post", {"clear"}) /\ status' = status
       \/ FinisherAt("post", {}) /\ status' = IF status = "Starting" THEN "Failed" ELSE status
    /\ UNCHANGED << conf, srvc, proc, notes, disp, tail, watchers >>

FinishClear ==
    /\ FinisherAt("clear", {"flip"})
    /\ srvc' = [srvc EXCEPT !.ready = FALSE]
    /\ UNCHANGED << conf, status, proc, notes, disp, tail, watchers >>

FinishFlip ==
    /\ FinisherAt("flip", {})
    /\ status' = IF status = "Starting" THEN "Started" ELSE status
    /\ UNCHANGED << conf, srvc, proc, notes, disp, tail, watchers >>

(* service_exit_handler.  A oneshot that ended in order is left to its     *)
(* wait; the exit of a unit that is down already is ignored.               *)
TailLook ==
    /\ tail.at = "look"
    /\ tail' = IF IF conf.type = "oneshot" THEN tail.code = "ok"
                  ELSE status \notin {"Starting", "Started"}
               THEN NoTail ELSE [tail EXCEPT !.at = "act"]
    /\ UNCHANGED << unit, proc, notes, disp, finish, watchers >>

TailAct ==
    /\ tail.at = "act"
    /\ tail' = NoTail
    /\ status' = IF tail.code = "ok" THEN "Stopped" ELSE "Failed"
    /\ UNCHANGED << conf, srvc, proc, notes, disp, finish, watchers >>

-----------------------------------------------------------------------------

Init ==
    /\ conf \in [type : Types, stoppost : BOOLEAN, again : {FALSE}]
    /\ status = "Starting"
    /\ srvc = [exit |-> "none", mainPid |-> TRUE, ready |-> FALSE, extend |-> "none"]
    /\ proc = "main"
    /\ sent = {} /\ socket = {} /\ buffer = {}
    /\ notify = FALSE
    /\ queue = << "park" >>
    /\ wait = NoWait
    /\ finish = EmptyBag
    /\ tail = NoTail
    /\ poststop = FALSE
    /\ watchers = 0
    /\ termed = FALSE

Dispatcher ==
    \/ OnNotify \/ OnPark \/ PoststopEnds
    \/ \E code \in Codes : OnExit(code)
    \/ \E event \in {"named", "unnamed"} : OnName(event)
    \/ ExpireConfirm \/ ExpireGrace \/ ExpireTerm \/ ExpireKill

Finisher == FinishCheck \/ FinishPost \/ FinishClear \/ FinishFlip

ExitTail == TailLook \/ TailAct

Environment ==
    \/ \E d \in Datagram : Send(d)
    \/ \E code \in Codes : ProcessExits(code)

Next ==
    \/ Environment \/ ParkAgain \/ ReadSocket \/ ExtensionEnds
    \/ \E event \in {"named", "unnamed"} : WatcherReports(event)
    \/ Dispatcher \/ Finisher \/ ExitTail

(* Threads run, deadlines pass, and the watcher of a bus name has one.     *)
(* Nothing is asked of the process: it may neither report nor exit.        *)
Fairness ==
    /\ WF_vars(ReadSocket)
    /\ WF_vars(ExtensionEnds)
    /\ WF_vars(\E event \in {"named", "unnamed"} : WatcherReports(event))
    /\ WF_vars(Dispatcher)
    /\ WF_vars(Finisher)
    /\ WF_vars(ExitTail)

Spec == Init /\ [][Next]_vars /\ Fairness

-----------------------------------------------------------------------------
(* Properties. *)

(* Whatever came first, the registration or the event it is about: when    *)
(* the dispatcher has nothing to do, no wait is parked whose verdict is    *)
(* in, but for one whose READY=1 was read by its own deadline.             *)
NoIdleVerdict ==
    Quiet /\ status = "Starting" => wait.grace = "late" \/ Verdict(wait, srvc, FALSE) = "Pending"

(* A second wait whose first one may be ending the start: for a oneshot    *)
(* and an exec() the first one's verdict decides the second wait too.      *)
Refound == conf.again /\ conf.type \in {"notify", "forking", "dbus"}

(* The start timeout only ever hits a service that is still starting and   *)
(* has not reported, or whose report sat unread until the deadline: the    *)
(* drain of the grace applies it and nobody acts on it.  One that was      *)
(* parked a second time may also be hit after the first wait finished it.  *)
TermIsDeserved ==
    [][termed' # termed => /\ srvc.ready => wait.grace = "late"
                           /\ status = "Starting" \/ Refound]_vars

(* The unit does not stay Starting, whatever the process does or does not  *)
(* do.                                                                     *)
StartSettles == <>[](status # "Starting")

(* A service whose process is gone does not stay Started.                  *)
StartedMeansAlive ==
    conf.type # "oneshot" => <>[](status = "Started" => proc # "none")
=============================================================================
