--------------------------- MODULE SocketActivation ---------------------------
(***************************************************************************)
(* One socket unit, the service it triggers and the thread between them    *)
(* (socket_activation.rs).  The thread collects the sockets that are armed *)
(* into an fd set, sleeps in select(2), and handles what woke it.  Others  *)
(* change the flags it collected while it sleeps: a stop of the service    *)
(* re-arms the socket, a restart of the socket unit replaces its fd.  They *)
(* write first and then write to an eventfd that is in every fd set.       *)
(*                                                                         *)
(* The service is seen through its status only.  A stop in progress keeps  *)
(* the state lock of the service, so a start waits for it; a start of the  *)
(* socket unit keeps that of the socket, so whoever wants its flags waits. *)
(* kind says what the socket triggers: a Type=simple service, a Type=notify *)
(* service whose start the dispatcher finishes, or (Accept=yes) an instance *)
(* for every connection.  trouble is what goes wrong with starts; a        *)
(* behaviour has one kind of it.                                           *)
(***************************************************************************)
EXTENDS Naturals, FiniteSets

CONSTANTS
    Kinds,          \* subset of {"simple", "notify", "accept"}
    Troubles,       \* subset of {"deps", "refuse", "skip", "late"}
    Wanted,         \* is the service in the graph the boot starts: subset of BOOLEAN
    Burst,          \* TriggerLimitBurst= of each kind, 0 for none
    PollBurst,      \* PollLimitBurst= of each kind, 0 for none
    MaxConnections, \* MaxConnections=
    MaxPerSource,   \* MaxConnectionsPerSource=
    FlushPending,   \* the kinds with FlushPending=
    DeferTrigger,   \* the kinds with DeferTrigger=
    MaxArrivals,    \* bound: connections ever made
    MaxRefusals,    \* bound: starts that fail at once or are skipped
    MaxOther        \* bound: what others do: starts and stops of the service,
                    \* starts of the conflicting unit, restarts of the socket

ASSUME SocketAssumption ==
    /\ Kinds \subseteq {"simple", "notify", "accept"}
    /\ Troubles \subseteq {"deps", "refuse", "skip", "late"}
    /\ Wanted \subseteq BOOLEAN
    /\ FlushPending \subseteq Kinds /\ DeferTrigger \subseteq Kinds
    /\ \A k \in Kinds : {Burst[k], PollBurst[k]} \subseteq Nat
    /\ {MaxConnections, MaxPerSource} \subseteq Nat
    /\ {MaxArrivals, MaxRefusals, MaxOther} \subseteq Nat

VARIABLES
    kind, trouble,
    wanted,     \* the boot starts the service, whether or not anybody connects
    open,       \* the socket's fd is in the fd store
    opening,    \* the start of the socket unit: "post" while ExecStartPost= runs
    pending,    \* connections in the queue of the fd
    sock,       \* SocketState: the flags of the socket
    eventfd,    \* socket_activation_eventfd was written to
    thread,     \* the socket activation thread
    status,     \* the service's status
    depsUp,     \* the service's other dependencies have started
    stopper,    \* the tail of a stop: what it does next
    conflict,   \* a Conflicts= unit is starting or active
    running,    \* Accept=yes: the instances that run
    expired,    \* the socket failed with DeferTriggerMaxSec=
    done        \* how often each bounded thing has happened

vars == <<kind, trouble, wanted, open, opening, pending, sock, eventfd, thread, status, depsUp,
          stopper, conflict, running, expired, done>>

service == <<status, depsUp, stopper, conflict>>
fixed == <<kind, trouble, wanted>>
rest == <<fixed, opening, running, expired>>

Down == {"NeverStarted", "Stopped"}
Bounded == {"arrivals", "refusals", "others"}

Statuses == Down \cup {"Starting", "Started", "Stopping"}

(* triggers and polls are the timestamps that are still in their window.   *)
Sock ==
    [activated : BOOLEAN, deferred : BOOLEAN, limit : BOOLEAN,
     paused : {"no", "yes", "due"},
     triggers : 0 .. Burst[kind], polls : 0 .. PollBurst[kind],
     accepted : 0 .. MaxArrivals, active : Nat]

(* pc is the next step; watched, timed and undeferred are what the last    *)
(* Gather found; seen and result are local to handle_accept_no.            *)
Thread ==
    [pc : {"gather", "select", "admit", "mark", "read", "decide",
           "start", "fork", "judge", "rearm", "accept", "instance"},
     watched : BOOLEAN, timed : BOOLEAN, undeferred : BOOLEAN,
     seen : Statuses, result : {"ok", "dep", "err"}]

TypeOK ==
    /\ kind \in Kinds
    /\ trouble \in Troubles \cup {"none"}
    /\ wanted \in Wanted
    /\ open \in BOOLEAN
    /\ opening \in {"no", "post", "failed"}
    /\ pending \in 0 .. MaxArrivals
    /\ sock \in Sock
    /\ eventfd \in BOOLEAN
    /\ thread \in Thread
    /\ status \in Statuses
    /\ depsUp \in BOOLEAN
    /\ stopper \in {"idle", "check", "write", "notify"}
    /\ conflict \in BOOLEAN
    /\ running \subseteq 0 .. MaxArrivals
    /\ expired \in BOOLEAN
    /\ done \in [Bounded -> Nat]

(* The top of the loop: what the last round looked at is forgotten. *)
Idle == [pc |-> "gather", watched |-> FALSE, timed |-> FALSE,
         undeferred |-> FALSE, seen |-> "NeverStarted", result |-> "ok"]

Init ==
    /\ kind \in Kinds
    /\ trouble \in Troubles \cup {"none"}
    /\ (kind = "accept") <=> (trouble = "none")
    /\ wanted \in Wanted /\ (kind = "accept" => ~wanted)
    /\ open = TRUE
    /\ opening = "no"
    /\ pending = 0
    /\ sock = [activated |-> FALSE, deferred |-> FALSE, limit |-> FALSE,
               paused |-> "no", triggers |-> 0, polls |-> 0,
               accepted |-> 0, active |-> 0]
    /\ eventfd = FALSE
    /\ thread = Idle
    /\ status = "NeverStarted"
    /\ depsUp = (trouble # "deps")
    /\ stopper = "idle"
    /\ conflict = FALSE
    /\ running = {}
    /\ expired = FALSE
    /\ done = [b \in Bounded |-> 0]

Count(b, limit) == done[b] < limit /\ done' = [done EXCEPT ![b] = @ + 1]

(* The start of the socket unit has let go of the socket's flags.          *)
Unlocked == opening # "post"

At(pc) == thread.pc = pc
Goto(pc) == thread' = IF pc = "gather" THEN Idle ELSE [thread EXCEPT !.pc = pc]

-----------------------------------------------------------------------------
(***************************************************************************)
(* wait_for_socket.                                                        *)
(***************************************************************************)
(* Fault: the flag alone is looked at. *)
ArmedByFlag(s) ==
    s.paused = "no" /\ ~s.deferred /\ (~s.activated \/ kind = "accept")

Armed(s) ==
    /\ ~s.limit
    /\ s.paused = "no"
    /\ ~s.deferred
    /\ ~s.activated \/ kind = "accept"

(* A deferral that lasted for DeferTriggerMaxSec= fails the socket, and one *)
(* whose conflict is gone is lifted.  A pause that is over ends.           *)
Lifted(tooLong) == open /\ sock.deferred /\ ~tooLong /\ ~conflict

Gathered(tooLong) ==
    LET resumed == open /\ ~sock.limit /\ sock.paused = "due"
    IN  [sock EXCEPT !.deferred = @ /\ ~tooLong /\ ~Lifted(tooLong),
                     !.activated = @ \/ tooLong,
                     !.paused = IF resumed THEN "no" ELSE @,
                     !.polls = IF resumed THEN 0 ELSE @]

(* Then the armed sockets are collected.  Paused and deferred sockets give *)
(* select a timeout.                                                       *)
Gather ==
    /\ At("gather") /\ Unlocked
    /\ \E tooLong \in IF open /\ sock.deferred THEN BOOLEAN ELSE {FALSE} :
         /\ sock' = Gathered(tooLong)
         /\ expired' = (expired \/ tooLong)
         /\ thread' = [thread EXCEPT
                         !.pc = "select",
                         !.watched = open /\ Armed(sock'),
                         !.timed = /\ open /\ ~sock'.limit
                                   /\ sock'.paused # "no" \/ sock'.deferred,
                         !.undeferred = Lifted(tooLong)]
    /\ UNCHANGED <<fixed, open, opening, pending, eventfd, service, running, done>>

(* select returns: the fd is readable, the eventfd was written to, or the  *)
(* time is over.  The eventfd is reset and the triggered sockets reported. *)
Wake ==
    LET readable == thread.watched /\ pending > 0
        timeout == thread.timed /\ (sock.deferred \/ sock.paused = "due")
    IN /\ At("select")
       /\ readable \/ eventfd \/ timeout
       /\ eventfd' = FALSE
       /\ thread' = [Idle EXCEPT
                       !.pc = IF readable \/ thread.undeferred THEN "admit" ELSE @]
       /\ UNCHANGED <<open, pending, sock, service, rest, done>>

(* A signal interrupts select, or a writer wants the unit table when the   *)
(* triggered sockets are looked up: they are dropped.                      *)
Interrupted ==
    /\ At("select") \/ At("admit")
    /\ thread' = Idle
    /\ UNCHANGED <<open, pending, sock, eventfd, service, rest, done>>

PauseElapses ==
    /\ sock.paused = "yes"
    /\ sock' = [sock EXCEPT !.paused = "due"]
    /\ UNCHANGED <<open, pending, eventfd, thread, service, rest, done>>

(* Time passes: the oldest timestamp leaves its window. *)
Age ==
    /\ \/ sock.triggers > 0 /\ sock' = [sock EXCEPT !.triggers = @ - 1]
       \/ sock.polls > 0 /\ sock.paused = "no" /\ sock' = [sock EXCEPT !.polls = @ - 1]
    /\ UNCHANGED <<open, pending, eventfd, thread, service, rest, done>>

-----------------------------------------------------------------------------
(***************************************************************************)
(* The limits, and handle_accept_no.                                       *)
(***************************************************************************)
PollLimited == PollBurst[kind] > 0 /\ sock.polls >= PollBurst[kind]

(* Fault: one trigger too many. *)
TriggerLimitedLate == Burst[kind] > 0 /\ sock.triggers > Burst[kind]

TriggerLimited == Burst[kind] > 0 /\ sock.triggers >= Burst[kind]

check_poll_rate_limit ==
    /\ At("admit") /\ Unlocked /\ PollLimited
    /\ sock' = [sock EXCEPT !.paused = "yes"]
    /\ Goto("gather")
    /\ UNCHANGED <<open, pending, eventfd, service, rest, done>>

Polls == IF PollBurst[kind] > 0 THEN sock.polls + 1 ELSE sock.polls

check_trigger_rate_limit ==
    /\ At("admit") /\ Unlocked /\ ~PollLimited /\ TriggerLimited
    /\ sock' = [sock EXCEPT !.polls = Polls, !.limit = TRUE, !.activated = TRUE]
    /\ Goto("gather")
    /\ UNCHANGED <<open, pending, eventfd, service, rest, done>>

Admit ==
    /\ At("admit") /\ Unlocked /\ ~PollLimited /\ ~TriggerLimited
    /\ sock' = [sock EXCEPT !.polls = Polls,
                            !.triggers = IF Burst[kind] > 0 THEN @ + 1 ELSE @]
    /\ Goto(IF kind = "accept" THEN "accept" ELSE "mark")
    /\ UNCHANGED <<open, pending, eventfd, service, rest, done>>

SetMark(pc) ==
    /\ Unlocked
    /\ sock' = [sock EXCEPT !.activated = TRUE]
    /\ Goto(pc)

ReadStatus(pc) ==
    /\ thread' = [thread EXCEPT !.pc = pc, !.seen = status]
    /\ UNCHANGED sock

(* Fault: the status is read first. *)
ReadThenMark ==
    /\ \/ At("mark") /\ ReadStatus("read")
       \/ At("read") /\ SetMark("decide")
    /\ UNCHANGED <<open, pending, eventfd, service, rest, done>>

(* The socket is marked as activated, then the status is read. *)
MarkThenRead ==
    /\ \/ At("mark") /\ SetMark("read")
       \/ At("read") /\ ReadStatus("decide")
    /\ UNCHANGED <<open, pending, eventfd, service, rest, done>>

(* DeferTrigger=: the service cannot start now, so the mark is undone. *)
Blocked == kind \in DeferTrigger /\ conflict

Defer ==
    /\ At("decide") /\ Unlocked /\ Blocked
    /\ sock' = [sock EXCEPT !.activated = FALSE, !.deferred = TRUE]
    /\ Goto("gather")
    /\ UNCHANGED <<open, pending, eventfd, service, rest, done>>

(* A service that is not down has the fd already, or will get it. *)
Decide ==
    /\ At("decide") /\ ~Blocked
    /\ Goto(IF thread.seen \in Down THEN "start" ELSE "gather")
    /\ UNCHANGED <<open, pending, sock, eventfd, service, rest, done>>

Returns(result) == thread' = [thread EXCEPT !.pc = "judge", !.result = result]

(* activate_unit: the unit is on its way already. *)
LeftAlone ==
    /\ At("start") /\ status \in {"Starting", "Started"}
    /\ Returns("ok")
    /\ UNCHANGED <<open, pending, sock, eventfd, service, rest, done>>

(* A dependency has not started: DependencyError. *)
MissingDependency ==
    /\ At("start") /\ status \in Down /\ ~depsUp
    /\ Returns("dep")
    /\ UNCHANGED <<open, pending, sock, eventfd, service, rest, done>>

(* A Condition= or an Assert= says no. *)
Unwanted ==
    /\ At("start") /\ status \in Down
    /\ trouble \in {"skip", "refuse"}
    /\ Count("refusals", MaxRefusals)
    /\ status' = "Stopped"
    /\ Returns(IF trouble = "skip" THEN "ok" ELSE "err")
    /\ UNCHANGED <<open, pending, sock, eventfd, depsUp, stopper, conflict, rest>>

(* The start stops the conflicting unit first. *)
Fork ==
    /\ At("start") /\ status \in Down /\ depsUp
    /\ status' = "Starting"
    /\ conflict' = FALSE
    /\ Goto("fork")
    /\ UNCHANGED <<open, pending, sock, eventfd, depsUp, stopper, rest, done>>

(* A Type=notify start is left to the dispatcher once the process runs.    *)
ForkSucceeds ==
    /\ At("fork")
    /\ status' = IF kind = "notify" THEN "Starting" ELSE "Started"
    /\ Returns("ok")
    /\ UNCHANGED <<open, pending, sock, eventfd, depsUp, stopper, conflict, rest, done>>

ForkFails ==
    /\ At("fork") /\ trouble = "refuse"
    /\ Count("refusals", MaxRefusals)
    /\ status' = "Stopped"
    /\ Returns("err")
    /\ UNCHANGED <<open, pending, sock, eventfd, depsUp, stopper, conflict, rest>>

Flushed == IF kind \in FlushPending THEN 0 ELSE pending

(* ExecCondition= says no: the start itself re-arms the socket.            *)
ConditionSkips ==
    /\ At("fork") /\ Unlocked /\ trouble = "skip"
    /\ Count("refusals", MaxRefusals)
    /\ status' = "Stopped"
    /\ pending' = IF sock.limit THEN pending ELSE Flushed
    /\ sock' = [sock EXCEPT !.activated = @ /\ sock.limit]
    /\ eventfd' = TRUE
    /\ Returns("ok")
    /\ UNCHANGED <<open, depsUp, stopper, conflict, rest>>

(* should_rearm *)
Judge ==
    /\ At("judge")
    /\ Goto(IF \/ thread.result = "err"
               \/ thread.result = "ok" /\ status = "Stopped"
            THEN "rearm" ELSE "gather")
    /\ UNCHANGED <<open, pending, sock, eventfd, service, rest, done>>

Rearm ==
    /\ At("rearm") /\ Unlocked
    /\ sock' = [sock EXCEPT !.activated = @ /\ sock.limit]
    /\ eventfd' = TRUE
    /\ Goto("gather")
    /\ UNCHANGED <<open, pending, service, rest, done>>

handle_accept_no ==
    \/ MarkThenRead \/ Defer \/ Decide
    \/ LeftAlone \/ MissingDependency \/ Unwanted
    \/ Fork \/ ForkSucceeds \/ ForkFails \/ ConditionSkips \/ Judge \/ Rearm

-----------------------------------------------------------------------------
(***************************************************************************)
(* handle_accept_yes.  An instance is known by its number.                 *)
(***************************************************************************)
Refused == sock.active >= MaxConnections \/ Cardinality(running) >= MaxPerSource

(* accept(2) fails on an fd that was closed; a connection over a limit is  *)
(* closed at once.                                                         *)
Reject ==
    /\ At("accept") /\ Unlocked
    /\ \/ ~open /\ UNCHANGED pending
       \/ open /\ pending > 0 /\ Refused /\ pending' = pending - 1
    /\ Goto("gather")
    /\ UNCHANGED <<open, sock, eventfd, service, rest, done>>

Accept ==
    /\ At("accept") /\ Unlocked /\ open /\ pending > 0 /\ ~Refused
    /\ pending' = pending - 1
    /\ sock' = [sock EXCEPT !.accepted = @ + 1, !.active = @ + 1]
    /\ Goto("instance")
    /\ UNCHANGED <<open, eventfd, service, rest, done>>

(* The template is instantiated and the instance started.  A template that *)
(* cannot be read gives the connection back, a start that fails does not.  *)
Instantiate ==
    /\ At("instance") /\ Unlocked
    /\ \/ /\ sock' = [sock EXCEPT !.active = @ - 1]
          /\ UNCHANGED running
       \/ /\ running' \in {running, running \cup {sock.accepted}}
          /\ UNCHANGED sock
    /\ Goto("gather")
    /\ UNCHANGED <<fixed, open, opening, pending, eventfd, service, expired, done>>

(* The exit of an instance; nothing is subtracted from active. *)
InstanceExits ==
    /\ \E i \in running : running' = running \ {i}
    /\ UNCHANGED <<fixed, open, opening, pending, sock, eventfd, thread, service,
                   expired, done>>

handle_accept_yes == Reject \/ Accept \/ Instantiate

-----------------------------------------------------------------------------
(***************************************************************************)
(* The others: clients, the service, whoever starts and stops it, and      *)
(* whoever stops and starts the socket unit or the conflicting unit.       *)
(***************************************************************************)
Connect ==
    /\ open /\ Count("arrivals", MaxArrivals)
    /\ pending' = pending + 1
    /\ UNCHANGED <<open, sock, eventfd, thread, service, rest>>

(* The service takes a connection from the fd it was given. *)
Serve ==
    /\ kind # "accept" /\ status = "Started" /\ pending > 0
    /\ pending' = pending - 1
    /\ UNCHANGED <<open, sock, eventfd, thread, service, rest, done>>

(* Somebody else starts the service: the boot, if the service is in its    *)
(* graph, or systemctl start.                                              *)
BeginsElsewhere ==
    /\ kind # "accept" /\ ~At("fork") /\ depsUp
    /\ status' = "Starting"
    /\ conflict' = FALSE
    /\ UNCHANGED <<open, pending, sock, eventfd, thread, depsUp, stopper, rest>>

BootStart == wanted /\ status = "NeverStarted" /\ BeginsElsewhere /\ UNCHANGED done
ControlStart == status \in Down /\ BeginsElsewhere /\ Count("others", MaxOther)

DepsStart ==
    /\ ~depsUp /\ depsUp' = TRUE
    /\ UNCHANGED <<open, pending, sock, eventfd, thread, status, stopper, conflict,
                   rest, done>>

(* A start that is not this thread's ends: Started, or failed without a    *)
(* word to the socket (deferred_start_fail_cleanup, ServiceState::activate).*)
StartEnds ==
    /\ status = "Starting" /\ ~At("fork")
    /\ status' \in {"Started"} \cup (IF trouble = "late" THEN {"Stopped"} ELSE {})
    /\ UNCHANGED <<open, pending, sock, eventfd, thread, depsUp, stopper, conflict,
                   rest, done>>

(* The same for ExecCondition= (apply_condition_skip, which re-arms the    *)
(* socket the way the tail of a stop does).  The model allows it for any   *)
(* start that is under way, whether ExecCondition= has run already or not. *)
StartSkipped ==
    /\ status = "Starting" /\ ~At("fork") /\ trouble = "skip" /\ stopper = "idle"
    /\ Count("refusals", MaxRefusals)
    /\ status' = "Stopped"
    /\ stopper' = "check"
    /\ UNCHANGED <<open, pending, sock, eventfd, thread, depsUp, conflict, rest>>

(* systemctl stop, or the exit of the main process. *)
BeginStop ==
    /\ status \in {"Starting", "Started"} /\ ~At("fork") /\ stopper = "idle"
    /\ Count("others", MaxOther)
    /\ status' = "Stopping"
    /\ UNCHANGED <<open, pending, sock, eventfd, thread, depsUp, stopper, conflict,
                   rest>>

EndStop ==
    /\ status = "Stopping"
    /\ status' = "Stopped"
    /\ stopper' = "check"
    /\ UNCHANGED <<open, pending, sock, eventfd, thread, depsUp, conflict, rest, done>>

(* Re-arming is a read of the limit, a write of the flag, and the eventfd. *)
StopperLooks ==
    /\ stopper = "check" /\ Unlocked
    /\ stopper' = IF sock.limit THEN "notify" ELSE "write"
    /\ UNCHANGED <<open, pending, sock, eventfd, thread, status, depsUp, conflict,
                   rest, done>>

StopperRearms ==
    /\ stopper = "write" /\ Unlocked
    /\ pending' = Flushed
    /\ sock' = [sock EXCEPT !.activated = FALSE]
    /\ stopper' = "notify"
    /\ UNCHANGED <<open, eventfd, thread, status, depsUp, conflict, rest, done>>

(* Fault: nobody tells the thread. *)
StopperForgets ==
    /\ stopper = "notify"
    /\ stopper' = "idle"
    /\ UNCHANGED <<open, pending, sock, eventfd, thread, status, depsUp, conflict,
                   rest, done>>

StopperNotifies ==
    /\ stopper = "notify"
    /\ eventfd' = TRUE
    /\ stopper' = "idle"
    /\ UNCHANGED <<open, pending, sock, thread, status, depsUp, conflict, rest, done>>

(* The socket unit is stopped: its fd is closed, and a select that sleeps  *)
(* on it hears nothing of it any more.                                     *)
CloseSocket ==
    /\ open /\ open' = FALSE
    /\ Unlocked /\ opening' = "no"
    /\ pending' = 0
    /\ thread' = [thread EXCEPT !.watched = FALSE]
    /\ UNCHANGED <<fixed, sock, eventfd, service, running, expired, done>>

(* open_all: the new fd is in the store, in place of the one that a failed *)
(* start left there.                                                       *)
OpenSocket ==
    /\ ~open \/ opening = "failed"
    /\ Count("others", MaxOther)
    /\ open' = TRUE /\ opening' = "post"
    /\ pending' = 0
    /\ thread' = [thread EXCEPT !.watched = FALSE]
    /\ UNCHANGED <<fixed, sock, eventfd, service, running, expired>>

(* ExecStartPost= is over.  If it failed so has the unit, but the fd stays *)
(* in the store, and the thread is told of it only if all went well.       *)
SocketOpened ==
    /\ opening = "post"
    /\ \/ opening' = "no" /\ eventfd' = TRUE
       \/ opening' = "failed" /\ UNCHANGED eventfd
    /\ UNCHANGED <<fixed, open, pending, sock, thread, service, running, expired, done>>

(* The conflicting unit starts, which takes a service that is down. *)
ConflictStarts ==
    /\ kind # "accept" /\ ~conflict /\ conflict' = TRUE
    /\ status \in Down
    /\ Count("others", MaxOther)
    /\ UNCHANGED <<open, pending, sock, eventfd, thread, status, depsUp, stopper, rest>>

ConflictEnds ==
    /\ conflict /\ conflict' = FALSE
    /\ UNCHANGED <<open, pending, sock, eventfd, thread, status, depsUp, stopper,
                   rest, done>>

Next ==
    \/ Gather \/ Wake \/ Interrupted \/ PauseElapses \/ Age
    \/ check_poll_rate_limit \/ check_trigger_rate_limit \/ Admit
    \/ handle_accept_no \/ handle_accept_yes
    \/ Connect \/ Serve \/ InstanceExits
    \/ BootStart \/ ControlStart \/ DepsStart \/ StartEnds \/ StartSkipped
    \/ BeginStop \/ EndStop \/ StopperLooks \/ StopperRearms \/ StopperNotifies
    \/ CloseSocket \/ OpenSocket \/ SocketOpened \/ ConflictStarts \/ ConflictEnds

(* The thread runs, and a signal or a writer does not come first for ever. *)
(* Starts and stops end, the boot starts what is in its graph, pauses      *)
(* elapse, and the conflicting unit ends.                                  *)
Fairness ==
    /\ WF_vars(Gather) /\ SF_vars(Wake)
    /\ SF_vars(check_poll_rate_limit \/ check_trigger_rate_limit \/ Admit)
    /\ WF_vars(handle_accept_no) /\ WF_vars(handle_accept_yes)
    /\ WF_vars(PauseElapses) /\ WF_vars(ConflictEnds)
    /\ WF_vars(DepsStart) /\ WF_vars(BootStart) /\ SF_vars(StartEnds)
    /\ WF_vars(EndStop) /\ WF_vars(SocketOpened)
    /\ WF_vars(StopperLooks \/ StopperRearms \/ StopperNotifies)

Spec == Init /\ [][Next]_vars /\ Fairness

-----------------------------------------------------------------------------
(* While the thread sleeps without a timeout it watches exactly what is    *)
(* armed, or the wake-up is under way: no re-arm and no new fd is missed   *)
(* (wait_for_socket against the re-arming tails and SocketState::activate).*)
(* A socket unit whose ExecStartPost= failed is excepted: its fd is in the *)
(* store, and watched from the next wake-up on.                            *)
SleepIsInformed ==
    (At("select") /\ ~thread.timed /\ ~eventfd /\ stopper # "notify" /\ opening = "no")
        => (thread.watched <=> (open /\ Armed(sock)))

(* A socket that hit its trigger limit starts nothing ever again, whatever *)
(* a stop that looked before the limit was hit does to its flag            *)
(* (check_trigger_rate_limit against the re-arming tails).                 *)
LimitIsFinal == sock.limit => thread.pc \in {"gather", "select"}

(* The service comes up or the queue is emptied, unless the socket is      *)
(* closed or fails.                                                        *)
Answered ==
    \/ ~open \/ pending = 0 \/ status = "Started"
    \/ sock.limit \/ expired \/ opening = "failed"

(* A connection that waits on the socket is answered (handle_accept_no,    *)
(* "Re-arm the socket only if the service's start was rejected [...] or    *)
(* the service has actually run and STOPPED").                             *)
ConnectionAnswered == (open /\ pending > 0) ~> Answered

(* A connection is answered by the thread alone, or by the boot where the  *)
(* boot starts the service.  What is excepted is a service outside the     *)
(* boot's graph whose dependencies were not up: the DependencyError leaves *)
(* the mark on the socket (handle_accept_no, "it resolves on its own once  *)
(* the deps come up"), and nobody is left who would start the service.     *)
TriggerAnswered == (open /\ pending > 0 /\ (wanted \/ trouble # "deps")) ~> Answered

=============================================================================
