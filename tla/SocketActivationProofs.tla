------------------------ MODULE SocketActivationProofs ------------------------
(***************************************************************************)
(* Proofs about SocketActivation, for any limits and bounds.  The          *)
(* inductive invariant adds to TypeOK what the thread may rely on between  *)
(* two of its steps, whatever the others do meanwhile.                     *)
(***************************************************************************)
EXTENDS SocketActivation, TLAPS

(* No connection is counted twice.                                         *)
Accounted ==
    /\ sock.accepted + pending <= done["arrivals"]
    /\ done["arrivals"] <= MaxArrivals

(* What an instance gives back it has taken.                               *)
InstanceCounted == At("instance") => sock.active > 0

(* A deferral is over before the thread handles the socket, and a socket   *)
(* over its limit is neither deferred nor looked at again.                 *)
NotDeferred ==
    /\ sock.deferred => ~sock.limit /\ thread.pc \in {"gather", "select"}
    /\ At("select") /\ (thread.watched \/ thread.undeferred)
         => ~sock.limit /\ ~sock.deferred

(* A stop that ends finds the tail of the one before it gone, so that no   *)
(* notification is dropped; a start of the thread's own is not interfered  *)
(* with.                                                                   *)
OneStopper ==
    /\ status = "Stopping" => stopper = "idle"
    /\ At("fork") => status = "Starting"

IInv ==
    /\ TypeOK
    /\ Accounted
    /\ InstanceCounted
    /\ NotDeferred
    /\ LimitIsFinal
    /\ OneStopper
    /\ SleepIsInformed

LEMMA InitIInv == Init => IInv
<1> SUFFICES ASSUME Init PROVE IInv
  OBVIOUS
<1> USE SocketAssumption DEF SocketAssumption
<1>1. TypeOK
  <2>1. sock \in Sock
    BY DEF Init, Sock
  <2>2. thread \in Thread
    BY DEF Init, Idle, Thread, Statuses, Down
  <2>3. /\ kind \in Kinds /\ trouble \in Troubles \cup {"none"} /\ wanted \in Wanted
        /\ opening \in {"no", "post", "failed"}
    BY DEF Init
  <2>4. pending \in 0 .. MaxArrivals /\ status \in Statuses /\ running \subseteq 0 .. MaxArrivals
        /\ stopper \in {"idle", "check", "write", "notify"} /\ done \in [Bounded -> Nat]
    BY DEF Init, Statuses, Down
  <2>5. /\ open \in BOOLEAN /\ eventfd \in BOOLEAN /\ depsUp \in BOOLEAN
        /\ conflict \in BOOLEAN /\ expired \in BOOLEAN
    BY DEF Init
  <2> QED BY <2>1, <2>2, <2>3, <2>4, <2>5 DEF TypeOK
<1>2. Accounted /\ InstanceCounted /\ NotDeferred /\ LimitIsFinal /\ OneStopper /\ SleepIsInformed
  BY DEF Init, Idle, Bounded, At, Accounted, InstanceCounted, NotDeferred, LimitIsFinal,
         OneStopper, SleepIsInformed
<1> QED BY <1>1, <1>2 DEF IInv

-----------------------------------------------------------------------------
(* Types, one variable after the other. *)

LEMMA KindKept == ASSUME [Next]_vars PROVE kind' = kind /\ trouble' = trouble /\ wanted' = wanted
BY DEF Next, vars, rest, fixed, Gather, Wake, Interrupted, PauseElapses, Age,
       check_poll_rate_limit, check_trigger_rate_limit, Admit, handle_accept_no,
       MarkThenRead, Defer, Decide, LeftAlone, MissingDependency, Unwanted, Fork,
       ForkSucceeds, ForkFails, ConditionSkips, Judge, Rearm, handle_accept_yes, Reject, Accept,
       Instantiate, Connect, Serve, InstanceExits, BootStart, ControlStart,
       BeginsElsewhere, DepsStart, StartEnds, StartSkipped, BeginStop, EndStop, StopperLooks,
       StopperRearms, StopperNotifies, CloseSocket, OpenSocket, SocketOpened, ConflictStarts,
       ConflictEnds

LEMMA IdleTyped == Idle \in Thread
BY DEF Idle, Thread, Statuses, Down

LEMMA GotoTyped ==
    ASSUME thread \in Thread,
           NEW pc \in {"gather", "select", "admit", "mark", "read", "decide",
                       "start", "fork", "judge", "rearm", "accept", "instance"},
           Goto(pc)
    PROVE  thread' \in Thread /\ thread'.pc = pc
BY DEF Goto, Thread, Idle, Statuses, Down

LEMMA ReturnsTyped ==
    ASSUME thread \in Thread, NEW result \in {"ok", "dep", "err"}, Returns(result)
    PROVE  thread' \in Thread /\ thread'.pc = "judge" /\ thread'.result = result
BY DEF Returns, Thread

(* Every step leaves the thread at one of its steps. *)
LEMMA ThreadTyped == ASSUME TypeOK, [Next]_vars PROVE thread' \in Thread
<1> thread \in Thread
  BY DEF TypeOK
<1>1. CASE Gather
  <2>1. PICK w, t, l : thread' = [thread EXCEPT !.pc = "select", !.watched = w, !.timed = t,
                                                !.undeferred = l]
                       /\ w \in BOOLEAN /\ t \in BOOLEAN /\ l \in BOOLEAN
    BY <1>1, Zenon DEF Gather, Lifted
  <2> QED BY <2>1 DEF Thread
<1>2. CASE Wake \/ Interrupted
  BY <1>2, IdleTyped DEF Wake, Interrupted, Thread
<1>3. CASE check_poll_rate_limit \/ check_trigger_rate_limit \/ Defer \/ Rearm \/ Reject \/ Instantiate
  BY <1>3, GotoTyped DEF check_poll_rate_limit, check_trigger_rate_limit, Defer, Rearm,
                         Reject, Instantiate
<1>4. CASE Admit \/ Decide \/ Judge \/ Accept
  BY <1>4, GotoTyped DEF Admit, Decide, Judge, Accept
<1>5. CASE MarkThenRead
  BY <1>5, GotoTyped DEF MarkThenRead, SetMark, ReadStatus, Thread, TypeOK
<1>6. CASE LeftAlone \/ MissingDependency \/ Unwanted \/ ForkSucceeds \/ ForkFails \/ ConditionSkips
  BY <1>6, ReturnsTyped DEF LeftAlone, MissingDependency, Unwanted, ForkSucceeds, ForkFails, ConditionSkips
<1>7. CASE Fork
  BY <1>7, GotoTyped, ReturnsTyped DEF Fork
<1>8. CASE CloseSocket \/ OpenSocket
  BY <1>8 DEF CloseSocket, OpenSocket, Thread
<1>9. CASE UNCHANGED thread
  BY <1>9
<1> QED
  BY <1>1, <1>2, <1>3, <1>4, <1>5, <1>6, <1>7, <1>8, <1>9
  DEF Next, vars, handle_accept_no, handle_accept_yes, PauseElapses, Age, Connect, Serve,
      InstanceExits, BootStart, ControlStart, BeginsElsewhere, DepsStart, StartEnds, StartSkipped,
      BeginStop, EndStop, StopperLooks, StopperRearms, StopperNotifies, OpenSocket, SocketOpened,
      ConflictStarts, ConflictEnds

(* The timestamps stay within their bursts, and what an instance gives back *)
(* it has taken.                                                           *)
LEMMA SockTyped == ASSUME IInv, [Next]_vars PROVE sock' \in Sock'
<1> USE SocketAssumption DEF SocketAssumption
<1>0. Sock' = Sock
  BY KindKept DEF Sock
<1>t. /\ sock \in Sock /\ kind \in Kinds /\ pending \in Nat
      /\ Burst[kind] \in Nat /\ PollBurst[kind] \in Nat
      /\ sock.accepted + pending <= MaxArrivals
  BY DEF IInv, TypeOK, Accounted, Sock, Bounded
<1>1. CASE Gather
  <2>1. PICK tooLong \in BOOLEAN : sock' = Gathered(tooLong)
    BY <1>1 DEF Gather
  <2>2. Gathered(tooLong) \in Sock
    <3> DEFINE d == sock.deferred /\ ~tooLong /\ ~Lifted(tooLong)
               a == sock.activated \/ tooLong
               resumed == open /\ ~sock.limit /\ sock.paused = "due"
               q == IF resumed THEN "no" ELSE sock.paused
               n == IF resumed THEN 0 ELSE sock.polls
    <3>1. d \in BOOLEAN /\ a \in BOOLEAN
      OBVIOUS
    <3>2. q \in {"no", "yes", "due"} /\ n \in 0 .. PollBurst[kind]
      BY <1>t DEF Sock
    <3>3. Gathered(tooLong) =
            [sock EXCEPT !.deferred = d, !.activated = a, !.paused = q, !.polls = n]
      BY DEF Gathered
    <3> HIDE DEF d, a, q, n
    <3> QED BY <3>1, <3>2, <3>3, <1>t DEF Sock
  <2> QED BY <2>1, <2>2, <1>0
<1>2. CASE PauseElapses
  BY <1>2, <1>0, <1>t DEF PauseElapses, Sock
<1>3. CASE Age
  <2>1. CASE sock.triggers > 0 /\ sock' = [sock EXCEPT !.triggers = sock.triggers - 1]
    <3>1. sock.triggers - 1 \in 0 .. Burst[kind]
      BY <2>1, <1>t DEF Sock
    <3> QED BY <2>1, <3>1, <1>0, <1>t DEF Sock
  <2>2. CASE sock.polls > 0 /\ sock' = [sock EXCEPT !.polls = sock.polls - 1]
    <3>1. sock.polls - 1 \in 0 .. PollBurst[kind]
      BY <2>2, <1>t DEF Sock
    <3> QED BY <2>2, <3>1, <1>0, <1>t DEF Sock
  <2> QED BY <1>3, <2>1, <2>2 DEF Age
<1>8. CASE check_poll_rate_limit \/ check_trigger_rate_limit \/ Admit
  <2>1. ~PollLimited => Polls \in 0 .. PollBurst[kind]
    BY <1>t DEF PollLimited, Polls, Sock
  <2>2. ~TriggerLimited => (IF Burst[kind] > 0 THEN sock.triggers + 1 ELSE sock.triggers) \in 0 .. Burst[kind]
    BY <1>t DEF TriggerLimited, Sock
  <2>3. CASE check_poll_rate_limit
    BY <2>3, <1>0, <1>t DEF check_poll_rate_limit, Sock
  <2>4. CASE check_trigger_rate_limit
    BY <2>4, <2>1, <1>0, <1>t DEF check_trigger_rate_limit, Sock
  <2>5. CASE Admit
    BY <2>5, <2>1, <2>2, <1>0, <1>t DEF Admit, Sock
  <2> QED BY <1>8, <2>3, <2>4, <2>5
<1>4. CASE MarkThenRead \/ Defer \/ Rearm \/ ConditionSkips \/ StopperRearms
  BY <1>4, <1>0, <1>t DEF MarkThenRead, SetMark, ReadStatus, Defer, Rearm, ConditionSkips,
                          StopperRearms, Sock
<1>5. CASE Accept
  <2>1. sock.accepted + 1 \in 0 .. MaxArrivals /\ sock.active + 1 \in Nat
    BY <1>5, <1>t DEF Accept, Sock
  <2> QED BY <1>5, <2>1, <1>0, <1>t DEF Accept, Sock
<1>6. CASE Instantiate
  <2>1. sock.active > 0
    BY <1>6 DEF Instantiate, IInv, InstanceCounted
  <2>2. sock.active - 1 \in Nat
    BY <2>1, <1>t DEF Sock
  <2>3. sock' = sock \/ sock' = [sock EXCEPT !.active = @ - 1]
    BY <1>6 DEF Instantiate
  <2> QED BY <2>2, <2>3, <1>0, <1>t DEF Sock
<1>7. CASE UNCHANGED sock
  BY <1>7, <1>0, <1>t
<1> QED
  BY <1>1, <1>2, <1>3, <1>4, <1>5, <1>6, <1>7, <1>8
  DEF Next, vars, handle_accept_no, handle_accept_yes, Wake, Interrupted, Decide, LeftAlone,
      MissingDependency, Unwanted, Fork, ForkSucceeds, ForkFails, Judge, Reject, Connect,
      Serve, InstanceExits, BootStart, ControlStart, BeginsElsewhere, DepsStart, StartEnds, StartSkipped,
      BeginStop, EndStop, StopperLooks, StopperNotifies, CloseSocket, OpenSocket, SocketOpened,
      ConflictStarts, ConflictEnds

(* Where the thread comes from.                                            *)
LEMMA PcFrame ==
    ASSUME thread \in Thread, [Next]_vars
    PROVE  /\ thread'.pc = "instance" => thread.pc = "instance" \/ Accept
           /\ thread'.pc = "fork" => thread.pc = "fork" \/ Fork
           /\ thread'.pc \notin {"gather", "select"}
                => thread.pc \notin {"gather", "select"} \/ Wake
           /\ thread'.pc = "select" =>
                \/ Gather
                \/ thread' = thread /\ ~CloseSocket /\ ~OpenSocket
                \/ (CloseSocket \/ OpenSocket) /\ thread.pc = "select"
<1>1. CASE Gather
  BY <1>1 DEF Gather, Thread
<1>2. CASE Wake
  BY <1>2, IdleTyped DEF Wake, Idle, Thread
<1>3. CASE Interrupted
  BY <1>3 DEF Interrupted, Idle
<1>4. CASE check_poll_rate_limit \/ check_trigger_rate_limit \/ Defer \/ Rearm \/ Reject \/ Instantiate
  BY <1>4, GotoTyped DEF check_poll_rate_limit, check_trigger_rate_limit, Defer, Rearm,
                         Reject, Instantiate
<1>5. CASE Admit \/ Decide \/ Judge \/ Accept
  BY <1>5, GotoTyped DEF Admit, Decide, Judge, Accept, At
<1>6. CASE MarkThenRead
  BY <1>6, GotoTyped DEF MarkThenRead, SetMark, ReadStatus, Thread, At
<1>7. CASE LeftAlone \/ MissingDependency \/ Unwanted \/ ForkSucceeds \/ ForkFails \/ ConditionSkips
  BY <1>7, ReturnsTyped DEF LeftAlone, MissingDependency, Unwanted, ForkSucceeds, ForkFails, ConditionSkips, At
<1>8. CASE Fork
  BY <1>8, GotoTyped, ReturnsTyped DEF Fork, At
<1>9. CASE CloseSocket \/ OpenSocket
  BY <1>9 DEF CloseSocket, OpenSocket, Thread
<1>10. CASE UNCHANGED thread /\ ~CloseSocket /\ ~OpenSocket
  BY <1>10
<1> QED
  BY <1>1, <1>2, <1>3, <1>4, <1>5, <1>6, <1>7, <1>8, <1>9, <1>10
  DEF Next, vars, handle_accept_no, handle_accept_yes, PauseElapses, Age, Connect, Serve,
      InstanceExits, BootStart, ControlStart, BeginsElsewhere, DepsStart, StartEnds, StartSkipped,
      BeginStop, EndStop, StopperLooks, StopperRearms, StopperNotifies, OpenSocket, SocketOpened,
      ConflictStarts, ConflictEnds

(* Who changes what of the socket's flags and counters.                    *)
LEMMA SockFrame ==
    ASSUME sock \in Sock, [Next]_vars
    PROVE  /\ Accept \/ sock'.accepted = sock.accepted
           /\ Accept \/ Instantiate \/ sock'.active = sock.active
           /\ check_trigger_rate_limit \/ sock'.limit = sock.limit
           /\ Gather \/ Defer \/ sock'.deferred = sock.deferred
BY DEF Sock, Gathered, SetMark, ReadStatus, Next, vars, service, rest, fixed, Gather, Wake, Interrupted,
  PauseElapses, Age, check_poll_rate_limit, check_trigger_rate_limit, Admit,
  handle_accept_no, MarkThenRead, Defer, Decide, LeftAlone, MissingDependency, Unwanted,
  Fork, ForkSucceeds, ForkFails, ConditionSkips, Judge, Rearm, handle_accept_yes, Reject, Accept,
  Instantiate, Connect, Serve, InstanceExits, BootStart, ControlStart, BeginsElsewhere,
  DepsStart, StartEnds, StartSkipped, BeginStop, EndStop, StopperLooks, StopperRearms, StopperNotifies,
  CloseSocket, OpenSocket, SocketOpened, ConflictStarts, ConflictEnds

LEMMA DoneFrame ==
    ASSUME [Next]_vars, done \in [Bounded -> Nat]
    PROVE  /\ done' \in [Bounded -> Nat]
           /\ Connect \/ done'["arrivals"] = done["arrivals"]
<1>1. \/ Connect
      \/ UNCHANGED done
      \/ \E b \in {"refusals", "others"} : done' = [done EXCEPT ![b] = @ + 1]
  BY DEF Count, Next, vars, service, rest, fixed, Gather, Wake, Interrupted,
  PauseElapses, Age, check_poll_rate_limit, check_trigger_rate_limit, Admit,
  handle_accept_no, MarkThenRead, Defer, Decide, LeftAlone, MissingDependency, Unwanted,
  Fork, ForkSucceeds, ForkFails, ConditionSkips, Judge, Rearm, handle_accept_yes, Reject, Accept,
  Instantiate, Connect, Serve, InstanceExits, BootStart, ControlStart, BeginsElsewhere,
  DepsStart, StartEnds, StartSkipped, BeginStop, EndStop, StopperLooks, StopperRearms, StopperNotifies,
  CloseSocket, OpenSocket, SocketOpened, ConflictStarts, ConflictEnds
<1>2. CASE Connect
  BY <1>2 DEF Connect, Count, Bounded
<1> QED BY <1>1, <1>2 DEF Bounded

LEMMA PendingFrame ==
    ASSUME [Next]_vars
    PROVE  \/ Connect
           \/ pending' \in {0, pending} /\ ~Accept
           \/ pending' = pending - 1 /\ pending > 0
BY DEF Flushed, Next, vars, service, rest, fixed, Gather, Wake, Interrupted,
  PauseElapses, Age, check_poll_rate_limit, check_trigger_rate_limit, Admit,
  handle_accept_no, MarkThenRead, Defer, Decide, LeftAlone, MissingDependency, Unwanted,
  Fork, ForkSucceeds, ForkFails, ConditionSkips, Judge, Rearm, handle_accept_yes, Reject, Accept,
  Instantiate, Connect, Serve, InstanceExits, BootStart, ControlStart, BeginsElsewhere,
  DepsStart, StartEnds, StartSkipped, BeginStop, EndStop, StopperLooks, StopperRearms, StopperNotifies,
  CloseSocket, OpenSocket, SocketOpened, ConflictStarts, ConflictEnds

LEMMA TypeStep == ASSUME IInv, [Next]_vars PROVE TypeOK'
<1> USE SocketAssumption DEF SocketAssumption
<1>1. /\ kind' \in Kinds /\ trouble' \in Troubles \cup {"none"} /\ wanted' \in Wanted
      /\ sock' \in Sock' /\ thread' \in Thread
  BY KindKept, SockTyped, ThreadTyped DEF IInv, TypeOK
<1>2. /\ open' \in BOOLEAN /\ eventfd' \in BOOLEAN /\ depsUp' \in BOOLEAN
      /\ conflict' \in BOOLEAN /\ expired' \in BOOLEAN
  <2>1. ASSUME NEW a, NEW b PROVE (a \/ b) \in BOOLEAN
    OBVIOUS
  <2> QED
    BY <2>1 DEF IInv, TypeOK, Next, vars, service, rest, fixed, Gather, Wake, Interrupted,
  PauseElapses, Age, check_poll_rate_limit, check_trigger_rate_limit, Admit,
  handle_accept_no, MarkThenRead, Defer, Decide, LeftAlone, MissingDependency, Unwanted,
  Fork, ForkSucceeds, ForkFails, ConditionSkips, Judge, Rearm, handle_accept_yes, Reject, Accept,
  Instantiate, Connect, Serve, InstanceExits, BootStart, ControlStart, BeginsElsewhere,
  DepsStart, StartEnds, StartSkipped, BeginStop, EndStop, StopperLooks, StopperRearms, StopperNotifies,
  CloseSocket, OpenSocket, SocketOpened, ConflictStarts, ConflictEnds
<1>3. pending' \in 0 .. MaxArrivals
  <2>1. CASE Connect
    BY <2>1 DEF Connect, Count, IInv, TypeOK, Accounted, Bounded, Sock
  <2> QED BY <2>1, PendingFrame DEF IInv, TypeOK
<1>4. /\ status' \in Statuses /\ stopper' \in {"idle", "check", "write", "notify"}
      /\ opening' \in {"no", "post", "failed"}
  BY DEF IInv, TypeOK, Statuses, Down, Next, vars, service, rest, fixed, Gather, Wake, Interrupted,
  PauseElapses, Age, check_poll_rate_limit, check_trigger_rate_limit, Admit,
  handle_accept_no, MarkThenRead, Defer, Decide, LeftAlone, MissingDependency, Unwanted,
  Fork, ForkSucceeds, ForkFails, ConditionSkips, Judge, Rearm, handle_accept_yes, Reject, Accept,
  Instantiate, Connect, Serve, InstanceExits, BootStart, ControlStart, BeginsElsewhere,
  DepsStart, StartEnds, StartSkipped, BeginStop, EndStop, StopperLooks, StopperRearms, StopperNotifies,
  CloseSocket, OpenSocket, SocketOpened, ConflictStarts, ConflictEnds
<1>5. running' \subseteq 0 .. MaxArrivals
  BY DEF IInv, TypeOK, Sock, Next, vars, service, rest, fixed, Gather, Wake, Interrupted,
  PauseElapses, Age, check_poll_rate_limit, check_trigger_rate_limit, Admit,
  handle_accept_no, MarkThenRead, Defer, Decide, LeftAlone, MissingDependency, Unwanted,
  Fork, ForkSucceeds, ForkFails, ConditionSkips, Judge, Rearm, handle_accept_yes, Reject, Accept,
  Instantiate, Connect, Serve, InstanceExits, BootStart, ControlStart, BeginsElsewhere,
  DepsStart, StartEnds, StartSkipped, BeginStop, EndStop, StopperLooks, StopperRearms, StopperNotifies,
  CloseSocket, OpenSocket, SocketOpened, ConflictStarts, ConflictEnds
<1>6. done' \in [Bounded -> Nat]
  BY DoneFrame DEF IInv, TypeOK
<1> QED
  BY <1>1, <1>2, <1>3, <1>4, <1>5, <1>6 DEF TypeOK

-----------------------------------------------------------------------------
(* The connections. *)

LEMMA AccountedStep == ASSUME IInv, [Next]_vars PROVE Accounted'
<1> USE SocketAssumption DEF SocketAssumption
<1>1. /\ sock \in Sock /\ sock.accepted \in Nat /\ pending \in Nat
      /\ done \in [Bounded -> Nat] /\ done["arrivals"] \in Nat
  BY DEF IInv, TypeOK, Sock, Bounded
<1>2. CASE Connect
  BY <1>1, <1>2, SockFrame DEF IInv, Accounted, Connect, Count, Bounded
<1>3. CASE Accept
  BY <1>1, <1>3 DEF IInv, Accounted, Accept, Sock
<1>4. CASE ~Connect /\ ~Accept
  BY <1>1, <1>4, SockFrame, DoneFrame, PendingFrame DEF IInv, Accounted
<1> QED BY <1>2, <1>3, <1>4

LEMMA InstanceStep == ASSUME IInv, [Next]_vars PROVE InstanceCounted'
<1>1. sock \in Sock /\ sock.active \in Nat /\ thread \in Thread
  BY DEF IInv, TypeOK, Sock
<1>2. CASE Accept
  BY <1>1, <1>2 DEF Accept, InstanceCounted, Sock
<1>3. CASE Instantiate
  BY <1>1, <1>3, GotoTyped DEF Instantiate, InstanceCounted, At
<1>4. CASE ~Accept /\ ~Instantiate
  BY <1>1, <1>4, SockFrame, PcFrame DEF IInv, InstanceCounted, At
<1> QED BY <1>2, <1>3, <1>4

-----------------------------------------------------------------------------
(* The trigger limit. *)

LEMMA LimitStep == ASSUME IInv, [Next]_vars PROVE NotDeferred' /\ LimitIsFinal'
<1>1. sock \in Sock /\ thread \in Thread /\ thread' \in Thread
  BY ThreadTyped DEF IInv, TypeOK
<1> USE <1>1 DEF IInv, NotDeferred, LimitIsFinal, At
<1>2. CASE Gather
  <2>1. PICK tooLong \in BOOLEAN :
          /\ sock' = Gathered(tooLong)
          /\ tooLong => open /\ sock.deferred
          /\ thread' = [thread EXCEPT
                          !.pc = "select", !.watched = open /\ Armed(sock'),
                          !.timed = /\ open /\ ~sock'.limit
                                    /\ sock'.paused # "no" \/ sock'.deferred,
                          !.undeferred = Lifted(tooLong)]
    BY <1>2 DEF Gather
  <2>2. sock'.limit = sock.limit /\ (sock'.deferred => sock.deferred /\ ~Lifted(tooLong))
    BY <2>1 DEF Gathered, Sock
  <2>3. thread'.pc = "select" /\ (thread'.watched => Armed(sock')) /\ (thread'.undeferred => Lifted(tooLong))
    <3> DEFINE w == open /\ Armed(sock')
               t == /\ open /\ ~sock'.limit
                    /\ sock'.paused # "no" \/ sock'.deferred
               l == Lifted(tooLong)
    <3>1. thread' = [thread EXCEPT !.pc = "select", !.watched = w, !.timed = t, !.undeferred = l]
      BY <2>1
    <3>2. (w => Armed(sock')) /\ (l => Lifted(tooLong))
      OBVIOUS
    <3> HIDE DEF w, t, l
    <3>3. thread'.pc = "select" /\ thread'.watched = w /\ thread'.undeferred = l
      BY <3>1 DEF Thread
    <3> QED BY <3>2, <3>3
  <2> QED BY <2>2, <2>3 DEF Armed, Lifted
<1>3. CASE Wake
  BY <1>3, SockFrame DEF Wake, Idle, Thread
<1>4. CASE check_trigger_rate_limit
  <2>1. thread'.pc = "gather" /\ ~sock.deferred
    BY <1>4, GotoTyped DEF check_trigger_rate_limit
  <2>2. sock'.deferred = sock.deferred
    BY <1>4 DEF check_trigger_rate_limit, Sock
  <2> QED BY <2>1, <2>2
<1>5. CASE Defer
  <2>1. thread'.pc = "gather" /\ ~sock.limit
    BY <1>5, GotoTyped DEF Defer
  <2>2. sock'.limit = sock.limit
    BY <1>5 DEF Defer, Sock
  <2> QED BY <2>1, <2>2
<1>6. CASE ~Gather /\ ~Wake /\ ~check_trigger_rate_limit /\ ~Defer
  <2>1. sock'.limit = sock.limit /\ sock'.deferred = sock.deferred
    BY <1>6, SockFrame
  <2>2. CASE CloseSocket \/ OpenSocket
    BY <2>1, <2>2 DEF CloseSocket, OpenSocket, Thread
  <2>3. CASE ~CloseSocket /\ ~OpenSocket
    BY <1>6, <2>1, <2>3, PcFrame
  <2> QED BY <2>2, <2>3
<1> QED BY <1>2, <1>3, <1>4, <1>5, <1>6

-----------------------------------------------------------------------------
(* The sleep. *)

LEMMA StopperStep == ASSUME IInv, [Next]_vars PROVE OneStopper'
<1>1. thread \in Thread
  BY DEF IInv, TypeOK
<1>2. status' = "Stopping" => stopper' = "idle"
  BY DEF IInv, OneStopper, Down, Next, vars, service, rest, fixed, Gather, Wake, Interrupted,
  PauseElapses, Age, check_poll_rate_limit, check_trigger_rate_limit, Admit,
  handle_accept_no, MarkThenRead, Defer, Decide, LeftAlone, MissingDependency, Unwanted,
  Fork, ForkSucceeds, ForkFails, ConditionSkips, Judge, Rearm, handle_accept_yes, Reject, Accept,
  Instantiate, Connect, Serve, InstanceExits, BootStart, ControlStart, BeginsElsewhere,
  DepsStart, StartEnds, StartSkipped, BeginStop, EndStop, StopperLooks, StopperRearms, StopperNotifies,
  CloseSocket, OpenSocket, SocketOpened, ConflictStarts, ConflictEnds
<1>3. thread'.pc = "fork" => status' = "Starting"
  <2>1. CASE Fork
    BY <2>1 DEF Fork
  <2>2. CASE ~Fork /\ thread'.pc = "fork"
    <3>1. At("fork") /\ status = "Starting"
      BY <1>1, <2>2, PcFrame DEF IInv, OneStopper, At
    <3>2. CASE ForkSucceeds \/ ForkFails \/ ConditionSkips \/ Unwanted
      BY <1>1, <3>2, <2>2, ReturnsTyped DEF ForkSucceeds, ForkFails, ConditionSkips, Unwanted
    <3> QED BY <2>2, <3>1, <3>2 DEF Next, vars, service, rest, fixed, Gather, Wake, Interrupted,
  PauseElapses, Age, check_poll_rate_limit, check_trigger_rate_limit, Admit,
  handle_accept_no, MarkThenRead, Defer, Decide, LeftAlone, MissingDependency, Unwanted,
  Fork, ForkSucceeds, ForkFails, ConditionSkips, Judge, Rearm, handle_accept_yes, Reject, Accept,
  Instantiate, Connect, Serve, InstanceExits, BootStart, ControlStart, BeginsElsewhere,
  DepsStart, StartEnds, StartSkipped, BeginStop, EndStop, StopperLooks, StopperRearms, StopperNotifies,
  CloseSocket, OpenSocket, SocketOpened, ConflictStarts, ConflictEnds
  <2> QED BY <2>1, <2>2
<1> QED BY <1>2, <1>3 DEF OneStopper, At

(* The flags the thread collected are current unless the eventfd says so,  *)
(* or a tail is about to.                                                  *)
LEMMA SleepStep == ASSUME IInv, [Next]_vars PROVE SleepIsInformed'
<1>1. sock \in Sock /\ thread \in Thread /\ kind' = kind
  BY KindKept DEF IInv, TypeOK
<1>2. SUFFICES ASSUME thread'.pc = "select", ~thread'.timed, ~eventfd', stopper' # "notify",
                      opening' = "no"
               PROVE  thread'.watched <=> (open' /\ Armed(sock)')
  BY DEF SleepIsInformed, At
<1>3. CASE Gather
  BY <1>1, <1>3 DEF Gather, Thread, Armed
<1>4. CASE CloseSocket
  BY <1>1, <1>4 DEF CloseSocket, Thread
<1>6. CASE OpenSocket
  BY <1>2, <1>6 DEF OpenSocket
<1>5. CASE thread' = thread /\ ~CloseSocket /\ ~OpenSocket /\ ~Gather
  <2>1. ~eventfd /\ stopper # "notify" /\ opening = "no"
    <3>1. ~Wake
      BY <1>2, <1>5 DEF Wake, Idle, At
    <3>2. ~eventfd
      BY <1>2, <1>5, <3>1 DEF Next, vars, service, rest, fixed, Gather, Wake, Interrupted,
  PauseElapses, Age, check_poll_rate_limit, check_trigger_rate_limit, Admit,
  handle_accept_no, MarkThenRead, Defer, Decide, LeftAlone, MissingDependency, Unwanted,
  Fork, ForkSucceeds, ForkFails, ConditionSkips, Judge, Rearm, handle_accept_yes, Reject, Accept,
  Instantiate, Connect, Serve, InstanceExits, BootStart, ControlStart, BeginsElsewhere,
  DepsStart, StartEnds, StartSkipped, BeginStop, EndStop, StopperLooks, StopperRearms, StopperNotifies,
  CloseSocket, OpenSocket, SocketOpened, ConflictStarts, ConflictEnds
    <3>3. stopper # "notify"
      BY <1>2, <1>5 DEF IInv, OneStopper, Next, vars, service, rest, fixed, Gather, Wake, Interrupted,
  PauseElapses, Age, check_poll_rate_limit, check_trigger_rate_limit, Admit,
  handle_accept_no, MarkThenRead, Defer, Decide, LeftAlone, MissingDependency, Unwanted,
  Fork, ForkSucceeds, ForkFails, ConditionSkips, Judge, Rearm, handle_accept_yes, Reject, Accept,
  Instantiate, Connect, Serve, InstanceExits, BootStart, ControlStart, BeginsElsewhere,
  DepsStart, StartEnds, StartSkipped, BeginStop, EndStop, StopperLooks, StopperRearms, StopperNotifies,
  CloseSocket, OpenSocket, SocketOpened, ConflictStarts, ConflictEnds
    <3>4. opening = "no"
      BY <1>2, <1>5 DEF Next, vars, service, rest, fixed, Gather, Wake, Interrupted,
  PauseElapses, Age, check_poll_rate_limit, check_trigger_rate_limit, Admit,
  handle_accept_no, MarkThenRead, Defer, Decide, LeftAlone, MissingDependency, Unwanted,
  Fork, ForkSucceeds, ForkFails, ConditionSkips, Judge, Rearm, handle_accept_yes, Reject, Accept,
  Instantiate, Connect, Serve, InstanceExits, BootStart, ControlStart, BeginsElsewhere,
  DepsStart, StartEnds, StartSkipped, BeginStop, EndStop, StopperLooks, StopperRearms, StopperNotifies,
  CloseSocket, OpenSocket, SocketOpened, ConflictStarts, ConflictEnds
    <3> QED BY <3>2, <3>3, <3>4
  <2>2. thread.watched <=> (open /\ Armed(sock))
    BY <1>2, <1>5, <2>1 DEF IInv, SleepIsInformed, At
  <2>3. open' = open
    BY <1>2, <1>5 DEF Next, vars, service, rest, fixed, Gather, Wake, Interrupted,
  PauseElapses, Age, check_poll_rate_limit, check_trigger_rate_limit, Admit,
  handle_accept_no, MarkThenRead, Defer, Decide, LeftAlone, MissingDependency, Unwanted,
  Fork, ForkSucceeds, ForkFails, ConditionSkips, Judge, Rearm, handle_accept_yes, Reject, Accept,
  Instantiate, Connect, Serve, InstanceExits, BootStart, ControlStart, BeginsElsewhere,
  DepsStart, StartEnds, StartSkipped, BeginStop, EndStop, StopperLooks, StopperRearms, StopperNotifies,
  CloseSocket, OpenSocket, SocketOpened, ConflictStarts, ConflictEnds
  <2>4. sock' = sock \/ PauseElapses \/ Age
    BY <1>1, <1>2, <1>5 DEF At, Next, vars, service, rest, fixed, Gather, Wake, Interrupted,
  PauseElapses, Age, check_poll_rate_limit, check_trigger_rate_limit, Admit,
  handle_accept_no, MarkThenRead, Defer, Decide, LeftAlone, MissingDependency, Unwanted,
  Fork, ForkSucceeds, ForkFails, ConditionSkips, Judge, Rearm, handle_accept_yes, Reject, Accept,
  Instantiate, Connect, Serve, InstanceExits, BootStart, ControlStart, BeginsElsewhere,
  DepsStart, StartEnds, StartSkipped, BeginStop, EndStop, StopperLooks, StopperRearms, StopperNotifies,
  CloseSocket, OpenSocket, SocketOpened, ConflictStarts, ConflictEnds
  <2>5. Armed(sock)' <=> Armed(sock)
    BY <1>1, <2>4 DEF PauseElapses, Age, Armed, Sock
  <2> QED BY <1>5, <2>2, <2>3, <2>5
<1> QED BY <1>1, <1>2, <1>3, <1>4, <1>5, <1>6, PcFrame

-----------------------------------------------------------------------------

LEMMA Invariance == Spec => []IInv
<1>1. IInv /\ [Next]_vars => IInv'
  BY TypeStep, AccountedStep, InstanceStep, LimitStep, StopperStep, SleepStep DEF IInv
<1> QED BY <1>1, InitIInv, PTL DEF Spec

(* The socket, the thread and the service keep their types: no counter of  *)
(* a limit runs over it, and none goes below zero.                         *)
THEOREM SocketTypes == Spec => []TypeOK
<1>1. IInv => TypeOK
  BY DEF IInv
<1> QED BY <1>1, Invariance, PTL

(* wait_for_socket never sleeps through a re-arm or a new descriptor.      *)
THEOREM NoMissedRearm == Spec => []SleepIsInformed
<1>1. IInv => SleepIsInformed
  BY DEF IInv
<1> QED BY <1>1, Invariance, PTL

(* A socket over TriggerLimitBurst= is never handled again.                *)
THEOREM TriggerLimitHolds == Spec => []LimitIsFinal
<1>1. IInv => LimitIsFinal
  BY DEF IInv
<1> QED BY <1>1, Invariance, PTL

=============================================================================
