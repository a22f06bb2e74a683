--------------------------- MODULE StartWaitProofs ---------------------------
(***************************************************************************)
(* Proofs about StartWait, for every Type= and both kinds of contention.   *)
(***************************************************************************)
EXTENDS StartWait, SequenceTheorems, TLAPS

Holds(q, S) == \E i \in 1 .. Len(q) : q[i] \in S
Queued(S) == Holds(queue, S)

(* What an event, a flag or a counter says about the Type= of the service. *)
TypesTell ==
    /\ watchers > 0 \/ Queued({"named", "unnamed"}) => conf.type = "dbus"
    /\ Queued({"203"}) \/ srvc.exit = "203" => conf.type = "exec"
    /\ "READY" \in sent \/ srvc.ready => conf.type = "notify"
    /\ conf.again => conf.type \in Reparked

(* What was read is announced.                                             *)
Announced == buffer # {} => notify

(* A wait that stays parked was looked at after the last change, unless    *)
(* its own deadline read the READY=1.                                      *)
Looked ==
    wait # NoWait /\ status = "Starting" =>
        wait.grace = "late" \/ Verdict(wait, srvc, FALSE) = "Pending"

(* A report ends the wait that meets it.                                   *)
Reported == wait # NoWait /\ srvc.ready => wait.grace = "late"

WaitInv == TypeOK /\ TypesTell /\ Announced /\ Looked /\ Reported

-----------------------------------------------------------------------------

NobodyEnds == tail.at = "none" /\ ~poststop /\ BagToSet(finish) = {}

(* The first registration is handled before any other event of the queue.  *)
FirstPark ==
    ~conf.again /\ Queued({"park"}) =>
        /\ queue[1] = "park" /\ \A i \in 2 .. Len(queue) : queue[i] # "park"
        /\ NobodyEnds /\ status = "Starting" /\ wait = NoWait

(* What a oneshot that is parked again finds: whoever ends the first start *)
(* has the exit of its process, or it is the next event.                   *)
ExitFirst ==
    conf.type = "oneshot" =>
        /\ tail.at # "none" \/ BagToSet(finish) # {} => srvc.exit # "none"
        /\ poststop => srvc.exit # "none" \/ (queue # << >> /\ Head(queue) \in Codes)
        /\ proc # "main" /\ srvc.mainPid => Queued(Codes)

(* An exec() waits for its confirmation; every other wait is the only one  *)
(* who decides, but for a second one of certain types.                     *)
WaitDecides ==
    wait # NoWait /\ ~Refound => IF conf.type = "exec" THEN wait.confirm
                                 ELSE status = "Starting" /\ NobodyEnds

TermInv == WaitInv /\ FirstPark /\ ExitFirst /\ WaitDecides

-----------------------------------------------------------------------------
(* Bags and the queue. *)

LEMMA OneMore ==
    ASSUME NEW B, IsABag(B), NEW x
    PROVE  IsABag(B (+) SetToBag({x})) /\ BagToSet(B (+) SetToBag({x})) = BagToSet(B) \cup {x}
<1> DEFINE C == B (+) SetToBag({x})
<1>1. DOMAIN C = DOMAIN B \cup {x} /\ C = [e \in DOMAIN C |-> C[e]]
  BY DEF (+), SetToBag
<1>2. ASSUME NEW e \in DOMAIN C PROVE C[e] \in Nat /\ C[e] > 0
  BY <1>2 DEF IsABag, (+), SetToBag
<1> QED BY <1>1, <1>2 DEF IsABag, BagToSet

LEMMA OneLess ==
    ASSUME NEW B, IsABag(B), NEW x
    PROVE  IsABag(B (-) SetToBag({x})) /\ BagToSet(B (-) SetToBag({x})) \subseteq BagToSet(B)
<1> DEFINE C == B (-) SetToBag({x})
<1>1. DOMAIN C \subseteq DOMAIN B /\ C = [e \in DOMAIN C |-> C[e]]
  BY DEF (-), SetToBag
<1>2. ASSUME NEW e \in DOMAIN C PROVE C[e] \in Nat /\ C[e] > 0
  BY <1>2 DEF IsABag, (-), SetToBag
<1> QED BY <1>1, <1>2 DEF IsABag, BagToSet

LEMMA NoMore ==
    ASSUME NEW B, IsABag(B)
    PROVE  B (+) SetToBag({}) = B
BY DEF IsABag, (+), SetToBag

Events == {"park", "named", "unnamed"} \cup Codes

(* The queue with one event more, with one less, or both. *)
LEMMA QueuedAppend ==
    ASSUME NEW q \in Seq(Events), NEW e \in Events
    PROVE  /\ Append(q, e) \in Seq(Events) /\ Append(q, e) # << >>
           /\ Len(Append(q, e)) = Len(q) + 1 /\ Len(q) \in Nat
           /\ \A i \in 1 .. Len(q) : Append(q, e)[i] = q[i]
           /\ Append(q, e)[Len(q) + 1] = e
OBVIOUS

LEMMA QueuedTail ==
    ASSUME NEW q \in Seq(Events), q # << >>
    PROVE  /\ Tail(q) \in Seq(Events) /\ Head(q) = q[1] /\ Head(q) \in Events
           /\ Len(q) \in Nat /\ Len(q) >= 1 /\ Len(Tail(q)) = Len(q) - 1
           /\ \A i \in 1 .. Len(q) - 1 : Tail(q)[i] = q[i + 1]
OBVIOUS

LEMMA HoldsAppend ==
    ASSUME NEW q \in Seq(Events), NEW e \in Events, NEW S
    PROVE  Holds(Append(q, e), S) <=> Holds(q, S) \/ e \in S
BY QueuedAppend DEF Holds

LEMMA HoldsTail ==
    ASSUME NEW q \in Seq(Events), q # << >>, NEW S
    PROVE  Holds(q, S) <=> Holds(Tail(q), S) \/ Head(q) \in S
<1>1. ASSUME Holds(Tail(q), S) PROVE Holds(q, S)
  <2>1. PICK i \in 1 .. Len(q) - 1 : q[i + 1] \in S
    BY <1>1, QueuedTail DEF Holds
  <2>2. i + 1 \in 1 .. Len(q)
    BY QueuedTail
  <2> QED BY <2>1, <2>2 DEF Holds
<1>2. ASSUME Holds(q, S), Head(q) \notin S PROVE Holds(Tail(q), S)
  <2>1. PICK i \in 1 .. Len(q) : q[i] \in S
    BY <1>2 DEF Holds
  <2>2. i # 1 /\ i - 1 \in 1 .. Len(q) - 1 /\ (i - 1) + 1 = i
    BY <1>2, <2>1, QueuedTail
  <2> QED BY <2>1, <2>2, QueuedTail DEF Holds
<1>3. ASSUME Head(q) \in S PROVE Holds(q, S)
  BY <1>3, QueuedTail DEF Holds
<1> QED BY <1>1, <1>2, <1>3

-----------------------------------------------------------------------------
(* What a verdict does, and what a notification. *)

Srvc == [exit : {"none"} \cup Codes, mainPid : BOOLEAN, ready : BOOLEAN,
         extend : {"none", "runs", "over"}]

LEMMA AppliedTyped ==
    ASSUME srvc \in Srvc, NEW ds
    PROVE  /\ Applied(ds) \in Srvc
           /\ Applied(ds).exit = srvc.exit /\ Applied(ds).mainPid = srvc.mainPid
           /\ Applied(ds).ready <=> srvc.ready \/ "READY" \in ds
           /\ ds = {} => Applied(ds) = srvc
<1> DEFINE r == srvc.ready \/ "READY" \in ds
           x == IF "EXTEND" \in ds THEN "runs" ELSE srvc.extend
<1>1. Applied(ds) = [srvc EXCEPT !.ready = r, !.extend = x]
  BY Zenon DEF Applied
<1>2. r \in BOOLEAN
  OBVIOUS
<1>3. x \in {"none", "runs", "over"}
  BY DEF Srvc
<1>4. ds = {} => x = srvc.extend
  OBVIOUS
<1>5. r <=> srvc.ready \/ "READY" \in ds
  OBVIOUS
<1>6. ds = {} => r = srvc.ready
  <2>1. srvc.ready \in BOOLEAN
    BY DEF Srvc
  <2> QED BY <2>1, Zenon
<1> HIDE DEF r, x
<1>7. Applied(ds) \in Srvc /\ Applied(ds).exit = srvc.exit /\ Applied(ds).mainPid = srvc.mainPid
      /\ Applied(ds).ready = r
  BY <1>1, <1>2, <1>3 DEF Srvc
<1>8. Applied(ds).ready <=> srvc.ready \/ "READY" \in ds
  BY <1>5, <1>7, Zenon
<1>9. ds = {} => Applied(ds) = srvc
  <2>1. srvc = [srvc EXCEPT !.ready = srvc.ready, !.extend = srvc.extend]
    BY Zenon DEF Srvc
  <2> QED BY <2>1, <1>1, <1>4, <1>6
<1> QED BY <1>7, <1>8, <1>9

LEMMA FailStartEffect ==
    ASSUME NEW q, FailStart(q), status \in {"Starting", "Started", "Stopped", "Failed"},
           poststop \in BOOLEAN, proc \in {"main", "daemon", "none"}
    PROVE  /\ wait' = NoWait /\ finish' = finish /\ poststop' \in BOOLEAN
           /\ status' = status \/ (status = "Starting" /\ status' = "Failed")
           /\ proc' \in {proc, "none"}
           /\ \/ queue' = q /\ (proc' # proc => proc # "main")
              \/ queue' = Append(q, "fail") /\ proc = "main" /\ proc' = "none"
BY DEF FailStart, CleanedUp

LEMMA ProgressEffect ==
    ASSUME NEW w, NEW s, NEW c, NEW q, Progress(w, s, c, q),
           status \in {"Starting", "Started", "Stopped", "Failed"},
           poststop \in BOOLEAN, proc \in {"main", "daemon", "none"}
    PROVE  /\ srvc' = s \/ (conf.type = "forking" /\ srvc' = [s EXCEPT !.exit = "none"])
           /\ \/ wait' = NoWait
              \/ /\ wait' = w /\ Verdict(w, s, c) = "Pending" /\ srvc' = s
                 /\ UNCHANGED << status, poststop, finish, proc >>
           /\ \/ finish' = finish
              \/ finish' = finish (+) SetToBag({"check"}) /\ Verdict(w, s, c) = "Ready"
           /\ poststop' \in BOOLEAN
           /\ poststop' # poststop => Verdict(w, s, c) = "Fail"
           /\ status' = status \/ (status = "Starting" /\ status' = "Failed")
           /\ proc' \in {proc, "none"}
           /\ \/ queue' = q /\ (proc' # proc => proc # "main")
              \/ queue' = Append(q, "fail") /\ proc = "main" /\ proc' = "none"
<1>1. CASE Verdict(w, s, c) = "Fail"
  BY <1>1, FailStartEffect DEF Progress
<1>2. CASE Verdict(w, s, c) # "Fail"
  BY <1>2 DEF Progress
<1> QED BY <1>1, <1>2

-----------------------------------------------------------------------------
(* Types, one variable after the other. *)

LEMMA ConfKept ==
    ASSUME TypeOK, [Next]_vars
    PROVE  /\ conf' \in [type : Types, stoppost : BOOLEAN, again : BOOLEAN]
           /\ conf'.type = conf.type
           /\ conf'.again # conf.again => ParkAgain /\ conf'.again
           /\ ~ParkAgain => conf' = conf
<1>1. CASE ParkAgain
  BY <1>1 DEF ParkAgain, TypeOK
<1>2. CASE ~ParkAgain
  <2> conf' = conf
    BY <1>2 DEF Next, vars, unit, Environment, Send, ProcessExits, ReadSocket, ExtensionEnds,
                WatcherReports, Dispatcher, OnNotify, OnPark, PoststopEnds, OnExit, OnName,
                ExpireConfirm, ExpireGrace, ExpireTerm, ExpireKill, Finisher, FinishCheck,
                FinishPost, FinishClear, FinishFlip, ExitTail, TailLook, TailAct
  <2> QED BY <1>2 DEF TypeOK
<1> QED BY <1>1, <1>2

LEMMA NotesTyped ==
    ASSUME TypeOK, Announced, [Next]_vars
    PROVE  /\ sent' \subseteq Datagram /\ socket' \subseteq sent' /\ buffer' \subseteq sent'
           /\ notify' \in BOOLEAN /\ termed' \in BOOLEAN
           /\ Announced'
<1>1. CASE \E d \in Datagram : Send(d)
  BY <1>1 DEF Send, TypeOK, disp, Announced
<1>2. CASE ReadSocket
  BY <1>2 DEF ReadSocket, TypeOK, Announced
<1>3. CASE OnNotify
  BY <1>3 DEF OnNotify, TypeOK, Announced
<1>4. CASE ExpireGrace
  BY <1>4 DEF ExpireGrace, TypeOK, Announced
<1>5. CASE ExpireTerm
  BY <1>5 DEF ExpireTerm, TypeOK, notes, Announced
<1>6. CASE UNCHANGED << sent, socket, buffer, notify, termed >>
  BY <1>6 DEF TypeOK, Announced
<1> QED
  BY <1>1, <1>2, <1>3, <1>4, <1>5, <1>6
  DEF Next, vars, notes, disp, Environment, ProcessExits, ParkAgain, ExtensionEnds,
      WatcherReports, Dispatcher, OnPark, PoststopEnds, OnExit, OnName, ExpireConfirm,
      ExpireKill, Finisher, FinishCheck, FinishPost, FinishClear, FinishFlip, ExitTail,
      TailLook, TailAct

(* What a verdict may change. *)
Core ==
    /\ srvc \in Srvc
    /\ wait \in Wait \cup {NoWait}
    /\ queue \in Seq(Events)
    /\ IsABag(finish) /\ BagToSet(finish) \subseteq {"check", "post", "clear", "flip"}
    /\ proc \in {"main", "daemon", "none"}
    /\ status \in {"Starting", "Started", "Stopped", "Failed"}
    /\ poststop \in BOOLEAN

LEMMA CoreOfTypeOK == TypeOK => Core
BY DEF TypeOK, Core, Srvc, Events

LEMMA NewWaitTyped == NewWait \in Wait
<1> DEFINE c == conf.type = "exec"
<1>1. NewWait = [grace |-> "unused", term |-> FALSE, dbus |-> FALSE, confirm |-> c]
  BY DEF NewWait
<1>2. Wait = [grace : {"unused", "used", "late"}, term : BOOLEAN, dbus : {FALSE, conf.type = "dbus"},
              confirm : {FALSE, c}]
  BY DEF Wait
<1> HIDE DEF c
<1> QED BY <1>1, <1>2

LEMMA ProgressTyped ==
    ASSUME Core, conf'.type = conf.type,
           NEW w \in Wait, NEW s \in Srvc, NEW c, NEW q \in Seq(Events), Progress(w, s, c, q)
    PROVE  Core'
<1>1. Wait' = Wait
  BY DEF Wait
<1>2. IsABag(finish') /\ BagToSet(finish') \subseteq {"check", "post", "clear", "flip"}
  <2>1. finish' = finish \/ finish' = finish (+) SetToBag({"check"})
    BY ProgressEffect DEF Core
  <2>2. IsABag(finish) /\ BagToSet(finish) \subseteq {"check", "post", "clear", "flip"}
    BY DEF Core
  <2> DEFINE B == finish (+) SetToBag({"check"})
  <2>3. IsABag(B) /\ BagToSet(B) = BagToSet(finish) \cup {"check"}
    BY <2>2, OneMore
  <2> HIDE DEF B
  <2>4. CASE finish' = B
    BY <2>2, <2>3, <2>4
  <2> QED BY <2>1, <2>2, <2>4 DEF B
<1>3. queue' \in Seq(Events)
  <2>1. "fail" \in Events
    BY DEF Events, Codes
  <2> QED BY <2>1, ProgressEffect, QueuedAppend DEF Core
<1>4. srvc' \in Srvc
  <2>1. [s EXCEPT !.exit = "none"] \in Srvc
    BY DEF Srvc
  <2> QED BY <2>1, ProgressEffect DEF Core
<1>5. wait' \in Wait' \cup {NoWait}
  BY <1>1, ProgressEffect DEF Core
<1>6. status' \in {"Starting", "Started", "Stopped", "Failed"} /\ poststop' \in BOOLEAN
      /\ proc' \in {"main", "daemon", "none"}
  BY ProgressEffect DEF Core
<1> QED BY <1>1, <1>2, <1>3, <1>4, <1>5, <1>6 DEF Core

LEMMA FailStartTyped ==
    ASSUME Core, conf'.type = conf.type, NEW q \in Seq(Events), FailStart(q), srvc' = srvc
    PROVE  Core'
<1>1. queue' \in Seq(Events)
  <2>1. "fail" \in Events
    BY DEF Events, Codes
  <2> QED BY <2>1, FailStartEffect, QueuedAppend DEF Core
<1>2. wait' \in (Wait \cup {NoWait})'
  BY FailStartEffect DEF Core, NoWait
<1> QED BY <1>1, <1>2, FailStartEffect DEF Core

LEMMA ParkedTyped ==
    ASSUME Core, conf'.type = conf.type, NEW s \in Srvc, NEW q \in Seq(Events),
           ProgressParked(s, q)
    PROVE  Core'
<1>1. CASE wait = NoWait
  <2>1. wait' \in (Wait \cup {NoWait})'
    BY <1>1 DEF ProgressParked, NoWait
  <2> QED BY <1>1, <2>1 DEF ProgressParked, Core
<1>2. CASE wait # NoWait
  BY <1>2, ProgressTyped DEF ProgressParked, Core
<1> QED BY <1>1, <1>2

LEMMA FinisherTyped ==
    ASSUME Core, NEW from, NEW to \in {{}, {"post"}, {"clear"}, {"flip"}}, FinisherAt(from, to)
    PROVE  IsABag(finish') /\ BagToSet(finish') \subseteq {"check", "post", "clear", "flip"}
<1> DEFINE B == finish (-) SetToBag({from})
<1>1. IsABag(B) /\ BagToSet(B) \subseteq {"check", "post", "clear", "flip"}
  BY OneLess DEF Core
<1>2. finish' = B (+) SetToBag(to)
  BY DEF FinisherAt
<1> HIDE DEF B
<1> QED BY <1>1, <1>2, NoMore, OneMore

(* A name is only reported for a bus service. *)
LEMMA NamedTyped ==
    ASSUME TypeOK, TypesTell, wait # NoWait, Turn("named")
    PROVE  [wait EXCEPT !.dbus = TRUE] \in Wait /\ conf.type = "dbus"
<1>1. conf.type = "dbus"
  <2>1. Queued({"named", "unnamed"})
    <3>1. queue \in Seq(Events) /\ queue # << >> /\ Head(queue) = "named"
      BY CoreOfTypeOK DEF Core, Turn
    <3> QED BY <3>1, QueuedTail DEF Queued, Holds
  <2> QED BY <2>1 DEF TypesTell
<1>2. wait \in Wait
  BY CoreOfTypeOK DEF Core
<1> DEFINE c == conf.type = "exec"
<1>3. Wait = [grace : {"unused", "used", "late"}, term : BOOLEAN, dbus : {FALSE, TRUE}, confirm : {FALSE, c}]
  BY <1>1 DEF Wait
<1> HIDE DEF c
<1> QED BY <1>1, <1>2, <1>3

LEMMA CoreTyped == ASSUME TypeOK, TypesTell, [Next]_vars PROVE Core'
<1>0. /\ Core /\ conf'.type = conf.type /\ Wait' = Wait
      /\ srvc \in Srvc /\ queue \in Seq(Events)
      /\ (wait # NoWait => wait \in Wait)
  BY CoreOfTypeOK, ConfKept DEF Core, Wait
<1>q. queue # << >> => Tail(queue) \in Seq(Events)
  BY <1>0, QueuedTail
<1>1. CASE OnNotify
  BY <1>0, <1>1, AppliedTyped, ParkedTyped DEF OnNotify
<1>2. CASE \E code \in Codes : OnExit(code)
  <2>1. PICK code \in Codes : OnExit(code)
    BY <1>2
  <2>2. [srvc EXCEPT !.exit = code, !.mainPid = FALSE] \in Srvc
    BY <1>0 DEF Srvc
  <2> QED BY <1>0, <1>q, <2>1, <2>2, ParkedTyped DEF OnExit, Turn
<1>3. CASE OnPark
  BY <1>0, <1>q, <1>3, NewWaitTyped, ProgressTyped DEF OnPark, Turn
<1>4. CASE \E event \in {"named", "unnamed"} : OnName(event)
  <2>1. CASE wait = NoWait
    BY <1>0, <1>q, <1>4, <2>1, ParkedTyped DEF OnName, Turn
  <2>2. CASE wait # NoWait
    BY <1>0, <1>q, <1>4, <2>2, NamedTyped, ProgressTyped, FailStartTyped DEF OnName, Turn
  <2> QED BY <2>1, <2>2
<1>5. CASE ExpireConfirm
  <2>1. [wait EXCEPT !.confirm = FALSE] \in Wait
    BY <1>0, <1>5 DEF ExpireConfirm, Quiet, Wait
  <2> QED BY <1>0, <1>5, <2>1, ProgressTyped DEF ExpireConfirm
<1>6. CASE ExpireKill
  <2>1. CASE status # "Starting"
    <3>1. wait' \in (Wait \cup {NoWait})'
      BY <1>6, <2>1 DEF ExpireKill, NoWait
    <3> QED BY <1>0, <1>6, <2>1, <3>1 DEF ExpireKill, Core
  <2>2. CASE status = "Starting"
    BY <1>0, <1>6, <2>2, ProgressTyped, FailStartTyped DEF ExpireKill, Due, Quiet
  <2> QED BY <2>1, <2>2
<1>7. CASE ExpireGrace \/ ExpireTerm
  <2> DEFINE g == IF "READY" \in socket \cup buffer THEN "late" ELSE "used"
  <2>r. g \in {"late", "used"} /\ (ExpireGrace => wait' = [wait EXCEPT !.grace = g])
    BY DEF ExpireGrace
  <2> HIDE DEF g
  <2>1. [wait EXCEPT !.grace = g] \in Wait /\ [wait EXCEPT !.term = TRUE] \in Wait
    BY <1>0, <1>7, <2>r DEF ExpireGrace, ExpireTerm, Due, Quiet, Wait
  <2>2. wait' \in Wait' /\ srvc' \in Srvc
    BY <1>0, <1>7, <2>r, <2>1, AppliedTyped DEF ExpireGrace, ExpireTerm, unit
  <2>3. UNCHANGED << queue, finish, proc, status, poststop >>
    BY <1>7 DEF ExpireGrace, ExpireTerm, unit, threads
  <2> QED BY <1>0, <2>2, <2>3 DEF Core
<1>8. CASE \/ \E code \in Codes : ProcessExits(code)
           \/ ParkAgain
           \/ \E event \in {"named", "unnamed"} : WatcherReports(event)
  <2>1. \E e \in Events : queue' = Append(queue, e)
    BY <1>8 DEF ProcessExits, ParkAgain, WatcherReports, Events
  <2>2. UNCHANGED << srvc, wait, finish, status, poststop >> /\ proc' \in {"main", "daemon", "none"}
    BY <1>0, <1>8 DEF ProcessExits, ParkAgain, WatcherReports, Core, unit, threads
  <2> QED BY <1>0, <2>1, <2>2, QueuedAppend DEF Core
<1>9. CASE ExtensionEnds \/ FinishClear
  <2>1. srvc' \in Srvc
    BY <1>0, <1>9 DEF ExtensionEnds, FinishClear, Srvc
  <2>2. IsABag(finish') /\ BagToSet(finish') \subseteq {"check", "post", "clear", "flip"}
    BY <1>0, <1>9, FinisherTyped DEF ExtensionEnds, FinishClear, threads, Core
  <2> QED BY <1>0, <1>9, <2>1, <2>2 DEF ExtensionEnds, FinishClear, disp, Core
<1>10. CASE FinishCheck \/ FinishPost \/ FinishFlip
  <2>1. IsABag(finish') /\ BagToSet(finish') \subseteq {"check", "post", "clear", "flip"}
    BY <1>0, <1>10, FinisherTyped DEF FinishCheck, FinishPost, FinishFlip
  <2> QED BY <1>0, <1>10, <2>1 DEF FinishCheck, FinishPost, FinishFlip, unit, disp, Core
<1>11. CASE TailLook \/ TailAct \/ PoststopEnds
  BY <1>0, <1>11 DEF TailLook, TailAct, PoststopEnds, CleanedUp, unit, disp, threads, Core
<1>12. CASE UNCHANGED << srvc, wait, queue, finish, proc, status, poststop >>
  BY <1>0, <1>12 DEF Core
<1> QED
  BY <1>1, <1>2, <1>3, <1>4, <1>5, <1>6, <1>7, <1>8, <1>9, <1>10, <1>11, <1>12
  DEF Next, vars, unit, disp, threads, Environment, Send, ReadSocket, Dispatcher, Finisher,
      ExitTail

LEMMA ThreadsTyped ==
    ASSUME TypeOK, [Next]_vars
    PROVE  /\ tail' \in [at : {"none", "look", "act"}, code : {"none"} \cup Codes]
           /\ watchers' \in Nat
<1>1. tail' \in [at : {"none", "look", "act"}, code : {"none"} \cup Codes]
  <2>1. CASE \E code \in Codes : OnExit(code)
    BY <2>1 DEF OnExit, TypeOK
  <2>2. CASE TailLook \/ TailAct
    BY <2>2 DEF TailLook, TailAct, NoTail, TypeOK
  <2>3. CASE tail' = tail
    BY <2>3 DEF TypeOK
  <2> QED
    BY <2>1, <2>2, <2>3
    DEF Next, vars, threads, Environment, Send, ProcessExits, ParkAgain, ReadSocket,
        ExtensionEnds, WatcherReports, Dispatcher, OnNotify, OnPark, PoststopEnds, OnName,
        ExpireConfirm, ExpireGrace, ExpireTerm, ExpireKill, Finisher, FinishCheck, FinishPost,
        FinishClear, FinishFlip, ExitTail
<1>2. watchers' \in Nat
  <2>1. CASE OnPark \/ \E event \in {"named", "unnamed"} : WatcherReports(event)
    <3>1. watchers' \in {watchers, watchers + 1} \/ (watchers > 0 /\ watchers' = watchers - 1)
      BY <2>1 DEF OnPark, WatcherReports
    <3>2. watchers \in Nat
      BY DEF TypeOK
    <3> QED BY <3>1, <3>2
  <2>2. CASE watchers' = watchers
    BY <2>2 DEF TypeOK
  <2> QED
    BY <2>1, <2>2
    DEF Next, vars, threads, Environment, Send, ProcessExits, ParkAgain, ReadSocket,
        ExtensionEnds, Dispatcher, OnNotify, OnExit, PoststopEnds, OnName, ExpireConfirm,
        ExpireGrace, ExpireTerm, ExpireKill, Finisher, FinishCheck, FinishPost, FinishClear,
        FinishFlip, ExitTail, TailLook, TailAct
<1> QED BY <1>1, <1>2

LEMMA TypeStep == ASSUME TypeOK, TypesTell, Announced, [Next]_vars PROVE TypeOK'
BY ConfKept, NotesTyped, CoreTyped, ThreadsTyped DEF TypeOK, Core, Srvc, Events

-----------------------------------------------------------------------------
(* Events. *)

(* The steps that take the first event off the queue. *)
Pops ==
    OnPark \/ (\E code \in Codes : OnExit(code))
    \/ \E event \in {"named", "unnamed"} : OnName(event)

(* What may become of the queue: q is what is left of it before anything is added. *)
LEMMA QueueMoves ==
    ASSUME TypeOK, TypesTell, [Next]_vars
    PROVE  \E q \in Seq(Events) :
               /\ q = IF Pops THEN Tail(queue) ELSE queue
               /\ \/ queue' = q /\ (proc' # proc => proc # "main")
                  \/ queue' = Append(q, "fail") /\ proc = "main" /\ proc' = "none"
                  \/ \E code \in Codes : ProcessExits(code) /\ queue' = Append(q, code)
                  \/ ParkAgain /\ queue' = Append(q, "park") /\ proc' = proc
                  \/ \E event \in {"named", "unnamed"} :
                        WatcherReports(event) /\ queue' = Append(q, event) /\ proc' = proc
<1>0. Core /\ queue \in Seq(Events) /\ (queue # << >> => Tail(queue) \in Seq(Events))
  BY CoreOfTypeOK, QueuedTail DEF Core
<1>t. /\ status \in {"Starting", "Started", "Stopped", "Failed"} /\ poststop \in BOOLEAN
      /\ proc \in {"main", "daemon", "none"}
  BY <1>0 DEF Core
<1>1. CASE Pops
  <2>1. /\ queue # << >>
        /\ \/ queue' = Tail(queue) /\ (proc' # proc => proc # "main")
           \/ queue' = Append(Tail(queue), "fail") /\ proc = "main" /\ proc' = "none"
    <3>1. CASE OnPark
      BY <1>t, <3>1, ProgressEffect DEF OnPark, Turn
    <3>2. CASE \E code \in Codes : OnExit(code)
      BY <1>t, <3>2, ProgressEffect DEF OnExit, Turn, ProgressParked
    <3>3. CASE \E event \in {"named", "unnamed"} : OnName(event)
      BY <1>t, <3>3, ProgressEffect, FailStartEffect DEF OnName, Turn, ProgressParked
    <3> QED BY <1>1, <3>1, <3>2, <3>3 DEF Pops
  <2> QED BY <1>0, <1>1, <2>1
<1>2. CASE ~Pops
  <2>1. CASE OnNotify \/ ExpireConfirm \/ ExpireKill
    <3>1. \/ queue' = queue /\ (proc' # proc => proc # "main")
          \/ queue' = Append(queue, "fail") /\ proc = "main" /\ proc' = "none"
      BY <1>t, <2>1, ProgressEffect, FailStartEffect
      DEF OnNotify, ProgressParked, ExpireConfirm, ExpireKill
    <3> QED BY <1>0, <1>2, <3>1
  <2>2. CASE \E code \in Codes : ProcessExits(code)
    BY <1>0, <1>2, <2>2 DEF ProcessExits
  <2>3. CASE ParkAgain \/ \E event \in {"named", "unnamed"} : WatcherReports(event)
    BY <1>0, <1>2, <2>3 DEF ParkAgain, WatcherReports
  <2>4. CASE queue' = queue /\ proc' = proc
    BY <1>0, <1>2, <2>4
  <2> QED
    BY <1>2, <2>1, <2>2, <2>3, <2>4
    DEF Next, vars, disp, Environment, Send, ReadSocket, ExtensionEnds, Dispatcher,
        PoststopEnds, ExpireGrace, ExpireTerm, Finisher, FinishCheck, FinishPost, FinishClear,
        FinishFlip, ExitTail, TailLook, TailAct, Pops
<1> QED BY <1>1, <1>2

(* Where the service's state comes from. *)
LEMMA SrvcMoves ==
    ASSUME TypeOK, TypesTell, [Next]_vars
    PROVE  /\ srvc'.exit # srvc.exit =>
                \/ srvc'.exit = "none" /\ conf.type = "forking"
                \/ \E code \in Codes : OnExit(code) /\ srvc'.exit = code
           /\ srvc'.ready => srvc.ready \/ "READY" \in sent
           /\ srvc'.mainPid => srvc.mainPid /\ \A code \in Codes : ~OnExit(code)
<1>0. Core /\ srvc \in Srvc /\ buffer \subseteq sent /\ socket \subseteq sent
  BY CoreOfTypeOK DEF Core, TypeOK
<1>t. /\ status \in {"Starting", "Started", "Stopped", "Failed"} /\ poststop \in BOOLEAN
      /\ proc \in {"main", "daemon", "none"}
  BY <1>0 DEF Core
<1>1. CASE \E code \in Codes : OnExit(code)
  <2>1. PICK code \in Codes : OnExit(code)
    BY <1>1
  <2> DEFINE s == [srvc EXCEPT !.exit = code, !.mainPid = FALSE]
  <2>2. s \in Srvc /\ s.exit = code /\ s.ready = srvc.ready /\ ~s.mainPid
    BY <1>0 DEF Srvc
  <2>3. srvc' = s \/ (conf.type = "forking" /\ srvc' = [s EXCEPT !.exit = "none"])
    BY <1>t, <2>1, ProgressEffect DEF OnExit, ProgressParked
  <2> HIDE DEF s
  <2> QED BY <2>1, <2>2, <2>3 DEF Srvc
<1>2. CASE OnNotify \/ ExpireGrace
  <2>1. PICK ds : /\ ds \subseteq sent
                  /\ \/ srvc' = Applied(ds)
                     \/ conf.type = "forking" /\ srvc' = [Applied(ds) EXCEPT !.exit = "none"]
    BY <1>0, <1>t, <1>2, ProgressEffect DEF OnNotify, ProgressParked, ExpireGrace
  <2> DEFINE s == Applied(ds)
  <2>2. s \in Srvc /\ s.exit = srvc.exit /\ s.mainPid = srvc.mainPid
        /\ (s.ready => srvc.ready \/ "READY" \in sent)
    BY <1>0, <2>1, AppliedTyped
  <2>3. \A code \in Codes : ~OnExit(code)
    BY <1>2 DEF OnNotify, ExpireGrace, OnExit, Turn, Due, Quiet
  <2> HIDE DEF s
  <2> QED BY <2>1, <2>2, <2>3 DEF Srvc, s
<1>3. CASE ~(\E code \in Codes : OnExit(code)) /\ ~(OnNotify \/ ExpireGrace)
  <2>1. \/ srvc' = srvc
        \/ conf.type = "forking" /\ srvc' = [srvc EXCEPT !.exit = "none"]
        \/ srvc' = [srvc EXCEPT !.extend = "over"]
        \/ srvc' = [srvc EXCEPT !.ready = FALSE]
    BY <1>3, <1>t, ProgressEffect
    DEF Next, vars, unit, Environment, Send, ProcessExits, ParkAgain, ReadSocket,
        ExtensionEnds, WatcherReports, Dispatcher, OnPark, PoststopEnds, OnName,
        ProgressParked, ExpireConfirm, ExpireTerm, ExpireKill, Finisher, FinishCheck,
        FinishPost, FinishClear, FinishFlip, ExitTail, TailLook, TailAct
  <2> QED BY <1>0, <1>3, <2>1 DEF Srvc
<1> QED BY <1>1, <1>2, <1>3

(* The events of the queue that a step leaves or adds. *)
LEMMA HoldsMoves ==
    ASSUME TypeOK, TypesTell, [Next]_vars, NEW S, "fail" \notin S
    PROVE  Queued(S)' =>
               \/ Queued(S)
               \/ \E code \in Codes \cap S : ProcessExits(code)
               \/ ParkAgain /\ "park" \in S
               \/ \E event \in {"named", "unnamed"} \cap S : WatcherReports(event)
<1>1. PICK q \in Seq(Events) :
          /\ q = IF Pops THEN Tail(queue) ELSE queue
          /\ \/ queue' = q
             \/ queue' = Append(q, "fail")
             \/ \E code \in Codes : ProcessExits(code) /\ queue' = Append(q, code)
             \/ ParkAgain /\ queue' = Append(q, "park")
             \/ \E event \in {"named", "unnamed"} : WatcherReports(event) /\ queue' = Append(q, event)
  BY QueueMoves
<1>2. queue \in Seq(Events) /\ (Pops => queue # << >>)
  BY CoreOfTypeOK DEF Core, Pops, OnPark, OnExit, OnName, Turn
<1>3. Holds(q, S) => Holds(queue, S)
  BY <1>1, <1>2, HoldsTail
<1>4. Events = {"park", "named", "unnamed", "ok", "fail", "203"} /\ Codes = {"ok", "fail", "203"}
  BY DEF Events, Codes
<1>5. CASE queue' = q \/ queue' = Append(q, "fail")
  <2>1. Holds(Append(q, "fail"), S) <=> Holds(q, S) \/ "fail" \in S
    BY <1>4, HoldsAppend
  <2> QED BY <1>3, <1>5, <2>1 DEF Queued
<1>6. CASE \E code \in Codes : ProcessExits(code) /\ queue' = Append(q, code)
  <2>1. PICK code \in Codes : ProcessExits(code) /\ queue' = Append(q, code)
    BY <1>6
  <2>2. Holds(Append(q, code), S) <=> Holds(q, S) \/ code \in S
    BY <1>4, HoldsAppend
  <2> QED BY <1>3, <2>1, <2>2 DEF Queued
<1>7. CASE ParkAgain /\ queue' = Append(q, "park")
  BY <1>3, <1>4, <1>7, HoldsAppend DEF Queued
<1>8. CASE \E event \in {"named", "unnamed"} : WatcherReports(event) /\ queue' = Append(q, event)
  <2>1. PICK event \in {"named", "unnamed"} : WatcherReports(event) /\ queue' = Append(q, event)
    BY <1>8
  <2>2. Holds(Append(q, event), S) <=> Holds(q, S) \/ event \in S
    BY <1>4, HoldsAppend
  <2> QED BY <1>3, <2>1, <2>2 DEF Queued
<1> QED BY <1>1, <1>5, <1>6, <1>7, <1>8

(* The event at hand is in the queue. *)
LEMMA TurnHolds ==
    ASSUME TypeOK, NEW e, Turn(e), NEW S, e \in S
    PROVE  Queued(S)
<1>1. queue \in Seq(Events) /\ queue # << >> /\ Head(queue) = e
  BY CoreOfTypeOK DEF Core, Turn
<1> QED BY <1>1, HoldsTail DEF Queued

LEMMA TypesTellStep == ASSUME TypeOK, TypesTell, [Next]_vars PROVE TypesTell'
<1>0. conf'.type = conf.type
  BY ConfKept
<1>1. watchers' > 0 => conf.type = "dbus"
  <2>1. CASE OnPark \/ \E event \in {"named", "unnamed"} : WatcherReports(event)
    <3>1. watchers' = watchers \/ conf.type = "dbus" \/ watchers > 0
      BY <2>1 DEF OnPark, WatcherReports
    <3> QED BY <3>1 DEF TypesTell
  <2>2. CASE watchers' = watchers
    BY <2>2 DEF TypesTell
  <2> QED
    BY <2>1, <2>2
    DEF Next, vars, threads, Environment, Send, ProcessExits, ParkAgain, ReadSocket,
        ExtensionEnds, Dispatcher, OnNotify, OnExit, PoststopEnds, OnName, ExpireConfirm,
        ExpireGrace, ExpireTerm, ExpireKill, Finisher, FinishCheck, FinishPost, FinishClear,
        FinishFlip, ExitTail, TailLook, TailAct
<1>2. Queued({"named", "unnamed"})' => conf.type = "dbus"
  <2>1. Queued({"named", "unnamed"})' =>
            Queued({"named", "unnamed"}) \/ \E event \in {"named", "unnamed"} : WatcherReports(event)
    BY HoldsMoves DEF Codes
  <2> QED BY <2>1 DEF TypesTell, WatcherReports
<1>3. Queued({"203"})' => conf.type = "exec"
  <2>1. Queued({"203"})' => Queued({"203"}) \/ ProcessExits("203")
    BY HoldsMoves DEF Codes
  <2> QED BY <2>1 DEF TypesTell, ProcessExits
<1>4. srvc'.exit = "203" => conf.type = "exec"
  <2>1. srvc'.exit = "203" => srvc.exit = "203" \/ Turn("203")
    BY SrvcMoves DEF OnExit
  <2> QED BY <2>1, TurnHolds DEF TypesTell
<1>5. "READY" \in sent' \/ srvc'.ready => conf.type = "notify"
  <2>1. sent' = sent \/ \E d \in Datagram : Send(d)
    BY DEF Next, vars, notes, disp, Environment, ProcessExits, ParkAgain, ReadSocket,
           ExtensionEnds, WatcherReports, Dispatcher, OnNotify, OnPark, OnExit, PoststopEnds,
           OnName, ExpireConfirm, ExpireGrace, ExpireTerm, ExpireKill, Finisher, FinishCheck,
           FinishPost, FinishClear, FinishFlip, ExitTail, TailLook, TailAct
  <2>2. "READY" \in sent' => "READY" \in sent \/ conf.type = "notify"
    BY <2>1 DEF Send
  <2> QED BY <2>2, SrvcMoves DEF TypesTell
<1>6. conf'.again => conf.type \in Reparked
  BY ConfKept DEF TypesTell, ParkAgain
<1> QED BY <1>0, <1>1, <1>2, <1>3, <1>4, <1>5, <1>6 DEF TypesTell

-----------------------------------------------------------------------------
(* Every step that could bring a verdict in looks at the wait. *)

(* Once an exec() is confirmed the verdict is in. *)
LEMMA ConfirmedDecides ==
    ASSUME TypeOK, wait # NoWait, wait.confirm, NEW w
    PROVE  conf.type = "exec" /\ Verdict(w, srvc, TRUE) # "Pending"
<1>1. conf.type = "exec"
  <2>1. wait \in Wait
    BY CoreOfTypeOK DEF Core
  <2>2. wait.confirm \in {FALSE, conf.type = "exec"}
    BY <2>1 DEF Wait
  <2> QED BY <2>2, Zenon
<1> QED BY <1>1 DEF Verdict

LEMMA LookedStep == ASSUME WaitInv, [Next]_vars PROVE Looked'
<1>0. TypeOK /\ TypesTell /\ Announced /\ Looked /\ Core
  BY CoreOfTypeOK DEF WaitInv
<1>t. /\ status \in {"Starting", "Started", "Stopped", "Failed"} /\ poststop \in BOOLEAN
      /\ proc \in {"main", "daemon", "none"} /\ srvc \in Srvc
  BY <1>0 DEF Core
<1>c. conf'.type = conf.type
  BY <1>0, ConfKept
<1>s. status' = "Starting" => status = "Starting"
  BY <1>t, ProgressEffect, FailStartEffect
  DEF Next, vars, unit, Environment, Send, ProcessExits, ParkAgain, ReadSocket, ExtensionEnds,
      WatcherReports, Dispatcher, OnNotify, OnPark, OnExit, PoststopEnds, OnName, CleanedUp,
      ProgressParked, ExpireConfirm, ExpireGrace, ExpireTerm, ExpireKill, Finisher,
      FinishCheck, FinishPost, FinishClear, FinishFlip, ExitTail, TailLook, TailAct
<1> SUFFICES ASSUME wait' # NoWait, status' = "Starting", status = "Starting"
             PROVE  wait'.grace = "late" \/ Verdict(wait, srvc, FALSE)' = "Pending"
  BY <1>s DEF Looked
(* A wait that is kept after a look has no verdict. *)
<1>p. ASSUME NEW w, NEW s, NEW q, Progress(w, s, FALSE, q) PROVE Verdict(wait, srvc, FALSE)' = "Pending"
  <2>1. wait' = w /\ srvc' = s /\ Verdict(w, s, FALSE) = "Pending"
    BY <1>t, <1>p, ProgressEffect
  <2> QED BY <1>c, <2>1 DEF Verdict
<1>u. ASSUME wait # NoWait, wait.grace # "late", wait'.dbus = wait.dbus, srvc'.exit = srvc.exit,
             srvc'.ready => srvc.ready
      PROVE  Verdict(wait, srvc, FALSE)' = "Pending"
  <2>1. Verdict(wait, srvc, FALSE) = "Pending"
    BY <1>0, <1>u DEF Looked
  <2>2. conf.type \in AllTypes
    BY <1>0, StartWaitAssumption DEF StartWaitAssumption, TypeOK
  <2>3. CASE conf.type = "notify"
    BY <1>c, <1>u, <2>1, <2>3 DEF Verdict
  <2>4. CASE conf.type = "dbus"
    BY <1>c, <1>u, <2>1, <2>4 DEF Verdict
  <2>5. CASE conf.type \in {"oneshot", "forking", "exec"}
    BY <1>c, <1>u, <2>1, <2>5 DEF Verdict
  <2> QED BY <2>2, <2>3, <2>4, <2>5 DEF AllTypes
<1>1. CASE OnNotify \/ \E code \in Codes : OnExit(code)
  BY <1>1, <1>p DEF OnNotify, OnExit, ProgressParked
<1>2. CASE OnPark
  BY <1>2, <1>p DEF OnPark
<1>3. CASE \E event \in {"named", "unnamed"} : OnName(event)
  BY <1>3, <1>p, <1>t, FailStartEffect DEF OnName, ProgressParked
<1>4. CASE ExpireConfirm
  BY <1>0, <1>t, <1>4, ProgressEffect, ConfirmedDecides DEF ExpireConfirm, Quiet
<1>5. CASE ExpireKill
  BY <1>5, <1>p, <1>t, FailStartEffect DEF ExpireKill
<1>6. CASE ExpireGrace
  <2>1. /\ wait # NoWait /\ wait \in Wait /\ wait.grace = "unused"
        /\ srvc' = Applied(socket \cup buffer)
    BY <1>0, <1>6 DEF ExpireGrace, Due, Quiet, Core
  <2>2. srvc'.exit = srvc.exit /\ (srvc'.ready <=> srvc.ready \/ "READY" \in socket \cup buffer)
    BY <1>t, <2>1, AppliedTyped
  <2>3. wait'.dbus = wait.dbus
    BY <1>6, <2>1 DEF ExpireGrace, Wait
  <2>4. CASE "READY" \in socket \cup buffer
    BY <1>6, <2>1, <2>4 DEF ExpireGrace, Wait
  <2>5. CASE "READY" \notin socket \cup buffer
    BY <1>u, <2>1, <2>2, <2>3, <2>5
  <2> QED BY <2>4, <2>5
<1>7. CASE ExpireTerm
  <2>1. wait # NoWait /\ wait'.dbus = wait.dbus /\ wait'.grace = wait.grace /\ srvc' = srvc
    BY <1>7, <1>0 DEF ExpireTerm, Due, Quiet, Core, Wait, unit
  <2> QED BY <1>u, <2>1
<1>8. CASE ExtensionEnds \/ FinishClear
  <2>1. wait' = wait /\ srvc'.exit = srvc.exit /\ (srvc'.ready => srvc.ready)
    BY <1>8, <1>t DEF ExtensionEnds, FinishClear, disp, Srvc
  <2> QED BY <1>u, <2>1
<1>9. CASE wait' = wait /\ srvc' = srvc
  BY <1>9, <1>u
<1> QED
  BY <1>1, <1>2, <1>3, <1>4, <1>5, <1>6, <1>7, <1>8, <1>9
  DEF Next, vars, unit, disp, Environment, Send, ProcessExits, ParkAgain, ReadSocket,
      WatcherReports, Dispatcher, PoststopEnds, Finisher, FinishCheck, FinishPost,
      FinishFlip, ExitTail, TailLook, TailAct

LEMMA ReportedStep == ASSUME WaitInv, [Next]_vars PROVE Reported'
<1>0. TypeOK /\ TypesTell /\ Announced /\ Reported /\ Core
  BY CoreOfTypeOK DEF WaitInv
<1>t. /\ status \in {"Starting", "Started", "Stopped", "Failed"} /\ poststop \in BOOLEAN
      /\ proc \in {"main", "daemon", "none"} /\ srvc \in Srvc
  BY <1>0 DEF Core
<1> SUFFICES ASSUME wait' # NoWait, srvc'.ready PROVE wait'.grace = "late"
  BY DEF Reported
<1>n. conf.type = "notify"
  BY <1>0, SrvcMoves DEF TypesTell
(* A look would have ended the wait. *)
<1>p. ASSUME NEW w, NEW s, NEW q, NEW c, Progress(w, s, c, q) PROVE FALSE
  <2>1. srvc' = s /\ Verdict(w, s, c) = "Pending"
    BY <1>t, <1>p, ProgressEffect
  <2> QED BY <1>n, <2>1 DEF Verdict
<1>u. ASSUME wait # NoWait, wait'.grace = wait.grace, srvc'.ready => srvc.ready
      PROVE  wait'.grace = "late"
  BY <1>0, <1>u DEF Reported
<1>1. CASE OnNotify \/ OnPark \/ ExpireConfirm \/ ExpireKill
           \/ (\E code \in Codes : OnExit(code))
           \/ \E event \in {"named", "unnamed"} : OnName(event)
  BY <1>1, <1>p, <1>t, FailStartEffect
  DEF OnNotify, OnPark, ExpireConfirm, ExpireKill, OnExit, OnName, ProgressParked
<1>2. CASE ExpireGrace
  <2>1. /\ wait # NoWait /\ wait \in Wait /\ wait.grace = "unused"
        /\ srvc' = Applied(socket \cup buffer)
    BY <1>0, <1>2 DEF ExpireGrace, Due, Quiet, Core
  <2>2. srvc'.ready <=> srvc.ready \/ "READY" \in socket \cup buffer
    BY <1>t, <2>1, AppliedTyped
  <2>3. "READY" \in socket \cup buffer
    BY <1>0, <2>1, <2>2 DEF Reported
  <2> QED BY <1>2, <2>1, <2>3 DEF ExpireGrace, Wait
<1>3. CASE ExpireTerm
  <2>1. wait # NoWait /\ wait'.grace = wait.grace /\ srvc' = srvc
    BY <1>3, <1>0 DEF ExpireTerm, Due, Quiet, Core, Wait, unit
  <2> QED BY <1>u, <2>1
<1>4. CASE ExtensionEnds \/ FinishClear
  <2>1. wait' = wait /\ (srvc'.ready => srvc.ready)
    BY <1>4, <1>t DEF ExtensionEnds, FinishClear, disp, Srvc
  <2> QED BY <1>u, <2>1
<1>5. CASE wait' = wait /\ srvc' = srvc
  BY <1>5, <1>u
<1> QED
  BY <1>1, <1>2, <1>3, <1>4, <1>5
  DEF Next, vars, unit, disp, Environment, Send, ProcessExits, ParkAgain, ReadSocket,
      WatcherReports, Dispatcher, PoststopEnds, Finisher, FinishCheck, FinishPost,
      FinishFlip, ExitTail, TailLook, TailAct

LEMMA InitWaitInv == Init => WaitInv /\ FirstPark /\ ExitFirst /\ WaitDecides
<1> SUFFICES ASSUME Init PROVE WaitInv /\ FirstPark /\ ExitFirst /\ WaitDecides
  OBVIOUS
<1>1. queue = << "park" >> /\ queue \in Seq(Events) /\ Len(queue) = 1 /\ queue[1] = "park"
  BY DEF Init, Events
<1>2. BagToSet(finish) = {} /\ IsABag(finish)
  BY DEF Init, EmptyBag, SetToBag, BagToSet, IsABag
<1>3. TypeOK
  <2>1. conf \in [type : Types, stoppost : BOOLEAN, again : BOOLEAN]
    BY DEF Init
  <2> QED BY <1>1, <1>2, <2>1 DEF Init, TypeOK, Events, NoTail, NoWait
<1>4. \A S : Queued(S) => "park" \in S
  BY <1>1 DEF Queued, Holds
<1>5. TypesTell
  <2>1. ~Queued({"named", "unnamed"}) /\ ~Queued({"203"})
    BY <1>4
  <2>2. ~srvc.ready /\ srvc.exit = "none" /\ sent = {} /\ ~(watchers > 0)
    BY DEF Init
  <2>3. ~conf.again
    BY DEF Init
  <2> QED BY <2>1, <2>2, <2>3 DEF TypesTell
<1>6. Announced /\ Looked /\ Reported /\ WaitDecides
  BY DEF Init, Announced, Looked, Reported, WaitDecides
<1>7. FirstPark
  BY <1>1, <1>2 DEF Init, FirstPark, NobodyEnds, NoTail
<1>8. ExitFirst
  BY <1>2 DEF Init, ExitFirst, NoTail
<1> QED BY <1>3, <1>5, <1>6, <1>7, <1>8 DEF WaitInv

LEMMA WaitInvStep == ASSUME WaitInv, [Next]_vars PROVE WaitInv'
BY LookedStep, ReportedStep, TypeStep, TypesTellStep, NotesTyped DEF WaitInv

LEMMA WaitInvAlways == Spec => []WaitInv
BY InitWaitInv, WaitInvStep, PTL DEF Spec

(* The variables keep their types: in particular an event that only one    *)
(* kind of service can have is never met by another kind.                  *)
THEOREM StartWaitTypes == Spec => []TypeOK
<1> DEFINE Inv == TypeOK /\ TypesTell /\ Announced
<1>1. Init => Inv
  BY InitWaitInv DEF WaitInv
<1>2. Inv /\ [Next]_vars => Inv'
  BY TypeStep, TypesTellStep, NotesTyped
<1>3. Inv => TypeOK
  OBVIOUS
<1> HIDE DEF Inv
<1> QED BY <1>1, <1>2, <1>3, PTL DEF Spec

(* Whatever order the registration of a start and the readiness, exit or   *)
(* name it waits for come in, the dispatcher never goes idle on a wait     *)
(* whose verdict is in, but for one whose READY=1 was first read by its    *)
(* own deadline.  The types that are parked twice and the contention for   *)
(* RuntimeInfo do not matter.                                              *)
THEOREM NoVerdictMissed == Spec => []NoIdleVerdict
<1>1. WaitInv => NoIdleVerdict
  BY DEF WaitInv, Looked, NoIdleVerdict, Quiet
<1> QED BY <1>1, WaitInvAlways, PTL


-----------------------------------------------------------------------------
(* Who may send SIGTERM.                                                   *)

(* Nothing that ends a start begins while a wait is parked. *)
LEMMA NobodyBegins ==
    ASSUME TermInv, [Next]_vars, NobodyEnds, ~Pops,
           UNCHANGED poststop, UNCHANGED finish
    PROVE  NobodyEnds'
<1>1. tail' = tail
  BY DEF Next, vars, threads, Environment, Send, ProcessExits, ParkAgain, ReadSocket,
         ExtensionEnds, WatcherReports, Dispatcher, OnNotify, PoststopEnds,
         ExpireConfirm, ExpireGrace, ExpireTerm, ExpireKill, Finisher, FinishCheck, FinishPost,
         FinishClear, FinishFlip, ExitTail, TailLook, TailAct, Pops, NobodyEnds
<1> QED BY <1>1 DEF NobodyEnds

(* An exit is a verdict, but for exec(). *)
LEMMA ExitDecides ==
    ASSUME TypeOK, TypesTell, conf.type # "exec", status = "Starting",
           NEW code \in Codes, OnExit(code), NEW w
    PROVE  Verdict(w, [srvc EXCEPT !.exit = code, !.mainPid = FALSE], FALSE) # "Pending"
<1> DEFINE s == [srvc EXCEPT !.exit = code, !.mainPid = FALSE]
<1>1. s.exit = code /\ s.exit # "none"
  BY CoreOfTypeOK DEF Core, Srvc, Codes
<1>2. code # "203"
  BY TurnHolds DEF TypesTell, OnExit
<1>3. code \in {"ok", "fail"}
  BY <1>2 DEF Codes
<1>4. conf.type \in AllTypes
  BY StartWaitAssumption DEF StartWaitAssumption, TypeOK
<1> HIDE DEF s
<1>5. CASE conf.type \in {"oneshot", "forking"}
  BY <1>1, <1>3, <1>5 DEF Verdict
<1>6. CASE conf.type = "dbus"
  BY <1>1, <1>6 DEF Verdict
<1>7. CASE conf.type = "notify"
  BY <1>1, <1>7 DEF Verdict
<1> QED BY <1>4, <1>5, <1>6, <1>7 DEF AllTypes, s

LEMMA FirstParkStep == ASSUME TermInv, [Next]_vars PROVE FirstPark'
<1>0. TypeOK /\ TypesTell /\ FirstPark /\ WaitDecides /\ queue \in Seq(Events)
  BY CoreOfTypeOK DEF TermInv, WaitInv, Core
<1> SUFFICES ASSUME ~conf'.again, Queued({"park"})' PROVE FirstPark'
  BY DEF FirstPark
<1>1. ~conf.again /\ ~ParkAgain
  BY <1>0, ConfKept DEF ParkAgain
<1>2. Queued({"park"})
  BY <1>0, <1>1, HoldsMoves DEF Codes
<1>3. /\ queue[1] = "park" /\ \A i \in 2 .. Len(queue) : queue[i] # "park"
      /\ NobodyEnds /\ status = "Starting" /\ wait = NoWait
      /\ queue # << >> /\ Head(queue) = "park"
  <2>1. queue # << >>
    BY <1>0, <1>2 DEF Queued, Holds
  <2> QED BY <1>0, <1>1, <1>2, <2>1, QueuedTail DEF FirstPark
<1>4. ~Pops
  <2>1. ~OnPark
    <3>1. SUFFICES ASSUME OnPark PROVE FALSE
      OBVIOUS
    <3>2. PICK q \in Seq(Events) : q = Tail(queue)
      BY <1>0, <1>3, QueuedTail
    <3>3. ~Holds(q, {"park"})
      BY <1>0, <1>3, <3>2, QueuedTail DEF Holds
    <3>4. queue' = q \/ queue' = Append(q, "fail")
      BY <1>0, <3>1, <3>2, CoreOfTypeOK, ProgressEffect DEF OnPark, Core
    <3>5. "fail" \in Events
      BY DEF Events, Codes
    <3>6. ~Holds(Append(q, "fail"), {"park"})
      BY <3>3, <3>5, HoldsAppend
    <3> QED BY <3>3, <3>4, <3>6 DEF Queued
  <2> QED BY <1>3, <2>1 DEF Pops, OnExit, OnName, Turn, Codes
<1>5. UNCHANGED << status, poststop, finish, wait >>
  BY <1>3, <1>4
  DEF Next, vars, unit, disp, threads, Environment, Send, ProcessExits, ParkAgain, ReadSocket,
      ExtensionEnds, WatcherReports, Dispatcher, OnNotify, PoststopEnds, ProgressParked,
      ExpireConfirm, ExpireGrace, ExpireTerm, ExpireKill, Due, Quiet, Finisher, FinishCheck,
      FinishPost, FinishClear, FinishFlip, FinisherAt, BagIn, ExitTail, TailLook, TailAct,
      Pops, NobodyEnds
<1>6. NobodyEnds'
  BY <1>3, <1>4, <1>5, NobodyBegins
<1>7. queue'[1] = "park" /\ \A i \in 2 .. Len(queue') : queue'[i] # "park"
  <2>1. queue' = queue \/ \E e \in Events \ {"park"} : queue' = Append(queue, e)
    BY <1>0, <1>1, <1>4, QueueMoves DEF Events, Codes
  <2> QED BY <1>0, <1>3, <2>1, QueuedAppend, QueuedTail
<1> QED BY <1>3, <1>5, <1>6, <1>7 DEF FirstPark

(* Of a oneshot: no verdict fails it, and no verdict is in before its exit. *)
LEMMA OneshotVerdict ==
    ASSUME conf.type = "oneshot", NEW w, NEW c, NEW s \in Srvc, s.exit # "203"
    PROVE  /\ Verdict(w, s, c) # "Fail"
           /\ Verdict(w, s, c) = "Ready" => s.exit = "ok"
           /\ Verdict(w, s, c) = "Pending" => s.exit = "none" /\ status = "Starting"
<1>1. s.exit \in {"none", "ok", "fail"}
  BY DEF Srvc, Codes
<1>2. CASE s.exit = "none"
  <2>1. CASE status = "Starting"
    <3> Verdict(w, s, c) = "Pending"
      BY <1>2, <2>1 DEF Verdict
    <3> QED BY <1>2, <2>1
  <2>2. CASE status # "Starting"
    BY <2>2 DEF Verdict
  <2> QED BY <2>1, <2>2
<1>3. CASE s.exit = "ok"
  BY <1>3 DEF Verdict
<1>4. CASE s.exit = "fail"
  BY <1>4 DEF Verdict
<1> QED BY <1>1, <1>2, <1>3, <1>4

(* What the steps of a oneshot's start do. *)
LEMMA OneshotMoves ==
    ASSUME TypeOK, TypesTell, Announced, conf.type = "oneshot", [Next]_vars
    PROVE  /\ BagToSet(finish') # {} => BagToSet(finish) # {} \/ srvc'.exit # "none"
           /\ tail'.at # "none" => tail.at # "none" \/ srvc'.exit # "none"
           /\ srvc.exit # "none" => srvc'.exit # "none"
           /\ poststop' /\ ~poststop => ExpireKill /\ FailStart(queue) /\ srvc.mainPid
<1>0. Core /\ srvc \in Srvc /\ srvc.exit # "203"
  BY CoreOfTypeOK DEF Core, TypesTell
<1>t. /\ status \in {"Starting", "Started", "Stopped", "Failed"} /\ poststop \in BOOLEAN
      /\ proc \in {"main", "daemon", "none"} /\ IsABag(finish)
  BY <1>0 DEF Core
<1>1. ~ExpireConfirm /\ \A event \in {"named", "unnamed"} : ~OnName(event)
  <2>1. \A event \in {"named", "unnamed"} : ~OnName(event)
    BY TurnHolds DEF OnName, TypesTell
  <2> QED BY <2>1, ConfirmedDecides DEF ExpireConfirm, Quiet
<1>2. srvc.exit # "none" => srvc'.exit # "none"
  BY SrvcMoves DEF Codes
<1>p. ASSUME NEW w, NEW s \in Srvc, s.exit # "203", NEW q, Progress(w, s, FALSE, q)
      PROVE  /\ srvc' = s /\ (poststop' => poststop)
             /\ BagToSet(finish') # {} => BagToSet(finish) # {} \/ srvc'.exit # "none"
  <2>0. Verdict(w, s, FALSE) # "Fail" /\ (Verdict(w, s, FALSE) = "Ready" => s.exit = "ok")
    BY <1>p, OneshotVerdict
  <2>1. srvc' = s /\ poststop' = poststop
    BY <1>t, <1>p, <2>0, ProgressEffect
  <2>2. finish' = finish \/ s.exit = "ok"
    BY <1>t, <1>p, <2>0, ProgressEffect
  <2> QED BY <2>1, <2>2
<1>3. CASE \E code \in Codes : OnExit(code)
  <2>1. PICK code \in Codes : OnExit(code)
    BY <1>3
  <2> DEFINE s == [srvc EXCEPT !.exit = code, !.mainPid = FALSE]
  <2>2. s \in Srvc /\ s.exit = code /\ code # "none"
    BY <1>0 DEF Srvc, Codes
  <2>3. code # "203"
    BY <2>1, TurnHolds DEF OnExit, TypesTell
  <2> HIDE DEF s
  <2>4. srvc' = s /\ (poststop' => poststop)
    BY <1>p, <2>1, <2>2, <2>3 DEF OnExit, ProgressParked, s
  <2> QED BY <2>2, <2>4
<1>4. CASE OnNotify
  <2>1. Applied(buffer) \in Srvc /\ Applied(buffer).exit = srvc.exit
    BY <1>0, AppliedTyped
  <2> QED BY <1>0, <1>2, <1>4, <1>p, <2>1 DEF OnNotify, ProgressParked
<1>5. CASE OnPark
  BY <1>0, <1>2, <1>5, <1>p DEF OnPark
<1>6. CASE ExpireKill
  <2>1. CASE status # "Starting" \/ ~srvc.mainPid
    BY <1>0, <1>2, <1>6, <1>p, <2>1 DEF ExpireKill
  <2>2. CASE status = "Starting" /\ srvc.mainPid
    BY <1>2, <1>t, <1>6, <2>2, FailStartEffect DEF ExpireKill
  <2> QED BY <2>1, <2>2
<1>7. CASE Finisher
  <2>1. BagToSet(finish) # {}
    BY <1>7 DEF Finisher, FinishCheck, FinishPost, FinishClear, FinishFlip, FinisherAt, BagIn
  <2>2. tail' = tail /\ poststop' = poststop
    BY <1>7 DEF Finisher, FinishCheck, FinishPost, FinishClear, FinishFlip, disp
  <2> QED BY <1>2, <2>1, <2>2
<1>8. CASE TailLook \/ TailAct
  BY <1>2, <1>8 DEF TailLook, TailAct, NoTail, disp
<1>9. CASE UNCHANGED << finish, tail >> /\ (poststop' => poststop)
  BY <1>2, <1>9
<1> QED
  BY <1>1, <1>3, <1>4, <1>5, <1>6, <1>7, <1>8, <1>9
  DEF Next, vars, disp, threads, Environment, Send, ProcessExits, ParkAgain, ReadSocket,
      ExtensionEnds, WatcherReports, Dispatcher, PoststopEnds, ExpireGrace, ExpireTerm,
      ExitTail

LEMMA ExitFirstStep == ASSUME TermInv, [Next]_vars PROVE ExitFirst'
<1>0. TypeOK /\ TypesTell /\ Announced /\ ExitFirst /\ Core /\ queue \in Seq(Events) /\ conf'.type = conf.type
  BY CoreOfTypeOK, ConfKept DEF TermInv, WaitInv, Core
<1> SUFFICES ASSUME conf.type = "oneshot" PROVE ExitFirst'
  BY <1>0 DEF ExitFirst
<1>t. /\ status \in {"Starting", "Started", "Stopped", "Failed"} /\ poststop \in BOOLEAN
      /\ proc \in {"main", "daemon", "none"}
  BY <1>0 DEF Core
<1>1. tail'.at # "none" \/ BagToSet(finish') # {} => srvc'.exit # "none"
  BY <1>0, OneshotMoves DEF ExitFirst
<1>q. PICK q \in Seq(Events) :
          /\ q = IF Pops THEN Tail(queue) ELSE queue
          /\ \/ queue' = q /\ (proc' # proc => proc # "main")
             \/ \E code \in Codes : queue' = Append(q, code)
             \/ \E e \in Events : queue' = Append(q, e) /\ proc' = proc
  <2>1. "fail" \in Codes /\ Codes \subseteq Events /\ {"park", "named", "unnamed"} \subseteq Events
    BY DEF Codes, Events
  <2> QED BY <1>0, <2>1, QueueMoves
<1>e. Codes \subseteq Events
  BY DEF Events
<1>h. Pops => queue # << >> /\ (Head(queue) \in Codes => \E code \in Codes : OnExit(code))
  <2>1. "park" \notin Codes /\ "named" \notin Codes /\ "unnamed" \notin Codes
    BY DEF Codes
  <2> QED BY <2>1 DEF Pops, OnPark, OnExit, OnName, Turn
<1>x. ASSUME NEW code \in Codes, OnExit(code) PROVE srvc'.exit # "none" /\ ~srvc'.mainPid
  <2>1. ~srvc'.mainPid
    BY <1>0, <1>x, SrvcMoves
  <2>2. srvc'.exit = code \/ srvc'.exit = srvc.exit \/ \E c \in Codes : srvc'.exit = c
    BY <1>0, <1>x, SrvcMoves
  <2>3. srvc'.exit # "none"
    <3> DEFINE s == [srvc EXCEPT !.exit = code, !.mainPid = FALSE]
    <3>1. s.exit = code
      BY <1>0 DEF Core, Srvc
    <3>2. srvc' = s
      BY <1>t, <1>x, ProgressEffect DEF OnExit, ProgressParked
    <3> QED BY <3>1, <3>2 DEF Codes
  <2> QED BY <2>1, <2>3
<1>2. poststop' => srvc'.exit # "none" \/ (queue' # << >> /\ Head(queue') \in Codes)
  <2> SUFFICES ASSUME poststop', srvc'.exit = "none"
               PROVE  queue' # << >> /\ Head(queue') \in Codes
    OBVIOUS
  <2>1. srvc.exit = "none" /\ \A code \in Codes : ~OnExit(code)
    BY <1>0, <1>x, OneshotMoves
  <2>2. CASE poststop
    <3>1. queue # << >> /\ Head(queue) \in Codes
      BY <1>0, <2>1, <2>2 DEF ExitFirst
    <3>2. q = queue
      BY <1>q, <1>h, <2>1, <3>1
    <3>3. queue' = queue \/ \E e \in Events : queue' = Append(queue, e)
      BY <1>q, <1>e, <3>2
    <3> QED BY <1>0, <3>1, <3>3, QueuedAppend, QueuedTail
  <2>3. CASE ~poststop
    <3>1. FailStart(queue) /\ srvc.mainPid /\ queue = << >>
      BY <1>0, <2>3, OneshotMoves DEF ExpireKill, Due, Quiet
    <3>2. proc = "main"
      BY <1>0, <3>1 DEF ExitFirst, Queued, Holds
    <3>3. proc' = "none"
      BY <1>t, <2>3, <3>1 DEF FailStart
    <3>4. queue' = Append(queue, "fail")
      BY <3>1, <3>2, <3>3 DEF FailStart
    <3> QED BY <3>1, <3>4 DEF Codes
  <2> QED BY <1>t, <2>2, <2>3
<1>3. proc' # "main" /\ srvc'.mainPid => Queued(Codes)'
  <2> SUFFICES ASSUME proc' # "main", srvc'.mainPid PROVE Queued(Codes)'
    OBVIOUS
  <2>1. srvc.mainPid /\ \A code \in Codes : ~OnExit(code)
    BY <1>0, SrvcMoves
  <2>2. ASSUME proc # "main" PROVE Holds(q, Codes)
    <3>1. Holds(queue, Codes)
      BY <1>0, <2>1, <2>2 DEF ExitFirst, Queued
    <3> QED BY <1>0, <1>q, <1>h, <2>1, <3>1, HoldsTail
  <2>3. CASE queue' = q /\ (proc' # proc => proc # "main")
    BY <2>2, <2>3 DEF Queued
  <2>4. CASE \E code \in Codes : queue' = Append(q, code)
    BY <1>e, <2>4, HoldsAppend DEF Queued
  <2>5. CASE \E e \in Events : queue' = Append(q, e) /\ proc' = proc
    BY <2>2, <2>5, HoldsAppend DEF Queued
  <2> QED BY <1>q, <2>3, <2>4, <2>5
<1> QED BY <1>1, <1>2, <1>3 DEF ExitFirst

LEMMA WaitDecidesStep ==
    ASSUME TermInv, [Next]_vars
    PROVE  WaitDecides'
<1>0. /\ TypeOK /\ TypesTell /\ Announced /\ FirstPark /\ ExitFirst /\ WaitDecides /\ Core
      /\ queue \in Seq(Events) /\ conf'.type = conf.type
  BY CoreOfTypeOK, ConfKept DEF TermInv, WaitInv, Core
<1>t. /\ status \in {"Starting", "Started", "Stopped", "Failed"} /\ poststop \in BOOLEAN
      /\ proc \in {"main", "daemon", "none"} /\ srvc \in Srvc
      /\ (wait # NoWait => wait \in Wait)
  BY <1>0 DEF Core
<1>r. Refound => Refound'
  BY <1>0, ConfKept DEF Refound, ParkAgain
<1> SUFFICES ASSUME wait' # NoWait, ~Refound
             PROVE  IF conf.type = "exec" THEN wait'.confirm ELSE status' = "Starting" /\ NobodyEnds'
  BY <1>0, <1>r DEF WaitDecides
(* A wait that is kept is kept by a look, or by a step of somebody else. *)
<1>p. ASSUME NEW w, NEW s, NEW q, NEW c, Progress(w, s, c, q)
      PROVE  /\ wait' = w /\ srvc' = s /\ Verdict(w, s, c) = "Pending"
             /\ UNCHANGED << status, poststop, finish, proc >>
  BY <1>t, <1>p, ProgressEffect
<1>1. CASE OnPark
  <2>1. /\ wait' = NewWait /\ Verdict(NewWait, srvc, FALSE) = "Pending"
        /\ UNCHANGED << status, poststop, finish, tail >>
    BY <1>1, <1>p DEF OnPark
  <2>2. status = "Starting"
    BY <2>1 DEF Verdict
  <2>3. CASE conf.type = "exec"
    BY <2>1, <2>3 DEF NewWait
  <2>4. CASE conf.type # "exec"
    <3>1. NobodyEnds
      <4>1. CASE ~conf.again
        BY <1>0, <1>1, <4>1, TurnHolds DEF OnPark, FirstPark
      <4>2. CASE conf.again
        <5>1. conf.type = "oneshot"
          BY <1>0, <2>4, <4>2, StartWaitAssumption
          DEF StartWaitAssumption, AllTypes, TypeOK, Refound
        <5>2. srvc.exit = "none"
          BY <1>0, <1>t, <2>1, <5>1, OneshotVerdict DEF TypesTell
        <5>3. Head(queue) \notin Codes
          BY <1>1 DEF OnPark, Turn, Codes
        <5> QED BY <1>0, <5>1, <5>2, <5>3 DEF ExitFirst, NobodyEnds
      <4> QED BY <4>1, <4>2
    <3> QED BY <2>1, <2>2, <2>4, <3>1 DEF NobodyEnds
  <2> QED BY <2>3, <2>4
<1>2. CASE \E code \in Codes : OnExit(code)
  <2>1. PICK code \in Codes : OnExit(code)
    BY <1>2
  <2> DEFINE s == [srvc EXCEPT !.exit = code, !.mainPid = FALSE]
  <2>2. wait # NoWait /\ wait' = wait /\ Verdict(wait, s, FALSE) = "Pending"
    BY <1>p, <2>1 DEF OnExit, ProgressParked
  <2>3. conf.type = "exec"
    <3>1. status = "Starting"
      BY <2>2 DEF Verdict
    <3> QED BY <1>0, <2>1, <2>2, <3>1, ExitDecides
  <2> QED BY <1>0, <2>2, <2>3 DEF WaitDecides
<1>3. CASE \E event \in {"named", "unnamed"} : OnName(event)
  <2>1. wait # NoWait /\ Turn("named")
        /\ Verdict([wait EXCEPT !.dbus = TRUE], srvc, FALSE) = "Pending"
    BY <1>t, <1>p, <1>3, FailStartEffect DEF OnName, ProgressParked
  <2>2. conf.type = "dbus" /\ wait \in Wait
    BY <1>0, <1>t, <2>1, NamedTyped
  <2>3. [wait EXCEPT !.dbus = TRUE].dbus
    BY <2>2 DEF Wait
  <2> QED BY <2>1, <2>2, <2>3 DEF Verdict
<1>4. CASE ExpireConfirm
  BY <1>0, <1>4, <1>p, ConfirmedDecides DEF ExpireConfirm, Quiet
<1>5. CASE ExpireGrace \/ ExpireTerm \/ ExpireKill
  <2>1. wait # NoWait /\ ~wait.confirm
    BY <1>5 DEF ExpireGrace, ExpireTerm, ExpireKill, Due, Quiet
  <2>2. conf.type # "exec" /\ status = "Starting" /\ NobodyEnds
    BY <1>0, <2>1 DEF WaitDecides
  <2>3. CASE ExpireKill
    <3>1. UNCHANGED << status, poststop, finish, tail >>
      BY <1>t, <1>p, <2>2, <2>3, FailStartEffect DEF ExpireKill
    <3> QED BY <2>2, <3>1 DEF NobodyEnds
  <2>4. CASE ExpireGrace \/ ExpireTerm
    BY <2>2, <2>4 DEF ExpireGrace, ExpireTerm, NobodyEnds, unit, threads
  <2> QED BY <1>5, <2>3, <2>4
<1>6. CASE OnNotify
  <2>1. wait # NoWait /\ wait' = wait /\ UNCHANGED << status, poststop, finish, tail >>
    BY <1>6, <1>p DEF OnNotify, ProgressParked
  <2> QED BY <1>0, <2>1 DEF WaitDecides, NobodyEnds
<1>7. CASE PoststopEnds \/ Finisher \/ ExitTail
  <2>1. wait' = wait /\ ~NobodyEnds
    <3>1. wait' = wait
      BY <1>7 DEF PoststopEnds, Finisher, FinishCheck, FinishPost, FinishClear, FinishFlip,
                  ExitTail, TailLook, TailAct, disp
    <3>2. poststop \/ tail.at # "none" \/ BagToSet(finish) # {}
      BY <1>7 DEF PoststopEnds, Finisher, FinishCheck, FinishPost, FinishClear, FinishFlip,
                  FinisherAt, BagIn, ExitTail, TailLook, TailAct
    <3> QED BY <3>1, <3>2 DEF NobodyEnds
  <2> QED BY <1>0, <2>1 DEF WaitDecides
<1>8. CASE UNCHANGED << wait, status, poststop, finish, tail >>
  BY <1>0, <1>8 DEF WaitDecides, NobodyEnds
<1> QED
  BY <1>1, <1>2, <1>3, <1>4, <1>5, <1>6, <1>7, <1>8
  DEF Next, vars, unit, disp, threads, Environment, Send, ProcessExits, ParkAgain, ReadSocket,
      ExtensionEnds, WatcherReports, Dispatcher

(* The start timeout only ever hits a service that is still starting and   *)
(* has not reported ready, or whose report was first read by the drain of  *)
(* the deadline: any other wait is gone before anybody ends the start it   *)
(* is about, whatever the order of its events.  Only a second wait of a    *)
(* notifying, forking or bus service may outlive its start.                *)
THEOREM TimeoutIsDeserved == Spec => TermIsDeserved
<1>1. Init => TermInv
  BY InitWaitInv DEF TermInv
<1>2. TermInv /\ [Next]_vars => TermInv'
  BY WaitInvStep, FirstParkStep, ExitFirstStep, WaitDecidesStep DEF TermInv
<1>3. TermInv /\ [Next]_vars =>
          [termed' # termed => /\ srvc.ready => wait.grace = "late"
                               /\ status = "Starting" \/ Refound]_vars
  <2> SUFFICES ASSUME TermInv, [Next]_vars, termed' # termed
               PROVE  (srvc.ready => wait.grace = "late") /\ (status = "Starting" \/ Refound)
    OBVIOUS
  <2>1. ExpireTerm
    BY DEF Next, vars, disp, Environment, Send, ProcessExits, ParkAgain, ReadSocket,
           ExtensionEnds, WatcherReports, Dispatcher, OnNotify, OnPark, OnExit, PoststopEnds,
           OnName, ExpireConfirm, ExpireGrace, ExpireKill, Finisher, FinishCheck,
           FinishPost, FinishClear, FinishFlip, ExitTail, TailLook, TailAct
  <2>2. wait # NoWait /\ ~wait.confirm
    BY <2>1 DEF ExpireTerm, Due, Quiet
  <2>3. status = "Starting" \/ Refound
    BY <2>2 DEF TermInv, WaitDecides
  <2>4. srvc.ready => wait.grace = "late"
    BY <2>2 DEF TermInv, WaitInv, Reported
  <2> QED BY <2>3, <2>4
<1> QED BY <1>1, <1>2, <1>3, PTL DEF Spec, TermIsDeserved
=============================================================================
