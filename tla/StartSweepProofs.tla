-------------------------- MODULE StartSweepProofs --------------------------
(***************************************************************************)
(* Proofs about StartSweep, for every set of units and every graph of      *)
(* dependencies, conditions and failures.  The lemmas are about single     *)
(* steps, so that they also hold of the workers of BootDrive.              *)
(***************************************************************************)
EXTENDS StartSweep, FiniteSetTheorems, TLAPS

(* The units of the closure that u is ordered after have settled.          *)
Cleared(u) == u \in Closure /\ \A d \in After[u] \cap Closure : status[d] \in Settled

(* Whatever is on a pool, in the mail of the dispatcher or parked was      *)
(* startable once and is still.                                            *)
InFlight ==
    /\ \A t \in Tasks : Cleared(t.unit)
    /\ \A i \in 1 .. Len(mail) : Cleared(mail[i].unit)
    /\ \A u \in DOMAIN waits : Cleared(u)

(* A unit with a failing condition never gets as far as a transition, so   *)
(* that a unit which was skipped is not started after all.  The mounts and *)
(* devices of a boot are not asked.                                        *)
Unasked(u) == u \in Mounts \cup Devices \/ u \notin ConditionFails \cup AssertFails

Skips ==
    /\ \A t \in Tasks : t.step \in {"act", "locked"} => t.unit \notin ConditionFails \cup AssertFails
    /\ \A u \in Unit : status[u] = "Skipped" => u \in ConditionFails \ AssertFails
    /\ \A u \in Unit : status[u] \in {"Starting", "Started"} => Unasked(u)

SweepInv == TypeOK /\ Skips /\ InFlight /\ OrderRespected

-----------------------------------------------------------------------------
(* Bags, functions and sequences. *)

LEMMA Joined ==
    ASSUME NEW B, IsABag(B), NEW S
    PROVE  IsABag(B (+) SetToBag(S)) /\ BagToSet(B (+) SetToBag(S)) = BagToSet(B) \cup S
<1> DEFINE C == B (+) SetToBag(S)
<1>1. DOMAIN C = DOMAIN B \cup S /\ C = [e \in DOMAIN C |-> C[e]]
  BY DEF (+), SetToBag
<1>2. ASSUME NEW e \in DOMAIN C PROVE C[e] \in Nat /\ C[e] > 0
  BY <1>2 DEF IsABag, (+), SetToBag
<1> QED BY <1>1, <1>2 DEF IsABag, BagToSet

LEMMA Left ==
    ASSUME NEW B, IsABag(B), NEW x
    PROVE  IsABag(B (-) SetToBag({x})) /\ BagToSet(B (-) SetToBag({x})) \subseteq BagToSet(B)
<1> DEFINE C == B (-) SetToBag({x})
<1>1. DOMAIN C \subseteq DOMAIN B /\ C = [e \in DOMAIN C |-> C[e]]
  BY DEF (-), SetToBag
<1>2. ASSUME NEW e \in DOMAIN C PROVE C[e] \in Nat /\ C[e] > 0
  BY <1>2 DEF IsABag, (-), SetToBag
<1> QED BY <1>1, <1>2 DEF IsABag, BagToSet

(* Become replaces a task by others. *)
LEMMA BecomeTasks ==
    ASSUME IsABag(work), NEW t, NEW S, Become(t, S)
    PROVE  IsABag(work') /\ Tasks' \subseteq Tasks \cup S
<1> DEFINE B == work (-) SetToBag({t})
<1>1. IsABag(B) /\ BagToSet(B) \subseteq Tasks
  BY Left DEF Tasks
<1>2. work' = B (+) SetToBag(S)
  BY DEF Become
<1> HIDE DEF B
<1> QED BY <1>1, <1>2, Joined DEF Tasks

LEMMA WithoutProps ==
    ASSUME NEW f, NEW x
    PROVE  /\ DOMAIN Without(f, x) = DOMAIN f \ {x}
           /\ \A y \in DOMAIN Without(f, x) : Without(f, x)[y] = f[y]
BY DEF Without

Letter == [unit : Unit, chain : BOOLEAN]

LEMMA MailAppend ==
    ASSUME NEW q \in Seq(Letter), NEW e \in Letter
    PROVE  /\ Append(q, e) \in Seq(Letter) /\ Len(q) \in Nat
           /\ Len(Append(q, e)) = Len(q) + 1
           /\ \A i \in 1 .. Len(q) : Append(q, e)[i] = q[i]
           /\ Append(q, e)[Len(q) + 1] = e
OBVIOUS

LEMMA MailTail ==
    ASSUME NEW q \in Seq(Letter), q # << >>
    PROVE  /\ Tail(q) \in Seq(Letter) /\ Len(q) \in Nat /\ Len(q) >= 1
           /\ Head(q) = q[1] /\ Head(q) \in Letter
           /\ Len(Tail(q)) = Len(q) - 1
           /\ \A i \in 1 .. Len(q) - 1 : Tail(q)[i] = q[i + 1]
OBVIOUS

-----------------------------------------------------------------------------
(* Dependencies. *)

LEMMA ClosureInUnit == Closure \subseteq Unit
BY DEF Closure

(* A unit that unstarted_deps lets through is cleared, given that the      *)
(* activation set holds every unit of the closure that is NeverStarted.    *)
LEMMA StartableCleared ==
    ASSUME status \in [Unit -> Status], NEW u \in Closure, NEW set, Startable(u, set),
           \A d \in Closure : status[d] = "NeverStarted" => d \in set
    PROVE  Cleared(u)
<1> SUFFICES ASSUME NEW d \in After[u] \cap Closure PROVE status[d] \in Settled
  BY DEF Cleared
<1>1. d \notin UnstartedDeps(u, set) /\ status[d] \in Status
  BY ClosureInUnit DEF Startable
<1>2. CASE d \in Requires[u]
  BY <1>1, <1>2 DEF UnstartedDeps, Settled
<1>3. CASE d \in Wants[u] \ Requires[u]
  BY <1>1, <1>3 DEF UnstartedDeps
<1>4. CASE d \notin Wants[u] \cup Requires[u]
  <2>1. ~(status[d] = "Starting" \/ (status[d] = "NeverStarted" /\ d \in set))
    BY <1>1, <1>4 DEF UnstartedDeps
  <2> QED BY <1>1, <2>1 DEF Status, Settled, Stopped
<1> QED BY <1>2, <1>3, <1>4

LEMMA DispatchedProps ==
    ASSUME status \in [Unit -> Status], NEW ids, NEW by \in {"job", "sweep", "chain"}
    PROVE  \A t \in Dispatched(ids, by) : t \in Task /\ t.step = "queued" /\ Cleared(t.unit)
<1> SUFFICES ASSUME NEW v \in ids \cap Closure, Startable(v, Closure)
             PROVE  /\ NewTask(v, by, NoJob) \in Task /\ NewTask(v, by, NoJob).step = "queued"
                    /\ Cleared(NewTask(v, by, NoJob).unit)
  BY DEF Dispatched
<1>1. NewTask(v, by, NoJob) \in Task /\ NewTask(v, by, NoJob).step = "queued"
      /\ NewTask(v, by, NoJob).unit = v
  BY ClosureInUnit DEF NewTask, Task
<1>2. Cleared(v)
  BY StartableCleared
<1> QED BY <1>1, <1>2

-----------------------------------------------------------------------------
(* What a step may do to the status of the units: what has settled stays   *)
(* settled, and only a unit that is cleared leaves NeverStarted.           *)

StatusStep ==
    /\ status' \in [Unit -> Status]
    /\ \A u \in Unit : status[u] \in Settled => status'[u] \in Settled
    /\ \A u \in Closure : status[u] = "NeverStarted" /\ status'[u] # "NeverStarted" => Cleared(u)
    /\ \A u \in Unit : status'[u] = "Skipped" => u \in ConditionFails \ AssertFails
    /\ \A u \in Unit : status'[u] \in {"Starting", "Started"} => Unasked(u)

LEMMA SetStatusStep ==
    ASSUME TypeOK, Skips, NEW u \in Unit, NEW s \in Status, SetStatus(u, s),
           status[u] \in Settled => s \in Settled,
           status[u] = "NeverStarted" => Cleared(u),
           s = "Skipped" => u \in ConditionFails \ AssertFails,
           s \in {"Starting", "Started"} => Unasked(u)
    PROVE  StatusStep
<1>1. status \in [Unit -> Status] /\ status' = [status EXCEPT ![u] = s]
  BY DEF TypeOK, SetStatus
<1> QED BY <1>1, ClosureInUnit DEF StatusStep, Skips

LEMMA SameStatusStep == ASSUME TypeOK, Skips, status' = status PROVE StatusStep
BY DEF TypeOK, Skips, StatusStep

LEMMA WorkerStatus ==
    ASSUME TypeOK, Skips, InFlight, NEW t \in Tasks, WorkerStep(t)
    PROVE  StatusStep
<1>0. t \in Task /\ t.unit \in Unit /\ Cleared(t.unit) /\ status[t.unit] \in Status
  BY DEF TypeOK, InFlight, Task
<1> USE DEF Status, Settled, Stopped
<1>1. CASE Check(t)
  BY <1>0, <1>1, SetStatusStep, SameStatusStep DEF Check
<1>2. CASE Act(t)
  <2>1. CASE status' = status
    BY <2>1, SameStatusStep
  <2>2. CASE SetStatus(t.unit, "Starting") /\ status[t.unit] \notin {"Started", "Failed"}
    <3>1. status[t.unit] # "Skipped" /\ Unasked(t.unit)
      BY <1>0, <1>2 DEF Act, Skips, Unasked
    <3> QED BY <1>0, <2>2, <3>1, SetStatusStep
  <2> QED BY <1>2, <2>1, <2>2 DEF Act
<1>3. CASE Perform(t)
  <2>1. Unasked(t.unit)
    BY <1>3 DEF Perform, Skips, Unasked
  <2> QED BY <1>0, <1>3, <2>1, SetStatusStep, SameStatusStep DEF Perform
<1>4. CASE FinishStart(t)
  <2>1. status[t.unit] = "Starting" => Unasked(t.unit)
    BY <1>0 DEF Skips
  <2> QED BY <1>0, <1>4, <2>1, SetStatusStep, SameStatusStep DEF FinishStart
<1>5. CASE Enter(t) \/ Leave(t) \/ LeaveWithError(t) \/ Chain(t)
  BY <1>5, SameStatusStep DEF Enter, Leave, LeaveWithError, Chain
<1> QED BY <1>1, <1>2, <1>3, <1>4, <1>5 DEF WorkerStep

LEMMA DispatcherStatus ==
    ASSUME TypeOK, Skips, InFlight, DispatcherStep
    PROVE  StatusStep
<1>1. CASE Register \/ \E u \in Deferring : NotifyReady(u)
  BY <1>1, SameStatusStep DEF Register, NotifyReady
<1>2. CASE \E u \in Deferring : StartFails(u)
  <2>1. PICK u \in Deferring : StartFails(u)
    BY <1>2
  <2>2. u \in Unit /\ Cleared(u)
    BY <2>1, ClosureInUnit DEF StartFails, InFlight, Cleared
  <2> QED BY <2>1, <2>2, SetStatusStep DEF StartFails, Status, Settled, Stopped
<1> QED BY <1>1, <1>2 DEF DispatcherStep

LEMMA ClearedKept == ASSUME StatusStep, NEW u, Cleared(u) PROVE Cleared(u)'
BY ClosureInUnit DEF StatusStep, Cleared

LEMMA OrderKept == ASSUME TypeOK, OrderRespected, StatusStep PROVE OrderRespected'
<1> SUFFICES ASSUME NEW u \in Closure, status'[u] # "NeverStarted"
             PROVE  \A d \in After[u] \cap Closure : status'[d] \in Settled
  BY DEF OrderRespected
<1>1. Cleared(u)
  BY DEF OrderRespected, StatusStep, Cleared
<1> QED BY <1>1, ClearedKept DEF Cleared

-----------------------------------------------------------------------------
(* What a step puts on a pool, into the mail or among the waits. *)

Carried(S) == \A t \in S : t \in Task /\ Cleared(t.unit)
    /\ (t.step \in {"act", "locked"} => t.unit \notin ConditionFails \cup AssertFails)

LEMMA BecomeCarried ==
    ASSUME TypeOK, Skips, InFlight, StatusStep, NEW t, NEW S, Become(t, S), Carried(S)
    PROVE  IsABag(work') /\ Carried(Tasks)'
<1>1. IsABag(work') /\ Tasks' \subseteq Tasks \cup S
  BY BecomeTasks DEF TypeOK
<1>2. Carried(Tasks)
  BY DEF TypeOK, Skips, InFlight, Carried
<1> SUFFICES ASSUME NEW x \in Tasks'
             PROVE  x \in Task /\ Cleared(x.unit)'
                    /\ (x.step \in {"act", "locked"} => x.unit \notin ConditionFails \cup AssertFails)
  BY <1>1 DEF Carried
<1>3. x \in Task /\ Cleared(x.unit)
      /\ (x.step \in {"act", "locked"} => x.unit \notin ConditionFails \cup AssertFails)
  BY <1>1, <1>2 DEF Carried
<1> QED BY <1>3, ClearedKept

LEMMA JoinCarried ==
    ASSUME TypeOK, Skips, InFlight, StatusStep, NEW S, work' = work (+) SetToBag(S), Carried(S)
    PROVE  IsABag(work') /\ Carried(Tasks)'
<1>1. IsABag(work') /\ Tasks' = Tasks \cup S
  BY Joined DEF TypeOK, Tasks
<1>2. Carried(Tasks)
  BY DEF TypeOK, Skips, InFlight, Carried
<1> SUFFICES ASSUME NEW x \in Tasks'
             PROVE  x \in Task /\ Cleared(x.unit)'
                    /\ (x.step \in {"act", "locked"} => x.unit \notin ConditionFails \cup AssertFails)
  BY <1>1 DEF Carried
<1>3. x \in Task /\ Cleared(x.unit)
      /\ (x.step \in {"act", "locked"} => x.unit \notin ConditionFails \cup AssertFails)
  BY <1>1, <1>2 DEF Carried
<1> QED BY <1>3, ClearedKept

LEMMA SameCarried ==
    ASSUME TypeOK, Skips, InFlight, StatusStep, work' = work
    PROVE  IsABag(work') /\ Carried(Tasks)'
<1>1. IsABag(work') /\ Tasks' = Tasks
  BY DEF TypeOK, Tasks
<1> QED BY <1>1, ClearedKept DEF TypeOK, Skips, InFlight, Carried

(* A task that goes on. *)
LEMMA ReturnCarried ==
    ASSUME TypeOK, Skips, InFlight, StatusStep, NEW t \in Tasks,
           NEW step \in {"queued", "check", "act", "locked", "mounting", "ret", "err", "quit",
                         "chain", "finish"},
           NEW chain \in BOOLEAN, Return(t, step, chain),
           step \in {"act", "locked"} => t.unit \notin ConditionFails \cup AssertFails
    PROVE  IsABag(work') /\ Carried(Tasks)'
<1> DEFINE n == [t EXCEPT !.step = step, !.chain = chain]
<1>1. t \in Task /\ Cleared(t.unit)
  BY DEF TypeOK, InFlight
<1>2. n \in Task /\ n.unit = t.unit /\ n.step = step
  BY <1>1 DEF Task
<1>3. Carried({n})
  BY <1>1, <1>2 DEF Carried
<1>4. Become(t, {n})
  BY DEF Return
<1> QED BY <1>3, <1>4, BecomeCarried

Delivered ==
    /\ mail \in Seq(Letter)
    /\ \A i \in 1 .. Len(mail) : Cleared(mail[i].unit)

Awaited ==
    /\ DOMAIN waits \subseteq Deferring
    /\ \A u \in DOMAIN waits : waits[u] \in BOOLEAN /\ Cleared(u)

LEMMA SameDelivered ==
    ASSUME TypeOK, InFlight, StatusStep, mail' = mail PROVE Delivered'
BY ClearedKept DEF TypeOK, InFlight, Delivered, Letter

LEMMA SameAwaited ==
    ASSUME TypeOK, InFlight, StatusStep, waits' = waits PROVE Awaited'
BY ClearedKept DEF TypeOK, InFlight, Awaited

LEMMA AppendDelivered ==
    ASSUME TypeOK, InFlight, StatusStep, NEW u, Cleared(u), NEW chain \in BOOLEAN,
           mail' = Append(mail, [unit |-> u, chain |-> chain])
    PROVE  Delivered'
<1>1. [unit |-> u, chain |-> chain] \in Letter /\ mail \in Seq(Letter)
  BY ClosureInUnit DEF Letter, Cleared, TypeOK
<1>2. \A i \in 1 .. Len(mail) : Cleared(mail[i].unit)'
  BY ClearedKept DEF InFlight
<1>3. Cleared(u)'
  BY ClearedKept
<1>4. \A i \in 1 .. Len(mail') : i \in 1 .. Len(mail) \/ i = Len(mail) + 1
  BY <1>1, MailAppend
<1> QED BY <1>1, <1>2, <1>3, <1>4, MailAppend DEF Delivered

LEMMA TailDelivered ==
    ASSUME TypeOK, InFlight, StatusStep, mail # << >>, mail' = Tail(mail)
    PROVE  Delivered' /\ Head(mail) \in Letter /\ Cleared(Head(mail).unit)
<1>1. mail \in Seq(Letter)
  BY DEF Letter, TypeOK
<1>2. \A i \in 1 .. Len(mail) : Cleared(mail[i].unit)
  BY DEF InFlight
<1>3. ASSUME NEW i \in 1 .. Len(mail') PROVE Cleared(mail[i].unit)'
  <2>1. i + 1 \in 1 .. Len(mail) /\ mail'[i] = mail[i + 1]
    BY <1>1, MailTail
  <2> QED BY <1>2, <2>1, ClearedKept
<1>4. 1 \in 1 .. Len(mail) /\ Head(mail) = mail[1] /\ Head(mail) \in Letter /\ mail' \in Seq(Letter)
  BY <1>1, MailTail
<1>5. Delivered'
  BY <1>3, <1>4 DEF Delivered
<1> QED BY <1>2, <1>4, <1>5

LEMMA WithoutAwaited ==
    ASSUME DOMAIN waits \subseteq Deferring, \A v \in DOMAIN waits : waits[v] \in BOOLEAN,
           \A v \in DOMAIN waits : Cleared(v)', NEW u, waits' = Without(waits, u)
    PROVE  Awaited'
<1>1. DOMAIN waits' = DOMAIN waits \ {u} /\ \A v \in DOMAIN waits' : waits'[v] = waits[v]
  BY WithoutProps
<1> QED BY <1>1 DEF Awaited

LEMMA ProgressProps ==
    ASSUME TypeOK, Skips, InFlight, StatusStep,
           NEW u \in Deferring, Cleared(u), NEW chain \in BOOLEAN, NEW signaled,
           Progress(u, chain, signaled)
    PROVE  IsABag(work') /\ Carried(Tasks)' /\ Awaited'
<1>1. Awaited'
  <2>1. waits' = With(waits, u, chain) \/ waits' = Without(waits, u)
    BY DEF Progress
  <2>2. Cleared(u)' /\ \A v \in DOMAIN waits : Cleared(v)'
    BY ClearedKept DEF InFlight
  <2>3. DOMAIN waits \subseteq Deferring /\ \A v \in DOMAIN waits : waits[v] \in BOOLEAN
    BY DEF TypeOK
  <2>4. CASE waits' = With(waits, u, chain)
    <3>1. DOMAIN waits' = DOMAIN waits \cup {u}
          /\ \A v \in DOMAIN waits' : waits'[v] = IF v = u THEN chain ELSE waits[v]
      BY <2>4 DEF With
    <3> QED BY <2>2, <2>3, <3>1 DEF Awaited
  <2>5. CASE waits' = Without(waits, u)
    BY <2>2, <2>3, <2>5, WithoutAwaited
  <2> QED BY <2>1, <2>4, <2>5
<1>2. IsABag(work') /\ Carried(Tasks)'
  <2> DEFINE n(step) == [Parked(u, step) EXCEPT !.chain = chain]
  <2>1. ASSUME NEW step \in {"chain", "finish"} PROVE Carried({n(step)})
    <3>1. n(step) \in Task /\ n(step).unit = u /\ n(step).step = step
      BY ClosureInUnit DEF Parked, Task, Cleared
    <3> QED BY <3>1 DEF Carried
  <2>2. \/ work' = work (+) SetToBag({n("chain")})
        \/ work' = work (+) SetToBag({n("finish")})
        \/ work' = work
    BY DEF Progress
  <2> HIDE DEF n
  <2> QED BY <2>1, <2>2, JoinCarried, SameCarried
<1> QED BY <1>1, <1>2

-----------------------------------------------------------------------------
(* The steps. *)

LEMMA Together ==
    ASSUME IsABag(work'), Carried(Tasks)', Delivered', Awaited', StatusStep,
           TypeOK, OrderRespected, forked' \subseteq Deferring, ready' \subseteq Deferring,
           sweep' \in [pc : {"idle", "pass", "join", "done"}, before : 0 .. Cardinality(Unit)]
    PROVE  SweepInv'
<1>1. TypeOK'
  BY DEF TypeOK, Carried, Delivered, Awaited, Letter, StatusStep
<1>2. Skips' /\ InFlight'
  BY DEF Skips, InFlight, Carried, Delivered, Awaited, StatusStep
<1> QED BY <1>1, <1>2, OrderKept DEF SweepInv

LEMMA WorkerSound ==
    ASSUME SweepInv, NEW t \in Tasks, WorkerStep(t) PROVE SweepInv'
<1>0. TypeOK /\ Skips /\ InFlight /\ OrderRespected /\ StatusStep
  BY WorkerStatus DEF SweepInv
<1>t. t \in Task /\ t.unit \in Unit /\ t.chain \in BOOLEAN /\ t.by \in {"job", "sweep", "chain"}
      /\ Cleared(t.unit)
  BY <1>0 DEF TypeOK, InFlight, Task
<1>u. /\ forked \subseteq Deferring /\ ready \subseteq Deferring
      /\ sweep \in [pc : {"idle", "pass", "join", "done"}, before : 0 .. Cardinality(Unit)]
  BY <1>0 DEF TypeOK
<1>1. CASE Enter(t)
  <2>1. IsABag(work') /\ Carried(Tasks)'
    BY <1>0, <1>1, ReturnCarried DEF Enter
  <2> QED BY <1>0, <1>u, <1>1, <2>1, SameDelivered, SameAwaited, Together DEF Enter
<1>2. CASE Act(t)
  <2>1. IsABag(work') /\ Carried(Tasks)'
    <3>1. t.unit \notin ConditionFails \cup AssertFails
      BY <1>0, <1>2 DEF Act, Skips
    <3>2. (t.chain /\ status[t.unit] = "Started") \in BOOLEAN
      OBVIOUS
    <3> QED BY <1>0, <1>t, <1>2, <3>1, <3>2, ReturnCarried DEF Act
  <2> QED BY <1>0, <1>u, <1>2, <2>1, SameDelivered, SameAwaited, Together DEF Act
<1>3. CASE Perform(t)
  <2>1. IsABag(work') /\ Carried(Tasks)'
    BY <1>0, <1>t, <1>3, ReturnCarried DEF Perform
  <2>2. forked' \subseteq Deferring /\ ready' \subseteq Deferring
    BY <1>u, <1>3 DEF Perform
  <2> QED BY <1>0, <1>u, <1>3, <2>1, <2>2, SameDelivered, SameAwaited, Together DEF Perform
<1>4. CASE Leave(t)
  <2>1. IsABag(work') /\ Carried(Tasks)'
    <3>1. Carried({})
      BY DEF Carried
    <3> QED BY <1>0, <1>t, <1>4, <3>1, BecomeCarried, ReturnCarried DEF Leave
  <2>2. Delivered'
    BY <1>0, <1>t, <1>4, AppendDelivered, SameDelivered DEF Leave
  <2> QED BY <1>0, <1>u, <1>4, <2>1, <2>2, SameAwaited, Together DEF Leave
<1>5. CASE LeaveWithError(t) \/ Chain(t)
  <2>1. IsABag(work') /\ Carried(Tasks)'
    <3>1. Carried({}) /\ Carried(Dispatched(Before(t.unit), t.by))
      BY <1>0, <1>t, DispatchedProps DEF Carried, TypeOK
    <3> QED BY <1>0, <1>5, <3>1, BecomeCarried DEF LeaveWithError, Chain
  <2> QED BY <1>0, <1>u, <1>5, <2>1, SameDelivered, SameAwaited, Together DEF LeaveWithError, Chain
<1>6. CASE FinishStart(t)
  <2>1. IsABag(work') /\ Carried(Tasks)'
    <3>1. Carried({})
      BY DEF Carried
    <3> QED BY <1>0, <1>t, <1>6, <3>1, BecomeCarried, ReturnCarried DEF FinishStart
  <2> QED BY <1>0, <1>u, <1>6, <2>1, SameDelivered, SameAwaited, Together DEF FinishStart
<1>7. CASE Check(t)
  <2>1. IsABag(work') /\ Carried(Tasks)'
    <3>1. (status[t.unit] # "Started") \in BOOLEAN
      OBVIOUS
    <3> QED BY <1>0, <1>7, <3>1, ReturnCarried DEF Check
  <2> QED BY <1>0, <1>u, <1>7, <2>1, SameDelivered, SameAwaited, Together DEF Check
<1> QED BY <1>1, <1>2, <1>3, <1>4, <1>5, <1>6, <1>7 DEF WorkerStep

LEMMA DispatcherSound == ASSUME SweepInv, DispatcherStep PROVE SweepInv'
<1>0. TypeOK /\ Skips /\ InFlight /\ OrderRespected /\ StatusStep
  BY DispatcherStatus DEF SweepInv
<1>u. /\ forked \subseteq Deferring /\ ready \subseteq Deferring
      /\ sweep \in [pc : {"idle", "pass", "join", "done"}, before : 0 .. Cardinality(Unit)]
  BY <1>0 DEF TypeOK
<1>1. CASE Register
  <2>1. Delivered' /\ Head(mail).chain \in BOOLEAN /\ Cleared(Head(mail).unit)
    BY <1>0, <1>1, TailDelivered DEF Register, Letter
  <2>2. IsABag(work') /\ Carried(Tasks)' /\ Awaited'
    <3>1. CASE Head(mail).unit \in Deferring
      BY <1>0, <1>1, <2>1, <3>1, ProgressProps DEF Register
    <3>2. CASE Head(mail).unit \notin Deferring
      BY <1>0, <1>1, <3>2, SameCarried, SameAwaited DEF Register
    <3> QED BY <3>1, <3>2
  <2> QED BY <1>0, <1>u, <1>1, <2>1, <2>2, Together DEF Register
<1>2. CASE \E u \in Deferring : NotifyReady(u)
  <2>1. PICK u \in Deferring : NotifyReady(u)
    BY <1>2
  <2>2. IsABag(work') /\ Carried(Tasks)' /\ Awaited'
    <3>1. CASE u \in DOMAIN waits
      <4>1. Cleared(u) /\ waits[u] \in BOOLEAN
        BY <1>0, <3>1 DEF InFlight, TypeOK
      <4> QED BY <1>0, <2>1, <3>1, <4>1, ProgressProps DEF NotifyReady
    <3>2. CASE u \notin DOMAIN waits
      BY <1>0, <2>1, <3>2, SameCarried, SameAwaited DEF NotifyReady
    <3> QED BY <3>1, <3>2
  <2>3. ready' \subseteq Deferring
    BY <1>u, <2>1 DEF NotifyReady
  <2> QED BY <1>0, <1>u, <2>1, <2>2, <2>3, SameDelivered, Together DEF NotifyReady
<1>3. CASE \E u \in Deferring : StartFails(u)
  <2>1. PICK u \in Deferring : StartFails(u)
    BY <1>3
  <2>2. Awaited'
    <3>1. waits' = Without(waits, u)
      BY <2>1 DEF StartFails
    <3>2. \A v \in DOMAIN waits : Cleared(v)'
      BY <1>0, ClearedKept DEF InFlight
    <3> QED BY <1>0, <3>1, <3>2, WithoutAwaited DEF TypeOK
  <2>3. forked' \subseteq Deferring
    BY <1>u, <2>1 DEF StartFails
  <2> QED BY <1>0, <1>u, <2>1, <2>2, <2>3, SameCarried, SameDelivered, Together DEF StartFails
<1> QED BY <1>1, <1>2, <1>3 DEF DispatcherStep

LEMMA CountBounded == StartedCount \in 0 .. Cardinality(Unit)
<1>1. IsFiniteSet(Unit)
  BY GraphAssumption DEF GraphAssumption
<1>2. {u \in Closure : status[u] = "Started"} \subseteq Unit
  BY ClosureInUnit
<1> QED BY <1>1, <1>2, FS_Subset, FS_CardinalityType DEF StartedCount

LEMMA SweepSound == ASSUME SweepInv, SweepStep PROVE SweepInv'
<1>0. TypeOK /\ Skips /\ InFlight /\ OrderRespected
  BY DEF SweepInv
<1>1. StatusStep
  BY <1>0, SameStatusStep DEF SweepStep, SweepPass, SweepJoin
<1>2. IsABag(work') /\ Carried(Tasks)'
  <2>1. Carried(Dispatched(Closure, "sweep"))
    BY <1>0, DispatchedProps DEF Carried, TypeOK
  <2> QED BY <1>0, <1>1, <2>1, JoinCarried, SameCarried DEF SweepStep, SweepPass, SweepJoin
<1>3. /\ forked' \subseteq Deferring /\ ready' \subseteq Deferring
      /\ sweep' \in [pc : {"idle", "pass", "join", "done"}, before : 0 .. Cardinality(Unit)]
  BY <1>0, CountBounded DEF SweepStep, SweepPass, SweepJoin, TypeOK
<1>4. mail' = mail /\ waits' = waits
  BY DEF SweepStep, SweepPass, SweepJoin
<1> QED BY <1>0, <1>1, <1>2, <1>3, <1>4, SameDelivered, SameAwaited, Together

LEMMA NothingSound ==
    ASSUME Nothing, sweep \in [pc : {"idle", "pass", "join", "done"}, before : {0}]
    PROVE  SweepInv
<1>1. 0 \in 0 .. Cardinality(Unit)
  BY FS_CardinalityType, GraphAssumption DEF GraphAssumption
<1>2. Tasks = {} /\ IsABag(work) /\ mail = << >> /\ DOMAIN waits = {}
  BY DEF Nothing, Tasks, EmptyBag, SetToBag, BagToSet, IsABag
<1>3. TypeOK
  BY <1>1, <1>2 DEF Nothing, TypeOK, Status
<1>4. Skips /\ InFlight
  BY <1>2 DEF Nothing, Skips, InFlight
<1>5. OrderRespected
  BY ClosureInUnit DEF Nothing, OrderRespected
<1> QED BY <1>3, <1>4, <1>5 DEF SweepInv

LEMMA SweepInvAlways == Spec => []SweepInv
<1>1. Init => SweepInv
  BY NothingSound DEF Init
<1>2. SweepInv /\ [Next]_sweepVars => SweepInv'
  <2> SUFFICES ASSUME SweepInv, [Next]_sweepVars PROVE SweepInv'
    OBVIOUS
  <2>1. CASE UNCHANGED sweepVars
    BY <2>1 DEF sweepVars, SweepInv, TypeOK, Tasks, Skips, InFlight, Cleared, OrderRespected
  <2> QED BY <2>1, WorkerSound, DispatcherSound, SweepSound DEF Next
<1> QED BY <1>1, <1>2, PTL DEF Spec

(* The variables keep their types; a wait is only ever one of a service.   *)
THEOREM SweepTypes == Spec => []TypeOK
BY SweepInvAlways, PTL DEF SweepInv

(* After= holds among the units of the closure, whichever of the passes of *)
(* the sweep, the walks along before-chains and the completions of parked  *)
(* starts comes first, for every graph: a unit that left NeverStarted      *)
(* finds everything it is ordered after settled, for good.                 *)
THEOREM OrderHolds == Spec => []OrderRespected
BY SweepInvAlways, PTL DEF SweepInv
=============================================================================
