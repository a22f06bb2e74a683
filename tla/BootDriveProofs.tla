--------------------------- MODULE BootDriveProofs ---------------------------
(***************************************************************************)
(* The drive of the boot's jobs, for every finite dependency graph and     *)
(* every number of ids that is enough for it.                              *)
(*                                                                         *)
(*   BootTypes, NoJobIsStranded   whatever else starts units: from         *)
(*                                DriveInv, which relates the registry,    *)
(*                                the tasks on the pools and the drive     *)
(*   BootOrder, BootIsComplete    for a boot whose units are started once  *)
(*                                (StartedOnce): from BootInv, which adds  *)
(*                                readiness and who is at work on what     *)
(***************************************************************************)
EXTENDS BootDrive, StartSweepProofs, JobOpsProofs

(* What is on a pool for the drive.                                        *)
JobTasks(u) == {t \in Tasks : t.by = "job" /\ t.unit = u}

(* A job that is still to be handed to a pool: it waits, or the drive has  *)
(* just popped it.                                                         *)
Undispatched(u) ==
    \E id \in Installed(reg) :
        reg.jobs[id].unit = u /\ (reg.jobs[id].state = "Waiting" \/ drive.id = id)

-----------------------------------------------------------------------------
(* The registry and the tasks, whatever else starts units. *)

(* A task has the job of its unit, if that is still installed.             *)
Matched(t) ==
    /\ t.id \in JobId /\ t.id < reg.nextId
    /\ t.id \in Installed(reg) => reg.jobs[t.id].unit = t.unit

TasksMatch == \A t \in Tasks : t.by = "job" => Matched(t)

(* A worker of the drive leaves its unit alone only when it is under way,  *)
(* and does not go on to the units after it.                               *)
Moved(t) ==
    /\ t.step \in {"queued", "check", "act", "locked", "mounting", "ret", "err", "quit"}
    /\ t.step \in {"locked", "ret", "quit"} => status[t.unit] # "NeverStarted"

TasksMove == \A t \in Tasks : t.by = "job" => Moved(t)

(* The producer and the drive take turns.                                  *)
Turns ==
    /\ drive.id # NoJob => drive.pc \in {"popped", "start"}
    /\ draining => producer = "tick"
    /\ drive.pc # "idle" => producer \in {"tick", "done", "gaveUp"}
    /\ producer = "install" => reg = EmptyRegistry

DriveInv == BootTypeOK /\ Sound(reg) /\ Turns /\ TasksMatch /\ TasksMove /\ NoStrandedJob

-----------------------------------------------------------------------------
(* A boot whose units are started once. *)

(* Other starters keep apart, and every start gets as far as Starting      *)
(* within the 90 s of its job.                                             *)
StartedOnce == OthersApart /\ Slow = {}

Ready(u) == u \in Closure /\ Startable(u, Closure)

(* What is being started could be, and still can.                          *)
Ripe ==
    /\ \A t \in Tasks : Ready(t.unit)
    /\ \A id \in Installed(reg) :
         reg.jobs[id].state = "Running" \/ id \in Queued(reg) => Ready(reg.jobs[id].unit)
    /\ \A u \in Unit \ Devices : status[u] # "NeverStarted" => Ready(u)
    /\ \A u \in Devices \cap Unit : status[u] \in {"NeverStarted", "Started"}

(* A unit of the closure that is NeverStarted has a job, and a job is      *)
(* given up only when its unit is under way.                               *)
Covered ==
    /\ producer # "install" =>
         \A u \in Closure : status[u] = "NeverStarted" => u \in UnitsWithJobs
    /\ drive.pc = "prime" =>
         \A u \in Closure : status[u] = "NeverStarted" => u \in drive.set
    /\ \A id \in Installed(reg) : reg.jobs[id].unit \in Closure
    /\ \A id \in Expired(reg) : StatusOf(id) # "NeverStarted"
    /\ \A t \in Tasks : t.step = "err" => status[t.unit] # "NeverStarted"

(* The job the drive holds runs.                                           *)
Held == drive.id \in Installed(reg) => reg.jobs[drive.id].state = "Running"

(* Nothing happens before the jobs are there, and the producer is done     *)
(* when they are gone.                                                     *)
Ends ==
    /\ producer = "install" => work = EmptyBag /\ mail = << >> /\ DOMAIN waits = {}
    /\ producer = "done" => Installed(reg) = {}

(* Who starts what: other starters are at work on the units they get to,   *)
(* and otherwise parked starts are finished, without a before-chain.       *)
Origins ==
    /\ \A t \in Tasks : t.by = "job" \/ t.unit \in Reached
         \/ (t.step \in {"finish", "chain"} /\ t.unit \in Deferring /\ ~t.chain)
    /\ \A t \in Tasks : t.by # "sweep"
    /\ \A t \in Tasks : t.by = "job" /\ t.unit \in Mounts =>
         t.step \in {"queued", "mounting", "err", "quit"}
    /\ \A t \in Tasks : t.step = "mounting" => t.by = "job" /\ t.unit \in Mounts
    /\ \A i \in 1 .. Len(mail) : mail[i].unit \in Reached \/ ~mail[i].chain
    /\ \A u \in DOMAIN waits : ~waits[u]

(* A start of u that was handed to the dispatcher.                         *)
Deferred(u) ==
    \/ \E i \in 1 .. Len(mail) : mail[i].unit = u
    \/ u \in DOMAIN waits
    \/ \E t \in Tasks : t.unit = u /\ t.step = "finish"

(* A unit that other starters do not get to is in one place.               *)
Alone ==
    \A u \in Unit \ Reached :
        /\ \A s, t \in JobTasks(u) : s = t /\ work[t] = 1
        /\ Undispatched(u) \/ Deferred(u) => JobTasks(u) = {}
        /\ Deferred(u) => ~Undispatched(u)

(* A start has its unit to itself until it is over.                        *)
LockedOnce ==
    \A s, t \in Tasks : s.step = "locked" /\ t.step = "locked" /\ s.unit = t.unit =>
        s = t /\ work[t] = 1

LockedStarts == \A t \in Tasks : t.step = "locked" => status[t.unit] = "Starting"

MountsFresh ==
    \A u \in Mounts \cap Unit :
        /\ \A t \in JobTasks(u) : t.step \in {"queued", "mounting"} => status[u] = "NeverStarted"
        /\ drive.pc = "start" /\ drive.id \in Installed(reg) /\ reg.jobs[drive.id].unit = u
             => status[u] = "NeverStarted"

WaitsStart == \A u \in DOMAIN waits : status[u] = "Starting" /\ u \notin ready

FinishReady == \A t \in Tasks : t.step = "finish" => t.unit \in ready

Locks == LockedOnce /\ LockedStarts /\ MountsFresh /\ WaitsStart /\ FinishReady

BootInv ==
    /\ DriveInv /\ SweepInv
    /\ Ripe /\ Covered /\ Held /\ Ends /\ Origins /\ Alone /\ Locks

-----------------------------------------------------------------------------
(* The pool. *)

(* How often x is on the pool.                                             *)
Copies(B, x) == IF x \in DOMAIN B THEN B[x] ELSE 0

LEMMA CopiesAre ==
    ASSUME NEW B, IsABag(B)
    PROVE  \A x : /\ x \in BagToSet(B) <=> Copies(B, x) > 0
                  /\ x \in BagToSet(B) => B[x] = Copies(B, x)
                  /\ Copies(B, x) \in Nat
BY DEF BagToSet, IsABag, Copies

LEMMA JoinedCopies ==
    ASSUME NEW B, IsABag(B), NEW S
    PROVE  \A x : Copies(B (+) SetToBag(S), x) = Copies(B, x) + (IF x \in S THEN 1 ELSE 0)
<1> DEFINE C == B (+) SetToBag(S)
<1>1. DOMAIN C = DOMAIN B \cup S
  BY DEF (+), SetToBag
<1>2. \A x \in DOMAIN C : C[x] = (IF x \in DOMAIN B THEN B[x] ELSE 0) + (IF x \in S THEN 1 ELSE 0)
  BY DEF (+), SetToBag
<1>3. \A x \in DOMAIN B : B[x] \in Nat
  BY DEF IsABag
<1> HIDE DEF C
<1>4. ASSUME NEW x PROVE Copies(C, x) = Copies(B, x) + (IF x \in S THEN 1 ELSE 0)
  BY <1>1, <1>2, <1>3 DEF Copies
<1> QED BY <1>4 DEF C

LEMMA LeftCopies ==
    ASSUME NEW B, IsABag(B), NEW y \in BagToSet(B)
    PROVE  \A x : Copies(B (-) SetToBag({y}), x) = Copies(B, x) - (IF x = y THEN 1 ELSE 0)
<1> DEFINE C == B (-) SetToBag({y})
           f == [e \in DOMAIN B |-> IF e = y THEN B[e] - 1 ELSE B[e]]
<1>1. /\ \A e \in DOMAIN B : B[e] \in Nat /\ B[e] > 0
      /\ y \in DOMAIN B
  BY DEF IsABag, BagToSet
<1>2. DOMAIN C = {d \in DOMAIN B : f[d] > 0} /\ \A d \in DOMAIN C : C[d] = f[d]
  BY DEF (-), SetToBag
<1> HIDE DEF C
<1>3. ASSUME NEW x PROVE Copies(C, x) = Copies(B, x) - (IF x = y THEN 1 ELSE 0)
  BY <1>1, <1>2 DEF Copies
<1> QED BY <1>3 DEF C

(* Become takes one copy of a task away and adds one of each of the others.*)
LEMMA BecomeCopies ==
    ASSUME IsABag(work), NEW t \in Tasks, NEW S, Become(t, S)
    PROVE  /\ IsABag(work')
           /\ \A x : Copies(work', x) = Copies(work, x) - (IF x = t THEN 1 ELSE 0)
                                          + (IF x \in S THEN 1 ELSE 0)
<1> DEFINE B == work (-) SetToBag({t})
<1>1. IsABag(B) /\ \A x : Copies(B, x) = Copies(work, x) - (IF x = t THEN 1 ELSE 0)
  BY Left, LeftCopies DEF Tasks
<1>2. work' = B (+) SetToBag(S)
  BY DEF Become
<1> HIDE DEF B
<1>3. IsABag(work')
  BY <1>1, <1>2, Joined
<1>4. \A x : Copies(work', x) = Copies(B, x) + (IF x \in S THEN 1 ELSE 0)
  BY <1>1, <1>2, JoinedCopies
<1> QED BY <1>1, <1>3, <1>4

(* The same about the tasks there are, for one that goes on as n ...       *)
LEMMA ReturnTasks ==
    ASSUME IsABag(work), NEW t \in Tasks, NEW step, NEW chain, Return(t, step, chain),
           t \in Task, step # t.step
    PROVE  LET n == [t EXCEPT !.step = step, !.chain = chain]
           IN  /\ IsABag(work')
               /\ n \in Tasks' /\ n # t
               /\ n.unit = t.unit /\ n.by = t.by /\ n.id = t.id /\ n.step = step /\ n.chain = chain
               /\ Tasks' \subseteq Tasks \cup {n} /\ Tasks \subseteq Tasks' \cup {t}
               /\ \A x : x # n /\ x # t => Copies(work', x) = Copies(work, x)
               /\ Copies(work', n) = Copies(work, n) + 1
               /\ Copies(work', t) = Copies(work, t) - 1
<1> DEFINE n == [t EXCEPT !.step = step, !.chain = chain]
<1>1. /\ n.unit = t.unit /\ n.by = t.by /\ n.id = t.id /\ n.step = step /\ n.chain = chain
  BY DEF Task
<1>2. n # t
  BY <1>1
<1>3. Become(t, {n})
  BY DEF Return
<1> HIDE DEF n
<1>4. /\ IsABag(work')
      /\ \A x : Copies(work', x) = Copies(work, x) - (IF x = t THEN 1 ELSE 0)
                                     + (IF x \in {n} THEN 1 ELSE 0)
  BY <1>3, BecomeCopies
<1>5. /\ \A x : x \in Tasks <=> Copies(work, x) > 0
      /\ \A x : Copies(work, x) \in Nat
  BY CopiesAre DEF Tasks
<1>6. \A x : x \in Tasks' <=> Copies(work', x) > 0
  BY <1>4, CopiesAre DEF Tasks
<1>7. /\ \A x : x # n /\ x # t => Copies(work', x) = Copies(work, x)
      /\ Copies(work', n) = Copies(work, n) + 1
      /\ Copies(work', t) = Copies(work, t) - 1
  BY <1>2, <1>4, <1>5
<1>8. n \in Tasks' /\ Tasks' \subseteq Tasks \cup {n} /\ Tasks \subseteq Tasks' \cup {t}
  BY <1>5, <1>6, <1>7
<1> QED BY <1>1, <1>2, <1>4, <1>7, <1>8 DEF n

(* ... and for one that is over.                                           *)
LEMMA EndTasks ==
    ASSUME IsABag(work), NEW t \in Tasks, NEW S, Become(t, S), t \notin S
    PROVE  /\ IsABag(work')
           /\ Tasks' \subseteq Tasks \cup S /\ Tasks \subseteq Tasks' \cup {t} /\ S \subseteq Tasks'
           /\ work[t] = 1 => t \notin Tasks'
           /\ \A x : x \notin S /\ x # t => Copies(work', x) = Copies(work, x)
           /\ Copies(work', t) = Copies(work, t) - 1
<1>1. /\ IsABag(work')
      /\ \A x : Copies(work', x) = Copies(work, x) - (IF x = t THEN 1 ELSE 0)
                                     + (IF x \in S THEN 1 ELSE 0)
  BY BecomeCopies
<1>2. \A x : /\ x \in Tasks <=> Copies(work, x) > 0
             /\ x \in Tasks => work[x] = Copies(work, x)
             /\ Copies(work, x) \in Nat
  BY CopiesAre DEF Tasks
<1>3. \A x : x \in Tasks' <=> Copies(work', x) > 0
  BY <1>1, CopiesAre DEF Tasks
<1> QED BY <1>1, <1>2, <1>3

LEMMA JoinTasks ==
    ASSUME IsABag(work), NEW S, work' = work (+) SetToBag(S)
    PROVE  /\ IsABag(work') /\ Tasks' = Tasks \cup S
           /\ \A x : Copies(work', x) = Copies(work, x) + (IF x \in S THEN 1 ELSE 0)
BY Joined, JoinedCopies DEF Tasks

LEMMA SameTasks ==
    ASSUME work' = work
    PROVE  Tasks' = Tasks /\ \A x : Copies(work', x) = Copies(work, x)
BY DEF Tasks, Copies

-----------------------------------------------------------------------------
(* The steps of StartSweep keep the types by themselves, and no unit goes  *)
(* back to NeverStarted.                                                   *)

Steps == {"queued", "check", "act", "locked", "mounting", "ret", "err", "quit", "chain", "finish"}

StatusMoves ==
    \A u \in Unit : status[u] # "NeverStarted" => status'[u] # "NeverStarted"

LEMMA SetStatusMoves ==
    ASSUME TypeOK, NEW u \in Unit, NEW s \in Status, SetStatus(u, s), s # "NeverStarted"
    PROVE  StatusMoves /\ status' \in [Unit -> Status] /\ status'[u] = s
           /\ \A v \in Unit \ {u} : status'[v] = status[v]
BY DEF TypeOK, SetStatus, StatusMoves

LEMMA TaskType ==
    ASSUME TypeOK, NEW t \in Tasks
    PROVE  /\ t \in Task /\ t.unit \in Unit /\ t.by \in {"job", "sweep", "chain"}
           /\ t.step \in Steps /\ t.chain \in BOOLEAN /\ IsABag(work)
           /\ status[t.unit] \in Status /\ status \in [Unit -> Status]
BY DEF TypeOK, Task, Steps

LEMMA ReturnTypes ==
    ASSUME TypeOK, NEW t \in Tasks, NEW step \in Steps, NEW chain \in BOOLEAN,
           Return(t, step, chain)
    PROVE  IsABag(work') /\ Tasks' \subseteq Task
<1>1. [t EXCEPT !.step = step, !.chain = chain] \in Task
  BY TaskType DEF Task, Steps
<1>2. Tasks' \subseteq Tasks \cup {[t EXCEPT !.step = step, !.chain = chain]} /\ IsABag(work')
  BY BecomeTasks DEF Return, TypeOK
<1> QED BY <1>1, <1>2 DEF TypeOK

LEMMA BecomeTypes ==
    ASSUME TypeOK, NEW t, NEW S \in SUBSET Task, Become(t, S)
    PROVE  IsABag(work') /\ Tasks' \subseteq Task
BY BecomeTasks DEF TypeOK

LEMMA DispatchedTypes ==
    ASSUME NEW ids, NEW by \in {"job", "sweep", "chain"}
    PROVE  \A t \in Dispatched(ids, by) :
             /\ t \in Task /\ t.by = by /\ t.step = "queued"
             /\ t.unit \in ids /\ Ready(t.unit) /\ t.id = NoJob
<1> SUFFICES ASSUME NEW v \in ids \cap Closure, Startable(v, Closure)
             PROVE  LET t == NewTask(v, by, NoJob)
                    IN  /\ t \in Task /\ t.by = by /\ t.step = "queued"
                        /\ t.unit \in ids /\ Ready(t.unit) /\ t.id = NoJob
  BY DEF Dispatched
<1> QED BY ClosureInUnit DEF NewTask, Task, Ready

LEMMA TypesTogether ==
    ASSUME TypeOK, status' \in [Unit -> Status],
           forked' \subseteq Deferring, ready' \subseteq Deferring,
           IsABag(work'), Tasks' \subseteq Task, mail' \in Seq(Letter),
           DOMAIN waits' \subseteq Deferring, \A u \in DOMAIN waits' : waits'[u] \in BOOLEAN,
           sweep' = sweep
    PROVE  TypeOK'
BY DEF TypeOK, Letter

LEMMA WorkerTypes ==
    ASSUME TypeOK, NEW t \in Tasks, WorkerStep(t)
    PROVE  TypeOK' /\ StatusMoves
<1>0. /\ t \in Task /\ t.unit \in Unit /\ t.by \in {"job", "sweep", "chain"}
      /\ t.step \in Steps /\ t.chain \in BOOLEAN /\ status[t.unit] \in Status
  BY TaskType
<1>1. status' \in [Unit -> Status] /\ StatusMoves
  <2>1. CASE status' = status
    BY <2>1 DEF TypeOK, StatusMoves
  <2>2. CASE \E s \in Status \ {"NeverStarted"} : SetStatus(t.unit, s)
    BY <1>0, <2>2, SetStatusMoves
  <2>3. \/ status' = status
        \/ \E s \in {"Starting", "Started", "Skipped", "Failed"} : SetStatus(t.unit, s)
    BY DEF WorkerStep, Enter, Check, Act, Perform, Leave, LeaveWithError, Chain, FinishStart
  <2>4. {"Starting", "Started", "Skipped", "Failed"} \subseteq Status \ {"NeverStarted"}
    BY DEF Status
  <2> QED BY <2>1, <2>2, <2>3, <2>4
<1>2. IsABag(work') /\ Tasks' \subseteq Task
  <2>1. ASSUME NEW step \in Steps, NEW chain \in BOOLEAN, Return(t, step, chain)
        PROVE  IsABag(work') /\ Tasks' \subseteq Task
    BY <2>1, ReturnTypes
  <2>2. ASSUME NEW S \in SUBSET Task, Become(t, S)
        PROVE  IsABag(work') /\ Tasks' \subseteq Task
    BY <2>2, BecomeTypes
  <2>3. Dispatched(Before(t.unit), t.by) \in SUBSET Task
    BY <1>0, DispatchedTypes
  <2>4. \/ \E step \in Steps, chain \in BOOLEAN : Return(t, step, chain)
        \/ \E S \in {{}, Dispatched(Before(t.unit), t.by)} : Become(t, S)
    <3> USE DEF Steps
    <3>1. CASE Enter(t)
      BY <3>1 DEF Enter
    <3>2. CASE Act(t)
      <4>1. (t.chain /\ status[t.unit] = "Started") \in BOOLEAN
        OBVIOUS
      <4> QED BY <1>0, <3>2, <4>1 DEF Act
    <3>3. CASE Perform(t)
      BY <1>0, <3>3 DEF Perform
    <3>4. CASE Leave(t)
      BY <1>0, <3>4 DEF Leave
    <3>5. CASE FinishStart(t)
      BY <1>0, <3>5 DEF FinishStart
    <3>6. CASE LeaveWithError(t) \/ Chain(t)
      BY <3>6 DEF LeaveWithError, Chain
    <3>7. CASE Check(t)
      <4>1. (status[t.unit] # "Started") \in BOOLEAN
        OBVIOUS
      <4> QED BY <3>7, <4>1 DEF Check
    <3> QED BY <3>1, <3>2, <3>3, <3>4, <3>5, <3>6, <3>7 DEF WorkerStep
  <2> QED BY <2>1, <2>2, <2>3, <2>4
<1>3. mail' \in Seq(Letter)
  <2>1. mail \in Seq(Letter)
    BY DEF TypeOK, Letter
  <2>2. CASE mail' = mail
    BY <2>1, <2>2
  <2>3. CASE mail' = Append(mail, [unit |-> t.unit, chain |-> t.chain])
    <3>1. [unit |-> t.unit, chain |-> t.chain] \in Letter
      BY <1>0 DEF Letter
    <3> QED BY <2>1, <2>3, <3>1, MailAppend
  <2> QED BY <2>2, <2>3 DEF WorkerStep, Enter, Check, Act, Perform, Leave, LeaveWithError, Chain, FinishStart
<1>4. forked' \subseteq Deferring /\ ready' \subseteq Deferring
  BY DEF TypeOK, WorkerStep, Enter, Check, Act, Perform, Leave, LeaveWithError, Chain, FinishStart
<1>5. waits' = waits /\ sweep' = sweep
  BY DEF WorkerStep, Enter, Check, Act, Perform, Leave, LeaveWithError, Chain, FinishStart
<1>6. DOMAIN waits \subseteq Deferring /\ \A u \in DOMAIN waits : waits[u] \in BOOLEAN
  BY DEF TypeOK
<1> QED BY <1>1, <1>2, <1>3, <1>4, <1>5, <1>6, TypesTogether

(* What progress_start_wait spawns, and what it leaves parked.             *)
LEMMA ProgressEffect ==
    ASSUME TypeOK, NEW u \in Deferring, u \in Unit, NEW chain \in BOOLEAN, NEW signaled \in BOOLEAN,
           Progress(u, chain, signaled)
    PROVE  /\ DOMAIN waits' \subseteq DOMAIN waits \cup {u}
           /\ \A v \in DOMAIN waits' : waits'[v] = IF v = u THEN chain ELSE waits[v]
           /\ u \in DOMAIN waits' => status[u] = "Starting" /\ ~signaled
           /\ \E S \in SUBSET Task :
                /\ work' = work (+) SetToBag(S) \/ (work' = work /\ S = {})
                /\ \A t \in S : /\ t.unit = u /\ t.by = "chain" /\ t.chain = chain
                                /\ \/ t.step = "chain" /\ status[u] # "Starting" /\ chain
                                   \/ t.step = "finish" /\ status[u] = "Starting" /\ signaled
<1>1. /\ DOMAIN waits' \subseteq DOMAIN waits \cup {u}
      /\ \A v \in DOMAIN waits' : waits'[v] = IF v = u THEN chain ELSE waits[v]
      /\ u \in DOMAIN waits' => status[u] = "Starting" /\ ~signaled
  <2>1. CASE status[u] = "Starting" /\ ~signaled
    <3>1. waits' = With(waits, u, chain)
      BY <2>1 DEF Progress
    <3> QED BY <2>1, <3>1 DEF With
  <2>2. CASE ~(status[u] = "Starting" /\ ~signaled)
    <3>1. waits' = Without(waits, u)
      BY <2>2 DEF Progress
    <3>2. DOMAIN waits' = DOMAIN waits \ {u} /\ \A v \in DOMAIN waits' : waits'[v] = waits[v]
      BY <3>1, WithoutProps
    <3> QED BY <3>2
  <2> QED BY <2>1, <2>2
<1> DEFINE n(step) == [Parked(u, step) EXCEPT !.chain = chain]
<1>2. ASSUME NEW step \in {"chain", "finish"}
      PROVE  /\ n(step) \in Task /\ n(step).unit = u /\ n(step).by = "chain"
             /\ n(step).step = step /\ n(step).chain = chain
  BY DEF Parked, Task
<1>3. \/ work' = work (+) SetToBag({n("chain")}) /\ status[u] # "Starting" /\ chain
      \/ work' = work (+) SetToBag({n("finish")}) /\ status[u] = "Starting" /\ signaled
      \/ work' = work
  BY DEF Progress
<1> HIDE DEF n
<1> DEFINE Fits(S) ==
             \A t \in S : /\ t.unit = u /\ t.by = "chain" /\ t.chain = chain
                          /\ \/ t.step = "chain" /\ status[u] # "Starting" /\ chain
                             \/ t.step = "finish" /\ status[u] = "Starting" /\ signaled
<1>4. \E S \in SUBSET Task : (work' = work (+) SetToBag(S) \/ (work' = work /\ S = {})) /\ Fits(S)
  <2>1. CASE work' = work (+) SetToBag({n("chain")}) /\ status[u] # "Starting" /\ chain
    <3>1. {n("chain")} \in SUBSET Task /\ Fits({n("chain")})
      BY <1>2, <2>1
    <3> QED BY <2>1, <3>1
  <2>2. CASE work' = work (+) SetToBag({n("finish")}) /\ status[u] = "Starting" /\ signaled
    <3>1. {n("finish")} \in SUBSET Task /\ Fits({n("finish")})
      BY <1>2, <2>2
    <3> QED BY <2>2, <3>1
  <2>3. CASE work' = work
    <3>1. {} \in SUBSET Task /\ Fits({})
      OBVIOUS
    <3> QED BY <2>3, <3>1
  <2> QED BY <1>3, <2>1, <2>2, <2>3
<1> QED BY <1>1, <1>4

(* The dispatcher puts tasks of its own on the pool and takes none away.   *)
LEMMA DispatcherTypes ==
    ASSUME TypeOK, DispatcherStep
    PROVE  /\ TypeOK' /\ StatusMoves
           /\ Tasks \subseteq Tasks' /\ \A t \in Tasks' \ Tasks : t.by = "chain"
<1>0. /\ forked \subseteq Deferring /\ ready \subseteq Deferring /\ IsABag(work) /\ Tasks \subseteq Task
      /\ mail \in Seq(Letter) /\ status \in [Unit -> Status]
      /\ DOMAIN waits \subseteq Deferring /\ \A u \in DOMAIN waits : waits[u] \in BOOLEAN
  BY DEF TypeOK, Letter
<1>d. Deferring \subseteq Unit
  BY GraphAssumption DEF GraphAssumption
<1>1. ASSUME NEW u \in Deferring, NEW chain \in BOOLEAN, NEW signaled \in BOOLEAN, Progress(u, chain, signaled)
      PROVE  /\ IsABag(work') /\ Tasks' \subseteq Task /\ Tasks \subseteq Tasks'
             /\ \A t \in Tasks' \ Tasks : t.by = "chain"
             /\ DOMAIN waits' \subseteq Deferring
             /\ \A v \in DOMAIN waits' : waits'[v] \in BOOLEAN
  <2>1. /\ DOMAIN waits' \subseteq DOMAIN waits \cup {u}
        /\ \A v \in DOMAIN waits' : waits'[v] = IF v = u THEN chain ELSE waits[v]
    BY <1>d, <1>1, ProgressEffect
  <2>2. PICK S \in SUBSET Task :
          /\ work' = work (+) SetToBag(S) \/ (work' = work /\ S = {})
          /\ \A t \in S : t.by = "chain"
    BY <1>d, <1>1, ProgressEffect
  <2>3. IsABag(work') /\ Tasks' = Tasks \cup S
    BY <1>0, <2>2, JoinTasks, SameTasks
  <2> QED BY <1>0, <1>1, <2>1, <2>2, <2>3
<1>2. CASE Register
  <2>1. Head(mail) \in Letter /\ mail' \in Seq(Letter)
    BY <1>0, <1>2, MailTail DEF Register
  <2>2. (Head(mail).unit \in ready) \in BOOLEAN /\ Head(mail).chain \in BOOLEAN
    BY <2>1 DEF Letter
  <2>3. /\ IsABag(work') /\ Tasks' \subseteq Task /\ Tasks \subseteq Tasks'
        /\ \A t \in Tasks' \ Tasks : t.by = "chain"
        /\ DOMAIN waits' \subseteq Deferring
        /\ \A v \in DOMAIN waits' : waits'[v] \in BOOLEAN
    <3>1. CASE Head(mail).unit \in Deferring
      BY <1>1, <1>2, <2>2, <3>1 DEF Register
    <3>2. CASE Head(mail).unit \notin Deferring
      BY <1>0, <1>2, <3>2, SameTasks DEF Register
    <3> QED BY <3>1, <3>2
  <2>4. UNCHANGED << status, forked, ready, sweep >>
    BY <1>2 DEF Register
  <2> QED BY <1>0, <2>1, <2>3, <2>4, TypesTogether DEF StatusMoves
<1>3. ASSUME NEW u \in Deferring, NotifyReady(u)
      PROVE  /\ TypeOK' /\ StatusMoves
             /\ Tasks \subseteq Tasks' /\ \A t \in Tasks' \ Tasks : t.by = "chain"
  <2>1. /\ IsABag(work') /\ Tasks' \subseteq Task /\ Tasks \subseteq Tasks'
        /\ \A t \in Tasks' \ Tasks : t.by = "chain"
        /\ DOMAIN waits' \subseteq Deferring
        /\ \A v \in DOMAIN waits' : waits'[v] \in BOOLEAN
    <3>1. CASE u \in DOMAIN waits
      BY <1>0, <1>1, <1>3, <3>1 DEF NotifyReady
    <3>2. CASE u \notin DOMAIN waits
      BY <1>0, <1>3, <3>2, SameTasks DEF NotifyReady
    <3> QED BY <3>1, <3>2
  <2>2. UNCHANGED << status, forked, mail, sweep >> /\ ready' = ready \cup {u}
    BY <1>3 DEF NotifyReady
  <2> QED BY <1>0, <2>1, <2>2, TypesTogether DEF StatusMoves
<1>4. ASSUME NEW u \in Deferring, StartFails(u)
      PROVE  TypeOK' /\ StatusMoves /\ Tasks' = Tasks
  <2>1. /\ SetStatus(u, "Failed") /\ waits' = Without(waits, u) /\ forked' = forked \ {u}
        /\ UNCHANGED << ready, work, mail, sweep >>
    BY <1>4 DEF StartFails
  <2>2. StatusMoves /\ status' \in [Unit -> Status]
    BY <1>d, <2>1, SetStatusMoves DEF Status
  <2>3. DOMAIN waits' \subseteq Deferring /\ \A v \in DOMAIN waits' : waits'[v] \in BOOLEAN
    <3>1. DOMAIN waits' = DOMAIN waits \ {u} /\ \A v \in DOMAIN waits' : waits'[v] = waits[v]
      BY <2>1, WithoutProps
    <3> QED BY <1>0, <3>1
  <2>4. Tasks' = Tasks
    BY <2>1, SameTasks
  <2> QED BY <1>0, <2>1, <2>2, <2>3, <2>4, TypesTogether
<1> QED BY <1>2, <1>3, <1>4 DEF DispatcherStep

-----------------------------------------------------------------------------
(* What the methods of the registry do to the jobs. *)

LEMMA RegistryFacts ==
    ASSUME NEW r, Sound(r)
    PROVE  /\ IsRegistry(r) /\ Installed(r) \subseteq JobId /\ r.nextId \in JobId
           /\ \A id \in Installed(r) :
                /\ r.jobs[id] \in Job /\ r.jobs[id].unit \in Unit /\ r.jobs[id].state \in State
                /\ id \in Nat /\ id # NoJob /\ id < r.nextId
           /\ \A u : u \in DOMAIN r.byUnit <=> \E id \in Installed(r) : r.jobs[id].unit = u
           /\ \A u \in DOMAIN r.byUnit : u \in Unit /\ r.byUnit[u] \in Installed(r)
                                         /\ r.jobs[r.byUnit[u]].unit = u
           /\ \A id \in Installed(r) : r.byUnit[r.jobs[id].unit] = id
           /\ Queued(r) \subseteq Installed(r)
<1>1. IsRegistry(r) /\ IndexSound(r) /\ QueueSound(r) /\ IdsBelow(r)
  BY DEF Sound
<1>2. \A id \in Installed(r) : r.jobs[id] \in Job /\ id \in JobId
  BY <1>1 DEF IsRegistry
<1>3. \A id \in Installed(r) :
        /\ r.jobs[id] \in Job /\ r.jobs[id].unit \in Unit /\ r.jobs[id].state \in State
        /\ id \in Nat /\ id # NoJob /\ id < r.nextId
  BY <1>1, <1>2, JobIdIsNat DEF Job, IdsBelow
<1>4. /\ \A u \in DOMAIN r.byUnit : r.byUnit[u] \in Installed(r) /\ r.jobs[r.byUnit[u]].unit = u
      /\ \A id \in Installed(r) : /\ r.jobs[id].unit \in DOMAIN r.byUnit
                                  /\ r.byUnit[r.jobs[id].unit] = id
  BY <1>1 DEF IndexSound, HasJob
<1> QED BY <1>1, <1>3, <1>4 DEF IsRegistry, QueueSound

(* One unit has one job.                                                   *)
LEMMA OneJob ==
    ASSUME NEW r, Sound(r), NEW i \in Installed(r), NEW j \in Installed(r),
           r.jobs[i].unit = r.jobs[j].unit
    PROVE  i = j
BY RegistryFacts

LEMMA SetStateEffect ==
    ASSUME NEW r, Sound(r), NEW id, NEW state \in State
    PROVE  LET s == SetState(r, id, state)
           IN  /\ Sound(s) /\ Evolves(r, s)
               /\ Installed(s) = Installed(r) /\ s.byUnit = r.byUnit
               /\ s.nextId = r.nextId /\ s.runQueue = r.runQueue /\ Queued(s) = Queued(r)
               /\ \A j \in Installed(r) :
                    /\ s.jobs[j].unit = r.jobs[j].unit
                    /\ s.jobs[j].deadline = r.jobs[j].deadline
                    /\ s.jobs[j].state = IF j = id THEN state ELSE r.jobs[j].state
<1> DEFINE s == SetState(r, id, state)
<1>1. Sound(s) /\ Evolves(r, s)
  BY SetStateSound
<1>2. /\ r = [nextId |-> r.nextId, jobs |-> r.jobs, byUnit |-> r.byUnit, runQueue |-> r.runQueue]
      /\ \A j \in Installed(r) : r.jobs[j] \in Job
  BY RegistryFacts DEF IsRegistry
<1>3. CASE id \notin Installed(r)
  <2>1. s = r
    BY <1>3 DEF SetState
  <2> QED BY <1>1, <1>3, <2>1
<1>4. CASE id \in Installed(r)
  <2>1. s = [r EXCEPT !.jobs[id].state = state]
    BY <1>4 DEF SetState
  <2>2. /\ s.nextId = r.nextId /\ s.byUnit = r.byUnit /\ s.runQueue = r.runQueue
        /\ s.jobs = [r.jobs EXCEPT ![id] = [@ EXCEPT !.state = state]]
    BY <1>2, <2>1
  <2> HIDE DEF s
  <2>3. Installed(s) = Installed(r)
    BY <2>2 DEF Installed
  <2>4. ASSUME NEW j \in Installed(r)
        PROVE  /\ s.jobs[j].unit = r.jobs[j].unit
               /\ s.jobs[j].deadline = r.jobs[j].deadline
               /\ s.jobs[j].state = IF j = id THEN state ELSE r.jobs[j].state
    BY <1>2, <2>2 DEF Installed, Job
  <2>5. Queued(s) = Queued(r)
    BY <2>2 DEF Queued
  <2> QED BY <1>1, <2>2, <2>3, <2>4, <2>5 DEF s
<1> QED BY <1>3, <1>4

LEMMA DeadlineEffect ==
    ASSUME NEW r, Sound(r), NEW id \in Installed(r), NEW d \in Deadline
    PROVE  LET s == [r EXCEPT !.jobs[id].deadline = d]
           IN  /\ Sound(s) /\ Evolves(r, s)
               /\ Installed(s) = Installed(r) /\ s.byUnit = r.byUnit
               /\ s.nextId = r.nextId /\ s.runQueue = r.runQueue /\ Queued(s) = Queued(r)
               /\ \A j \in Installed(r) :
                    /\ s.jobs[j].unit = r.jobs[j].unit
                    /\ s.jobs[j].state = r.jobs[j].state
                    /\ s.jobs[j].deadline = IF j = id THEN d ELSE r.jobs[j].deadline
<1> DEFINE s == [r EXCEPT !.jobs[id].deadline = d]
<1>1. Sound(s) /\ Evolves(r, s)
  BY DeadlineSound
<1>2. /\ r = [nextId |-> r.nextId, jobs |-> r.jobs, byUnit |-> r.byUnit, runQueue |-> r.runQueue]
      /\ \A j \in Installed(r) : r.jobs[j] \in Job
  BY RegistryFacts DEF IsRegistry
<1>3. /\ s.nextId = r.nextId /\ s.byUnit = r.byUnit /\ s.runQueue = r.runQueue
      /\ s.jobs = [r.jobs EXCEPT ![id] = [@ EXCEPT !.deadline = d]]
  BY <1>2
<1> HIDE DEF s
<1>4. Installed(s) = Installed(r) /\ Queued(s) = Queued(r)
  BY <1>3 DEF Installed, Queued
<1>5. ASSUME NEW j \in Installed(r)
      PROVE  /\ s.jobs[j].unit = r.jobs[j].unit
             /\ s.jobs[j].state = r.jobs[j].state
             /\ s.jobs[j].deadline = IF j = id THEN d ELSE r.jobs[j].deadline
  BY <1>2, <1>3 DEF Installed, Job
<1> QED BY <1>1, <1>3, <1>4, <1>5 DEF s

LEMMA StartEffect ==
    ASSUME NEW r, Sound(r), NEW id
    PROVE  LET s == SetDeadline(SetRunning(r, id), id)
           IN  /\ Sound(s) /\ Evolves(r, s)
               /\ Installed(s) = Installed(r) /\ s.byUnit = r.byUnit
               /\ s.nextId = r.nextId /\ s.runQueue = r.runQueue /\ Queued(s) = Queued(r)
               /\ \A j \in Installed(r) :
                    /\ s.jobs[j].unit = r.jobs[j].unit
                    /\ s.jobs[j].state = IF j = id THEN "Running" ELSE r.jobs[j].state
                    /\ s.jobs[j].deadline = IF j = id THEN "armed" ELSE r.jobs[j].deadline
<1> DEFINE p == SetRunning(r, id)
           s == SetDeadline(p, id)
<1>1. /\ Sound(p) /\ Evolves(r, p)
      /\ Installed(p) = Installed(r) /\ p.byUnit = r.byUnit
      /\ p.nextId = r.nextId /\ p.runQueue = r.runQueue /\ Queued(p) = Queued(r)
      /\ \A j \in Installed(r) :
           /\ p.jobs[j].unit = r.jobs[j].unit
           /\ p.jobs[j].deadline = r.jobs[j].deadline
           /\ p.jobs[j].state = IF j = id THEN "Running" ELSE r.jobs[j].state
  BY SetStateEffect DEF SetRunning, State
<1> HIDE DEF p
<1>2. CASE id \notin Installed(r)
  <2>1. s = p
    BY <1>1, <1>2 DEF SetDeadline
  <2> QED BY <1>1, <1>2, <2>1 DEF p
<1>3. CASE id \in Installed(r)
  <2>1. s = [p EXCEPT !.jobs[id].deadline = "armed"]
    BY <1>1, <1>3 DEF SetDeadline
  <2>9. "armed" \in Deadline /\ id \in Installed(p)
    BY <1>1, <1>3 DEF Deadline
  <2>2. /\ Sound(s) /\ Evolves(p, s)
        /\ Installed(s) = Installed(p) /\ s.byUnit = p.byUnit
        /\ s.nextId = p.nextId /\ s.runQueue = p.runQueue /\ Queued(s) = Queued(p)
        /\ \A j \in Installed(p) :
             /\ s.jobs[j].unit = p.jobs[j].unit
             /\ s.jobs[j].state = p.jobs[j].state
             /\ s.jobs[j].deadline = IF j = id THEN "armed" ELSE p.jobs[j].deadline
    BY <1>1, <2>1, <2>9, DeadlineEffect
  <2> HIDE DEF s
  <2>3. Evolves(r, s)
    BY <1>1, <2>2, EvolvesTransitive
  <2> QED BY <1>1, <2>2, <2>3 DEF s, p
<1> QED BY <1>2, <1>3

LEMMA FinishEffect ==
    ASSUME NEW r, Sound(r), NEW id
    PROVE  LET s == Finish(r, id)
           IN  /\ Sound(s) /\ Evolves(r, s)
               /\ Installed(s) = Installed(r) \ {id}
               /\ s.nextId = r.nextId /\ Queued(s) \subseteq Queued(r)
               /\ \A j \in Installed(s) : s.jobs[j] = r.jobs[j]
<1> DEFINE s == Finish(r, id)
<1>1. Sound(s) /\ Evolves(r, s) /\ s.nextId = r.nextId
  BY FinishSound
<1>2. CASE id \notin Installed(r)
  <2>1. s = r
    BY <1>2 DEF Finish
  <2> QED BY <1>1, <1>2, <2>1
<1>3. CASE id \in Installed(r)
  <2>1. s.jobs = Without(r.jobs, id) /\ s.runQueue = Retain(r.runQueue, id)
    BY <1>3 DEF Finish
  <2> HIDE DEF s
  <2>2. Installed(s) = Installed(r) \ {id} /\ \A j \in Installed(s) : s.jobs[j] = r.jobs[j]
    BY <2>1 DEF Installed, Without
  <2>3. r.runQueue \in Seq(JobId) /\ NoDuplicates(r.runQueue)
    BY DEF Sound, IsRegistry, QueueSound
  <2>4. Queued(s) \subseteq Queued(r)
    BY <2>1, <2>3, RetainProps DEF Queued
  <2> QED BY <1>1, <2>2, <2>4 DEF s
<1> QED BY <1>2, <1>3

LEMMA PopEffect ==
    ASSUME NEW r, Sound(r), NEW k \in 1 .. Len(r.runQueue)
    PROVE  LET s  == PopReady(r, k)
               id == r.runQueue[k]
           IN  /\ Sound(s) /\ Evolves(r, s) /\ id \in Queued(r) /\ id \in Installed(r)
               /\ Installed(s) = Installed(r) /\ s.byUnit = r.byUnit
               /\ s.nextId = r.nextId /\ Queued(s) \subseteq Queued(r)
               /\ \A j \in Installed(r) :
                    /\ s.jobs[j].unit = r.jobs[j].unit
                    /\ s.jobs[j].deadline = r.jobs[j].deadline
                    /\ s.jobs[j].state = IF j = id THEN "Running" ELSE r.jobs[j].state
<1> DEFINE s  == PopReady(r, k)
           id == r.runQueue[k]
           q  == SubSeq(r.runQueue, k + 1, Len(r.runQueue))
<1>1. Sound(s) /\ Evolves(r, s)
  BY PopReadySound
<1>2. /\ r = [nextId |-> r.nextId, jobs |-> r.jobs, byUnit |-> r.byUnit, runQueue |-> r.runQueue]
      /\ \A j \in Installed(r) : r.jobs[j] \in Job
      /\ r.runQueue \in Seq(JobId) /\ Queued(r) \subseteq Installed(r)
  BY RegistryFacts DEF IsRegistry
<1>3. id \in Queued(r) /\ id \in Installed(r)
  BY <1>2 DEF Queued
<1>4. /\ q \in Seq(JobId) /\ Len(q) = Len(r.runQueue) - k
      /\ \A i \in 1 .. Len(r.runQueue) - k : q[i] = r.runQueue[i + k]
  BY <1>2
<1>5. /\ s.nextId = r.nextId /\ s.byUnit = r.byUnit /\ s.runQueue = q
      /\ s.jobs = [r.jobs EXCEPT ![id] = [@ EXCEPT !.state = "Running"]]
  BY <1>2 DEF PopReady
<1> HIDE DEF s, id, q
<1>6. Installed(s) = Installed(r)
  BY <1>5 DEF Installed
<1>7. ASSUME NEW j \in Installed(r)
      PROVE  /\ s.jobs[j].unit = r.jobs[j].unit
             /\ s.jobs[j].deadline = r.jobs[j].deadline
             /\ s.jobs[j].state = IF j = id THEN "Running" ELSE r.jobs[j].state
  BY <1>2, <1>5 DEF Installed, Job
<1>8. Queued(s) \subseteq Queued(r)
  <2> SUFFICES ASSUME NEW i \in 1 .. Len(q) PROVE q[i] \in Queued(r)
    BY <1>5 DEF Queued
  <2>1. i + k \in 1 .. Len(r.runQueue) /\ q[i] = r.runQueue[i + k]
    BY <1>2, <1>4
  <2> QED BY <2>1 DEF Queued
<1> QED BY <1>1, <1>3, <1>5, <1>6, <1>7, <1>8 DEF s, id

LEMMA EnqueueEffect ==
    ASSUME NEW r, Sound(r), NEW set, Enqueue(r, set)
    PROVE  /\ Sound(reg') /\ Evolves(r, reg')
           /\ Installed(reg') = Installed(r) /\ reg'.jobs = r.jobs /\ reg'.byUnit = r.byUnit
           /\ reg'.nextId = r.nextId
           /\ \A id \in Queued(reg') : id \in Queued(r) \/ Startable(r.jobs[id].unit, set)
<1> DEFINE S == ReadyIds(r, {u \in Unit : Startable(u, set)})
<1>1. PICK ids \in IdOrder(S) : reg' = EnqueueAll(r, ids)
  BY DEF Enqueue
<1>2. S \in SUBSET Enqueueable(r) /\ \A id \in S : Startable(r.jobs[id].unit, set)
  BY DEF ReadyIds
<1> HIDE DEF S
<1>3. Sound(reg') /\ Evolves(r, reg')
  BY <1>1, <1>2, EnqueueAllSound
<1>4. /\ r = [nextId |-> r.nextId, jobs |-> r.jobs, byUnit |-> r.byUnit, runQueue |-> r.runQueue]
      /\ r.runQueue \in Seq(JobId) /\ NoDuplicates(r.runQueue) /\ Installed(r) \subseteq JobId
      /\ \A i \in 1 .. Len(r.runQueue) : r.runQueue[i] \in Queued(r)
  BY DEF Sound, IsRegistry, QueueSound, Queued
<1>5. /\ reg'.jobs = r.jobs /\ reg'.byUnit = r.byUnit /\ reg'.nextId = r.nextId
      /\ reg'.runQueue = r.runQueue \o ids
  BY <1>1, <1>4 DEF EnqueueAll
<1>6. S \in SUBSET JobId /\ \A x \in S : x \notin Queued(r)
  BY <1>2, <1>4 DEF Enqueueable
<1>7. /\ ids \in Seq(JobId) /\ NoDuplicates(ids)
      /\ \A i \in 1 .. Len(ids) : ids[i] \in S
  BY <1>6, OrderProps
<1>8. \A i \in 1 .. Len(r.runQueue), j \in 1 .. Len(ids) : r.runQueue[i] # ids[j]
  BY <1>4, <1>6, <1>7
<1>9. \A i \in 1 .. Len(reg'.runQueue) :
           \/ \E j \in 1 .. Len(r.runQueue) : reg'.runQueue[i] = r.runQueue[j]
           \/ \E j \in 1 .. Len(ids) : reg'.runQueue[i] = ids[j]
  <2> DEFINE q == r.runQueue \o ids
  <2>1. \A i \in 1 .. Len(q) :
          \/ \E j \in 1 .. Len(r.runQueue) : q[i] = r.runQueue[j]
          \/ \E j \in 1 .. Len(ids) : q[i] = ids[j]
    BY <1>4, <1>7, <1>8, AppendedQueue
  <2> HIDE DEF q
  <2> QED BY <1>5, <2>1 DEF q
<1>10. \A id \in Queued(reg') : id \in Queued(r) \/ Startable(r.jobs[id].unit, set)
  BY <1>2, <1>4, <1>7, <1>9 DEF Queued
<1>11. Installed(reg') = Installed(r)
  BY <1>5 DEF Installed
<1> QED BY <1>3, <1>5, <1>10, <1>11

LEMMA PositionOrder ==
    ASSUME NEW n \in Nat, NEW S \in SUBSET (1 .. n), NEW s \in IdOrder(S)
    PROVE  /\ Cardinality(S) \in Nat /\ s \in [1 .. Cardinality(S) -> S]
           /\ \A i, j \in 1 .. Cardinality(S) : i # j => s[i] # s[j]
<1>1. IsFiniteSet(S) /\ Cardinality(S) \in Nat
  <2>1. IsFiniteSet(1 .. n)
    BY FS_Interval
  <2>2. IsFiniteSet(S)
    BY <2>1, FS_Subset
  <2> QED BY <2>2, FS_CardinalityType
<1>2. /\ s \in [1 .. Cardinality(S) -> S]
      /\ \A i, j \in 1 .. Cardinality(S) : i < j => s[i] < s[j]
  BY DEF IdOrder
<1>3. ASSUME NEW i \in 1 .. Cardinality(S), NEW j \in 1 .. Cardinality(S), i # j
      PROVE  s[i] # s[j]
  <2>1. s[i] \in Int /\ s[j] \in Int
    <3>1. s[i] \in S /\ s[j] \in S
      BY <1>2
    <3>2. s[i] \in 1 .. n /\ s[j] \in 1 .. n
      BY <3>1, Zenon
    <3> QED BY <3>2
  <2>2. i < j \/ j < i
    BY <1>1, <1>3
  <2> QED BY <1>2, <2>1, <2>2
<1> QED BY <1>1, <1>2, <1>3

LEMMA FinishAllEffect ==
    ASSUME NEW r, Sound(r), NEW ids, FinishAll(r, ids)
    PROVE  /\ Sound(reg') /\ Evolves(r, reg')
           /\ Installed(reg') = Installed(r) \ ids
           /\ reg'.nextId = r.nextId /\ Queued(reg') \subseteq Queued(r)
           /\ \A j \in Installed(reg') : reg'.jobs[j] = r.jobs[j]
<1> DEFINE kept == {k \in 1 .. Len(r.runQueue) : r.runQueue[k] \notin ids}
           n    == Cardinality(kept)
<1>1. PICK order \in IdOrder(kept) :
        reg' = [nextId   |-> r.nextId,
                jobs     |-> [i \in Installed(r) \ ids |-> r.jobs[i]],
                byUnit   |-> [u \in {v \in DOMAIN r.byUnit : r.byUnit[v] \notin ids}
                                |-> r.byUnit[u]],
                runQueue |-> [k \in 1 .. n |-> r.runQueue[order[k]]]]
  BY DEF FinishAll
<1>2. /\ reg'.nextId = r.nextId
      /\ reg'.jobs = [i \in Installed(r) \ ids |-> r.jobs[i]]
      /\ reg'.byUnit = [u \in {v \in DOMAIN r.byUnit : r.byUnit[v] \notin ids} |-> r.byUnit[u]]
      /\ reg'.runQueue = [k \in 1 .. n |-> r.runQueue[order[k]]]
      /\ reg' = [nextId |-> reg'.nextId, jobs |-> reg'.jobs, byUnit |-> reg'.byUnit,
                 runQueue |-> reg'.runQueue]
  BY <1>1
<1>3. /\ IsRegistry(r) /\ IndexSound(r) /\ QueueSound(r) /\ IdsBelow(r)
      /\ r.runQueue \in Seq(JobId) /\ Len(r.runQueue) \in Nat /\ NoDuplicates(r.runQueue)
      /\ \A k \in 1 .. Len(r.runQueue) : r.runQueue[k] \in Queued(r) /\ r.runQueue[k] \in Installed(r)
      /\ Queued(r) \subseteq Installed(r) /\ Installed(r) \subseteq JobId
  BY DEF Sound, IsRegistry, QueueSound, Queued
<1>4. kept \in SUBSET (1 .. Len(r.runQueue)) /\ \A k \in kept : r.runQueue[k] \notin ids
  OBVIOUS
<1> HIDE DEF kept
<1>5. /\ n \in Nat /\ order \in [1 .. n -> kept]
      /\ \A i, j \in 1 .. n : i # j => order[i] # order[j]
  BY <1>1, <1>3, <1>4, PositionOrder
<1> HIDE DEF n
<1>6. Installed(reg') = Installed(r) \ ids /\ \A j \in Installed(reg') : reg'.jobs[j] = r.jobs[j]
  BY <1>2 DEF Installed
<1>7. \A k \in 1 .. n : /\ order[k] \in 1 .. Len(r.runQueue)
                        /\ reg'.runQueue[k] = r.runQueue[order[k]]
                        /\ reg'.runQueue[k] \in Queued(r)
                        /\ reg'.runQueue[k] \in Installed(r) \ ids
                        /\ reg'.runQueue[k] \in JobId
  BY <1>2, <1>3, <1>4, <1>5
<1>8. reg'.runQueue \in Seq(JobId) /\ Len(reg'.runQueue) = n
  BY <1>2, <1>5, <1>7
<1>9. NoDuplicates(reg'.runQueue)
  <2> SUFFICES ASSUME NEW i \in 1 .. n, NEW j \in 1 .. n, i # j
               PROVE  reg'.runQueue[i] # reg'.runQueue[j]
    BY <1>8 DEF NoDuplicates
  <2>1. order[i] # order[j]
    BY <1>5
  <2> QED BY <1>3, <1>7, <2>1 DEF NoDuplicates
<1>10. QueueSound(reg') /\ Queued(reg') \subseteq Queued(r)
  BY <1>6, <1>7, <1>8, <1>9 DEF QueueSound, Queued
<1>11. /\ DOMAIN reg'.byUnit = {v \in DOMAIN r.byUnit : r.byUnit[v] \notin ids}
       /\ \A u \in DOMAIN reg'.byUnit : reg'.byUnit[u] = r.byUnit[u]
       /\ reg'.byUnit = [u \in DOMAIN reg'.byUnit |-> reg'.byUnit[u]]
       /\ reg'.jobs = [u \in DOMAIN reg'.jobs |-> reg'.jobs[u]]
  BY <1>2
<1>12. IndexSound(reg')
  BY <1>3, <1>6, <1>11 DEF IndexSound, HasJob
<1>13. IsRegistry(reg')
  <2>1. reg'.jobs \in [Installed(reg') -> Job]
    BY <1>3, <1>6, <1>11 DEF IsRegistry, Installed
  <2>2. DOMAIN reg'.byUnit \subseteq Unit /\ reg'.byUnit \in [DOMAIN reg'.byUnit -> JobId]
    BY <1>3, <1>11 DEF IsRegistry
  <2> QED BY <1>2, <1>3, <1>6, <1>8, <2>1, <2>2 DEF IsRegistry
<1>14. IdsBelow(reg')
  BY <1>2, <1>3, <1>6 DEF IdsBelow
<1>15. Evolves(r, reg')
  <2>1. r.nextId <= reg'.nextId
    BY <1>2, <1>3, JobIdIsNat DEF IsRegistry
  <2> QED BY <1>6, <2>1 DEF Evolves, Includes
<1> QED BY <1>2, <1>6, <1>10, <1>12, <1>13, <1>14, <1>15 DEF Sound

(* The k ids from a on are k ids.                                          *)
LEMMA IntervalSize ==
    ASSUME NEW a \in Nat, NEW k \in Nat
    PROVE  IsFiniteSet(a .. (a + k - 1)) /\ Cardinality(a .. (a + k - 1)) = k
<1> DEFINE b == a + k - 1
<1>1. a \in Int /\ b \in Int /\ (IF a > b THEN 0 ELSE b - a + 1) = k
  OBVIOUS
<1> HIDE DEF b
<1>2. IsFiniteSet(a .. b) /\ Cardinality(a .. b) = IF a > b THEN 0 ELSE b - a + 1
  BY <1>1, FS_Interval
<1>3. IsFiniteSet(a .. b) /\ Cardinality(a .. b) = k
  BY <1>1, <1>2
<1> QED BY <1>3 DEF b

(* create for several units: those without a job get a Waiting one each.   *)
LEMMA CreateAllEffect ==
    ASSUME NEW r, Sound(r), NEW units \in SUBSET Unit,
           r.nextId + Cardinality(units \ DOMAIN r.byUnit) <= MaxId
    PROVE  LET s == CreateAll(r, units)
           IN  /\ Sound(s) /\ Evolves(r, s)
               /\ Installed(r) \subseteq Installed(s) /\ Queued(s) = Queued(r)
               /\ \A j \in Installed(r) : s.jobs[j] = r.jobs[j]
               /\ \A j \in Installed(s) \ Installed(r) :
                    /\ s.jobs[j].unit \in units \ DOMAIN r.byUnit
                    /\ s.jobs[j].state = "Waiting" /\ s.jobs[j].deadline = "none"
                    /\ j >= r.nextId
               /\ DOMAIN s.byUnit = DOMAIN r.byUnit \cup units
<1> DEFINE new    == units \ DOMAIN r.byUnit
           n      == Cardinality(new)
           ids    == r.nextId .. (r.nextId + n - 1)
           Onto(f) == \A u \in new : \E i \in ids : f[i] = u
           unit   == CHOOSE f \in [ids -> new] : Onto(f)
           job(u) == [unit |-> u, kind |-> "Start", state |-> "Waiting",
                      deadline |-> "none", waiters |-> {}]
           s      == CreateAll(r, units)
<1>1. /\ s.nextId = r.nextId + n
      /\ s.jobs = [i \in Installed(r) \cup ids |->
                     IF i \in ids THEN job(unit[i]) ELSE r.jobs[i]]
      /\ s.byUnit = [u \in DOMAIN r.byUnit \cup new |->
                       IF u \in new THEN CHOOSE i \in ids : unit[i] = u ELSE r.byUnit[u]]
      /\ s.runQueue = r.runQueue
      /\ s = [nextId |-> s.nextId, jobs |-> s.jobs, byUnit |-> s.byUnit, runQueue |-> s.runQueue]
  BY DEF CreateAll
<1> HIDE DEF s
<1>2. /\ IsRegistry(r) /\ IndexSound(r) /\ QueueSound(r) /\ IdsBelow(r)
      /\ Installed(r) \subseteq JobId /\ r.nextId \in JobId /\ r.nextId \in Nat
      /\ DOMAIN r.byUnit \subseteq Unit
      /\ \A i \in Installed(r) : r.jobs[i] \in Job
  BY JobIdIsNat DEF Sound, IsRegistry
<1>3. IsFiniteSet(new) /\ n \in Nat /\ new \in SUBSET units /\ new \in SUBSET Unit
  BY GraphAssumption, FS_Subset, FS_CardinalityType DEF GraphAssumption
<1>n. r.nextId + n <= MaxId /\ n \in Nat
  BY <1>3
<1> HIDE DEF n
<1>4. IsFiniteSet(ids) /\ Cardinality(ids) = n
  BY <1>2, <1>n, IntervalSize
<1>5. /\ \A i \in ids : i \in Nat /\ i >= r.nextId /\ i < r.nextId + n /\ i \notin Installed(r)
      /\ ids \subseteq JobId
      /\ r.nextId + n \in JobId
  <2>1. \A i \in ids : i \in Nat /\ i >= r.nextId /\ i < r.nextId + n
    BY <1>2, <1>n
  <2>2. ids \subseteq JobId /\ r.nextId + n \in JobId
    BY <1>2, <1>n, <2>1, MaxIdAssumption DEF JobId
  <2>3. \A i \in Installed(r) : i \in Nat /\ i < r.nextId
    BY <1>2, JobIdIsNat DEF IdsBelow
  <2>4. \A i \in ids : i \notin Installed(r)
    BY <1>2, <2>1, <2>3
  <2> HIDE DEF ids
  <2> QED BY <2>1, <2>2, <2>4
<1>m. new \cap DOMAIN r.byUnit = {} /\ DOMAIN r.byUnit \cup new = DOMAIN r.byUnit \cup units
  OBVIOUS
<1> HIDE DEF ids, new
<1>6. unit \in [ids -> new] /\ Onto(unit)
  <2>1. PICK f \in Bijection(ids, new) : TRUE
    BY <1>3, <1>4, FS_SameCardinalityBij DEF ExistsBijection, n
  <2>2. f \in [ids -> new] /\ Onto(f)
    BY <2>1 DEF Bijection, Surjection
  <2> HIDE DEF Onto
  <2> QED BY <2>2
<1>7. \A i, j \in ids : unit[i] = unit[j] => i = j
  <2>1. unit \in Surjection(ids, new)
    BY <1>6 DEF Surjection
  <2>2. unit \in Injection(ids, new)
    BY <1>4, <2>1, FS_SurjSameCardinalityImpliesInj DEF n
  <2> QED BY <2>2 DEF Injection, IsInjective
<1> HIDE DEF unit
<1>8. /\ Installed(s) = Installed(r) \cup ids
      /\ \A j \in Installed(r) : s.jobs[j] = r.jobs[j]
      /\ \A j \in ids : s.jobs[j] = job(unit[j]) /\ unit[j] \in new
  BY <1>1, <1>5, <1>6 DEF Installed
<1>9. \A j \in ids : /\ s.jobs[j].unit = unit[j] /\ s.jobs[j].state = "Waiting"
                     /\ s.jobs[j].deadline = "none" /\ s.jobs[j].kind = "Start"
                     /\ s.jobs[j] \in Job
  <2> SUFFICES ASSUME NEW j \in ids
               PROVE  /\ s.jobs[j].unit = unit[j] /\ s.jobs[j].state = "Waiting"
                      /\ s.jobs[j].deadline = "none" /\ s.jobs[j].kind = "Start"
                      /\ s.jobs[j] \in Job
    OBVIOUS
  <2>1. s.jobs[j] = job(unit[j]) /\ unit[j] \in Unit
    BY <1>3, <1>8
  <2>2. job(unit[j]) \in Job
    BY <2>1 DEF Job, Kind, State, Deadline
  <2> QED BY <2>1, <2>2
<1>10. /\ DOMAIN s.byUnit = DOMAIN r.byUnit \cup new
       /\ \A u \in DOMAIN r.byUnit : s.byUnit[u] = r.byUnit[u]
       /\ \A u \in new : s.byUnit[u] \in ids /\ unit[s.byUnit[u]] = u
  <2>1. DOMAIN s.byUnit = DOMAIN r.byUnit \cup new
    BY <1>1
  <2>2. \A u \in DOMAIN r.byUnit : s.byUnit[u] = r.byUnit[u]
    BY <1>1, <1>m
  <2>3. ASSUME NEW u \in new PROVE s.byUnit[u] \in ids /\ unit[s.byUnit[u]] = u
    <3>1. s.byUnit[u] = CHOOSE i \in ids : unit[i] = u
      BY <1>1
    <3>2. \E i \in ids : unit[i] = u
      BY <1>6
    <3> QED BY <3>1, <3>2
  <2> QED BY <2>1, <2>2, <2>3
<1> HIDE DEF job
<1>11. IndexSound(s)
  <2>1. ASSUME NEW u \in DOMAIN s.byUnit
        PROVE  s.byUnit[u] \in Installed(s) /\ s.jobs[s.byUnit[u]].unit = u
    <3>1. CASE u \in DOMAIN r.byUnit
      BY <1>2, <1>8, <1>10, <3>1 DEF IndexSound
    <3>2. CASE u \in new
      BY <1>8, <1>9, <1>10, <3>2
    <3> QED BY <1>10, <2>1, <3>1, <3>2
  <2>2. ASSUME NEW id \in Installed(s)
        PROVE  s.jobs[id].unit \in DOMAIN s.byUnit /\ s.byUnit[s.jobs[id].unit] = id
    <3>1. CASE id \in Installed(r)
      BY <1>2, <1>8, <1>10, <3>1 DEF IndexSound, HasJob
    <3>2. CASE id \in ids
      <4>1. s.jobs[id].unit = unit[id] /\ unit[id] \in new
        BY <1>8, <1>9, <3>2
      <4>2. s.byUnit[unit[id]] \in ids /\ unit[s.byUnit[unit[id]]] = unit[id]
        BY <1>10, <4>1
      <4> QED BY <1>7, <1>10, <3>2, <4>1, <4>2
    <3> QED BY <1>8, <2>2, <3>1, <3>2
  <2> QED BY <2>1, <2>2 DEF IndexSound, HasJob
<1>12. QueueSound(s) /\ Queued(s) = Queued(r)
  BY <1>1, <1>2, <1>8 DEF QueueSound, Queued
<1>13. IsRegistry(s)
  <2>1. s.jobs \in [Installed(s) -> Job]
    <3>1. s.jobs = [i \in Installed(s) |-> s.jobs[i]]
      BY <1>1 DEF Installed
    <3> QED BY <1>2, <1>8, <1>9, <3>1
  <2>2. s.byUnit \in [DOMAIN s.byUnit -> JobId]
    <3>1. s.byUnit = [i \in DOMAIN s.byUnit |-> s.byUnit[i]]
      BY <1>1
    <3>2. \A u \in DOMAIN r.byUnit : r.byUnit[u] \in JobId
      BY <1>2 DEF IsRegistry
    <3> QED BY <1>5, <1>10, <3>1, <3>2
  <2>3. DOMAIN s.byUnit \subseteq Unit
    BY <1>2, <1>3, <1>10
  <2> QED BY <1>1, <1>2, <1>5, <1>8, <2>1, <2>2, <2>3 DEF IsRegistry
<1>14. IdsBelow(s)
  BY <1>1, <1>2, <1>3, <1>5, <1>8, JobIdIsNat DEF IdsBelow
<1>15. Evolves(r, s)
  BY <1>1, <1>2, <1>3, <1>5, <1>8 DEF Evolves, Includes
<1>16. \A j \in Installed(s) \ Installed(r) :
         /\ s.jobs[j].unit \in new
         /\ s.jobs[j].state = "Waiting" /\ s.jobs[j].deadline = "none"
         /\ j >= r.nextId
  BY <1>5, <1>8, <1>9
<1> QED BY <1>8, <1>10, <1>11, <1>12, <1>13, <1>14, <1>15, <1>16, <1>m DEF Sound, new, s

-----------------------------------------------------------------------------
(* DriveInv is kept. *)

(* What a step does to the tasks of the drive: a new one fits the          *)
(* registry, and one that goes leaves its unit under way or its job        *)
(* finished.                                                               *)
TaskFlow ==
    /\ \A x \in Tasks' \ Tasks : x.by = "job" => Matched(x)' /\ Moved(x)'
    /\ \A t \in Tasks : t.by = "job" =>
         \/ \E x \in Tasks' : x.by = "job" /\ x.id = t.id
         \/ status'[t.unit] # "NeverStarted"
         \/ t.id \notin Installed(reg')

(* What a step does to the registry: a job begins to run only in the hands *)
(* of the drive, or when its unit is under way.                            *)
RegFlow ==
    /\ Sound(reg') /\ Evolves(reg, reg')
    /\ \A id \in Installed(reg') :
         \/ reg'.jobs[id].state = "Waiting"
         \/ /\ id \in Installed(reg) /\ reg.jobs[id].state = "Running"
            /\ drive.id # id
         \/ drive'.id = id
         \/ \E x \in Tasks' : x.by = "job" /\ x.id = id
         \/ status'[reg'.jobs[id].unit] # "NeverStarted"

LEMMA DriveTogether ==
    ASSUME DriveInv, TypeOK', StatusMoves, TaskFlow, RegFlow, Turns',
           drive' \in [pc : {"idle", "retire", "prime", "pop", "popped", "start"},
                       set : SUBSET Unit, id : JobId \cup {NoJob}],
           wake' \in BOOLEAN, draining' \in BOOLEAN, producer' \in {"install", "arm", "tick", "done", "gaveUp"}
    PROVE  DriveInv'
<1>0. /\ TypeOK /\ Sound(reg) /\ TasksMatch /\ TasksMove /\ NoStrandedJob
      /\ Sound(reg') /\ Evolves(reg, reg')
  BY DEF DriveInv, BootTypeOK, RegFlow
<1>1. BootTypeOK'
  BY <1>0 DEF BootTypeOK, Sound
<1>2. /\ reg.nextId \in Nat /\ reg'.nextId \in Nat /\ reg.nextId <= reg'.nextId
      /\ \A id \in Installed(reg') :
           \/ id \in Installed(reg) /\ reg'.jobs[id].unit = reg.jobs[id].unit
           \/ id >= reg.nextId
      /\ \A id \in Installed(reg) : reg.jobs[id].unit \in Unit
      /\ \A id \in Installed(reg) : id < reg.nextId
  BY <1>0, RegistryFacts, JobIdIsNat DEF Evolves
<1>3. TasksMatch'
  <2> SUFFICES ASSUME NEW x \in Tasks', x.by = "job" PROVE Matched(x)'
    BY DEF TasksMatch
  <2>1. CASE x \notin Tasks
    BY <2>1 DEF TaskFlow
  <2>2. CASE x \in Tasks
    <3>1. Matched(x)
      BY <1>0, <2>2 DEF TasksMatch
    <3>2. x.id \in Nat /\ x.id \in JobId /\ x.id < reg.nextId
      BY <3>1, JobIdIsNat DEF Matched
    <3>3. x.id < reg'.nextId /\ ~(x.id >= reg.nextId)
      BY <1>2, <3>2
    <3>4. x.id \in Installed(reg') => reg'.jobs[x.id].unit = x.unit
      BY <1>2, <3>1, <3>3 DEF Matched
    <3> QED BY <3>2, <3>3, <3>4 DEF Matched
  <2> QED BY <2>1, <2>2
<1>4. TasksMove'
  <2> SUFFICES ASSUME NEW x \in Tasks', x.by = "job" PROVE Moved(x)'
    BY DEF TasksMove
  <2>1. CASE x \notin Tasks
    BY <2>1 DEF TaskFlow
  <2>2. CASE x \in Tasks
    <3>1. Moved(x) /\ x.unit \in Unit
      BY <1>0, <2>2, TaskType DEF TasksMove
    <3> QED BY <3>1 DEF Moved, StatusMoves
  <2> QED BY <2>1, <2>2
<1>5. NoStrandedJob'
  <2> SUFFICES ASSUME NEW id \in Installed(reg'), reg'.jobs[id].state = "Running"
               PROVE  \/ drive'.id = id
                      \/ \E t \in Tasks' : t.by = "job" /\ t.id = id
                      \/ status'[reg'.jobs[id].unit] # "NeverStarted"
    BY DEF NoStrandedJob, StatusOf
  <2>1. CASE id \in Installed(reg) /\ reg.jobs[id].state = "Running" /\ drive.id # id
    <3>1. reg'.jobs[id].unit = reg.jobs[id].unit /\ reg.jobs[id].unit \in Unit
      BY <1>0, <1>2, <2>1, RegistryFacts
    <3>2. \/ \E t \in Tasks : t.by = "job" /\ t.id = id
          \/ status[reg.jobs[id].unit] # "NeverStarted"
      BY <1>0, <2>1 DEF NoStrandedJob, StatusOf
    <3>3. CASE status[reg.jobs[id].unit] # "NeverStarted"
      BY <3>1, <3>3 DEF StatusMoves
    <3>4. CASE \E t \in Tasks : t.by = "job" /\ t.id = id
      <4>1. PICK t \in Tasks : t.by = "job" /\ t.id = id
        BY <3>4
      <4>2. t.unit = reg.jobs[id].unit
        BY <1>0, <2>1, <4>1 DEF TasksMatch, Matched
      <4> QED BY <3>1, <4>1, <4>2 DEF TaskFlow
    <3> QED BY <3>2, <3>3, <3>4
  <2> QED BY <2>1 DEF RegFlow
<1> QED BY <1>0, <1>1, <1>3, <1>4, <1>5 DEF DriveInv

LEMMA DriveParts ==
    ASSUME DriveInv
    PROVE  /\ TypeOK /\ Sound(reg) /\ Turns /\ TasksMatch /\ TasksMove /\ NoStrandedJob
           /\ drive \in [pc : {"idle", "retire", "prime", "pop", "popped", "start"},
                         set : SUBSET Unit, id : JobId \cup {NoJob}]
           /\ wake \in BOOLEAN /\ draining \in BOOLEAN
           /\ producer \in {"install", "arm", "tick", "done", "gaveUp"}
           /\ IsABag(work) /\ Tasks \subseteq Task /\ status \in [Unit -> Status]
           /\ drive.id # NoJob => drive.pc \in {"popped", "start"}
BY DEF DriveInv, BootTypeOK, TypeOK, Turns

LEMMA SameRegFlow ==
    ASSUME DriveInv, reg' = reg, drive'.id = drive.id PROVE RegFlow
<1>1. Sound(reg) /\ NoStrandedJob
  BY DEF DriveInv
<1>2. \A id \in Installed(reg) : reg.jobs[id].state \in {"Waiting", "Running"}
  BY <1>1, RegistryFacts DEF State
<1> QED BY <1>1, <1>2, EvolvesReflexive DEF RegFlow

LEMMA SameTaskFlow ==
    ASSUME work' = work PROVE TaskFlow
BY SameTasks DEF TaskFlow

(* A task of the drive that goes on.                                       *)
LEMMA ReturnFlow ==
    ASSUME DriveInv, StatusMoves, UNCHANGED bootVars, NEW t \in Tasks, NEW step \in Steps, NEW chain,
           Return(t, step, chain), step # t.step,
           t.by = "job" => /\ step \in {"check", "act", "locked", "mounting", "ret", "err", "quit"}
                           /\ step \in {"locked", "ret", "quit"} => status'[t.unit] # "NeverStarted"
    PROVE  TaskFlow
<1>0. IsABag(work) /\ t \in Task /\ reg' = reg /\ TasksMatch
  BY DriveParts DEF bootVars
<1> DEFINE n == [t EXCEPT !.step = step, !.chain = chain]
<1>1. /\ n \in Tasks' /\ n.unit = t.unit /\ n.by = t.by /\ n.id = t.id /\ n.step = step
      /\ Tasks' \subseteq Tasks \cup {n} /\ Tasks \subseteq Tasks' \cup {t}
  BY <1>0, ReturnTasks
<1> HIDE DEF n
<1>2. ASSUME NEW x \in Tasks' \ Tasks, x.by = "job" PROVE Matched(x)' /\ Moved(x)'
  <2>1. x = n /\ t.by = "job"
    BY <1>1, <1>2
  <2>2. Matched(t)
    BY <1>0, <2>1 DEF TasksMatch
  <2>3. Matched(x)'
    BY <1>0, <1>1, <2>1, <2>2 DEF Matched
  <2>4. Moved(x)'
    BY <1>1, <2>1 DEF Moved
  <2> QED BY <2>3, <2>4
<1>3. \A s \in Tasks : s.by = "job" => \E x \in Tasks' : x.by = "job" /\ x.id = s.id
  BY <1>1
<1> QED BY <1>2, <1>3 DEF TaskFlow

LEMMA BootVarsSame ==
    ASSUME DriveInv, TypeOK', StatusMoves, TaskFlow, UNCHANGED bootVars
    PROVE  DriveInv'
<1>1. /\ reg' = reg /\ drive' = drive /\ wake' = wake /\ draining' = draining
      /\ producer' = producer
  BY DEF bootVars
<1>2. Turns'
  BY <1>1, DriveParts DEF Turns
<1> QED BY <1>1, <1>2, SameRegFlow, DriveParts, DriveTogether

LEMMA WorkerFlow ==
    ASSUME DriveInv, NEW t \in Tasks, WorkerStep(t), UNCHANGED bootVars
    PROVE  TaskFlow
<1>0. /\ TypeOK /\ Sound(reg) /\ TasksMove /\ IsABag(work) /\ StatusMoves
      /\ t \in Task /\ t.unit \in Unit /\ status \in [Unit -> Status] /\ reg' = reg
  BY DriveParts, TaskType, WorkerTypes DEF bootVars
<1> USE DEF Steps
<1>1. CASE Enter(t)
  <2>1. CASE LeftAlone(t.unit) /\ Return(t, "ret", FALSE) /\ status' = status
    BY <1>0, <1>1, <2>1, ReturnFlow DEF Enter, LeftAlone
  <2>2. CASE Return(t, "check", FALSE)
    BY <1>0, <1>1, <2>2, ReturnFlow DEF Enter
  <2> QED BY <1>1, <2>1, <2>2 DEF Enter
<1>5. CASE Check(t)
  <2>1. CASE Return(t, "err", FALSE)
    BY <1>0, <1>5, <2>1, ReturnFlow DEF Check
  <2>2. CASE Return(t, "ret", TRUE) /\ SetStatus(t.unit, "Skipped")
    <3>1. status'[t.unit] # "NeverStarted"
      BY <1>0, <2>2, SetStatusMoves DEF Status
    <3> QED BY <1>0, <1>5, <2>2, <3>1, ReturnFlow DEF Check
  <2>3. CASE Return(t, "act", status[t.unit] # "Started")
    BY <1>0, <1>5, <2>3, ReturnFlow DEF Check
  <2> QED BY <1>5, <2>1, <2>2, <2>3 DEF Check
<1>2. CASE Act(t)
  <2>1. CASE status[t.unit] \in {"Started", "Failed"} /\ status' = status
             /\ Return(t, "ret", t.chain /\ status[t.unit] = "Started")
    BY <1>0, <1>2, <2>1, ReturnFlow DEF Act
  <2>2. CASE Return(t, "locked", t.chain) /\ SetStatus(t.unit, "Starting")
    <3>1. status'[t.unit] # "NeverStarted"
      BY <1>0, <2>2, SetStatusMoves DEF Status
    <3> QED BY <1>0, <1>2, <2>2, <3>1, ReturnFlow DEF Act
  <2>3. CASE Return(t, "err", FALSE)
    BY <1>0, <1>2, <2>3, ReturnFlow DEF Act
  <2> QED BY <1>2, <2>1, <2>2, <2>3 DEF Act
<1>3. CASE Perform(t)
  <2>1. t.by = "job" => status'[t.unit] # "NeverStarted"
    BY <1>0, <1>3 DEF Perform, TasksMove, Moved, StatusMoves
  <2> QED BY <1>0, <1>3, <2>1, ReturnFlow DEF Perform
<1>4. CASE Leave(t) \/ LeaveWithError(t) \/ Chain(t) \/ FinishStart(t)
  <2>1. t.by # "job"
    BY <1>0, <1>4 DEF Leave, LeaveWithError, Chain, FinishStart, TasksMove, Moved
  <2>2. ASSUME NEW S, Become(t, S), \A x \in S : x.by # "job" PROVE TaskFlow
    <3>1. /\ Tasks' \subseteq Tasks \cup S
          /\ \A s \in Tasks : s.by = "job" => s \in Tasks'
      <4>1. /\ IsABag(work')
            /\ \A x : Copies(work', x) = Copies(work, x) - (IF x = t THEN 1 ELSE 0)
                                           + (IF x \in S THEN 1 ELSE 0)
        BY <1>0, <2>2, BecomeCopies
      <4>2. \A x : (x \in Tasks <=> Copies(work, x) > 0) /\ Copies(work, x) \in Nat
        BY <1>0, CopiesAre DEF Tasks
      <4>3. \A x : x \in Tasks' <=> Copies(work', x) > 0
        BY <4>1, CopiesAre DEF Tasks
      <4> QED BY <2>1, <4>1, <4>2, <4>3
    <3> QED BY <2>2, <3>1 DEF TaskFlow
  <2>3. \A x \in Dispatched(Before(t.unit), t.by) : x.by # "job"
    BY <1>0, <2>1, TaskType, DispatchedTypes
  <2>4. ASSUME NEW step, NEW chain, Return(t, step, chain) PROVE TaskFlow
    <3>1. [t EXCEPT !.step = step, !.chain = chain].by # "job"
      BY <1>0, <2>1 DEF Task
    <3>2. Become(t, {[t EXCEPT !.step = step, !.chain = chain]})
      BY <2>4 DEF Return
    <3> DEFINE n == [t EXCEPT !.step = step, !.chain = chain]
    <3> HIDE DEF n
    <3>3. Become(t, {n}) /\ \A x \in {n} : x.by # "job"
      BY <3>1, <3>2 DEF n
    <3> QED BY <2>2, <3>3
  <2> QED BY <1>4, <2>2, <2>3, <2>4 DEF Leave, LeaveWithError, Chain, FinishStart
<1> QED BY <1>1, <1>2, <1>3, <1>4, <1>5 DEF WorkerStep

(* The steps of BootDrive. *)

LEMMA SameStatusMoves == ASSUME status' = status PROVE StatusMoves
BY DEF StatusMoves

LEMMA WorkerDrive ==
    ASSUME DriveInv, NEW t \in Tasks, WorkerStep(t), UNCHANGED bootVars PROVE DriveInv'
BY DriveParts, WorkerTypes, WorkerFlow, BootVarsSame

LEMMA MountTypes ==
    ASSUME DriveInv, NEW t \in Tasks, MountBegins(t) \/ MountEnds(t)
    PROVE  TypeOK' /\ StatusMoves /\ TaskFlow /\ UNCHANGED bootVars
<1>0. /\ TypeOK /\ TasksMove /\ IsABag(work) /\ status \in [Unit -> Status]
      /\ t \in Task /\ t.unit \in Unit /\ t.step \in Steps
  BY DriveParts, TaskType
<1>1. UNCHANGED << forked, ready, mail, waits, sweep >> /\ UNCHANGED bootVars
  BY DEF MountBegins, MountEnds
<1>2. /\ status' \in [Unit -> Status] /\ StatusMoves
      /\ MountEnds(t) => status'[t.unit] # "NeverStarted"
  <2>1. {"Started", "Failed"} \subseteq Status \ {"NeverStarted"}
    BY DEF Status
  <2> QED BY <1>0, <2>1, SetStatusMoves, SameStatusMoves DEF MountBegins, MountEnds
<1>3. \E step \in Steps : Return(t, step, FALSE)
  BY DEF MountBegins, MountEnds, Steps
<1>4. IsABag(work') /\ Tasks' \subseteq Task
  BY <1>0, <1>3, ReturnTypes
<1>5. TypeOK'
  BY <1>0, <1>1, <1>2, <1>4, TypesTogether DEF TypeOK, Letter
<1>6. TaskFlow
  <2>1. CASE MountBegins(t)
    BY <1>1, <1>2, <2>1, ReturnFlow DEF MountBegins, Steps
  <2>2. CASE MountEnds(t)
    BY <1>1, <1>2, <2>2, ReturnFlow DEF MountEnds, Steps
  <2> QED BY <2>1, <2>2
<1> QED BY <1>1, <1>2, <1>5, <1>6

LEMMA MountDrive ==
    ASSUME DriveInv, NEW t \in Tasks, MountBegins(t) \/ MountEnds(t) PROVE DriveInv'
BY MountTypes, BootVarsSame

LEMMA JobLeaveDrive ==
    ASSUME DriveInv, NEW t \in Tasks, JobLeave(t) PROVE DriveInv'
<1>0. /\ TypeOK /\ TasksMove /\ IsABag(work) /\ Moved(t)
      /\ t \in Task /\ t.unit \in Unit /\ mail \in Seq(Letter)
      /\ Tasks \subseteq Task
  BY DriveParts, TaskType DEF JobLeave, TasksMove, TypeOK, Letter
<1>1. /\ UNCHANGED << status, forked, ready, waits, sweep, reg, drive, draining, producer >>
      /\ Become(t, {}) /\ t.step \in {"ret", "quit"} /\ wake' = (wake \/ draining)
      /\ mail' = mail \/ mail' = Append(mail, [unit |-> t.unit, chain |-> FALSE])
  BY DEF JobLeave, Notice
<1>2. /\ Tasks' \subseteq Tasks /\ Tasks \subseteq Tasks' \cup {t} /\ IsABag(work')
  BY <1>0, <1>1, EndTasks
<1>3. mail' \in Seq(Letter)
  <2>1. [unit |-> t.unit, chain |-> FALSE] \in Letter
    BY <1>0 DEF Letter
  <2> QED BY <1>0, <1>1, <2>1, MailAppend
<1>4. TypeOK' /\ StatusMoves
  BY <1>0, <1>1, <1>2, <1>3, TypesTogether, SameStatusMoves DEF TypeOK
<1>5. TaskFlow
  BY <1>0, <1>1, <1>2 DEF TaskFlow, Moved
<1>6. RegFlow /\ Turns'
  BY <1>1, SameRegFlow, DriveParts DEF Turns
<1>7. wake' \in BOOLEAN
  BY <1>1, DriveParts
<1> QED BY <1>1, <1>4, <1>5, <1>6, <1>7, DriveParts, DriveTogether

LEMMA RegTurns ==
    ASSUME DriveInv, drive' = drive, draining' = draining, producer' = producer,
           producer = "install" => reg' = reg
    PROVE  Turns'
BY DriveParts DEF Turns

(* Tasks of the drive appear only once its jobs are installed.             *)
LEMMA NoJobsYet ==
    ASSUME DriveInv, producer = "install"
    PROVE  \A t \in Tasks : t.by # "job"
<1>1. reg = EmptyRegistry /\ TasksMatch
  BY DEF DriveInv, Turns
<1>2. reg.nextId = 1
  BY <1>1 DEF EmptyRegistry
<1> QED BY <1>1, <1>2, JobIdIsNat DEF TasksMatch, Matched, JobId

LEMMA JobErrorDrive ==
    ASSUME DriveInv, NEW t \in Tasks, JobError(t) PROVE DriveInv'
<1>0. /\ TypeOK /\ IsABag(work) /\ t \in Task /\ Tasks \subseteq Task /\ Sound(reg)
  BY DriveParts, TaskType
<1>1. /\ UNCHANGED << status, forked, ready, mail, waits, sweep, drive, draining, producer >>
      /\ Become(t, {}) /\ reg' = Finish(reg, t.id) /\ t.by = "job" /\ wake' = (wake \/ draining)
  BY DEF JobError, Notice
<1>2. /\ Tasks' \subseteq Tasks /\ Tasks \subseteq Tasks' \cup {t} /\ IsABag(work')
  BY <1>0, <1>1, EndTasks
<1>3. TypeOK' /\ StatusMoves
  BY <1>0, <1>1, <1>2, TypesTogether, SameStatusMoves DEF TypeOK, Letter
<1>4. /\ Sound(reg') /\ Evolves(reg, reg') /\ Installed(reg') = Installed(reg) \ {t.id}
      /\ \A j \in Installed(reg') : reg'.jobs[j] = reg.jobs[j]
  BY <1>0, <1>1, FinishEffect
<1>5. TaskFlow
  BY <1>2, <1>4 DEF TaskFlow
<1>6. RegFlow
  <2>1. \A id \in Installed(reg') : reg'.jobs[id].state \in {"Waiting", "Running"}
    BY <1>4, RegistryFacts DEF State
  <2> QED BY <1>1, <1>4, <2>1 DEF RegFlow
<1>7. Turns'
  BY <1>1, NoJobsYet, RegTurns
<1>8. wake' \in BOOLEAN
  BY <1>1, DriveParts
<1> QED BY <1>1, <1>3, <1>5, <1>6, <1>7, <1>8, DriveParts, DriveTogether

LEMMA OffFields ==
    ASSUME NEW pc \in {"idle", "retire", "prime", "pop", "popped", "start"}
    PROVE  LET d == [Off EXCEPT !.pc = pc]
           IN  /\ d.pc = pc /\ d.set = {} /\ d.id = NoJob
               /\ d \in [pc : {"idle", "retire", "prime", "pop", "popped", "start"},
                         set : SUBSET Unit, id : JobId \cup {NoJob}]
               /\ Off.pc = "idle" /\ Off.set = {} /\ Off.id = NoJob
               /\ Off \in [pc : {"idle", "retire", "prime", "pop", "popped", "start"},
                           set : SUBSET Unit, id : JobId \cup {NoJob}]
BY DEF Off

(* The drive begins after an event.                                        *)
LEMMA AfterEventDrive ==
    ASSUME DriveInv, drive.pc = "idle", AfterEvent
    PROVE  /\ drive'.id = drive.id /\ drive.id = NoJob /\ drive'.set = {}
           /\ drive' \in [pc : {"idle", "retire", "prime", "pop", "popped", "start"},
                          set : SUBSET Unit, id : JobId \cup {NoJob}]
           /\ drive'.pc = IF draining THEN "retire" ELSE "idle"
<1>1. drive.id = NoJob
  BY DriveParts
<1> QED BY <1>1, OffFields DEF AfterEvent

LEMMA TakeWakeDrive ==
    ASSUME DriveInv, TakeWake PROVE DriveInv'
<1>1. /\ UNCHANGED << sweepVars, reg, draining, producer >> /\ wake' = FALSE
      /\ drive.pc = "idle" /\ AfterEvent
  BY DEF TakeWake
<1>2. TypeOK' /\ StatusMoves /\ TaskFlow
  BY <1>1, DriveParts, SameTaskFlow, SameStatusMoves DEF sweepVars, TypeOK, Tasks
<1>3. /\ drive'.id = drive.id /\ drive.id = NoJob
      /\ drive' \in [pc : {"idle", "retire", "prime", "pop", "popped", "start"},
                     set : SUBSET Unit, id : JobId \cup {NoJob}]
      /\ drive'.pc = IF draining THEN "retire" ELSE "idle"
  BY <1>1, AfterEventDrive
<1>4. Turns'
  BY <1>1, <1>3, DriveParts DEF Turns
<1> QED BY <1>1, <1>2, <1>3, <1>4, SameRegFlow, DriveParts, DriveTogether

LEMMA TakeStartDrive ==
    ASSUME DriveInv, TakeStartEvent PROVE DriveInv'
<1>1. /\ UNCHANGED << reg, wake, draining, producer >>
      /\ drive.pc = "idle" /\ AfterEvent /\ DispatcherStep
  BY DEF TakeStartEvent
<1>2. TypeOK' /\ StatusMoves /\ Tasks \subseteq Tasks' /\ \A t \in Tasks' \ Tasks : t.by = "chain"
  BY <1>1, DriveParts, DispatcherTypes
<1>3. TaskFlow
  BY <1>2 DEF TaskFlow
<1>4. /\ drive'.id = drive.id /\ drive.id = NoJob
      /\ drive' \in [pc : {"idle", "retire", "prime", "pop", "popped", "start"},
                     set : SUBSET Unit, id : JobId \cup {NoJob}]
      /\ drive'.pc = IF draining THEN "retire" ELSE "idle"
  BY <1>1, AfterEventDrive
<1>5. Turns'
  BY <1>1, <1>4, DriveParts DEF Turns
<1> QED BY <1>1, <1>2, <1>3, <1>4, <1>5, SameRegFlow, DriveParts, DriveTogether

LEMMA SweepSame ==
    ASSUME TypeOK, UNCHANGED sweepVars
    PROVE  /\ TypeOK' /\ StatusMoves /\ TaskFlow /\ Tasks' = Tasks /\ status' = status
           /\ work' = work /\ mail' = mail /\ waits' = waits /\ ready' = ready
           /\ forked' = forked /\ sweep' = sweep
BY SameTaskFlow, SameStatusMoves, SameTasks DEF sweepVars, TypeOK, Tasks

(* The registry changes, the pools do not.                                 *)
LEMMA RegistryDrive ==
    ASSUME DriveInv, UNCHANGED sweepVars, RegFlow, Turns',
           drive' \in [pc : {"idle", "retire", "prime", "pop", "popped", "start"},
                       set : SUBSET Unit, id : JobId \cup {NoJob}],
           wake' \in BOOLEAN, draining' \in BOOLEAN, producer' \in {"install", "arm", "tick", "done", "gaveUp"}
    PROVE  DriveInv'
BY DriveParts, SweepSame, DriveTogether

LEMMA DriveRunning ==
    ASSUME DriveInv, drive.pc # "idle"
    PROVE  producer \in {"tick", "done", "gaveUp"} /\ (draining => producer = "tick")
BY DriveParts DEF Turns

LEMMA DriveTurns ==
    ASSUME DriveInv, drive.pc # "idle", draining' = draining, producer' = producer,
           drive'.id # NoJob => drive'.pc \in {"popped", "start"}
    PROVE  Turns'
BY DriveRunning DEF Turns

LEMMA DriveRetireDrive ==
    ASSUME DriveInv, DriveRetire PROVE DriveInv'
<1>1. /\ UNCHANGED << sweepVars, wake, draining, producer >> /\ drive.pc = "retire"
      /\ drive.id = NoJob /\ Sound(reg)
  BY DriveParts DEF DriveRetire
<1>2. CASE Installed(reg) = {}
  <2>1. drive' = Off /\ reg' = reg
    BY <1>2 DEF DriveRetire
  <2> QED BY <1>1, <2>1, OffFields, SameRegFlow, DriveTurns, RegistryDrive, DriveParts
<1>3. CASE Installed(reg) # {}
  <2>1. drive' = [Off EXCEPT !.pc = "prime", !.set = UnitsWithJobs] /\ FinishAll(reg, Retirable)
    BY <1>3 DEF DriveRetire
  <2>2. /\ Sound(reg') /\ Evolves(reg, reg') /\ Installed(reg') \subseteq Installed(reg)
        /\ \A j \in Installed(reg') : reg'.jobs[j] = reg.jobs[j]
    BY <1>1, <2>1, FinishAllEffect
  <2>3. UnitsWithJobs \subseteq Unit
    BY <1>1, RegistryFacts DEF UnitsWithJobs
  <2>4. /\ drive' \in [pc : {"idle", "retire", "prime", "pop", "popped", "start"},
                       set : SUBSET Unit, id : JobId \cup {NoJob}]
        /\ drive'.pc = "prime" /\ drive'.id = NoJob
    BY <2>1, <2>3 DEF Off
  <2>5. RegFlow
    <3>1. \A id \in Installed(reg') : reg'.jobs[id].state \in {"Waiting", "Running"} /\ id # NoJob
      BY <2>2, RegistryFacts DEF State
    <3> QED BY <1>1, <2>2, <3>1 DEF RegFlow
  <2> QED BY <1>1, <2>4, <2>5, DriveTurns, RegistryDrive, DriveParts
<1> QED BY <1>2, <1>3

LEMMA DrivePrimeDrive ==
    ASSUME DriveInv, DrivePrime PROVE DriveInv'
<1>1. /\ UNCHANGED << sweepVars, wake, draining, producer >> /\ drive.pc = "prime"
      /\ drive.id = NoJob /\ Sound(reg) /\ Enqueue(reg, drive.set)
      /\ drive' = [Off EXCEPT !.pc = "pop"]
  BY DriveParts DEF DrivePrime
<1>2. Sound(reg') /\ Evolves(reg, reg') /\ Installed(reg') = Installed(reg) /\ reg'.jobs = reg.jobs
  BY <1>1, EnqueueEffect
<1>3. RegFlow
  <2>1. \A id \in Installed(reg') : reg'.jobs[id].state \in {"Waiting", "Running"} /\ id # NoJob
    BY <1>2, RegistryFacts DEF State
  <2> QED BY <1>1, <1>2, <2>1 DEF RegFlow
<1> QED BY <1>1, <1>3, OffFields, DriveTurns, RegistryDrive, DriveParts

LEMMA EmptyQueueEffect ==
    ASSUME NEW r, Sound(r)
    PROVE  LET s == [r EXCEPT !.runQueue = << >>]
           IN  /\ Sound(s) /\ Evolves(r, s) /\ Installed(s) = Installed(r) /\ s.jobs = r.jobs
               /\ s.byUnit = r.byUnit /\ Queued(s) = {}
<1> DEFINE s == [r EXCEPT !.runQueue = << >>]
           q == << >>
<1>1. q \in Seq(JobId) /\ Len(q) = 0
  OBVIOUS
<1>2. NoDuplicates(q) /\ \A i \in 1 .. Len(q) : q[i] \in Installed(r)
  BY <1>1 DEF NoDuplicates
<1>3. Sound(s) /\ Evolves(r, s)
  BY <1>1, <1>2, QueueUpdateSound
<1>4. s.jobs = r.jobs /\ s.byUnit = r.byUnit /\ s.runQueue = << >>
  BY RegistryFacts DEF IsRegistry
<1> HIDE DEF s
<1>5. Installed(s) = Installed(r) /\ Queued(s) = {}
  BY <1>4 DEF Installed, Queued
<1> QED BY <1>3, <1>4, <1>5 DEF s

LEMMA DrivePopDrive ==
    ASSUME DriveInv, DrivePop PROVE DriveInv'
<1>1. /\ UNCHANGED << sweepVars, wake, draining, producer >> /\ drive.pc = "pop"
      /\ drive.id = NoJob /\ Sound(reg)
  BY DriveParts DEF DrivePop
<1>2. ASSUME NEW k \in 1 .. Len(reg.runQueue), reg' = PopReady(reg, k),
             drive' = [Off EXCEPT !.pc = "popped", !.id = reg.runQueue[k]]
      PROVE  DriveInv'
  <2> DEFINE id == reg.runQueue[k]
  <2>1. /\ Sound(reg') /\ Evolves(reg, reg') /\ id \in Installed(reg)
        /\ Installed(reg') = Installed(reg)
        /\ \A j \in Installed(reg) :
             reg'.jobs[j].state = IF j = id THEN "Running" ELSE reg.jobs[j].state
    BY <1>1, <1>2, PopEffect
  <2>2. id \in JobId /\ \A j \in Installed(reg) : j # NoJob /\ reg.jobs[j].state \in {"Waiting", "Running"}
    BY <1>1, <2>1, RegistryFacts DEF State
  <2>3. /\ drive' \in [pc : {"idle", "retire", "prime", "pop", "popped", "start"},
                       set : SUBSET Unit, id : JobId \cup {NoJob}]
        /\ drive'.pc = "popped" /\ drive'.id = id
    BY <1>2, <2>2 DEF Off
  <2> HIDE DEF id
  <2>4. RegFlow
    BY <1>1, <2>1, <2>2, <2>3 DEF RegFlow
  <2> QED BY <1>1, <2>3, <2>4, DriveTurns, RegistryDrive, DriveParts
<1>3. CASE reg' = [reg EXCEPT !.runQueue = << >>] /\ drive' = Off
  <2>1. Sound(reg') /\ Evolves(reg, reg') /\ Installed(reg') = Installed(reg) /\ reg'.jobs = reg.jobs
    BY <1>1, <1>3, EmptyQueueEffect
  <2>2. RegFlow
    <3>1. \A id \in Installed(reg') : reg'.jobs[id].state \in {"Waiting", "Running"} /\ id # NoJob
      BY <2>1, RegistryFacts DEF State
    <3> QED BY <1>1, <2>1, <3>1 DEF RegFlow
  <2> QED BY <1>1, <1>3, <2>2, OffFields, DriveTurns, RegistryDrive, DriveParts
<1> QED BY <1>2, <1>3 DEF DrivePop

LEMMA DriveLookDrive ==
    ASSUME DriveInv, DriveLook PROVE DriveInv'
<1> DEFINE id == drive.id
           known == id \in Installed(reg)
           fresh == known /\ StatusOf(id) = "NeverStarted"
<1>1. /\ UNCHANGED << sweepVars, wake, draining, producer >> /\ drive.pc = "popped" /\ Sound(reg)
      /\ drive' = IF fresh THEN [drive EXCEPT !.pc = "start"] ELSE [Off EXCEPT !.pc = "pop"]
      /\ reg' = IF ~known \/ fresh THEN reg
                ELSE IF StatusOf(id) = "Started" THEN Finish(reg, id) ELSE SetRunning(reg, id)
  BY DriveParts DEF DriveLook
<1>s. status' = status /\ \A j \in Installed(reg) : j # NoJob /\ reg.jobs[j].state \in {"Waiting", "Running"}
  BY <1>1, RegistryFacts DEF State, sweepVars
<1>2. CASE fresh
  <2>1. /\ drive' \in [pc : {"idle", "retire", "prime", "pop", "popped", "start"},
                       set : SUBSET Unit, id : JobId \cup {NoJob}]
        /\ drive'.pc = "start" /\ drive'.id = id /\ reg' = reg
    BY <1>1, <1>2, DriveParts
  <2> QED BY <1>1, <2>1, SameRegFlow, DriveTurns, RegistryDrive, DriveParts
<1>3. CASE ~known
  <2>1. drive' = [Off EXCEPT !.pc = "pop"] /\ reg' = reg
    BY <1>1, <1>3
  <2>2. RegFlow
    BY <1>1, <1>s, <1>3, <2>1, EvolvesReflexive DEF RegFlow
  <2> QED BY <1>1, <2>1, <2>2, OffFields, DriveTurns, RegistryDrive, DriveParts
<1>4. CASE known /\ ~fresh /\ StatusOf(id) = "Started"
  <2>1. drive' = [Off EXCEPT !.pc = "pop"] /\ reg' = Finish(reg, id)
    BY <1>1, <1>4
  <2>2. /\ Sound(reg') /\ Evolves(reg, reg') /\ Installed(reg') = Installed(reg) \ {id}
        /\ \A j \in Installed(reg') : reg'.jobs[j] = reg.jobs[j]
    BY <1>1, <2>1, FinishEffect
  <2>3. RegFlow
    BY <1>1, <1>s, <2>1, <2>2 DEF RegFlow
  <2> QED BY <1>1, <2>1, <2>3, OffFields, DriveTurns, RegistryDrive, DriveParts
<1>5. CASE known /\ ~fresh /\ StatusOf(id) # "Started"
  <2>1. drive' = [Off EXCEPT !.pc = "pop"] /\ reg' = SetRunning(reg, id)
    BY <1>1, <1>5
  <2>2. /\ Sound(reg') /\ Evolves(reg, reg') /\ Installed(reg') = Installed(reg)
        /\ \A j \in Installed(reg) :
             /\ reg'.jobs[j].unit = reg.jobs[j].unit
             /\ reg'.jobs[j].state = IF j = id THEN "Running" ELSE reg.jobs[j].state
    BY <1>1, <2>1, SetStateEffect DEF SetRunning, State
  <2>3. status'[reg'.jobs[id].unit] # "NeverStarted"
    BY <1>s, <1>5, <2>2 DEF StatusOf
  <2>4. RegFlow
    BY <1>1, <1>s, <2>1, <2>2, <2>3 DEF RegFlow
  <2> QED BY <1>1, <2>1, <2>4, OffFields, DriveTurns, RegistryDrive, DriveParts
<1> QED BY <1>2, <1>3, <1>4, <1>5

(* What DriveStart puts on the pool.                                       *)
LEMMA Handed ==
    ASSUME Sound(reg), NEW id \in JobId
    PROVE  LET S == {NewTask(u, "job", id) : u \in {v \in UnitsWithJobs : reg.byUnit[v] = id}}
           IN  /\ \A x \in S : /\ x \in Task /\ x.by = "job" /\ x.id = id /\ x.step = "queued"
                               /\ id \in Installed(reg) /\ x.unit = reg.jobs[id].unit
               /\ id \in Installed(reg) => S = {NewTask(reg.jobs[id].unit, "job", id)}
<1> DEFINE S == {NewTask(u, "job", id) : u \in {v \in UnitsWithJobs : reg.byUnit[v] = id}}
<1>1. ASSUME NEW x \in S
      PROVE  /\ x \in Task /\ x.by = "job" /\ x.id = id /\ x.step = "queued"
             /\ id \in Installed(reg) /\ x.unit = reg.jobs[id].unit
  <2>1. PICK u \in UnitsWithJobs : reg.byUnit[u] = id /\ x = NewTask(u, "job", id)
    BY <1>1
  <2>2. id \in Installed(reg) /\ reg.jobs[id].unit = u /\ u \in Unit
    BY <2>1, RegistryFacts DEF UnitsWithJobs
  <2> QED BY <2>1, <2>2 DEF NewTask, Task
<1>2. ASSUME id \in Installed(reg)
      PROVE  S = {NewTask(reg.jobs[id].unit, "job", id)}
  <2>1. \A v : v \in UnitsWithJobs /\ reg.byUnit[v] = id <=> v = reg.jobs[id].unit
    BY <1>2, RegistryFacts DEF UnitsWithJobs
  <2> QED BY <2>1
<1> QED BY <1>1, <1>2

LEMMA DriveStartDrive ==
    ASSUME DriveInv, DriveStart PROVE DriveInv'
<1> DEFINE id == drive.id
           S  == {NewTask(u, "job", id) : u \in {v \in UnitsWithJobs : reg.byUnit[v] = id}}
<1>1. /\ UNCHANGED << status, forked, ready, mail, waits, sweep, wake, draining, producer >>
      /\ drive.pc = "start" /\ Sound(reg) /\ TypeOK /\ IsABag(work) /\ Tasks \subseteq Task
      /\ drive' = [Off EXCEPT !.pc = "pop"]
      /\ reg' = SetDeadline(SetRunning(reg, id), id)
      /\ work' = work (+) SetToBag(S)
      /\ id \in JobId \cup {NoJob}
  BY DriveParts DEF DriveStart
<1>2. /\ Sound(reg') /\ Evolves(reg, reg') /\ Installed(reg') = Installed(reg)
      /\ reg'.nextId = reg.nextId
      /\ \A j \in Installed(reg) :
           /\ reg'.jobs[j].unit = reg.jobs[j].unit
           /\ reg'.jobs[j].state = IF j = id THEN "Running" ELSE reg.jobs[j].state
  BY <1>1, StartEffect
<1>3. /\ \A x \in S : /\ x \in Task /\ x.by = "job" /\ x.id = id /\ x.step = "queued"
                      /\ id \in Installed(reg) /\ x.unit = reg.jobs[id].unit
      /\ id \in Installed(reg) => \E x \in S : x.by = "job" /\ x.id = id
  <2>1. CASE id = NoJob
    <3>1. S = {} /\ id \notin Installed(reg)
      BY <1>1, <2>1, RegistryFacts DEF UnitsWithJobs
    <3> QED BY <3>1
  <2>2. CASE id \in JobId
    <3>1. \A x \in S : /\ x \in Task /\ x.by = "job" /\ x.id = id /\ x.step = "queued"
                       /\ id \in Installed(reg) /\ x.unit = reg.jobs[id].unit
      BY <1>1, <2>2, Handed
    <3>2. id \in Installed(reg) => S = {NewTask(reg.jobs[id].unit, "job", id)}
      BY <1>1, <2>2, Handed
    <3> HIDE DEF S, id
    <3> QED BY <3>1, <3>2
  <2> QED BY <1>1, <2>1, <2>2
<1> HIDE DEF S
<1>4. IsABag(work') /\ Tasks' = Tasks \cup S
  BY <1>1, JoinTasks
<1> HIDE DEF id
<1>5. TypeOK' /\ StatusMoves
  BY <1>1, <1>3, <1>4, TypesTogether, SameStatusMoves DEF TypeOK, Letter
<1>6. \A j \in Installed(reg) : /\ j # NoJob /\ reg.jobs[j].state \in {"Waiting", "Running"}
                                /\ j < reg.nextId /\ j \in JobId
  BY <1>1, RegistryFacts DEF State
<1>7. TaskFlow
  <2>1. ASSUME NEW x \in S PROVE Matched(x)' /\ Moved(x)'
    BY <1>2, <1>3, <1>6 DEF Matched, Moved
  <2> QED BY <1>4, <2>1 DEF TaskFlow
<1>8. RegFlow
  BY <1>1, <1>2, <1>3, <1>4, <1>6 DEF RegFlow, id
<1>9. Turns'
  BY <1>1, OffFields, DriveTurns
<1> QED BY <1>1, <1>5, <1>7, <1>8, <1>9, OffFields, DriveParts, DriveTogether

LEMMA JobDueDrive ==
    ASSUME DriveInv, NEW id \in JobId, JobDue(id) PROVE DriveInv'
<1>1. /\ UNCHANGED << sweepVars, drive, draining, producer >> /\ wake' = TRUE
      /\ id \in Installed(reg) /\ Sound(reg)
      /\ reg' = [reg EXCEPT !.jobs[id].deadline = "due"]
  BY DriveParts DEF JobDue
<1>2. "due" \in Deadline
  BY DEF Deadline
<1>3. /\ Sound(reg') /\ Evolves(reg, reg') /\ Installed(reg') = Installed(reg)
      /\ \A j \in Installed(reg) : reg'.jobs[j].state = reg.jobs[j].state
  BY <1>1, <1>2, DeadlineEffect
<1>4. RegFlow
  <2>1. \A j \in Installed(reg') : reg.jobs[j].state \in {"Waiting", "Running"}
    BY <1>1, <1>3, RegistryFacts DEF State
  <2> QED BY <1>1, <1>3, <2>1 DEF RegFlow
<1>5. producer # "install"
  BY <1>1, EmptySound DEF DriveInv, Turns
<1> QED BY <1>1, <1>4, <1>5, RegTurns, RegistryDrive, DriveParts

(* The installed jobs after CreateAll and enqueue_ready.                   *)
LEMMA GrownFlow ==
    ASSUME DriveInv, NEW units \in SUBSET Unit, NEW set,
           reg.nextId + Cardinality(units \ DOMAIN reg.byUnit) <= MaxId,
           Enqueue(CreateAll(reg, units), set), drive' = drive
    PROVE  /\ RegFlow
           /\ Installed(reg) \subseteq Installed(reg')
           /\ \A j \in Installed(reg) : reg'.jobs[j] = reg.jobs[j]
           /\ \A j \in Installed(reg') \ Installed(reg) :
                /\ reg'.jobs[j].unit \in units \ DOMAIN reg.byUnit
                /\ reg'.jobs[j].state = "Waiting" /\ reg'.jobs[j].deadline = "none"
           /\ DOMAIN reg'.byUnit = DOMAIN reg.byUnit \cup units
           /\ \A id \in Queued(reg') : id \in Queued(reg) \/ Startable(reg'.jobs[id].unit, set)
<1> DEFINE p == CreateAll(reg, units)
<1>0. Sound(reg)
  BY DriveParts
<1>1. /\ Sound(p) /\ Evolves(reg, p)
      /\ Installed(reg) \subseteq Installed(p) /\ Queued(p) = Queued(reg)
      /\ \A j \in Installed(reg) : p.jobs[j] = reg.jobs[j]
      /\ \A j \in Installed(p) \ Installed(reg) :
           /\ p.jobs[j].unit \in units \ DOMAIN reg.byUnit
           /\ p.jobs[j].state = "Waiting" /\ p.jobs[j].deadline = "none"
      /\ DOMAIN p.byUnit = DOMAIN reg.byUnit \cup units
  BY <1>0, CreateAllEffect
<1> HIDE DEF p
<1>2. /\ Sound(reg') /\ Evolves(p, reg')
      /\ Installed(reg') = Installed(p) /\ reg'.jobs = p.jobs /\ reg'.byUnit = p.byUnit
      /\ \A id \in Queued(reg') : id \in Queued(p) \/ Startable(p.jobs[id].unit, set)
  BY <1>1, EnqueueEffect DEF p
<1>3. Evolves(reg, reg')
  BY <1>0, <1>1, <1>2, EvolvesTransitive
<1>4. \A j \in Installed(reg) : reg.jobs[j].state \in {"Waiting", "Running"}
  BY <1>0, RegistryFacts DEF State
<1>5. RegFlow
  BY <1>1, <1>2, <1>3, <1>4 DEF RegFlow
<1> QED BY <1>1, <1>2, <1>5

(* There are ids for the jobs of the boot.                                 *)
LEMMA IdsForBoot ==
    ASSUME DriveInv, producer = "install"
    PROVE  reg.nextId + Cardinality(Closure \ DOMAIN reg.byUnit) <= MaxId
<1>1. reg = EmptyRegistry
  BY DEF DriveInv, Turns
<1>2. reg.nextId = 1 /\ DOMAIN reg.byUnit = {}
  BY <1>1 DEF EmptyRegistry
<1>3. /\ Closure \in SUBSET Unit /\ IsFiniteSet(Unit) /\ Cardinality(Unit) < MaxId
  BY ClosureInUnit, GraphAssumption, BootAssumption DEF GraphAssumption, BootAssumption
<1>4. Cardinality(Closure) <= Cardinality(Unit) /\ Cardinality(Closure) \in Nat
      /\ Cardinality(Unit) \in Nat
  BY <1>3, FS_Subset, FS_CardinalityType
<1>5. Closure \ DOMAIN reg.byUnit = Closure
  BY <1>2
<1> QED BY <1>2, <1>3, <1>4, <1>5, MaxIdAssumption

LEMMA InstallDrive ==
    ASSUME DriveInv, InstallJobs PROVE DriveInv'
<1>1. /\ UNCHANGED << sweepVars, drive, draining >> /\ wake' = TRUE
      /\ producer = "install" /\ producer' = "arm"
      /\ Enqueue(CreateAll(reg, Closure), Closure)
  BY DEF InstallJobs
<1>2. RegFlow
  BY <1>1, IdsForBoot, GrownFlow, ClosureInUnit
<1>3. Turns'
  BY <1>1, DriveParts DEF Turns
<1> QED BY <1>1, <1>2, <1>3, RegistryDrive, DriveParts

LEMMA TopUpDrive ==
    ASSUME DriveInv, TopUp PROVE DriveInv'
<1>1. /\ UNCHANGED << sweepVars, drive, draining, producer >> /\ wake' = TRUE
      /\ producer = "tick" /\ Enqueue(CreateAll(reg, Lost), Closure)
      /\ reg.nextId + Cardinality(Lost) <= MaxId
  BY DEF TopUp, IdsRemain
<1>2. Lost \in SUBSET Unit /\ Lost \ DOMAIN reg.byUnit = Lost
  BY ClosureInUnit DEF Lost, UnitsWithJobs
<1>3. RegFlow
  BY <1>1, <1>2, GrownFlow
<1> QED BY <1>1, <1>3, RegTurns, RegistryDrive, DriveParts

LEMMA ProducerDrive ==
    ASSUME DriveInv, Arm \/ Drained \/ GiveUp \/ Nudge PROVE DriveInv'
<1>1. /\ UNCHANGED << sweepVars, reg, drive >>
      /\ wake' \in BOOLEAN /\ draining' \in BOOLEAN
      /\ producer' \in {"install", "arm", "tick", "done", "gaveUp"}
  BY DriveParts DEF Arm, Drained, GiveUp, Nudge
<1>2. Turns'
  BY DriveParts DEF Turns, Arm, Drained, GiveUp, Nudge
<1> QED BY <1>1, <1>2, SameRegFlow, RegistryDrive, DriveParts

LEMMA PlugDrive ==
    ASSUME DriveInv, NEW u \in Unit, Plug(u) PROVE DriveInv'
<1>1. /\ SetStatus(u, "Started") /\ UNCHANGED << forked, ready, work, mail, waits, sweep, bootVars >>
      /\ TypeOK
  BY DriveParts DEF Plug
<1>2. StatusMoves /\ status' \in [Unit -> Status]
  BY <1>1, SetStatusMoves DEF Status
<1>3. TypeOK'
  BY <1>1, <1>2 DEF TypeOK, Tasks
<1> QED BY <1>1, <1>2, <1>3, SameTaskFlow, BootVarsSame

LEMMA OtherStartDrive ==
    ASSUME DriveInv, NEW u \in Unit, OtherStart(u) PROVE DriveInv'
<1> DEFINE n == NewTask(u, "chain", NoJob)
<1>1. /\ work' = work (+) SetToBag({n}) /\ TypeOK /\ IsABag(work) /\ Tasks \subseteq Task
      /\ UNCHANGED << status, forked, ready, mail, waits, sweep, bootVars >>
  BY DriveParts DEF OtherStart
<1>2. n \in Task /\ n.by = "chain"
  BY DEF NewTask, Task
<1> HIDE DEF n
<1>3. IsABag(work') /\ Tasks' = Tasks \cup {n}
  BY <1>1, JoinTasks
<1>4. TypeOK' /\ StatusMoves
  BY <1>1, <1>2, <1>3, TypesTogether, SameStatusMoves DEF TypeOK, Letter
<1>5. TaskFlow
  BY <1>2, <1>3 DEF TaskFlow
<1> QED BY <1>1, <1>4, <1>5, BootVarsSame

LEMMA DriveStep ==
    ASSUME DriveInv, BootNext PROVE DriveInv'
<1>1. CASE \E t \in Tasks : BootWorker(t)
  BY <1>1, WorkerDrive, MountDrive, JobLeaveDrive, JobErrorDrive DEF BootWorker
<1>2. CASE TakeWake \/ TakeStartEvent \/ Drive
  BY <1>2, TakeWakeDrive, TakeStartDrive, DriveRetireDrive, DrivePrimeDrive, DrivePopDrive,
     DriveLookDrive, DriveStartDrive DEF Drive
<1>3. CASE (\E id \in JobId : JobDue(id)) \/ Producer \/ Nudge \/ TopUp
  BY <1>3, JobDueDrive, InstallDrive, ProducerDrive, TopUpDrive DEF Producer
<1>4. CASE \E u \in Unit : Plug(u) \/ OtherStart(u)
  BY <1>4, PlugDrive, OtherStartDrive
<1> QED BY <1>1, <1>2, <1>3, <1>4 DEF BootNext

LEMMA DriveStutters == ASSUME DriveInv, UNCHANGED vars PROVE DriveInv'
<1>1. UNCHANGED sweepVars /\ UNCHANGED bootVars
  BY DEF vars
<1> QED BY <1>1, DriveParts, SweepSame, BootVarsSame

LEMMA DriveInitial == ASSUME BootInit PROVE DriveInv
<1>1. /\ SweepInv /\ reg = EmptyRegistry /\ drive = Off /\ wake = FALSE /\ draining = FALSE
      /\ producer = "install" /\ Tasks = {}
  <2>1. Nothing /\ sweep \in [pc : {"idle", "pass", "join", "done"}, before : {0}]
    BY DEF BootInit
  <2>2. Tasks = {}
    BY <2>1 DEF Nothing, Tasks, EmptyBag, SetToBag, BagToSet
  <2> QED BY <2>1, <2>2, NothingSound DEF BootInit
<1>2. Sound(reg) /\ Installed(reg) = {}
  BY <1>1, EmptySound
<1>3. BootTypeOK
  BY <1>1, <1>2, OffFields DEF BootTypeOK, SweepInv, Sound
<1> QED BY <1>1, <1>2, <1>3, OffFields DEF DriveInv, Turns, TasksMatch, TasksMove, NoStrandedJob

LEMMA DriveInvAlways == BootSpec => []DriveInv
<1>1. BootInit => DriveInv
  BY DriveInitial
<1>2. DriveInv /\ [BootNext]_vars => DriveInv'
  BY DriveStep, DriveStutters
<1> QED BY <1>1, <1>2, PTL DEF BootSpec

(* The variables keep their types, whoever starts units beside the drive:  *)
(* an id stays a JobId, and there are ids enough for the jobs of the boot  *)
(* and those the producer tops up with.                                    *)
THEOREM BootTypes == BootSpec => []BootTypeOK
BY DriveInvAlways, PTL DEF DriveInv

(* No job is left Running with nobody at work on its unit, however the     *)
(* drive, its workers, the producer, the job deadlines, udev and other     *)
(* starters of the same units interleave.                                  *)
THEOREM NoJobIsStranded == BootSpec => []NoStrandedJob
BY DriveInvAlways, PTL DEF DriveInv

-----------------------------------------------------------------------------
(* Boots whose units are started once.  Readiness. *)

LEMMA ReachedProps ==
    /\ Also \subseteq Reached /\ Reached \subseteq Unit
    /\ \A v \in Reached : Before(v) \cap Closure \subseteq Reached
<1>1. Reached \subseteq Unit
  BY DEF Reached
<1>2. Also \subseteq Reached
  BY ClosureInUnit, BootAssumption DEF BootAssumption, Reached
<1>3. ASSUME NEW v \in Reached, NEW u \in Before(v) \cap Closure PROVE u \in Reached
  <2>1. u \in Unit
    BY ClosureInUnit
  <2>2. ASSUME NEW S \in SUBSET Unit, Also \subseteq S, \A w \in S : Before(w) \cap Closure \subseteq S
        PROVE  u \in S
    <3>1. v \in S
      BY <2>2 DEF Reached
    <3> QED BY <2>2, <3>1
  <2> QED BY <2>1, <2>2 DEF Reached
<1> QED BY <1>1, <1>2, <1>3

LEMMA ReadyProps ==
    ASSUME status \in [Unit -> Status], NEW u, Ready(u)
    PROVE  Cleared(u) /\ TransitionAllowed(u) /\ u \in Closure /\ u \in Unit /\ u \notin Devices
<1>0. u \in Closure /\ u \in Unit /\ u \notin Devices /\ UnstartedDeps(u, Closure) = {}
  BY ClosureInUnit DEF Ready, Startable
<1>1. Cleared(u)
  BY StartableCleared DEF Ready
<1>2. TransitionAllowed(u)
  <2> SUFFICES ASSUME NEW d \in After[u]
               PROVE  CASE d \in Requires[u] -> status[d] \in {"Started", "Skipped"}
                        [] d \in Wants[u] \ Requires[u] -> status[d] # "NeverStarted"
                        [] OTHER             -> status[d] # "Starting"
    BY DEF TransitionAllowed
  <2>1. d \notin UnstartedDeps(u, Closure)
    BY <1>0
  <2>2. CASE d \in Requires[u]
    BY <2>1, <2>2 DEF UnstartedDeps
  <2>3. CASE d \in Wants[u] \ Requires[u]
    BY <2>1, <2>3 DEF UnstartedDeps, Settled, Stopped
  <2>4. CASE d \notin Wants[u] \cup Requires[u]
    BY <2>1, <2>4 DEF UnstartedDeps
  <2> QED BY <2>2, <2>3, <2>4
<1> QED BY <1>0, <1>1, <1>2

(* Given an activation set that holds what is NeverStarted of the closure, *)
(* what is startable is ready.                                             *)
LEMMA StartableReady ==
    ASSUME NEW u \in Closure, NEW set, Startable(u, set),
           \A d \in Closure : status[d] = "NeverStarted" => d \in set
    PROVE  Ready(u)
<1> SUFFICES ASSUME NEW d \in After[u] PROVE d \notin UnstartedDeps(u, Closure)
  BY DEF Ready, Startable, UnstartedDeps
<1>1. d \notin UnstartedDeps(u, set)
  BY DEF Startable
<1>2. CASE d \in Requires[u]
  BY <1>1, <1>2 DEF UnstartedDeps
<1>3. CASE d \in Wants[u] \ Requires[u]
  BY <1>1, <1>3 DEF UnstartedDeps
<1>4. CASE d \notin Wants[u] \cup Requires[u]
  BY <1>1, <1>4 DEF UnstartedDeps
<1> QED BY <1>2, <1>3, <1>4

(* What a step does to the status of the units: Started and settled units  *)
(* stay so, and only units that are ready move, or devices appear.         *)
Grow ==
    /\ status' \in [Unit -> Status] /\ StatusMoves
    /\ \A u \in Unit : status[u] = "Started" => status'[u] = "Started"
    /\ \A u \in Unit : status[u] \in Settled => status'[u] \in Settled
    /\ \A u \in Unit : status'[u] # status[u] =>
         Ready(u) \/ (u \in Devices /\ status'[u] = "Started")

LEMMA SameGrow == ASSUME TypeOK, status' = status PROVE Grow
BY DEF TypeOK, Grow, StatusMoves

LEMMA SetGrow ==
    ASSUME TypeOK, NEW u \in Unit, NEW s \in Status \ {"NeverStarted"}, SetStatus(u, s),
           status[u] = "Started" => s = "Started",
           status[u] \in Settled => s \in Settled,
           Ready(u) \/ (u \in Devices /\ s = "Started")
    PROVE  Grow
<1>1. /\ StatusMoves /\ status' \in [Unit -> Status] /\ status'[u] = s
      /\ \A v \in Unit \ {u} : status'[v] = status[v]
  BY SetStatusMoves
<1> QED BY <1>1 DEF Grow

LEMMA ReadyKept ==
    ASSUME status \in [Unit -> Status], Grow, NEW u, Ready(u) PROVE Ready(u)'
<1>0. /\ u \in Closure /\ u \in Unit /\ u \notin Devices /\ UnstartedDeps(u, Closure) = {}
      /\ After[u] \subseteq Unit
  BY ClosureInUnit, GraphAssumption DEF Ready, Startable, GraphAssumption
<1> SUFFICES ASSUME NEW d \in After[u] PROVE d \notin UnstartedDeps(u, Closure)'
  BY <1>0 DEF Ready, Startable, UnstartedDeps
<1>1. d \notin UnstartedDeps(u, Closure) /\ d \in Unit /\ status[d] \in Status
  BY <1>0
<1>2. CASE d \in Requires[u]
  BY <1>1, <1>2 DEF UnstartedDeps, Grow
<1>3. CASE d \in Wants[u] \ Requires[u]
  BY <1>1, <1>3 DEF UnstartedDeps, Grow
<1>4. CASE d \notin Wants[u] \cup Requires[u]
  <2>1. status[d] # "Starting" /\ ~(status[d] = "NeverStarted" /\ d \in Closure)
    BY <1>1, <1>4 DEF UnstartedDeps
  <2>2. CASE status[d] \in Settled
    <3>1. status'[d] \in Settled
      BY <1>1, <2>2 DEF Grow
    <3> QED BY <1>4, <3>1 DEF UnstartedDeps, Settled, Stopped
  <2>3. CASE d \notin Closure
    <3>1. status'[d] # "Starting"
      BY <1>1, <2>1, <2>3 DEF Grow, Ready
    <3> QED BY <1>4, <2>3, <3>1 DEF UnstartedDeps
  <2> QED BY <1>1, <2>1, <2>2, <2>3 DEF Status, Settled, Stopped
<1> QED BY <1>2, <1>3, <1>4

(* The parts of the invariant. *)
LEMMA BootParts ==
    ASSUME BootInv
    PROVE  /\ DriveInv /\ SweepInv /\ Ripe /\ Covered /\ Held /\ Ends /\ Origins /\ Alone /\ Locks
           /\ TypeOK /\ Sound(reg) /\ status \in [Unit -> Status]
           /\ IsABag(work) /\ Tasks \subseteq Task /\ Skips /\ InFlight /\ OrderRespected
           /\ mail \in Seq(Letter)
BY DriveParts DEF BootInv, SweepInv, TypeOK, Letter

(* What is on a pool for a unit that other starters do not get to is a     *)
(* task of the drive, or the rest of a parked start.                       *)
LEMMA Loners ==
    ASSUME BootInv, NEW t \in Tasks, t.unit \notin Reached
    PROVE  (t.by = "job" /\ t \in JobTasks(t.unit)) \/ (t.step \in {"finish", "chain"} /\ ~t.chain)
BY BootParts DEF Origins, JobTasks

LEMMA Parking ==
    ASSUME StartedOnce
    PROVE  /\ Reached \cap Deferring = {} /\ Reached \cap Mounts = {} /\ Slow = {}
           /\ Deferring \subseteq Unit \ Devices
           /\ \A u \in Deferring : u \in Unit \ Reached
           /\ \A u \in Mounts \cap Unit : u \in Unit \ Reached
BY GraphAssumption DEF StartedOnce, OthersApart, GraphAssumption

(* While a parked start of a service is under way, nothing else is.        *)
LEMMA DeferredAlone ==
    ASSUME BootInv, StartedOnce, NEW u \in Deferring, Deferred(u), NEW t \in Tasks, t.unit = u
    PROVE  t.step \in {"finish", "chain"}
<1>1. u \in Unit \ Reached
  BY Parking
<1>2. JobTasks(u) = {}
  BY <1>1, BootParts DEF Alone
<1> QED BY <1>1, <1>2, Loners

LEMMA MountStatus ==
    ASSUME BootInv, NEW t \in Tasks, t.step = "mounting"
    PROVE  t.by = "job" /\ t.unit \in Mounts /\ t.unit \in Unit /\ status[t.unit] = "NeverStarted"
<1>1. t.by = "job" /\ t.unit \in Mounts /\ t.unit \in Unit
  BY BootParts, TaskType DEF Origins
<1> QED BY <1>1, BootParts DEF Locks, MountsFresh, JobTasks

LEMMA MountGrow ==
    ASSUME BootInv, NEW t \in Tasks, MountBegins(t) \/ MountEnds(t) PROVE Grow
<1>0. TypeOK /\ t.unit \in Unit /\ Ready(t.unit)
  BY BootParts, TaskType DEF Ripe
<1>1. CASE MountBegins(t)
  BY <1>0, <1>1, SameGrow DEF MountBegins
<1>2. CASE MountEnds(t)
  <2>1. status[t.unit] = "NeverStarted"
    BY <1>2, MountStatus DEF MountEnds
  <2> QED BY <1>0, <1>2, <2>1, SetGrow DEF MountEnds, Status, Settled, Stopped
<1> QED BY <1>1, <1>2

LEMMA DispatcherGrow ==
    ASSUME BootInv, DispatcherStep PROVE Grow
<1>0. TypeOK
  BY BootParts
<1>1. CASE Register \/ \E u \in Deferring : NotifyReady(u)
  BY <1>0, <1>1, SameGrow DEF Register, NotifyReady
<1>2. CASE \E u \in Deferring : StartFails(u)
  <2>1. PICK u \in Deferring : StartFails(u)
    BY <1>2
  <2>2. u \in Unit \ Devices /\ status[u] = "Starting" /\ SetStatus(u, "Failed")
    BY <2>1, GraphAssumption DEF StartFails, GraphAssumption
  <2>3. Ready(u)
    BY <2>2, BootParts DEF Ripe
  <2> QED BY <1>0, <2>2, <2>3, SetGrow DEF Status, Settled, Stopped
<1> QED BY <1>1, <1>2 DEF DispatcherStep

LEMMA PlugGrow ==
    ASSUME BootInv, NEW u \in Unit, Plug(u) PROVE Grow
BY BootParts, SetGrow DEF Plug, Status, Settled, Stopped

-----------------------------------------------------------------------------
(* SweepInv is kept by the steps of BootDrive, too. *)

LEMMA SweepFrame ==
    ASSUME SweepInv, StatusStep, IsABag(work'), Carried(Tasks)',
           Delivered', UNCHANGED << forked, ready, waits, sweep >>
    PROVE  SweepInv'
<1>1. TypeOK /\ InFlight /\ OrderRespected
  BY DEF SweepInv
<1>2. Awaited'
  BY <1>1, SameAwaited
<1> QED BY <1>1, <1>2, Together DEF TypeOK

LEMMA MountSweep ==
    ASSUME BootInv, NEW t \in Tasks, MountBegins(t) \/ MountEnds(t) PROVE SweepInv'
<1>0. /\ SweepInv /\ TypeOK /\ Skips /\ InFlight /\ t.unit \in Unit /\ Cleared(t.unit)
  BY BootParts, TaskType DEF InFlight
<1>1. UNCHANGED << forked, ready, mail, waits, sweep >>
  BY DEF MountBegins, MountEnds
<1>2. StatusStep
  <2>1. CASE MountBegins(t)
    BY <1>0, <2>1, SameStatusStep DEF MountBegins
  <2>2. CASE MountEnds(t)
    <3>1. t.unit \in Mounts
      BY <2>2, MountStatus DEF MountEnds
    <3> QED BY <1>0, <2>2, <3>1, SetStatusStep DEF MountEnds, Status, Settled, Stopped, Unasked
  <2> QED BY <2>1, <2>2
<1>3. IsABag(work') /\ Carried(Tasks)'
  BY <1>0, <1>2, ReturnCarried DEF MountBegins, MountEnds
<1>4. Delivered'
  BY <1>0, <1>1, <1>2, SameDelivered
<1> QED BY <1>0, <1>1, <1>2, <1>3, <1>4, SweepFrame

LEMMA JobOutSweep ==
    ASSUME BootInv, NEW t \in Tasks, JobLeave(t) \/ JobError(t) PROVE SweepInv'
<1>0. /\ SweepInv /\ TypeOK /\ Skips /\ InFlight /\ Cleared(t.unit)
  BY BootParts DEF InFlight
<1>1. UNCHANGED << status, forked, ready, waits, sweep >> /\ Become(t, {})
  BY DEF JobLeave, JobError
<1>2. StatusStep
  BY <1>0, <1>1, SameStatusStep
<1>3. IsABag(work') /\ Carried(Tasks)'
  <2>1. Carried({})
    BY DEF Carried
  <2> QED BY <1>0, <1>1, <1>2, <2>1, BecomeCarried
<1>4. Delivered'
  <2>1. mail' = mail \/ mail' = Append(mail, [unit |-> t.unit, chain |-> FALSE])
    BY DEF JobLeave, JobError
  <2> QED BY <1>0, <1>2, <2>1, SameDelivered, AppendDelivered
<1> QED BY <1>0, <1>1, <1>2, <1>3, <1>4, SweepFrame

(* Tasks join the pool.                                                    *)
LEMMA JoinSweep ==
    ASSUME BootInv, NEW S, work' = work (+) SetToBag(S),
           \A x \in S : x \in Task /\ x.step = "queued" /\ Ready(x.unit),
           UNCHANGED << status, forked, ready, mail, waits, sweep >>
    PROVE  SweepInv'
<1>0. /\ SweepInv /\ TypeOK /\ Skips /\ InFlight /\ status \in [Unit -> Status]
  BY BootParts
<1>1. StatusStep
  BY <1>0, SameStatusStep
<1>2. Carried(S)
  BY <1>0, ReadyProps DEF Carried
<1>3. IsABag(work') /\ Carried(Tasks)'
  BY <1>0, <1>1, <1>2, JoinCarried
<1>4. Delivered'
  BY <1>0, <1>1, SameDelivered
<1> QED BY <1>0, <1>1, <1>3, <1>4, SweepFrame

LEMMA PlugSweep ==
    ASSUME BootInv, StartedOnce, NEW u \in Unit, Plug(u) PROVE SweepInv'
<1>0. /\ SweepInv /\ TypeOK /\ Skips /\ InFlight /\ status \in [Unit -> Status]
  BY BootParts
<1>1. /\ SetStatus(u, "Started") /\ UNCHANGED << forked, ready, work, mail, waits, sweep >>
      /\ u \in Devices /\ After[u] = {}
  BY DEF Plug, StartedOnce, OthersApart
<1>2. StatusStep
  <2>1. /\ status' \in [Unit -> Status] /\ status'[u] = "Started"
        /\ \A v \in Unit \ {u} : status'[v] = status[v]
    BY <1>0, <1>1, SetStatusMoves DEF Status
  <2>2. u \in Closure => Cleared(u)
    BY <1>1 DEF Cleared
  <2> QED BY <1>0, <1>1, <2>1, <2>2, ClosureInUnit DEF StatusStep, Skips, Settled, Unasked
<1>3. IsABag(work') /\ Carried(Tasks)'
  BY <1>0, <1>1, <1>2, SameCarried
<1>4. Delivered'
  BY <1>0, <1>1, <1>2, SameDelivered
<1> QED BY <1>0, <1>1, <1>2, <1>3, <1>4, SweepFrame

LEMMA SameSweep == ASSUME SweepInv, UNCHANGED sweepVars PROVE SweepInv'
BY DEF sweepVars, SweepInv, TypeOK, Tasks, Skips, InFlight, Cleared, OrderRespected

-----------------------------------------------------------------------------
(* The jobs. *)

(* What a step does to the jobs, except the one that installs them: none   *)
(* is new, one that goes has its unit under way, one that gets to the      *)
(* queue is ready, one that has been dispatched does not wait again.       *)
JobsFlow ==
    /\ Sound(reg')
    /\ \A id \in Installed(reg') :
         /\ id \in Installed(reg) /\ reg'.jobs[id].unit = reg.jobs[id].unit
         /\ reg'.jobs[id].deadline = "due" =>
              reg.jobs[id].deadline = "due" \/ status'[reg.jobs[id].unit] # "NeverStarted"
         /\ reg'.jobs[id].state = "Running" \/ id \in Queued(reg') =>
              reg.jobs[id].state = "Running" \/ id \in Queued(reg) \/ Ready(reg.jobs[id].unit)
         /\ reg'.jobs[id].state = "Waiting" \/ drive'.id = id =>
              reg.jobs[id].state = "Waiting" \/ drive.id = id
         /\ drive'.id = id => reg'.jobs[id].state = "Running"
    /\ \A id \in Installed(reg) \ Installed(reg') : status'[reg.jobs[id].unit] # "NeverStarted"

LEMMA SameJobsFlow ==
    ASSUME BootInv, reg' = reg, drive'.id = drive.id PROVE JobsFlow
BY BootParts DEF JobsFlow, Held

(* A job that another task or a scan finishes.                             *)
LEMMA FewerJobsFlow ==
    ASSUME BootInv, Sound(reg'), Installed(reg') \subseteq Installed(reg),
           \A j \in Installed(reg') : reg'.jobs[j] = reg.jobs[j],
           Queued(reg') \subseteq Queued(reg), drive'.id = drive.id \/ drive'.id = NoJob,
           \A id \in Installed(reg) \ Installed(reg') : status'[reg.jobs[id].unit] # "NeverStarted"
    PROVE  JobsFlow
<1>1. NoJob \notin Installed(reg') /\ Held
  BY BootParts, RegistryFacts
<1> QED BY <1>1 DEF JobsFlow, Held

LEMMA RipeKept ==
    ASSUME BootInv, Grow, JobsFlow, \A x \in Tasks' \ Tasks : Ready(x.unit)
    PROVE  Ripe'
<1>0. Ripe /\ status \in [Unit -> Status] /\ status' \in [Unit -> Status]
  BY BootParts DEF Grow
<1>1. \A u : Ready(u) => Ready(u)'
  BY <1>0, ReadyKept
<1>2. \A x \in Tasks' : Ready(x.unit)'
  <2> SUFFICES ASSUME NEW x \in Tasks' PROVE Ready(x.unit)'
    OBVIOUS
  <2>1. Ready(x.unit)
    BY <1>0 DEF Ripe
  <2> QED BY <1>1, <2>1
<1>3. ASSUME NEW id \in Installed(reg'), reg'.jobs[id].state = "Running" \/ id \in Queued(reg'),
             NEW u, u = reg'.jobs[id].unit
      PROVE  Ready(u)'
  <2>1. /\ id \in Installed(reg) /\ u = reg.jobs[id].unit
        /\ reg.jobs[id].state = "Running" \/ id \in Queued(reg) \/ Ready(reg.jobs[id].unit)
    BY <1>3 DEF JobsFlow
  <2>2. Ready(u)
    BY <1>0, <2>1 DEF Ripe
  <2> QED BY <1>1, <2>2
<1>4. \A u \in Unit \ Devices : status'[u] # "NeverStarted" => Ready(u)'
  <2> SUFFICES ASSUME NEW u \in Unit \ Devices, status'[u] # "NeverStarted" PROVE Ready(u)'
    OBVIOUS
  <2>1. Ready(u)
    BY <1>0 DEF Ripe, Grow
  <2> QED BY <1>1, <2>1
<1>5. \A u \in Devices \cap Unit : status'[u] \in {"NeverStarted", "Started"}
  BY <1>0 DEF Ripe, Grow, Ready, Startable
<1> QED BY <1>2, <1>3, <1>4, <1>5 DEF Ripe, Ready, Startable, UnstartedDeps

LEMMA HeldKept == ASSUME JobsFlow PROVE Held'
BY DEF JobsFlow, Held

LEMMA CoveredKept ==
    ASSUME BootInv, Grow, JobsFlow,
           producer' # "install" => producer # "install",
           drive'.pc = "prime" =>
             drive' = drive \/ (drive'.set = UnitsWithJobs /\ producer # "install"),
           \A x \in Tasks' \ Tasks : x.step = "err" => status'[x.unit] # "NeverStarted"
    PROVE  Covered'
<1>0. /\ Covered /\ Sound(reg) /\ Sound(reg') /\ StatusMoves /\ TypeOK
  BY BootParts DEF Grow, JobsFlow
<1>m. \A u \in Unit : status'[u] = "NeverStarted" => status[u] = "NeverStarted"
  BY <1>0 DEF StatusMoves
<1>1. ASSUME producer' # "install", NEW u \in Closure, status'[u] = "NeverStarted"
      PROVE  u \in DOMAIN reg'.byUnit
  <2>1. u \in DOMAIN reg.byUnit
    BY <1>0, <1>m, <1>1, ClosureInUnit DEF Covered, UnitsWithJobs
  <2>2. PICK id \in Installed(reg) : reg.jobs[id].unit = u
    BY <1>0, <2>1, RegistryFacts
  <2>3. id \in Installed(reg') /\ reg'.jobs[id].unit = u
    BY <1>1, <2>2 DEF JobsFlow
  <2> QED BY <1>0, <2>3, RegistryFacts
<1>2. drive'.pc = "prime" =>
         \A u \in Closure : status'[u] = "NeverStarted" => u \in drive'.set
  BY <1>0, <1>m, ClosureInUnit DEF Covered, UnitsWithJobs
<1>3. \A id \in Installed(reg') : reg'.jobs[id].unit \in Closure
  BY <1>0 DEF Covered, JobsFlow
<1>4. \A id \in Expired(reg') : status'[reg'.jobs[id].unit] # "NeverStarted"
  <2> SUFFICES ASSUME NEW id \in Expired(reg') PROVE status'[reg'.jobs[id].unit] # "NeverStarted"
    OBVIOUS
  <2>1. /\ id \in Installed(reg) /\ reg'.jobs[id].unit = reg.jobs[id].unit
        /\ reg.jobs[id].deadline = "due" \/ status'[reg.jobs[id].unit] # "NeverStarted"
    BY DEF JobsFlow, Expired
  <2>2. reg.jobs[id].unit \in Unit
    BY <1>0, <2>1, RegistryFacts
  <2> QED BY <1>0, <1>m, <2>1, <2>2 DEF Covered, Expired, StatusOf
<1>5. \A x \in Tasks' : x.step = "err" => status'[x.unit] # "NeverStarted"
  BY <1>0, <1>m, TaskType DEF Covered
<1> QED BY <1>1, <1>2, <1>3, <1>4, <1>5 DEF Covered, UnitsWithJobs, StatusOf

-----------------------------------------------------------------------------
(* What a worker puts on the pool. *)

Spawned(t, x) ==
    \/ /\ x.unit = t.unit /\ x.by = t.by /\ x.step \in {"check", "act", "locked", "ret", "err", "chain"}
       /\ x.step = "chain" => x.chain = t.chain /\ t.by # "job"
       /\ t.step \in {"finish", "chain"} => x.step = "chain"
       /\ x.step = "locked" => t.step = "act"
    \/ /\ t.step = "chain" /\ t.chain /\ t.by # "job" /\ x.by = t.by /\ x.step = "queued"
       /\ x.unit \in Before(t.unit) /\ Ready(x.unit)

LEMMA ReturnSpawn ==
    ASSUME NEW t \in Task, NEW step, NEW chain, Return(t, step, chain), step # t.step,
           step \in {"check", "act", "locked", "ret", "err", "chain"},
           step = "chain" => chain = t.chain /\ t.by # "job",
           t.step \in {"finish", "chain"} => step = "chain",
           step = "locked" => t.step = "act"
    PROVE  \E S : Become(t, S) /\ t \notin S /\ \A x \in S : Spawned(t, x)
<1> DEFINE n == [t EXCEPT !.step = step, !.chain = chain]
<1>1. Become(t, {n}) /\ n.unit = t.unit /\ n.by = t.by /\ n.step = step /\ n.chain = chain
  BY DEF Return, Task
<1> HIDE DEF n
<1>2. t \notin {n} /\ \A x \in {n} : Spawned(t, x)
  BY <1>1 DEF Spawned
<1> QED BY <1>1, <1>2

LEMMA WorkerSpawn ==
    ASSUME DriveInv, NEW t \in Tasks, WorkerStep(t)
    PROVE  \E S : Become(t, S) /\ t \notin S /\ \A x \in S : Spawned(t, x)
<1>0. /\ t \in Task /\ t.by \in {"job", "sweep", "chain"} /\ TasksMove
  BY DriveParts, TaskType
<1>j. t.step \in {"finish", "chain"} => t.by # "job"
  BY <1>0 DEF TasksMove, Moved
<1>e. t \notin {} /\ \A x \in {} : Spawned(t, x)
  OBVIOUS
<1>1. CASE Enter(t) \/ Check(t)
  BY <1>0, <1>1, ReturnSpawn DEF Enter, Check
<1>2. CASE Act(t)
  BY <1>0, <1>2, ReturnSpawn DEF Act
<1>3. CASE Perform(t)
  BY <1>0, <1>3, ReturnSpawn DEF Perform
<1>4. CASE Leave(t)
  <2>1. CASE Become(t, {})
    BY <1>e, <2>1
  <2>2. CASE Return(t, "chain", t.chain)
    BY <1>0, <1>4, <2>2, ReturnSpawn DEF Leave
  <2> QED BY <1>4, <2>1, <2>2 DEF Leave
<1>5. CASE LeaveWithError(t)
  BY <1>e, <1>5 DEF LeaveWithError
<1>6. CASE Chain(t)
  <2>1. CASE Become(t, {})
    BY <1>e, <2>1
  <2>2. CASE t.chain /\ Become(t, Dispatched(Before(t.unit), t.by))
    <3> DEFINE S == Dispatched(Before(t.unit), t.by)
    <3>1. \A x \in S : /\ x.by = t.by /\ x.step = "queued" /\ x.unit \in Before(t.unit)
                       /\ Ready(x.unit)
      BY <1>0, DispatchedTypes
    <3>2. t.step = "chain" /\ t.by # "job"
      BY <1>6, <1>j DEF Chain
    <3> HIDE DEF S
    <3>3. t \notin S /\ \A x \in S : Spawned(t, x)
      BY <2>2, <3>1, <3>2 DEF Spawned
    <3> QED BY <2>2, <3>3 DEF S
  <2> QED BY <1>6, <2>1, <2>2 DEF Chain
<1>7. CASE FinishStart(t)
  <2>1. CASE Become(t, {})
    BY <1>e, <2>1
  <2>2. CASE Return(t, "chain", t.chain)
    BY <1>0, <1>j, <1>7, <2>2, ReturnSpawn DEF FinishStart
  <2> QED BY <1>7, <2>1, <2>2 DEF FinishStart
<1> QED BY <1>1, <1>2, <1>3, <1>4, <1>5, <1>6, <1>7 DEF WorkerStep

(* A task of the drive goes on.                                            *)
LEMMA JobReturns ==
    ASSUME DriveInv, NEW t \in Tasks, WorkerStep(t), t.by = "job"
    PROVE  \E step \in {"check", "act", "locked", "ret", "err"}, chain \in BOOLEAN :
             Return(t, step, chain) /\ step # t.step
<1>0. TasksMove /\ t.step \notin {"finish", "chain"} /\ t.chain \in BOOLEAN
  BY DriveParts, TaskType DEF TasksMove, Moved
<1>1. Enter(t) \/ Check(t) \/ Act(t) \/ Perform(t)
  BY <1>0 DEF WorkerStep, Leave, LeaveWithError, Chain, FinishStart
<1>2. /\ (t.chain /\ status[t.unit] = "Started") \in BOOLEAN
      /\ (status[t.unit] # "Started") \in BOOLEAN
  OBVIOUS
<1>3. CASE Check(t)
  BY <1>2, <1>3 DEF Check
<1>4. CASE Act(t)
  BY <1>0, <1>2, <1>4 DEF Act
<1> QED BY <1>0, <1>1, <1>3, <1>4 DEF Enter, Perform

LEMMA Returned ==
    ASSUME IsABag(work), NEW t \in Tasks, NEW step, NEW chain, Return(t, step, chain),
           t \in Task, step # t.step
    PROVE  \E n : /\ IsABag(work') /\ n \in Tasks' /\ n # t
                 /\ n.unit = t.unit /\ n.by = t.by /\ n.id = t.id /\ n.step = step
                 /\ Tasks' \subseteq Tasks \cup {n} /\ Tasks \subseteq Tasks' \cup {t}
                 /\ \A x : x # n /\ x # t => Copies(work', x) = Copies(work, x)
                 /\ Copies(work', n) = Copies(work, n) + 1
                 /\ Copies(work', t) = Copies(work, t) - 1
<1> DEFINE n == [t EXCEPT !.step = step, !.chain = chain]
<1>1. /\ IsABag(work') /\ n \in Tasks' /\ n # t
      /\ n.unit = t.unit /\ n.by = t.by /\ n.id = t.id /\ n.step = step
      /\ Tasks' \subseteq Tasks \cup {n} /\ Tasks \subseteq Tasks' \cup {t}
      /\ \A x : x # n /\ x # t => Copies(work', x) = Copies(work, x)
      /\ Copies(work', n) = Copies(work, n) + 1
      /\ Copies(work', t) = Copies(work, t) - 1
  BY ReturnTasks
<1> HIDE DEF n
<1> QED BY <1>1

LEMMA ReturnedStep ==
    ASSUME IsABag(work), NEW t \in Tasks, NEW step, NEW chain, Return(t, step, chain),
           t \in Task, step # t.step
    PROVE  \A y \in Tasks' \ Tasks : y.step = step
<1> DEFINE n == [t EXCEPT !.step = step, !.chain = chain]
<1>1. Tasks' \subseteq Tasks \cup {n} /\ n.step = step
  BY ReturnTasks
<1> HIDE DEF n
<1> QED BY <1>1

(* In a boot nothing fails for its dependencies: an error comes with a     *)
(* status.                                                                 *)
LEMMA WorkerErr ==
    ASSUME BootInv, NEW t \in Tasks, WorkerStep(t), NEW x \in Tasks' \ Tasks, x.step = "err"
    PROVE  status'[x.unit] # "NeverStarted"
<1>0. /\ t \in Task /\ t.unit \in Unit /\ Ready(t.unit) /\ TypeOK /\ DriveInv
      /\ status \in [Unit -> Status] /\ IsABag(work)
  BY BootParts, TaskType DEF Ripe
<1>1. PICK S : Become(t, S) /\ t \notin S /\ \A y \in S : Spawned(t, y)
  BY <1>0, WorkerSpawn
<1>2. x \in S /\ x.unit = t.unit
  BY <1>0, <1>1, EndTasks DEF Spawned
<1>3. \A step, chain : Return(t, step, chain) /\ step # t.step => step = "err"
  <2> SUFFICES ASSUME NEW step, NEW chain, Return(t, step, chain), step # t.step PROVE step = "err"
    OBVIOUS
  <2>1. \A y \in Tasks' \ Tasks : y.step = step
    BY <1>0, ReturnedStep
  <2> QED BY <2>1
<1>4. CASE Check(t)
  <2>1. Return(t, "err", FALSE) /\ SetStatus(t.unit, "Failed")
    BY <1>3, <1>4 DEF Check
  <2> QED BY <1>0, <1>2, <2>1, SetStatusMoves DEF Status
<1>5. CASE Act(t)
  BY <1>0, <1>3, <1>5, ReadyProps DEF Act
<1>6. CASE ~Check(t) /\ ~Act(t)
  <2>1. \A y \in Tasks' \ Tasks : y.step # "err"
    <3>1. CASE Enter(t) \/ Perform(t)
      BY <1>3, <3>1 DEF Enter, Perform
    <3>2. CASE Leave(t)
      <4>1. CASE Return(t, "chain", t.chain)
        BY <1>3, <3>2, <4>1 DEF Leave
      <4>2. CASE Become(t, {})
        BY <1>0, <4>2, EndTasks
      <4> QED BY <3>2, <4>1, <4>2 DEF Leave
    <3>3. CASE LeaveWithError(t)
      BY <1>0, <3>3, EndTasks DEF LeaveWithError
    <3>4. CASE Chain(t)
      BY <1>0, <1>1, <3>4, EndTasks DEF Chain, Spawned
    <3>5. CASE FinishStart(t)
      <4>1. CASE Return(t, "chain", t.chain)
        BY <1>3, <3>5, <4>1 DEF FinishStart
      <4>2. CASE Become(t, {})
        BY <1>0, <4>2, EndTasks
      <4> QED BY <3>5, <4>1, <4>2 DEF FinishStart
    <3> QED BY <1>6, <3>1, <3>2, <3>3, <3>4, <3>5 DEF WorkerStep
  <2> QED BY <2>1
<1> QED BY <1>4, <1>5, <1>6

(* A worker writes the status of its own unit only, and no worker of       *)
(* StartSweep writes that of a mount.                                      *)
LEMMA WorkerWrites ==
    ASSUME BootInv, NEW t \in Tasks, WorkerStep(t)
    PROVE  /\ \A v \in Unit \ {t.unit} : status'[v] = status[v]
           /\ t.step \in {"chain", "ret", "err"} => status' = status
<1>0. t.unit \in Unit /\ status \in [Unit -> Status]
  BY BootParts, TaskType
<1>1. status' = status \/ \E s : SetStatus(t.unit, s)
  BY DEF WorkerStep, Enter, Check, Act, Perform, Leave, LeaveWithError, Chain, FinishStart
<1>2. t.step \in {"chain", "ret", "err"} => status' = status
  BY DEF WorkerStep, Enter, Check, Act, Perform, Leave, LeaveWithError, Chain, FinishStart
<1> QED BY <1>0, <1>1, <1>2 DEF SetStatus

LEMMA WorkerMount ==
    ASSUME BootInv, StartedOnce, NEW t \in Tasks, WorkerStep(t), t.unit \in Mounts
    PROVE  t.by # "job" /\ t.step \in {"finish", "chain"} /\ status' = status
<1>0. /\ t.unit \in Unit /\ Origins /\ Locks /\ TypeOK /\ DriveInv
  BY BootParts, TaskType
<1>1. t.unit \notin Reached
  BY <1>0, Parking
<1>2. t.by # "job"
  <2> SUFFICES ASSUME t.by = "job" PROVE FALSE
    OBVIOUS
  <2>1. t.step \in {"queued", "mounting", "err", "quit"}
    BY <1>0 DEF Origins
  <2> QED BY <2>1 DEF WorkerStep, Enter, Check, Act, Perform, Leave, LeaveWithError, Chain, FinishStart
<1>3. t.step \in {"finish", "chain"}
  BY <1>1, <1>2, Loners
<1>4. t.step # "finish"
  <2> SUFFICES ASSUME t.step = "finish" PROVE FALSE
    OBVIOUS
  <2>1. t.unit \in Deferring
    BY <1>0 DEF Locks, FinishReady, TypeOK
  <2> QED BY <2>1, GraphAssumption DEF GraphAssumption
<1> QED BY <1>2, <1>3, <1>4, WorkerWrites

LEMMA WorkerGrow ==
    ASSUME BootInv, StartedOnce, NEW t \in Tasks, WorkerStep(t) PROVE Grow
<1>0. /\ TypeOK /\ Skips /\ t \in Task /\ t.unit \in Unit /\ Ready(t.unit) /\ status[t.unit] \in Status
      /\ t.step = "locked" => status[t.unit] = "Starting"
  BY BootParts, TaskType DEF Ripe, Locks, LockedStarts
<1> USE DEF Status, Settled, Stopped
<1>1. CASE Check(t)
  <2>1. t.unit \notin Mounts /\ t.unit \notin Devices
    BY <1>0, <1>1, WorkerMount, ReadyProps, BootParts DEF Check
  <2>2. t.unit \in ConditionFails \cup AssertFails => status[t.unit] \notin {"Starting", "Started"}
    BY <1>0, <2>1 DEF Skips, Unasked
  <2> QED BY <1>0, <1>1, <2>2, SetGrow, SameGrow DEF Check
<1>2. CASE Act(t)
  <2>1. CASE status' = status
    BY <1>0, <2>1, SameGrow
  <2>2. CASE SetStatus(t.unit, "Starting") /\ status[t.unit] \notin {"Started", "Failed"}
    <3>1. status[t.unit] # "Skipped"
      BY <1>0, <1>2 DEF Act, Skips
    <3> QED BY <1>0, <2>2, <3>1, SetGrow
  <2> QED BY <1>2, <2>1, <2>2 DEF Act
<1>3. CASE Perform(t)
  BY <1>0, <1>3, SetGrow, SameGrow DEF Perform
<1>4. CASE FinishStart(t)
  BY <1>0, <1>4, SetGrow, SameGrow DEF FinishStart
<1>5. CASE Enter(t) \/ Leave(t) \/ LeaveWithError(t) \/ Chain(t)
  BY <1>0, <1>5, SameGrow DEF Enter, Leave, LeaveWithError, Chain
<1> QED BY <1>1, <1>2, <1>3, <1>4, <1>5 DEF WorkerStep

-----------------------------------------------------------------------------
(* The ends of the boot. *)

LEMMA TaskBusy ==
    ASSUME BootInv, NEW t \in Tasks PROVE producer # "install"
<1>1. work # EmptyBag
  BY DEF Tasks, BagToSet, EmptyBag, SetToBag
<1> QED BY <1>1, BootParts DEF Ends

LEMMA DriveBusy ==
    ASSUME BootInv, drive.pc # "idle" PROVE producer # "install"
BY BootParts, DriveRunning

LEMMA BusyEnds ==
    ASSUME BootInv, producer # "install", producer' = producer, JobsFlow
    PROVE  Ends'
<1>1. Ends /\ Installed(reg') \subseteq Installed(reg)
  BY BootParts DEF JobsFlow
<1> QED BY <1>1 DEF Ends

-----------------------------------------------------------------------------
(* Who starts what. *)

Origin(t) ==
    /\ t.by = "job" \/ t.unit \in Reached
         \/ (t.step \in {"finish", "chain"} /\ t.unit \in Deferring /\ ~t.chain)
    /\ t.by # "sweep"
    /\ t.by = "job" /\ t.unit \in Mounts => t.step \in {"queued", "mounting", "err", "quit"}
    /\ t.step = "mounting" => t.by = "job" /\ t.unit \in Mounts

LEMMA OriginsAre ==
    Origins <=> /\ \A t \in Tasks : Origin(t)
                /\ \A i \in 1 .. Len(mail) : mail[i].unit \in Reached \/ ~mail[i].chain
                /\ \A u \in DOMAIN waits : ~waits[u]
BY DEF Origins, Origin

LEMMA OriginsKept ==
    ASSUME BootInv, \A x \in Tasks' \ Tasks : Origin(x),
           \A i \in 1 .. Len(mail') : mail'[i].unit \in Reached \/ ~mail'[i].chain,
           \A u \in DOMAIN waits' : ~waits'[u]
    PROVE  Origins'
<1>1. \A x \in Tasks' : Origin(x)
  BY BootParts, OriginsAre
<1> QED BY <1>1 DEF Origins, Origin

LEMMA SameMail ==
    ASSUME BootInv, mail' = mail, waits' = waits
    PROVE  /\ \A i \in 1 .. Len(mail') : mail'[i].unit \in Reached \/ ~mail'[i].chain
           /\ \A u \in DOMAIN waits' : ~waits'[u]
BY BootParts DEF Origins

LEMMA MoreMail ==
    ASSUME BootInv, NEW u \in Unit, NEW chain \in BOOLEAN, u \in Reached \/ ~chain,
           mail' = Append(mail, [unit |-> u, chain |-> chain])
    PROVE  /\ \A i \in 1 .. Len(mail') : mail'[i].unit \in Reached \/ ~mail'[i].chain
           /\ \A v : (\E i \in 1 .. Len(mail') : mail'[i].unit = v) =>
                       v = u \/ \E i \in 1 .. Len(mail) : mail[i].unit = v
<1>1. mail \in Seq(Letter) /\ [unit |-> u, chain |-> chain] \in Letter
      /\ \A i \in 1 .. Len(mail) : mail[i].unit \in Reached \/ ~mail[i].chain
  BY BootParts DEF Letter, Origins
<1>2. \A i \in 1 .. Len(mail') :
        (i \in 1 .. Len(mail) /\ mail'[i] = mail[i]) \/ mail'[i] = [unit |-> u, chain |-> chain]
  <2>1. \A i \in 1 .. Len(mail') : i \in 1 .. Len(mail) \/ i = Len(mail) + 1
    BY <1>1, MailAppend
  <2> QED BY <1>1, <2>1, MailAppend
<1> QED BY <1>1, <1>2

(* A worker of StartSweep sends mail for its own unit.                     *)
LEMMA WorkerMail ==
    ASSUME BootInv, NEW t \in Tasks, WorkerStep(t)
    PROVE  /\ mail' = mail \/ (mail' = Append(mail, [unit |-> t.unit, chain |-> t.chain])
                                /\ t.by # "job" /\ t.step = "ret" /\ t.unit \in Reached)
           /\ waits' = waits /\ UNCHANGED sweep
<1>1. /\ mail' = mail \/ (mail' = Append(mail, [unit |-> t.unit, chain |-> t.chain])
                            /\ t.by # "job" /\ t.step = "ret")
      /\ waits' = waits /\ UNCHANGED sweep
  BY DEF WorkerStep, Enter, Check, Act, Perform, Leave, LeaveWithError, Chain, FinishStart
<1>2. t.by # "job" /\ t.step = "ret" => t.unit \in Reached
  BY BootParts DEF Origins
<1> QED BY <1>1, <1>2

LEMMA WorkerOrigins ==
    ASSUME BootInv, StartedOnce, NEW t \in Tasks, WorkerStep(t) PROVE Origins'
<1>0. /\ DriveInv /\ IsABag(work) /\ Origin(t) /\ TasksMove /\ t.unit \in Unit /\ t.chain \in BOOLEAN
  BY BootParts, OriginsAre, DriveParts, TaskType
<1>1. PICK S : Become(t, S) /\ t \notin S /\ \A y \in S : Spawned(t, y)
  BY <1>0, WorkerSpawn
<1>2. Tasks' \subseteq Tasks \cup S
  BY <1>0, <1>1, EndTasks
<1>3. ASSUME NEW x \in S PROVE Origin(x)
  <2>1. Spawned(t, x)
    BY <1>1, <1>3
  <2>2. CASE t.step = "chain" /\ t.chain /\ t.by # "job" /\ x.by = t.by /\ x.step = "queued"
             /\ x.unit \in Before(t.unit) /\ Ready(x.unit)
    <3>1. t.unit \in Reached
      BY <1>0, <2>2 DEF Origin
    <3>2. x.unit \in Reached
      BY <2>2, <3>1, ReachedProps DEF Ready
    <3> QED BY <1>0, <2>2, <3>2 DEF Origin
  <2>3. CASE /\ x.unit = t.unit /\ x.by = t.by /\ x.step \in {"check", "act", "locked", "ret", "err", "chain"}
             /\ x.step = "chain" => x.chain = t.chain /\ t.by # "job"
             /\ t.step \in {"finish", "chain"} => x.step = "chain"
    <3>1. t.by = "job" => t.unit \notin Mounts
      BY WorkerMount
    <3> QED BY <1>0, <2>3, <3>1 DEF Origin
  <2> QED BY <2>1, <2>2, <2>3 DEF Spawned
<1>4. /\ \A i \in 1 .. Len(mail') : mail'[i].unit \in Reached \/ ~mail'[i].chain
      /\ \A u \in DOMAIN waits' : ~waits'[u]
  <2>1. CASE mail' = mail
    BY <2>1, WorkerMail, SameMail
  <2>2. CASE mail' = Append(mail, [unit |-> t.unit, chain |-> t.chain]) /\ t.unit \in Reached
    BY <1>0, <2>2, WorkerMail, MoreMail, BootParts DEF Origins
  <2> QED BY <2>1, <2>2, WorkerMail
<1> QED BY <1>2, <1>3, <1>4, OriginsKept

-----------------------------------------------------------------------------
(* One place for a unit. *)

LEMMA UndispatchedKept ==
    ASSUME JobsFlow, NEW u, Undispatched(u)' PROVE Undispatched(u)
BY DEF JobsFlow, Undispatched

(* The tasks of the drive do not get more.                                 *)
LEMMA AloneKept ==
    ASSUME BootInv, JobsFlow, IsABag(work'),
           \A x : x.by = "job" /\ x.unit \notin Reached => Copies(work', x) <= Copies(work, x),
           \A u \in Unit \ Reached : Deferred(u)' => Deferred(u)
    PROVE  Alone'
<1>0. Alone /\ IsABag(work)
  BY BootParts
<1>1. /\ \A x : /\ x \in Tasks <=> Copies(work, x) > 0
                /\ x \in Tasks => work[x] = Copies(work, x)
                /\ Copies(work, x) \in Nat
      /\ \A x : /\ x \in Tasks' <=> Copies(work', x) > 0
                /\ x \in Tasks' => work'[x] = Copies(work', x)
                /\ Copies(work', x) \in Nat
  BY <1>0, CopiesAre DEF Tasks
<1> SUFFICES ASSUME NEW u \in Unit \ Reached
             PROVE  /\ \A s, t \in JobTasks(u)' : s = t /\ work'[t] = 1
                    /\ Undispatched(u)' \/ Deferred(u)' => JobTasks(u)' = {}
                    /\ Deferred(u)' => ~Undispatched(u)'
  BY DEF Alone
<1>2. \A x \in JobTasks(u)' : x \in JobTasks(u) /\ work'[x] <= work[x] /\ work'[x] \in Nat /\ work'[x] > 0
  BY <1>1 DEF JobTasks
<1>3. /\ \A s, t \in JobTasks(u) : s = t /\ work[t] = 1
      /\ Undispatched(u) \/ Deferred(u) => JobTasks(u) = {}
      /\ Deferred(u) => ~Undispatched(u)
  BY <1>0 DEF Alone
<1>4. \A s, t \in JobTasks(u)' : s = t /\ work'[t] = 1
  BY <1>2, <1>3
<1>5. (Undispatched(u)' => Undispatched(u)) /\ (Deferred(u)' => Deferred(u))
  BY UndispatchedKept
<1> QED BY <1>2, <1>3, <1>4, <1>5

(* The one task of a unit goes on.                                         *)
LEMMA AloneReturn ==
    ASSUME BootInv, JobsFlow, NEW t \in Tasks, t.by = "job", NEW step, NEW chain,
           Return(t, step, chain), step # t.step,
           \A u \in Unit \ Reached : Deferred(u)' => Deferred(u)
    PROVE  Alone'
<1>0. Alone /\ IsABag(work) /\ t \in Task
  BY BootParts
<1>1. PICK n : /\ IsABag(work') /\ n \in Tasks' /\ n # t
               /\ n.unit = t.unit /\ n.by = t.by /\ n.id = t.id /\ n.step = step
               /\ Tasks' \subseteq Tasks \cup {n} /\ Tasks \subseteq Tasks' \cup {t}
               /\ \A x : x # n /\ x # t => Copies(work', x) = Copies(work, x)
               /\ Copies(work', n) = Copies(work, n) + 1
               /\ Copies(work', t) = Copies(work, t) - 1
  BY <1>0, Returned
<1>2. /\ \A x : /\ x \in Tasks <=> Copies(work, x) > 0
                /\ x \in Tasks => work[x] = Copies(work, x)
                /\ Copies(work, x) \in Nat
      /\ \A x : /\ x \in Tasks' <=> Copies(work', x) > 0
                /\ x \in Tasks' => work'[x] = Copies(work', x)
                /\ Copies(work', x) \in Nat
  BY <1>0, <1>1, CopiesAre DEF Tasks
<1> SUFFICES ASSUME NEW u \in Unit \ Reached
             PROVE  /\ \A s, x \in JobTasks(u)' : s = x /\ work'[x] = 1
                    /\ Undispatched(u)' \/ Deferred(u)' => JobTasks(u)' = {}
                    /\ Deferred(u)' => ~Undispatched(u)'
  BY DEF Alone
<1>3. /\ \A s, x \in JobTasks(u) : s = x /\ work[x] = 1
      /\ Undispatched(u) \/ Deferred(u) => JobTasks(u) = {}
      /\ Deferred(u) => ~Undispatched(u)
  BY <1>0 DEF Alone
<1>4. (Undispatched(u)' => Undispatched(u)) /\ (Deferred(u)' => Deferred(u))
  BY UndispatchedKept
<1>5. CASE u = t.unit
  <2>1. t \in JobTasks(u) /\ ~Undispatched(u) /\ ~Deferred(u)
    BY <1>3, <1>5 DEF JobTasks
  <2>2. n \notin Tasks /\ work[t] = 1
    BY <1>1, <1>3, <1>5, <2>1 DEF JobTasks
  <2>3. Copies(work, n) = 0 /\ Copies(work', n) = 1 /\ Copies(work', t) = 0
    BY <1>1, <1>2, <2>2
  <2>4. \A x \in JobTasks(u)' : x = n
    <3>1. \A x \in JobTasks(u) : x = t
      BY <1>3, <2>1
    <3>2. t \notin Tasks'
      BY <1>2, <2>3
    <3> QED BY <1>1, <3>1, <3>2 DEF JobTasks
  <2>5. work'[n] = 1
    BY <1>1, <1>2, <2>3
  <2> QED BY <1>4, <2>1, <2>4, <2>5
<1>6. CASE u # t.unit
  <2>1. \A x \in JobTasks(u)' : x \in JobTasks(u) /\ work'[x] = work[x]
    BY <1>1, <1>2, <1>6 DEF JobTasks
  <2> QED BY <1>3, <1>4, <2>1
<1> QED BY <1>5, <1>6

LEMMA WorkerAlone ==
    ASSUME BootInv, StartedOnce, NEW t \in Tasks, WorkerStep(t), JobsFlow PROVE Alone'
<1>0. DriveInv /\ IsABag(work) /\ t.unit \in Unit /\ t.chain \in BOOLEAN
  BY BootParts, TaskType
<1>1. PICK S : Become(t, S) /\ t \notin S /\ \A y \in S : Spawned(t, y)
  BY <1>0, WorkerSpawn
<1>2. /\ Tasks' \subseteq Tasks \cup S /\ IsABag(work')
      /\ \A x : x \notin S /\ x # t => Copies(work', x) = Copies(work, x)
      /\ Copies(work', t) = Copies(work, t) - 1
      /\ \A x : Copies(work, x) \in Nat
  BY <1>0, <1>1, EndTasks, CopiesAre
<1>3. \A u \in Unit \ Reached : Deferred(u)' => Deferred(u)
  <2> SUFFICES ASSUME NEW u \in Unit \ Reached, Deferred(u)' PROVE Deferred(u)
    OBVIOUS
  <2>1. CASE \E i \in 1 .. Len(mail') : mail'[i].unit = u
    <3>1. CASE mail' = mail
      BY <2>1, <3>1 DEF Deferred
    <3>2. CASE mail' = Append(mail, [unit |-> t.unit, chain |-> t.chain]) /\ t.unit \in Reached
      <4>1. u = t.unit \/ \E i \in 1 .. Len(mail) : mail[i].unit = u
        BY <1>0, <2>1, <3>2, MoreMail
      <4> QED BY <3>2, <4>1 DEF Deferred
    <3> QED BY <3>1, <3>2, WorkerMail
  <2>2. CASE u \in DOMAIN waits'
    BY <2>2, WorkerMail DEF Deferred
  <2>3. CASE \E x \in Tasks' : x.unit = u /\ x.step = "finish"
    BY <1>1, <1>2, <2>3 DEF Deferred, Spawned
  <2> QED BY <2>1, <2>2, <2>3 DEF Deferred
<1>4. CASE t.by = "job"
  BY <1>0, <1>3, <1>4, JobReturns, AloneReturn
<1>5. CASE t.by # "job"
  <2>1. \A x \in S : x.by # "job"
    BY <1>1, <1>5 DEF Spawned
  <2>2. \A x : x.by = "job" /\ x.unit \notin Reached => Copies(work', x) <= Copies(work, x)
    BY <1>2, <1>5, <2>1
  <2> QED BY <1>2, <1>3, <2>2, AloneKept
<1> QED BY <1>4, <1>5

-----------------------------------------------------------------------------
(* A start has its unit to itself. *)

LEMMA LockedOnceKept ==
    ASSUME BootInv, IsABag(work'),
           \A x : x.step = "locked" => Copies(work', x) <= Copies(work, x)
    PROVE  LockedOnce'
<1>0. LockedOnce /\ IsABag(work)
  BY BootParts DEF Locks
<1>1. \A x : /\ x \in Tasks <=> Copies(work, x) > 0
             /\ x \in Tasks => work[x] = Copies(work, x)
             /\ Copies(work, x) \in Nat
  BY <1>0, CopiesAre DEF Tasks
<1>2. \A x : /\ x \in Tasks' <=> Copies(work', x) > 0
             /\ x \in Tasks' => work'[x] = Copies(work', x)
             /\ Copies(work', x) \in Nat
  BY <1>0, CopiesAre DEF Tasks
<1>3. \A x \in Tasks' : x.step = "locked" =>
        x \in Tasks /\ work'[x] \in Nat /\ work'[x] > 0 /\ work'[x] <= work[x]
  BY <1>1, <1>2
<1> QED BY <1>0, <1>3 DEF LockedOnce

(* Only Act takes the state lock.                                          *)
LEMMA LockedCopies ==
    ASSUME BootInv, NEW t \in Tasks, WorkerStep(t)
    PROVE  \/ \A x : x.step = "locked" => Copies(work', x) <= Copies(work, x)
           \/ Act(t) /\ Return(t, "locked", t.chain) /\ SetStatus(t.unit, "Starting")
<1>0. DriveInv /\ IsABag(work) /\ t \in Task /\ t.chain \in BOOLEAN
  BY BootParts, TaskType
<1>c. \A x : Copies(work, x) \in Nat
  BY <1>0, CopiesAre
<1>1. CASE Act(t)
  <2>1. CASE \E step \in {"ret", "err"}, chain \in BOOLEAN : Return(t, step, chain)
    <3>1. PICK step \in {"ret", "err"}, chain \in BOOLEAN : Return(t, step, chain)
      BY <2>1
    <3>2. step # t.step
      BY <1>1, <3>1 DEF Act
    <3>3. PICK n : /\ n.step = step
                   /\ \A x : x # n /\ x # t => Copies(work', x) = Copies(work, x)
      BY <1>0, <3>1, <3>2, Returned
    <3>4. t.step = "act" /\ n.step # "locked"
      BY <1>1, <3>3 DEF Act
    <3>5. ASSUME NEW x, x.step = "locked" PROVE Copies(work', x) <= Copies(work, x)
      <4>1. x # n /\ x # t
        BY <3>4, <3>5
      <4>2. Copies(work', x) = Copies(work, x)
        BY <3>3, <4>1
      <4> QED BY <1>c, <4>2
    <3> QED BY <3>5
  <2>2. CASE Return(t, "locked", t.chain) /\ SetStatus(t.unit, "Starting")
    BY <1>1, <2>2
  <2>3. (t.chain /\ status[t.unit] = "Started") \in BOOLEAN
    OBVIOUS
  <2> QED BY <1>0, <1>1, <2>1, <2>2, <2>3 DEF Act
<1>2. CASE ~Act(t)
  <2>1. t.step # "act"
    BY <1>2 DEF WorkerStep, Enter, Check, Perform, Leave, LeaveWithError, Chain, FinishStart
  <2>2. PICK S : Become(t, S) /\ t \notin S /\ \A y \in S : Spawned(t, y)
    BY <1>0, WorkerSpawn
  <2>3. /\ \A x : x \notin S /\ x # t => Copies(work', x) = Copies(work, x)
        /\ Copies(work', t) = Copies(work, t) - 1
    BY <1>0, <2>2, EndTasks
  <2>4. \A x \in S : x.step # "locked"
    BY <2>1, <2>2 DEF Spawned
  <2>5. ASSUME NEW x, x.step = "locked" PROVE Copies(work', x) <= Copies(work, x)
    <3>1. x \notin S
      BY <2>4, <2>5
    <3>2. CASE x = t
      BY <1>c, <2>3, <3>2
    <3>3. CASE x # t
      BY <1>c, <2>3, <3>1, <3>3
    <3> QED BY <3>2, <3>3
  <2> QED BY <2>5
<1> QED BY <1>1, <1>2

LEMMA ActLocks ==
    ASSUME BootInv, NEW t \in Tasks, Act(t), Return(t, "locked", t.chain),
           SetStatus(t.unit, "Starting")
    PROVE  LockedOnce' /\ LockedStarts'
<1>0. /\ LockedOnce /\ LockedStarts /\ IsABag(work) /\ t \in Task /\ TypeOK /\ t.unit \in Unit
      /\ status \in [Unit -> Status]
  BY BootParts, TaskType DEF Locks
<1>1. t.step = "act" /\ \A x \in Tasks : x.unit = t.unit => x.step # "locked"
  BY DEF Act, StateLocked
<1>2. PICK n : /\ IsABag(work') /\ n \in Tasks' /\ n # t
               /\ n.unit = t.unit /\ n.by = t.by /\ n.id = t.id /\ n.step = "locked"
               /\ Tasks' \subseteq Tasks \cup {n} /\ Tasks \subseteq Tasks' \cup {t}
               /\ \A x : x # n /\ x # t => Copies(work', x) = Copies(work, x)
               /\ Copies(work', n) = Copies(work, n) + 1
               /\ Copies(work', t) = Copies(work, t) - 1
  <2>1. \E step, chain : step = "locked" /\ Return(t, step, chain)
    OBVIOUS
  <2>2. PICK step, chain : step = "locked" /\ Return(t, step, chain)
    BY <2>1
  <2>3. step # t.step
    BY <1>1, <2>2
  <2>4. \E n : /\ IsABag(work') /\ n \in Tasks' /\ n # t
               /\ n.unit = t.unit /\ n.by = t.by /\ n.id = t.id /\ n.step = step
               /\ Tasks' \subseteq Tasks \cup {n} /\ Tasks \subseteq Tasks' \cup {t}
               /\ \A x : x # n /\ x # t => Copies(work', x) = Copies(work, x)
               /\ Copies(work', n) = Copies(work, n) + 1
               /\ Copies(work', t) = Copies(work, t) - 1
    BY <1>0, <2>2, <2>3, Returned
  <2> QED BY <2>2, <2>4
<1>3. \A x : /\ x \in Tasks <=> Copies(work, x) > 0
             /\ x \in Tasks => work[x] = Copies(work, x)
             /\ Copies(work, x) \in Nat
  BY <1>0, CopiesAre DEF Tasks
<1>4. \A x : /\ x \in Tasks' <=> Copies(work', x) > 0
             /\ x \in Tasks' => work'[x] = Copies(work', x)
             /\ Copies(work', x) \in Nat
  BY <1>2, CopiesAre DEF Tasks
<1>5. n \notin Tasks
  BY <1>1, <1>2
<1>6. work'[n] = 1
  <2>1. Copies(work, n) = 0
    BY <1>3, <1>5
  <2> QED BY <1>2, <1>4, <2>1
<1>7. \A x \in Tasks' : x.step = "locked" /\ x.unit = t.unit => x = n
  BY <1>1, <1>2
<1>8. \A x \in Tasks' : x.step = "locked" /\ x.unit # t.unit => x \in Tasks /\ work'[x] = work[x]
  <2> SUFFICES ASSUME NEW x \in Tasks', x.step = "locked", x.unit # t.unit
               PROVE  x \in Tasks /\ work'[x] = work[x]
    OBVIOUS
  <2>1. x # n /\ x # t /\ x \in Tasks
    BY <1>2
  <2> QED BY <1>2, <1>3, <1>4, <2>1
<1>9. LockedOnce'
  <2> SUFFICES ASSUME NEW s \in Tasks', NEW x \in Tasks', s.step = "locked", x.step = "locked",
                      s.unit = x.unit
               PROVE  s = x /\ work'[x] = 1
    BY DEF LockedOnce
  <2>1. CASE x.unit = t.unit
    BY <1>6, <1>7, <2>1
  <2>2. CASE x.unit # t.unit
    BY <1>0, <1>8, <2>2 DEF LockedOnce
  <2> QED BY <2>1, <2>2
<1>10. LockedStarts'
  <2>1. /\ status'[t.unit] = "Starting"
        /\ \A v \in Unit \ {t.unit} : status'[v] = status[v]
    BY <1>0 DEF SetStatus
  <2>2. \A x \in Tasks : x.unit \in Unit
    BY <1>0, TaskType
  <2> QED BY <1>0, <1>2, <1>8, <2>1, <2>2 DEF LockedStarts
<1> QED BY <1>9, <1>10

LEMMA WorkerLockedStarts ==
    ASSUME BootInv, StartedOnce, NEW t \in Tasks, WorkerStep(t), IsABag(work'),
           \A x : x.step = "locked" => Copies(work', x) <= Copies(work, x)
    PROVE  LockedStarts'
<1>0. /\ LockedOnce /\ LockedStarts /\ FinishReady /\ IsABag(work) /\ t \in Task /\ TypeOK
      /\ t.unit \in Unit /\ DriveInv
  BY BootParts, TaskType DEF Locks
<1> SUFFICES ASSUME NEW x \in Tasks', x.step = "locked" PROVE status'[x.unit] = "Starting"
  BY DEF LockedStarts
<1>1. x \in Tasks /\ x.unit \in Unit /\ status[x.unit] = "Starting"
  <2>1. x \in Tasks
    <3>1. Copies(work', x) > 0 /\ Copies(work', x) \in Nat
      BY CopiesAre DEF Tasks
    <3>2. Copies(work, x) \in Nat
      BY <1>0, CopiesAre
    <3>3. Copies(work, x) > 0
      BY <3>1, <3>2
    <3> QED BY <1>0, <3>3, CopiesAre DEF Tasks
  <2> QED BY <1>0, <2>1, TaskType DEF LockedStarts
<1>2. CASE x.unit # t.unit
  BY <1>1, <1>2, WorkerWrites
<1>3. CASE x.unit = t.unit
  <2>1. CASE Check(t)
    <3>1. t.unit \notin ConditionFails \cup AssertFails
      BY <1>1, <1>3, BootParts DEF Skips
    <3> QED BY <1>1, <1>3, <2>1, <3>1 DEF Check
  <2>2. CASE Act(t)
    BY <1>1, <1>3, <2>2 DEF Act, StateLocked
  <2>3. CASE Perform(t)
    <3>1. x = t /\ work[t] = 1
      BY <1>0, <1>1, <1>3, <2>3 DEF Perform, LockedOnce
    <3>2. PICK S : Become(t, S) /\ t \notin S
      BY <1>0, WorkerSpawn
    <3> QED BY <1>0, <3>1, <3>2, EndTasks
  <2>4. CASE Enter(t) \/ Leave(t) \/ LeaveWithError(t) \/ Chain(t)
    BY <1>1, <2>4 DEF Enter, Leave, LeaveWithError, Chain
  <2>5. CASE FinishStart(t)
    <3>1. t.unit \in Deferring /\ Deferred(t.unit)
      BY <1>0, <2>5 DEF FinishStart, FinishReady, TypeOK, Deferred
    <3> QED BY <1>1, <1>3, <3>1, DeferredAlone
  <2> QED BY <2>1, <2>2, <2>3, <2>4, <2>5 DEF WorkerStep
<1> QED BY <1>2, <1>3

LEMMA WorkerMountsFresh ==
    ASSUME BootInv, StartedOnce, NEW t \in Tasks, WorkerStep(t), UNCHANGED bootVars
    PROVE  MountsFresh'
<1>0. MountsFresh /\ DriveInv /\ IsABag(work) /\ reg' = reg /\ drive' = drive
  BY BootParts DEF Locks, bootVars
<1>1. PICK S : Become(t, S) /\ t \notin S /\ \A y \in S : Spawned(t, y)
  BY <1>0, WorkerSpawn
<1>2. Tasks' \subseteq Tasks \cup S
  BY <1>0, <1>1, EndTasks
<1>3. \A x \in S : x.by = "job" => x.step \notin {"queued", "mounting"}
  BY <1>1 DEF Spawned
<1>4. \A u \in Mounts \cap Unit : status'[u] = status[u]
  BY WorkerMount, WorkerWrites
<1>5. \A u : \A x \in JobTasks(u)' : x.step \in {"queued", "mounting"} => x \in JobTasks(u)
  BY <1>2, <1>3 DEF JobTasks
<1> QED BY <1>0, <1>4, <1>5 DEF MountsFresh

LEMMA WorkerReady ==
    ASSUME BootInv, NEW t \in Tasks, WorkerStep(t)
    PROVE  ready' = ready \/ (ready' = ready \ {t.unit} /\ t.step = "locked" /\ t.unit \in Deferring)
BY DEF WorkerStep, Enter, Check, Act, Perform, Leave, LeaveWithError, Chain, FinishStart

LEMMA WorkerWaitsStart ==
    ASSUME BootInv, StartedOnce, NEW t \in Tasks, WorkerStep(t)
    PROVE  WaitsStart'
<1>0. WaitsStart /\ FinishReady /\ TypeOK /\ waits' = waits /\ ready' \subseteq ready
  BY BootParts, WorkerMail, WorkerReady DEF Locks
<1> SUFFICES ASSUME NEW u \in DOMAIN waits PROVE status'[u] = "Starting" /\ u \notin ready'
  BY <1>0 DEF WaitsStart
<1>1. u \in Unit /\ u \in Deferring /\ status[u] = "Starting" /\ u \notin ready /\ Deferred(u)
  BY <1>0, GraphAssumption DEF WaitsStart, TypeOK, GraphAssumption, Deferred
<1>2. CASE u # t.unit
  BY <1>0, <1>1, <1>2, WorkerWrites
<1>3. CASE u = t.unit
  <2>1. t.step \in {"finish", "chain"}
    BY <1>1, <1>3, DeferredAlone
  <2>2. t.step = "chain"
    BY <1>0, <1>1, <1>3, <2>1 DEF FinishReady
  <2> QED BY <1>0, <1>1, <2>2, WorkerWrites
<1> QED BY <1>2, <1>3

LEMMA WorkerFinishReady ==
    ASSUME BootInv, StartedOnce, NEW t \in Tasks, WorkerStep(t)
    PROVE  FinishReady'
<1>0. FinishReady /\ TypeOK /\ DriveInv /\ IsABag(work)
  BY BootParts DEF Locks
<1>1. PICK S : Become(t, S) /\ t \notin S /\ \A y \in S : Spawned(t, y)
  BY <1>0, WorkerSpawn
<1>2. Tasks' \subseteq Tasks \cup S
  BY <1>0, <1>1, EndTasks
<1>3. \A x \in S : x.step # "finish"
  BY <1>1 DEF Spawned
<1> SUFFICES ASSUME NEW x \in Tasks', x.step = "finish" PROVE x.unit \in ready'
  BY DEF FinishReady
<1>4. x \in Tasks /\ x.unit \in ready /\ x.unit \in Deferring /\ Deferred(x.unit)
  BY <1>0, <1>2, <1>3 DEF FinishReady, TypeOK, Deferred
<1>5. t.unit = x.unit => t.step # "locked"
  BY <1>4, DeferredAlone
<1> QED BY <1>4, <1>5, WorkerReady

LEMMA WorkerLocks ==
    ASSUME BootInv, StartedOnce, NEW t \in Tasks, WorkerStep(t), UNCHANGED bootVars PROVE Locks'
<1>0. DriveInv /\ IsABag(work)
  BY BootParts
<1>1. IsABag(work')
  BY <1>0, WorkerSpawn, EndTasks
<1>2. LockedOnce' /\ LockedStarts'
  BY <1>1, LockedCopies, LockedOnceKept, WorkerLockedStarts, ActLocks
<1> QED BY <1>2, WorkerMountsFresh, WorkerWaitsStart, WorkerFinishReady DEF Locks

LEMMA WorkerBoot ==
    ASSUME BootInv, StartedOnce, NEW t \in Tasks, WorkerStep(t), UNCHANGED bootVars PROVE BootInv'
<1>0. /\ DriveInv /\ SweepInv /\ IsABag(work) /\ Ripe
      /\ reg' = reg /\ drive' = drive /\ producer' = producer
  BY BootParts DEF bootVars
<1>1. DriveInv' /\ SweepInv'
  BY <1>0, WorkerDrive, WorkerSound
<1>2. Grow /\ JobsFlow
  BY <1>0, WorkerGrow, SameJobsFlow
<1>3. PICK S : Become(t, S) /\ t \notin S /\ \A y \in S : Spawned(t, y)
  BY <1>0, WorkerSpawn
<1>4. \A x \in Tasks' \ Tasks : Ready(x.unit)
  <2>1. Tasks' \subseteq Tasks \cup S
    BY <1>0, <1>3, EndTasks
  <2>2. Ready(t.unit)
    BY <1>0 DEF Ripe
  <2>3. \A x \in S : Ready(x.unit)
    BY <1>3, <2>2 DEF Spawned
  <2> QED BY <2>1, <2>3
<1>5. Ripe' /\ Held' /\ Covered'
  BY <1>0, <1>2, <1>4, RipeKept, HeldKept, CoveredKept, WorkerErr
<1>6. Ends'
  BY <1>0, <1>2, TaskBusy, BusyEnds
<1>7. Origins' /\ Alone' /\ Locks'
  BY <1>2, WorkerOrigins, WorkerAlone, WorkerLocks
<1> QED BY <1>1, <1>5, <1>6, <1>7 DEF BootInv

-----------------------------------------------------------------------------
(* Steps that take no state lock. *)

LEMMA LocksKept ==
    ASSUME BootInv, IsABag(work'), MountsFresh', ready \subseteq ready',
           \A x : x.step = "locked" => Copies(work', x) <= Copies(work, x),
           \A x \in Tasks' \ Tasks : x.step = "finish" => x.unit \in ready',
           \A x \in Tasks : x.step = "locked" => status'[x.unit] = status[x.unit],
           \A u \in DOMAIN waits' : status'[u] = "Starting" /\ u \notin ready'
    PROVE  Locks'
<1>0. LockedStarts /\ FinishReady /\ IsABag(work)
  BY BootParts DEF Locks
<1>1. \A x \in Tasks' : x.step = "locked" => x \in Tasks
  <2> SUFFICES ASSUME NEW x \in Tasks', x.step = "locked" PROVE x \in Tasks
    OBVIOUS
  <2>1. Copies(work', x) > 0 /\ Copies(work', x) \in Nat /\ Copies(work, x) \in Nat
    BY <1>0, CopiesAre DEF Tasks
  <2>2. Copies(work, x) > 0
    BY <2>1
  <2> QED BY <1>0, <2>2, CopiesAre DEF Tasks
<1>2. LockedStarts'
  BY <1>0, <1>1 DEF LockedStarts
<1>3. FinishReady'
  BY <1>0 DEF FinishReady
<1>4. WaitsStart'
  BY DEF WaitsStart
<1> QED BY <1>2, <1>3, <1>4, LockedOnceKept DEF Locks

LEMMA MountsKept ==
    ASSUME BootInv, \A u \in Mounts \cap Unit : status'[u] = status[u],
           \A x \in Tasks' \ Tasks :
             x.by = "job" /\ x.step \in {"queued", "mounting"} => x.unit \notin Mounts,
           drive'.pc = "start" /\ drive'.id \in Installed(reg') =>
             /\ drive.pc = "start" /\ drive.id = drive'.id /\ drive.id \in Installed(reg)
             /\ reg'.jobs[drive.id].unit = reg.jobs[drive.id].unit
    PROVE  MountsFresh'
<1>0. MountsFresh
  BY BootParts DEF Locks
<1>1. \A u \in Mounts \cap Unit : \A x \in JobTasks(u)' :
        x.step \in {"queued", "mounting"} => x \in JobTasks(u)
  BY DEF JobTasks
<1> QED BY <1>0, <1>1 DEF MountsFresh

LEMMA BootTogether ==
    ASSUME BootInv, DriveInv', SweepInv', Grow, JobsFlow, Ends',
           producer' # "install" => producer # "install",
           drive'.pc = "prime" =>
             drive' = drive \/ (drive'.set = UnitsWithJobs /\ producer # "install"),
           \A x \in Tasks' \ Tasks :
             /\ Ready(x.unit) /\ Origin(x)
             /\ x.step = "err" => status'[x.unit] # "NeverStarted",
           \A i \in 1 .. Len(mail') : mail'[i].unit \in Reached \/ ~mail'[i].chain,
           \A u \in DOMAIN waits' : ~waits'[u],
           Alone', Locks'
    PROVE  BootInv'
BY RipeKept, HeldKept, CoveredKept, OriginsKept DEF BootInv

(* A task of the drive goes on, and does not take the state lock.          *)
LEMMA StepOn ==
    ASSUME BootInv, NEW t \in Tasks, t.by = "job", NEW step \in {"mounting", "err", "quit"}, NEW chain,
           Return(t, step, chain), step # t.step, mail' = mail, waits' = waits
    PROVE  /\ IsABag(work')
           /\ \A x \in Tasks' \ Tasks : x.unit = t.unit /\ x.by = "job" /\ x.step = step
           /\ \A x : x.step = "locked" => Copies(work', x) <= Copies(work, x)
           /\ \A u : Deferred(u)' => Deferred(u)
           /\ work[t] = 1 => t \notin Tasks'
<1>0. IsABag(work) /\ t \in Task
  BY BootParts
<1>1. PICK n : /\ IsABag(work') /\ n \in Tasks' /\ n # t
               /\ n.unit = t.unit /\ n.by = t.by /\ n.id = t.id /\ n.step = step
               /\ Tasks' \subseteq Tasks \cup {n} /\ Tasks \subseteq Tasks' \cup {t}
               /\ \A x : x # n /\ x # t => Copies(work', x) = Copies(work, x)
               /\ Copies(work', n) = Copies(work, n) + 1
               /\ Copies(work', t) = Copies(work, t) - 1
  BY <1>0, Returned
<1>2. \A x : Copies(work, x) \in Nat /\ Copies(work', x) \in Nat
  BY <1>0, <1>1, CopiesAre
<1>3. ASSUME NEW x, x.step = "locked" PROVE Copies(work', x) <= Copies(work, x)
  <2>1. CASE x = t
    BY <1>1, <1>2, <2>1
  <2>2. CASE x # t
    <3>1. x # n
      BY <1>1, <1>3
    <3>2. Copies(work', x) = Copies(work, x)
      BY <1>1, <2>2, <3>1
    <3> QED BY <1>2, <3>2
  <2> QED BY <2>1, <2>2
<1>4. \A u : Deferred(u)' => Deferred(u)
  BY <1>1 DEF Deferred
<1>5. work[t] = 1 => t \notin Tasks'
  <2>1. Copies(work, t) = work[t]
    BY <1>0, CopiesAre DEF Tasks
  <2>2. work[t] = 1 => Copies(work', t) = 0
    BY <1>1, <1>2, <2>1
  <2> QED BY <1>1, <2>2, CopiesAre DEF Tasks
<1> QED BY <1>1, <1>3, <1>4, <1>5

LEMMA MountForms ==
    ASSUME BootInv, StartedOnce, NEW t \in Tasks, MountBegins(t) \/ MountEnds(t)
    PROVE  /\ t.by = "job" /\ t.unit \in Mounts /\ t.unit \in Unit \ Reached
           /\ t.step \in {"queued", "mounting"} /\ status[t.unit] = "NeverStarted"
           /\ t \in JobTasks(t.unit)
           /\ \E step \in {"mounting", "err", "quit"}, chain \in BOOLEAN :
                /\ Return(t, step, chain) /\ step # t.step
                /\ step = "mounting" => status' = status
                /\ step # "mounting" => t.step = "mounting" /\ status'[t.unit] # "NeverStarted"
           /\ \A v \in Unit \ {t.unit} : status'[v] = status[v]
           /\ UNCHANGED << forked, ready, mail, waits, sweep, bootVars >>
<1>0. t.unit \in Unit /\ MountsFresh /\ TypeOK /\ status \in [Unit -> Status]
  BY BootParts, TaskType DEF Locks
<1>1. t.by = "job" /\ t.unit \in Mounts /\ t.step \in {"queued", "mounting"}
  BY MountStatus DEF MountBegins, MountEnds
<1>2. t \in JobTasks(t.unit) /\ t.unit \in Unit \ Reached
  BY <1>0, <1>1, Parking DEF JobTasks
<1>3. status[t.unit] = "NeverStarted"
  BY <1>0, <1>1, <1>2 DEF MountsFresh
<1>4. CASE MountBegins(t)
  <2>1. Return(t, "mounting", FALSE) /\ "mounting" # t.step /\ status' = status
    BY <1>4 DEF MountBegins
  <2>2. \E step \in {"mounting", "err", "quit"}, chain \in BOOLEAN :
                /\ Return(t, step, chain) /\ step # t.step
                /\ step = "mounting" => status' = status
                /\ step # "mounting" => t.step = "mounting" /\ status'[t.unit] # "NeverStarted"
    BY <2>1
  <2> QED BY <1>1, <1>2, <1>3, <1>4, <2>1, <2>2 DEF MountBegins
<1>5. CASE MountEnds(t)
  <2>1. PICK s \in {"Started", "Failed"} : SetStatus(t.unit, s)
    BY <1>5 DEF MountEnds
  <2>2. /\ status'[t.unit] # "NeverStarted"
        /\ \A v \in Unit \ {t.unit} : status'[v] = status[v]
    BY <1>0, <2>1 DEF SetStatus
  <2>3. t.step = "mounting" /\ (Return(t, "quit", FALSE) \/ Return(t, "err", FALSE))
    BY <1>5 DEF MountEnds
  <2>4. \E step \in {"mounting", "err", "quit"}, chain \in BOOLEAN :
                /\ Return(t, step, chain) /\ step # t.step
                /\ step = "mounting" => status' = status
                /\ step # "mounting" => t.step = "mounting" /\ status'[t.unit] # "NeverStarted"
    BY <2>2, <2>3
  <2> QED BY <1>1, <1>2, <1>3, <1>5, <2>2, <2>4 DEF MountEnds
<1> QED BY <1>4, <1>5

LEMMA MountFresh ==
    ASSUME BootInv, StartedOnce, NEW t \in Tasks, MountBegins(t) \/ MountEnds(t) PROVE MountsFresh'
<1>0. MountsFresh /\ Alone
  BY BootParts DEF Locks
<1>1. /\ t.by = "job" /\ t.unit \in Unit \ Reached /\ status[t.unit] = "NeverStarted"
      /\ t \in JobTasks(t.unit)
      /\ \A v \in Unit \ {t.unit} : status'[v] = status[v]
      /\ mail' = mail /\ waits' = waits /\ reg' = reg /\ drive' = drive
  BY MountForms DEF bootVars
<1>2. PICK step \in {"mounting", "err", "quit"}, chain \in BOOLEAN :
                /\ Return(t, step, chain) /\ step # t.step
                /\ step = "mounting" => status' = status
                /\ step # "mounting" => t.step = "mounting" /\ status'[t.unit] # "NeverStarted"
  BY MountForms
<1>3. /\ \A x \in Tasks' \ Tasks : x.unit = t.unit /\ x.by = "job" /\ x.step = step
      /\ work[t] = 1 => t \notin Tasks'
  BY <1>1, <1>2, StepOn
<1>4. /\ \A s \in JobTasks(t.unit) : s = t
      /\ work[t] = 1 /\ ~Undispatched(t.unit)
  BY <1>0, <1>1 DEF Alone
<1> SUFFICES ASSUME NEW u \in Mounts \cap Unit
             PROVE  /\ \A x \in JobTasks(u)' :
                         x.step \in {"queued", "mounting"} => status'[u] = "NeverStarted"
                    /\ drive'.pc = "start" /\ drive'.id \in Installed(reg')
                         /\ reg'.jobs[drive'.id].unit = u => status'[u] = "NeverStarted"
  BY DEF MountsFresh
<1>5. CASE u # t.unit
  <2>1. \A x \in JobTasks(u)' : x \in JobTasks(u)
    BY <1>3, <1>5 DEF JobTasks
  <2> QED BY <1>0, <1>1, <1>5, <2>1 DEF MountsFresh
<1>6. CASE u = t.unit
  <2>1. ~(drive.id \in Installed(reg) /\ reg.jobs[drive.id].unit = u)
    BY <1>4, <1>6 DEF Undispatched
  <2>2. \A x \in JobTasks(u)' : x.step = step
    BY <1>3, <1>4, <1>6 DEF JobTasks
  <2> QED BY <1>1, <1>2, <1>6, <2>1, <2>2
<1> QED BY <1>5, <1>6

LEMMA MountBoot ==
    ASSUME BootInv, StartedOnce, NEW t \in Tasks, MountBegins(t) \/ MountEnds(t) PROVE BootInv'
<1>0. DriveInv /\ TypeOK /\ LockedStarts /\ WaitsStart /\ Ripe
  BY BootParts DEF Locks
<1>1. /\ t.by = "job" /\ t.unit \in Mounts /\ t.unit \in Unit /\ status[t.unit] = "NeverStarted"
      /\ \A v \in Unit \ {t.unit} : status'[v] = status[v]
      /\ mail' = mail /\ waits' = waits /\ ready' = ready
      /\ reg' = reg /\ drive' = drive /\ producer' = producer
  BY MountForms DEF bootVars
<1>2. PICK step \in {"mounting", "err", "quit"}, chain \in BOOLEAN :
                /\ Return(t, step, chain) /\ step # t.step
                /\ step = "mounting" => status' = status
                /\ step # "mounting" => t.step = "mounting" /\ status'[t.unit] # "NeverStarted"
  BY MountForms
<1>3. /\ IsABag(work')
      /\ \A x \in Tasks' \ Tasks : x.unit = t.unit /\ x.by = "job" /\ x.step = step
      /\ \A x : x.step = "locked" => Copies(work', x) <= Copies(work, x)
      /\ \A u : Deferred(u)' => Deferred(u)
  BY <1>1, <1>2, StepOn
<1>4. DriveInv' /\ SweepInv' /\ Grow /\ JobsFlow
  BY <1>0, <1>1, MountDrive, MountSweep, MountGrow, SameJobsFlow
<1>5. Ends'
  BY <1>1, <1>4, TaskBusy, BusyEnds
<1>6. Alone'
  BY <1>1, <1>2, <1>3, <1>4, AloneReturn
<1>7. Locks'
  <2>1. \A x \in Tasks : x.step = "locked" => status'[x.unit] = status[x.unit]
    BY <1>0, <1>1, TaskType DEF LockedStarts
  <2>2. \A u \in DOMAIN waits' : status'[u] = "Starting" /\ u \notin ready'
    BY <1>0, <1>1, GraphAssumption DEF WaitsStart, TypeOK, GraphAssumption
  <2> QED BY <1>1, <1>3, <2>1, <2>2, MountFresh, LocksKept
<1>8. ASSUME NEW x \in Tasks' \ Tasks
      PROVE  /\ Ready(x.unit) /\ Origin(x)
             /\ x.step = "err" => status'[x.unit] # "NeverStarted"
  <2>1. Ready(t.unit)
    BY <1>0 DEF Ripe
  <2>2. Origin(x)
    BY <1>1, <1>3 DEF Origin
  <2> QED BY <1>2, <1>3, <2>1, <2>2
<1>9. /\ \A i \in 1 .. Len(mail') : mail'[i].unit \in Reached \/ ~mail'[i].chain
      /\ \A u \in DOMAIN waits' : ~waits'[u]
  BY <1>1, SameMail
<1> QED BY <1>1, <1>4, <1>5, <1>6, <1>7, <1>8, <1>9, BootTogether

-----------------------------------------------------------------------------
(* The end of a task of the drive. *)

LEMMA TaskEnds ==
    ASSUME BootInv, NEW t \in Tasks, Become(t, {})
    PROVE  /\ IsABag(work') /\ Tasks' \subseteq Tasks
           /\ work[t] = 1 => t \notin Tasks'
           /\ \A x : Copies(work', x) <= Copies(work, x)
<1>0. IsABag(work) /\ t \notin {}
  BY BootParts
<1>1. /\ IsABag(work') /\ Tasks' \subseteq Tasks /\ (work[t] = 1 => t \notin Tasks')
      /\ \A x : x # t => Copies(work', x) = Copies(work, x)
      /\ Copies(work', t) = Copies(work, t) - 1
  BY <1>0, EndTasks
<1>2. \A x : Copies(work, x) \in Nat
  BY <1>0, CopiesAre
<1>3. ASSUME NEW x PROVE Copies(work', x) <= Copies(work, x)
  <2>1. CASE x = t
    BY <1>1, <1>2, <2>1
  <2>2. CASE x # t
    <3>1. Copies(work', x) = Copies(work, x)
      BY <1>1, <2>2
    <3> QED BY <1>2, <3>1
  <2> QED BY <2>1, <2>2
<1> QED BY <1>1, <1>3

(* The status and the parked starts stay, and no task is new.              *)
LEMMA QuietLocks ==
    ASSUME BootInv, IsABag(work'), Tasks' \subseteq Tasks,
           \A x : Copies(work', x) <= Copies(work, x),
           UNCHANGED << status, ready, waits >>,
           drive'.pc = "start" /\ drive'.id \in Installed(reg') =>
             /\ drive.pc = "start" /\ drive.id = drive'.id /\ drive.id \in Installed(reg)
             /\ reg'.jobs[drive.id].unit = reg.jobs[drive.id].unit
    PROVE  Locks'
<1>1. WaitsStart
  BY BootParts DEF Locks
<1>2. MountsFresh'
  BY MountsKept
<1>3. \A u \in DOMAIN waits' : status'[u] = "Starting" /\ u \notin ready'
  BY <1>1 DEF WaitsStart
<1> QED BY <1>2, <1>3, LocksKept

LEMMA LeaveAlone ==
    ASSUME BootInv, NEW t \in Tasks, JobLeave(t), JobsFlow PROVE Alone'
<1>0. Alone /\ IsABag(work) /\ t.unit \in Unit /\ t.by = "job" /\ Become(t, {})
  BY BootParts, TaskType DEF JobLeave
<1>1. /\ IsABag(work') /\ Tasks' \subseteq Tasks /\ (work[t] = 1 => t \notin Tasks')
      /\ \A x : Copies(work', x) <= Copies(work, x)
  BY <1>0, TaskEnds
<1>2. \A v : Deferred(v)' => v = t.unit \/ Deferred(v)
  <2>1. CASE mail' = mail
    BY <1>1, <2>1 DEF Deferred, JobLeave
  <2>2. CASE mail' = Append(mail, [unit |-> t.unit, chain |-> FALSE])
    <3>1. \A v : (\E i \in 1 .. Len(mail') : mail'[i].unit = v) =>
                       v = t.unit \/ \E i \in 1 .. Len(mail) : mail[i].unit = v
      BY <1>0, <2>2, MoreMail
    <3> QED BY <1>1, <3>1 DEF Deferred, JobLeave
  <2> QED BY <2>1, <2>2 DEF JobLeave
<1>3. CASE t.unit \in Reached
  <2>1. \A u \in Unit \ Reached : Deferred(u)' => Deferred(u)
    BY <1>2, <1>3
  <2> QED BY <1>1, <2>1, AloneKept
<1>4. CASE t.unit \notin Reached
  <2>1. t \in JobTasks(t.unit)
    BY <1>0 DEF JobTasks
  <2>2. /\ \A s \in JobTasks(t.unit) : s = t
        /\ work[t] = 1 /\ ~Undispatched(t.unit)
    BY <1>0, <1>4, <2>1 DEF Alone
  <2>3. JobTasks(t.unit)' = {}
    BY <1>1, <2>2 DEF JobTasks
  <2>4. ~Undispatched(t.unit)'
    BY <2>2, UndispatchedKept
  <2> SUFFICES ASSUME NEW u \in Unit \ Reached
               PROVE  /\ \A s, x \in JobTasks(u)' : s = x /\ work'[x] = 1
                      /\ Undispatched(u)' \/ Deferred(u)' => JobTasks(u)' = {}
                      /\ Deferred(u)' => ~Undispatched(u)'
    BY DEF Alone
  <2>5. CASE u = t.unit
    BY <2>3, <2>4, <2>5
  <2>6. CASE u # t.unit
    <3>1. (Undispatched(u)' => Undispatched(u)) /\ (Deferred(u)' => Deferred(u))
      BY <1>2, <2>6, UndispatchedKept
    <3>2. /\ \A s, x \in JobTasks(u) : s = x /\ work[x] = 1
          /\ Undispatched(u) \/ Deferred(u) => JobTasks(u) = {}
          /\ Deferred(u) => ~Undispatched(u)
      BY <1>0 DEF Alone
    <3>3. JobTasks(u)' \subseteq JobTasks(u)
      BY <1>1 DEF JobTasks
    <3>4. ASSUME NEW x \in JobTasks(u)' PROVE work'[x] = 1
      <4>1. work[x] = 1 /\ x \in Tasks /\ x \in Tasks'
        BY <3>2, <3>3, <3>4 DEF JobTasks
      <4>2. Copies(work, x) = 1 /\ Copies(work', x) <= Copies(work, x)
        BY <1>0, <1>1, <4>1, CopiesAre DEF Tasks
      <4>3. work'[x] = Copies(work', x) /\ Copies(work', x) \in Nat /\ Copies(work', x) > 0
        BY <1>1, <4>1, CopiesAre DEF Tasks
      <4> QED BY <4>2, <4>3
    <3> QED BY <3>1, <3>2, <3>3, <3>4
  <2> QED BY <2>5, <2>6
<1> QED BY <1>3, <1>4

LEMMA JobLeaveBoot ==
    ASSUME BootInv, NEW t \in Tasks, JobLeave(t) PROVE BootInv'
<1>0. DriveInv /\ TypeOK /\ t.unit \in Unit
  BY BootParts, TaskType
<1>1. /\ Become(t, {}) /\ UNCHANGED << status, forked, ready, waits, sweep >>
      /\ reg' = reg /\ drive' = drive /\ producer' = producer
  BY DEF JobLeave
<1>2. /\ IsABag(work') /\ Tasks' \subseteq Tasks
      /\ \A x : Copies(work', x) <= Copies(work, x)
  BY <1>1, TaskEnds
<1>3. DriveInv' /\ SweepInv' /\ Grow /\ JobsFlow
  BY <1>0, <1>1, JobLeaveDrive, JobOutSweep, SameGrow, SameJobsFlow
<1>4. Ends'
  BY <1>1, <1>3, TaskBusy, BusyEnds
<1>5. Alone'
  BY <1>3, LeaveAlone
<1>6. Locks'
  BY <1>1, <1>2, QuietLocks
<1>7. /\ \A i \in 1 .. Len(mail') : mail'[i].unit \in Reached \/ ~mail'[i].chain
      /\ \A u \in DOMAIN waits' : ~waits'[u]
  <2>1. CASE mail' = mail
    BY <1>1, <2>1, SameMail
  <2>2. CASE mail' = Append(mail, [unit |-> t.unit, chain |-> FALSE])
    BY <1>0, <1>1, <2>2, MoreMail, BootParts DEF Origins
  <2> QED BY <2>1, <2>2 DEF JobLeave
<1> QED BY <1>1, <1>2, <1>3, <1>4, <1>5, <1>6, <1>7, BootTogether

LEMMA JobErrorBoot ==
    ASSUME BootInv, NEW t \in Tasks, JobError(t) PROVE BootInv'
<1>0. DriveInv /\ TypeOK /\ t.unit \in Unit /\ Sound(reg) /\ TasksMatch /\ Covered
  BY BootParts, TaskType, DriveParts
<1>1. /\ Become(t, {}) /\ UNCHANGED << status, forked, ready, mail, waits, sweep >>
      /\ drive' = drive /\ producer' = producer
      /\ reg' = Finish(reg, t.id) /\ t.by = "job" /\ t.step = "err"
  BY DEF JobError
<1>2. /\ IsABag(work') /\ Tasks' \subseteq Tasks
      /\ \A x : Copies(work', x) <= Copies(work, x)
  BY <1>1, TaskEnds
<1>f. /\ Sound(reg') /\ Installed(reg') = Installed(reg) \ {t.id}
      /\ Queued(reg') \subseteq Queued(reg)
      /\ \A j \in Installed(reg') : reg'.jobs[j] = reg.jobs[j]
  BY <1>0, <1>1, FinishEffect
<1>g. \A id \in Installed(reg) \ Installed(reg') : status'[reg.jobs[id].unit] # "NeverStarted"
  BY <1>0, <1>1, <1>f DEF TasksMatch, Matched, Covered
<1>3. DriveInv' /\ SweepInv' /\ Grow /\ JobsFlow
  BY <1>0, <1>1, <1>f, <1>g, JobErrorDrive, JobOutSweep, SameGrow, FewerJobsFlow
<1>4. Ends'
  BY <1>1, <1>3, TaskBusy, BusyEnds
<1>5. Alone'
  <2>1. \A u : Deferred(u)' => Deferred(u)
    BY <1>1, <1>2 DEF Deferred
  <2> QED BY <1>2, <1>3, <2>1, AloneKept
<1>6. Locks'
  BY <1>1, <1>2, <1>f, QuietLocks
<1>7. /\ \A i \in 1 .. Len(mail') : mail'[i].unit \in Reached \/ ~mail'[i].chain
      /\ \A u \in DOMAIN waits' : ~waits'[u]
  BY <1>1, SameMail
<1> QED BY <1>1, <1>2, <1>3, <1>4, <1>5, <1>6, <1>7, BootTogether

-----------------------------------------------------------------------------
(* Steps that leave the units and the tasks alone. *)

LEMMA RegistryBoot ==
    ASSUME BootInv, UNCHANGED sweepVars, DriveInv', JobsFlow, Ends', MountsFresh',
           producer' # "install" => producer # "install",
           drive'.pc = "prime" =>
             drive' = drive \/ (drive'.set = UnitsWithJobs /\ producer # "install")
    PROVE  BootInv'
<1>0. TypeOK /\ SweepInv /\ WaitsStart /\ IsABag(work)
  BY BootParts DEF Locks
<1>1. /\ Tasks' = Tasks /\ status' = status /\ work' = work /\ mail' = mail
      /\ waits' = waits /\ ready' = ready
  BY <1>0, SweepSame
<1>2. SweepInv' /\ Grow
  BY <1>0, <1>1, SameSweep, SameGrow
<1>3. IsABag(work') /\ \A x : Copies(work', x) <= Copies(work, x)
  BY <1>0, <1>1, CopiesAre
<1>4. Alone'
  <2>1. \A u : Deferred(u)' => Deferred(u)
    BY <1>1 DEF Deferred
  <2> QED BY <1>3, <2>1, AloneKept
<1>5. Locks'
  <2>1. \A u \in DOMAIN waits' : status'[u] = "Starting" /\ u \notin ready'
    BY <1>0, <1>1 DEF WaitsStart
  <2> QED BY <1>1, <1>3, <2>1, LocksKept
<1>6. /\ \A i \in 1 .. Len(mail') : mail'[i].unit \in Reached \/ ~mail'[i].chain
      /\ \A u \in DOMAIN waits' : ~waits'[u]
  BY <1>1, SameMail
<1> QED BY <1>1, <1>2, <1>4, <1>5, <1>6, BootTogether

(* The drive is not about to start a unit.                                 *)
LEMMA QuietDrive ==
    ASSUME BootInv, UNCHANGED sweepVars,
           drive'.pc = "start" /\ drive'.id \in Installed(reg') =>
             /\ drive.pc = "start" /\ drive.id = drive'.id /\ drive.id \in Installed(reg)
             /\ reg'.jobs[drive.id].unit = reg.jobs[drive.id].unit
    PROVE  MountsFresh'
<1>1. Tasks' = Tasks /\ status' = status
  BY BootParts, SweepSame
<1> QED BY <1>1, MountsKept

LEMMA SameEnds ==
    ASSUME BootInv, UNCHANGED << work, mail, waits >>, reg' = reg, producer' = producer
    PROVE  Ends'
BY BootParts DEF Ends

LEMMA TakeWakeBoot ==
    ASSUME BootInv, TakeWake PROVE BootInv'
<1>0. DriveInv /\ Turns
  BY BootParts, DriveParts
<1>1. UNCHANGED sweepVars /\ reg' = reg /\ producer' = producer /\ drive.pc = "idle" /\ AfterEvent
  BY DEF TakeWake
<1>2. drive'.id = drive.id /\ drive'.pc = IF draining THEN "retire" ELSE "idle"
  BY <1>0, <1>1, AfterEventDrive
<1>3. DriveInv' /\ JobsFlow
  BY <1>0, <1>1, <1>2, TakeWakeDrive, SameJobsFlow
<1>4. Ends'
  BY <1>1, SameEnds DEF sweepVars
<1>5. MountsFresh'
  BY <1>1, <1>2, QuietDrive
<1> QED BY <1>1, <1>2, <1>3, <1>4, <1>5, RegistryBoot

LEMMA ProducerBoot ==
    ASSUME BootInv, Arm \/ Drained \/ GiveUp \/ Nudge PROVE BootInv'
<1>0. DriveInv
  BY BootParts
<1>1. UNCHANGED sweepVars /\ reg' = reg /\ drive' = drive /\ producer # "install"
  BY DEF Arm, Drained, GiveUp, Nudge
<1>2. DriveInv' /\ JobsFlow /\ MountsFresh'
  BY <1>0, <1>1, ProducerDrive, SameJobsFlow, QuietDrive
<1>3. Ends'
  <2>1. CASE Arm \/ Nudge
    BY <2>1 DEF Arm, Nudge, Ends
  <2>2. CASE Drained
    BY <1>1, <2>2 DEF Drained, Ends
  <2>3. CASE GiveUp
    BY <2>3 DEF GiveUp, Ends
  <2> QED BY <2>1, <2>2, <2>3
<1> QED BY <1>1, <1>2, <1>3, RegistryBoot

LEMMA DriveRetireBoot ==
    ASSUME BootInv, DriveRetire PROVE BootInv'
<1>0. /\ DriveInv /\ Sound(reg) /\ Covered /\ drive.pc = "retire" /\ drive.id = NoJob
      /\ UNCHANGED sweepVars /\ producer' = producer /\ producer # "install"
  BY BootParts, DriveParts, DriveBusy DEF DriveRetire
<1>s. status' = status
  BY <1>0 DEF sweepVars
<1>1. CASE Installed(reg) = {}
  <2>1. drive' = Off /\ reg' = reg
    BY <1>1 DEF DriveRetire
  <2>2. drive'.id = NoJob /\ drive'.pc = "idle"
    BY <2>1, OffFields
  <2>3. JobsFlow
    BY <1>0, <2>1, <2>2, SameJobsFlow
  <2> QED BY <1>0, <2>1, <2>2, <2>3, DriveRetireDrive, QuietDrive, BusyEnds, RegistryBoot
<1>2. CASE Installed(reg) # {}
  <2>1. drive' = [Off EXCEPT !.pc = "prime", !.set = UnitsWithJobs] /\ FinishAll(reg, Retirable)
    BY <1>2 DEF DriveRetire
  <2>2. drive'.id = NoJob /\ drive'.pc = "prime" /\ drive'.set = UnitsWithJobs
    BY <2>1 DEF Off
  <2>3. /\ Sound(reg') /\ Installed(reg') = Installed(reg) \ Retirable
        /\ Queued(reg') \subseteq Queued(reg)
        /\ \A j \in Installed(reg') : reg'.jobs[j] = reg.jobs[j]
    BY <1>0, <2>1, FinishAllEffect
  <2>4. \A id \in Installed(reg) \ Installed(reg') : status'[reg.jobs[id].unit] # "NeverStarted"
    <3>1. \A id \in Retirable : StatusOf(id) # "NeverStarted"
      BY <1>0 DEF Retirable, Covered, Settled, Stopped
    <3> QED BY <1>s, <2>3, <3>1 DEF StatusOf
  <2>5. JobsFlow
    BY <1>0, <2>2, <2>3, <2>4, FewerJobsFlow
  <2> QED BY <1>0, <2>2, <2>5, DriveRetireDrive, QuietDrive, BusyEnds, RegistryBoot
<1> QED BY <1>1, <1>2

LEMMA DrivePrimeBoot ==
    ASSUME BootInv, DrivePrime PROVE BootInv'
<1>0. /\ DriveInv /\ Sound(reg) /\ Covered /\ drive.pc = "prime" /\ drive.id = NoJob
      /\ UNCHANGED sweepVars /\ producer' = producer /\ producer # "install"
      /\ Enqueue(reg, drive.set) /\ drive' = [Off EXCEPT !.pc = "pop"]
  BY BootParts, DriveParts, DriveBusy DEF DrivePrime
<1>1. drive'.id = NoJob /\ drive'.pc = "pop"
  BY <1>0, OffFields
<1>2. /\ Sound(reg') /\ Installed(reg') = Installed(reg) /\ reg'.jobs = reg.jobs
      /\ \A id \in Queued(reg') : id \in Queued(reg) \/ Startable(reg.jobs[id].unit, drive.set)
  BY <1>0, EnqueueEffect
<1>3. \A id \in Installed(reg) : id \in Queued(reg') => id \in Queued(reg) \/ Ready(reg.jobs[id].unit)
  <2> SUFFICES ASSUME NEW id \in Installed(reg), id \in Queued(reg'), id \notin Queued(reg)
               PROVE  Ready(reg.jobs[id].unit)
    OBVIOUS
  <2>1. reg.jobs[id].unit \in Closure /\ Startable(reg.jobs[id].unit, drive.set)
    BY <1>0, <1>2 DEF Covered
  <2>2. \A d \in Closure : status[d] = "NeverStarted" => d \in drive.set
    BY <1>0 DEF Covered
  <2> QED BY <2>1, <2>2, StartableReady
<1>4. NoJob \notin Installed(reg)
  BY <1>0, RegistryFacts
<1>5. JobsFlow
  BY <1>1, <1>2, <1>3, <1>4 DEF JobsFlow
<1> QED BY <1>0, <1>1, <1>5, DrivePrimeDrive, QuietDrive, BusyEnds, RegistryBoot

LEMMA DrivePopBoot ==
    ASSUME BootInv, DrivePop PROVE BootInv'
<1>0. /\ DriveInv /\ Sound(reg) /\ Ripe /\ drive.pc = "pop" /\ drive.id = NoJob
      /\ UNCHANGED sweepVars /\ producer' = producer /\ producer # "install"
  BY BootParts, DriveParts, DriveBusy DEF DrivePop
<1>n. NoJob \notin Installed(reg)
  BY <1>0, RegistryFacts
<1>1. ASSUME NEW k \in 1 .. Len(reg.runQueue), FirstWaiting(reg, k), reg' = PopReady(reg, k),
             drive' = [Off EXCEPT !.pc = "popped", !.id = reg.runQueue[k]]
      PROVE  BootInv'
  <2> DEFINE id == reg.runQueue[k]
  <2>1. /\ Sound(reg') /\ Installed(reg') = Installed(reg) /\ id \in Queued(reg)
        /\ Queued(reg') \subseteq Queued(reg)
        /\ \A j \in Installed(reg) :
             /\ reg'.jobs[j].unit = reg.jobs[j].unit
             /\ reg'.jobs[j].deadline = reg.jobs[j].deadline
             /\ reg'.jobs[j].state = IF j = id THEN "Running" ELSE reg.jobs[j].state
    BY <1>0, <1>1, PopEffect
  <2>2. drive'.pc = "popped" /\ drive'.id = id
    BY <1>1 DEF Off
  <2>3. id \in Installed(reg) /\ reg.jobs[id].state = "Waiting"
    BY <1>1 DEF FirstWaiting
  <2> HIDE DEF id
  <2>4. JobsFlow
    BY <2>1, <2>2, <2>3 DEF JobsFlow
  <2> QED BY <1>0, <2>2, <2>4, DrivePopDrive, QuietDrive, BusyEnds, RegistryBoot
<1>2. CASE reg' = [reg EXCEPT !.runQueue = << >>] /\ drive' = Off
  <2>1. /\ Sound(reg') /\ Installed(reg') = Installed(reg) /\ reg'.jobs = reg.jobs /\ Queued(reg') = {}
    BY <1>0, <1>2, EmptyQueueEffect
  <2>2. drive'.id = NoJob /\ drive'.pc = "idle"
    BY <1>2, OffFields
  <2>3. JobsFlow
    BY <1>n, <2>1, <2>2 DEF JobsFlow
  <2> QED BY <1>0, <2>2, <2>3, DrivePopDrive, QuietDrive, BusyEnds, RegistryBoot
<1> QED BY <1>1, <1>2 DEF DrivePop

LEMMA DriveLookBoot ==
    ASSUME BootInv, DriveLook PROVE BootInv'
<1> DEFINE id == drive.id
           known == id \in Installed(reg)
           fresh == known /\ StatusOf(id) = "NeverStarted"
<1>0. /\ DriveInv /\ Sound(reg) /\ Held /\ drive.pc = "popped"
      /\ UNCHANGED sweepVars /\ producer' = producer /\ producer # "install"
      /\ drive' = IF fresh THEN [drive EXCEPT !.pc = "start"] ELSE [Off EXCEPT !.pc = "pop"]
      /\ reg' = IF ~known \/ fresh THEN reg
                ELSE IF StatusOf(id) = "Started" THEN Finish(reg, id) ELSE SetRunning(reg, id)
  BY BootParts, DriveParts, DriveBusy DEF DriveLook
<1>s. status' = status /\ Tasks' = Tasks /\ DriveInv'
  BY <1>0, BootParts, SweepSame, DriveLookDrive
<1>n. NoJob \notin Installed(reg)
  BY <1>0, RegistryFacts
<1>1. CASE fresh
  <2>1. drive' = [drive EXCEPT !.pc = "start"] /\ reg' = reg
    BY <1>0, <1>1
  <2>2. drive'.pc = "start" /\ drive'.id = id
    BY <1>0, <2>1, DriveParts
  <2>3. JobsFlow
    BY <2>1, <2>2, SameJobsFlow
  <2>4. MountsFresh'
    <3>1. MountsFresh
      BY BootParts DEF Locks
    <3>2. status'[reg'.jobs[drive'.id].unit] = "NeverStarted"
      BY <1>s, <1>1, <2>1, <2>2 DEF StatusOf
    <3>3. \A u : JobTasks(u)' = JobTasks(u)
      BY <1>s DEF JobTasks
    <3> QED BY <1>s, <3>1, <3>2, <3>3 DEF MountsFresh
  <2> QED BY <1>0, <1>s, <2>2, <2>3, <2>4, BusyEnds, RegistryBoot
<1>2. CASE ~fresh
  <2>0. drive' = [Off EXCEPT !.pc = "pop"]
    BY <1>0, <1>2
  <2>1. drive'.pc = "pop" /\ drive'.id = NoJob
    BY <2>0, OffFields
  <2>2. MountsFresh'
    BY <1>0, <2>1, QuietDrive
  <2>3. JobsFlow
    <3>1. CASE ~known
      BY <1>0, <1>n, <2>1, <3>1 DEF JobsFlow
    <3>2. CASE known /\ StatusOf(id) = "Started"
      <4>1. reg' = Finish(reg, id)
        BY <1>0, <1>2, <3>2
      <4>2. /\ Sound(reg') /\ Installed(reg') = Installed(reg) \ {id}
            /\ Queued(reg') \subseteq Queued(reg)
            /\ \A j \in Installed(reg') : reg'.jobs[j] = reg.jobs[j]
        BY <1>0, <4>1, FinishEffect
      <4>3. \A j \in Installed(reg) \ Installed(reg') : status'[reg.jobs[j].unit] # "NeverStarted"
        BY <1>s, <3>2, <4>2 DEF StatusOf
      <4> QED BY <2>1, <4>2, <4>3, FewerJobsFlow
    <3>3. CASE known /\ StatusOf(id) # "Started"
      <4>1. reg' = SetRunning(reg, id)
        BY <1>0, <1>2, <3>3
      <4>2. /\ Sound(reg') /\ Installed(reg') = Installed(reg) /\ Queued(reg') = Queued(reg)
            /\ \A j \in Installed(reg) :
                 /\ reg'.jobs[j].unit = reg.jobs[j].unit
                 /\ reg'.jobs[j].deadline = reg.jobs[j].deadline
                 /\ reg'.jobs[j].state = IF j = id THEN "Running" ELSE reg.jobs[j].state
        BY <1>0, <4>1, SetStateEffect DEF SetRunning, State
      <4>3. \A j \in Installed(reg) : reg'.jobs[j].state = reg.jobs[j].state
        BY <1>0, <3>3, <4>2 DEF Held
      <4> QED BY <1>n, <2>1, <4>2, <4>3 DEF JobsFlow
    <3> QED BY <3>1, <3>2, <3>3
  <2> QED BY <1>0, <1>s, <2>1, <2>2, <2>3, BusyEnds, RegistryBoot
<1> QED BY <1>1, <1>2

LEMMA JobDueBoot ==
    ASSUME BootInv, StartedOnce, NEW id \in JobId, JobDue(id) PROVE BootInv'
<1>0. /\ DriveInv /\ Sound(reg) /\ Turns /\ Held
      /\ UNCHANGED sweepVars /\ producer' = producer /\ drive' = drive
      /\ id \in Installed(reg) /\ reg' = [reg EXCEPT !.jobs[id].deadline = "due"]
      /\ StatusOf(id) = "Starting"
  BY BootParts, DriveParts, Parking DEF JobDue
<1>1. reg.jobs[id].unit \in Unit /\ status' = status
  BY <1>0, RegistryFacts DEF sweepVars
<1>3. producer # "install"
  BY <1>0 DEF Turns, EmptyRegistry, Installed
<1>4. /\ Sound(reg') /\ Installed(reg') = Installed(reg) /\ Queued(reg') = Queued(reg)
      /\ \A j \in Installed(reg) :
           /\ reg'.jobs[j].unit = reg.jobs[j].unit
           /\ reg'.jobs[j].state = reg.jobs[j].state
           /\ reg'.jobs[j].deadline = IF j = id THEN "due" ELSE reg.jobs[j].deadline
  BY <1>0, DeadlineEffect DEF Deadline
<1>5. JobsFlow
  BY <1>0, <1>1, <1>4 DEF JobsFlow, StatusOf, Held
<1>6. MountsFresh'
  BY <1>0, <1>4, QuietDrive
<1> QED BY <1>0, <1>3, <1>5, <1>6, JobDueDrive, BusyEnds, RegistryBoot

(* Nothing is ever lost, so that the producer tops nothing up.             *)
LEMMA TopUpBoot ==
    ASSUME BootInv, TopUp PROVE BootInv'
<1>0. /\ DriveInv /\ Sound(reg) /\ Covered /\ Held
      /\ UNCHANGED sweepVars /\ producer' = producer /\ drive' = drive /\ producer = "tick"
      /\ Enqueue(CreateAll(reg, Lost), Closure) /\ IdsRemain
  BY BootParts DEF TopUp
<1>1. Lost = {}
  BY <1>0 DEF Covered, Lost
<1>2. Lost \subseteq Unit /\ Lost \ DOMAIN reg.byUnit = Lost
  BY <1>1
<1>3. reg.nextId + Cardinality(Lost \ DOMAIN reg.byUnit) <= MaxId
  BY <1>0, <1>2 DEF IdsRemain
<1>4. /\ RegFlow /\ Installed(reg) \subseteq Installed(reg')
      /\ \A j \in Installed(reg) : reg'.jobs[j] = reg.jobs[j]
      /\ \A j \in Installed(reg') \ Installed(reg) : reg'.jobs[j].unit \in Lost \ DOMAIN reg.byUnit
      /\ \A j \in Queued(reg') : j \in Queued(reg) \/ Startable(reg'.jobs[j].unit, Closure)
  BY <1>0, <1>2, <1>3, GrownFlow
<1>5. Installed(reg') = Installed(reg)
  BY <1>1, <1>4
<1>6. \A j \in Installed(reg) : j \in Queued(reg') => j \in Queued(reg) \/ Ready(reg.jobs[j].unit)
  BY <1>0, <1>4 DEF Covered, Ready
<1>7. DriveInv'
  BY <1>0, TopUpDrive
<1>8. Sound(reg')
  BY <1>7, DriveParts DEF DriveInv
<1>9. JobsFlow
  BY <1>0, <1>4, <1>5, <1>6, <1>8 DEF JobsFlow, Held
<1>10. MountsFresh'
  BY <1>0, <1>4, <1>5, QuietDrive
<1>11. Ends'
  BY <1>0 DEF Ends
<1> QED BY <1>0, <1>7, <1>9, <1>10, <1>11, RegistryBoot

LEMMA NothingYet ==
    ASSUME BootInv, producer = "install"
    PROVE  /\ Tasks = {} /\ mail = << >> /\ DOMAIN waits = {} /\ Installed(reg) = {} /\ Queued(reg) = {}
           /\ drive.pc = "idle" /\ drive.id = NoJob
<1>0. Ends /\ Turns /\ DriveInv
  BY BootParts, DriveParts
<1>1. Tasks = {} /\ mail = << >> /\ DOMAIN waits = {}
  BY <1>0 DEF Ends, Tasks, BagToSet, EmptyBag, SetToBag
<1>2. Installed(reg) = {} /\ reg.runQueue = << >>
  BY <1>0 DEF Turns, EmptyRegistry, Installed
<1>3. Queued(reg) = {}
  BY <1>2 DEF Queued
<1>4. drive.pc = "idle" /\ drive.id = NoJob
  BY <1>0, DriveParts, DriveRunning
<1> QED BY <1>1, <1>2, <1>3, <1>4

LEMMA InstallBoot ==
    ASSUME BootInv, InstallJobs PROVE BootInv'
<1>0. /\ DriveInv /\ Sound(reg) /\ Ripe /\ SweepInv /\ TypeOK
      /\ UNCHANGED sweepVars /\ producer' = "arm" /\ drive' = drive /\ producer = "install"
      /\ Enqueue(CreateAll(reg, Closure), Closure) /\ IsABag(work)
  BY BootParts DEF InstallJobs
<1>1. /\ Tasks = {} /\ mail = << >> /\ DOMAIN waits = {} /\ Installed(reg) = {} /\ Queued(reg) = {}
      /\ drive.pc = "idle" /\ drive.id = NoJob
  BY <1>0, NothingYet
<1>2. /\ Tasks' = Tasks /\ status' = status /\ work' = work /\ mail' = mail
      /\ waits' = waits /\ ready' = ready
  BY <1>0, SweepSame
<1>3. /\ \A j \in Installed(reg') \ Installed(reg) :
           /\ reg'.jobs[j].unit \in Closure \ DOMAIN reg.byUnit
           /\ reg'.jobs[j].state = "Waiting" /\ reg'.jobs[j].deadline = "none"
      /\ DOMAIN reg'.byUnit = DOMAIN reg.byUnit \cup Closure
      /\ \A id \in Queued(reg') : id \in Queued(reg) \/ Startable(reg'.jobs[id].unit, Closure)
  BY <1>0, IdsForBoot, ClosureInUnit, GrownFlow
<1>4. /\ \A j \in Installed(reg') :
           /\ reg'.jobs[j].unit \in Closure
           /\ reg'.jobs[j].state = "Waiting" /\ reg'.jobs[j].deadline = "none"
      /\ Closure \subseteq DOMAIN reg'.byUnit
      /\ \A id \in Queued(reg') : Startable(reg'.jobs[id].unit, Closure)
  BY <1>1, <1>3
<1>5. DriveInv' /\ SweepInv'
  BY <1>0, InstallDrive, SameSweep
<1>6. Ripe'
  <2>1. ASSUME NEW id \in Installed(reg'), reg'.jobs[id].state = "Running" \/ id \in Queued(reg'),
               NEW u, u = reg'.jobs[id].unit
        PROVE  Ready(u)'
    <3>1. u \in Closure /\ Startable(u, Closure)
      BY <1>4, <2>1
    <3> QED BY <1>2, <3>1 DEF Ready, Startable, UnstartedDeps
  <2>2. /\ \A u \in Unit \ Devices : status'[u] # "NeverStarted" => Ready(u)'
        /\ \A u \in Devices \cap Unit : status'[u] \in {"NeverStarted", "Started"}
    BY <1>0, <1>2 DEF Ripe, Ready, Startable, UnstartedDeps
  <2>3. Tasks' = {}
    BY <1>1, <1>2
  <2> QED BY <2>1, <2>2, <2>3 DEF Ripe, Ready, Startable, UnstartedDeps
<1>7. Covered'
  BY <1>0, <1>1, <1>2, <1>4 DEF Covered, UnitsWithJobs, Expired
<1>8. Held'
  <2>1. NoJob \notin Installed(reg')
    BY <1>5, DriveParts, RegistryFacts DEF DriveInv
  <2> QED BY <1>0, <1>1, <2>1 DEF Held
<1>9. Ends'
  BY <1>0 DEF Ends
<1>10. Origins'
  BY <1>2, SameMail, OriginsKept
<1>11. Alone'
  <2>1. \A u : JobTasks(u)' = {} /\ ~Deferred(u)'
    BY <1>1, <1>2 DEF JobTasks, Deferred
  <2> QED BY <2>1 DEF Alone
<1>12. Locks'
  <2>1. MountsFresh'
    BY <1>0, <1>1, QuietDrive
  <2>2. \A x : Copies(work', x) <= Copies(work, x)
    BY <1>0, <1>2, CopiesAre
  <2> QED BY <1>0, <1>1, <1>2, <2>1, <2>2, LocksKept
<1> QED BY <1>5, <1>6, <1>7, <1>8, <1>9, <1>10, <1>11, <1>12 DEF BootInv

-----------------------------------------------------------------------------
(* Units that are handed to a pool. *)

LEMMA JoinBoot ==
    ASSUME BootInv, NEW S, work' = work (+) SetToBag(S),
           UNCHANGED << status, forked, ready, mail, waits, sweep, producer >>,
           \A x \in S : x \in Task /\ x.step = "queued" /\ Ready(x.unit) /\ Origin(x),
           DriveInv', JobsFlow, Ends', Alone', MountsFresh',
           drive'.pc = "prime" => drive' = drive
    PROVE  BootInv'
<1>0. TypeOK /\ WaitsStart /\ IsABag(work)
  BY BootParts DEF Locks
<1>1. /\ IsABag(work') /\ Tasks' = Tasks \cup S
      /\ \A x : Copies(work', x) = Copies(work, x) + (IF x \in S THEN 1 ELSE 0)
  BY <1>0, JoinTasks
<1>2. SweepInv' /\ Grow
  BY <1>0, JoinSweep, SameGrow
<1>3. Locks'
  <2>1. ASSUME NEW x, x.step = "locked" PROVE Copies(work', x) <= Copies(work, x)
    <3>1. x \notin S
      BY <2>1
    <3>2. Copies(work', x) = Copies(work, x) + 0 /\ Copies(work, x) \in Nat
      BY <1>0, <1>1, <3>1, CopiesAre
    <3> QED BY <3>2
  <2>2. \A u \in DOMAIN waits' : status'[u] = "Starting" /\ u \notin ready'
    BY <1>0 DEF WaitsStart
  <2>3. \A x \in Tasks' \ Tasks : x.step # "finish"
    BY <1>1
  <2> QED BY <1>1, <2>1, <2>2, <2>3, LocksKept
<1>4. \A x \in Tasks' \ Tasks :
        Ready(x.unit) /\ Origin(x) /\ (x.step = "err" => status'[x.unit] # "NeverStarted")
  BY <1>1
<1>5. /\ \A i \in 1 .. Len(mail') : mail'[i].unit \in Reached \/ ~mail'[i].chain
      /\ \A u \in DOMAIN waits' : ~waits'[u]
  BY SameMail
<1> QED BY <1>2, <1>3, <1>4, <1>5, BootTogether

LEMMA OtherStartBoot ==
    ASSUME BootInv, StartedOnce, NEW u \in Unit, OtherStart(u) PROVE BootInv'
<1> DEFINE n == NewTask(u, "chain", NoJob)
<1>0. /\ DriveInv /\ work' = work (+) SetToBag({n}) /\ IsABag(work)
      /\ UNCHANGED << status, forked, ready, mail, waits, sweep >>
      /\ reg' = reg /\ drive' = drive /\ producer' = producer /\ producer = "tick"
      /\ u \in Also /\ Startable(u, Closure)
  BY BootParts DEF OtherStart, bootVars
<1>1. n \in Task /\ n.by = "chain" /\ n.unit = u /\ n.step = "queued"
  BY DEF NewTask, Task
<1> HIDE DEF n
<1>2. u \in Reached /\ Ready(u)
  BY <1>0, ReachedProps, BootAssumption DEF Ready, BootAssumption
<1>3. Origin(n)
  BY <1>1, <1>2 DEF Origin
<1>4. DriveInv' /\ JobsFlow /\ Ends'
  BY <1>0, OtherStartDrive, SameJobsFlow DEF Ends
<1>5. /\ IsABag(work') /\ Tasks' = Tasks \cup {n}
      /\ \A x : Copies(work', x) = Copies(work, x) + (IF x \in {n} THEN 1 ELSE 0)
  BY <1>0, JoinTasks
<1>6. Alone'
  <2>1. ASSUME NEW x, x.by = "job" PROVE Copies(work', x) <= Copies(work, x)
    <3>1. x \notin {n}
      BY <1>1, <2>1
    <3>2. Copies(work', x) = Copies(work, x) + 0 /\ Copies(work, x) \in Nat
      BY <1>0, <1>5, <3>1, CopiesAre
    <3> QED BY <3>2
  <2>2. \A v : Deferred(v)' => Deferred(v)
    BY <1>0, <1>1, <1>5 DEF Deferred
  <2> QED BY <1>4, <1>5, <2>1, <2>2, AloneKept
<1>7. MountsFresh'
  BY <1>0, <1>1, <1>5, MountsKept
<1>8. \A x \in {n} : x \in Task /\ x.step = "queued" /\ Ready(x.unit) /\ Origin(x)
  BY <1>1, <1>2, <1>3
<1> QED BY <1>0, <1>4, <1>6, <1>7, <1>8, JoinBoot

(* The drive hands over the job it holds.                                  *)
LEMMA StartFacts ==
    ASSUME BootInv, DriveStart
    PROVE  LET S == {NewTask(u, "job", drive.id) : u \in {v \in UnitsWithJobs : reg.byUnit[v] = drive.id}}
           IN  /\ work' = work (+) SetToBag(S)
               /\ drive.id \notin Installed(reg) => S = {}
               /\ drive.id \in Installed(reg) =>
                    \E n \in Task :
                      /\ S = {n} /\ n.by = "job" /\ n.id = drive.id /\ n.step = "queued"
                      /\ n.unit = reg.jobs[drive.id].unit
<1> DEFINE id == drive.id
           S == {NewTask(u, "job", id) : u \in {v \in UnitsWithJobs : reg.byUnit[v] = id}}
<1>0. work' = work (+) SetToBag(S) /\ Sound(reg) /\ id \in JobId \cup {NoJob}
  BY BootParts, DriveParts DEF DriveStart
<1>1. id \notin Installed(reg) => S = {}
  BY <1>0, RegistryFacts DEF UnitsWithJobs
<1>2. ASSUME id \in Installed(reg)
      PROVE  \E n \in Task : /\ S = {n} /\ n.by = "job" /\ n.id = id /\ n.step = "queued"
                             /\ n.unit = reg.jobs[id].unit
  <2>1. id \in JobId /\ reg.jobs[id].unit \in Unit
    BY <1>0, <1>2, RegistryFacts
  <2>2. S = {NewTask(reg.jobs[id].unit, "job", id)}
    BY <1>0, <1>2, <2>1, Handed
  <2> DEFINE n == NewTask(reg.jobs[id].unit, "job", id)
  <2>3. n \in Task /\ n.by = "job" /\ n.id = id /\ n.step = "queued" /\ n.unit = reg.jobs[id].unit
    BY <2>1 DEF NewTask, Task
  <2> HIDE DEF n, S
  <2>4. S = {n}
    BY <2>2 DEF n
  <2> QED BY <2>3, <2>4
<1> QED BY <1>0, <1>1, <1>2

LEMMA StartJobs ==
    ASSUME BootInv, DriveStart
    PROVE  /\ JobsFlow /\ drive'.pc = "pop" /\ drive'.id = NoJob
           /\ \A j \in Installed(reg') :
                drive.id # j /\ reg'.jobs[j].state = "Waiting" =>
                  reg.jobs[j].state = "Waiting"
           /\ drive.id \in Installed(reg') => reg'.jobs[drive.id].state = "Running"
<1>0. /\ Sound(reg) /\ Held /\ drive' = [Off EXCEPT !.pc = "pop"]
      /\ reg' = SetDeadline(SetRunning(reg, drive.id), drive.id)
  BY BootParts DEF DriveStart
<1>1. drive'.pc = "pop" /\ drive'.id = NoJob
  BY <1>0, OffFields
<1>2. /\ Sound(reg') /\ Installed(reg') = Installed(reg) /\ Queued(reg') = Queued(reg)
      /\ \A j \in Installed(reg) :
           /\ reg'.jobs[j].unit = reg.jobs[j].unit
           /\ reg'.jobs[j].state = IF j = drive.id THEN "Running" ELSE reg.jobs[j].state
           /\ reg'.jobs[j].deadline = IF j = drive.id THEN "armed" ELSE reg.jobs[j].deadline
  BY <1>0, StartEffect
<1>3. NoJob \notin Installed(reg)
  BY <1>0, RegistryFacts
<1>4. \A j \in Installed(reg) : reg'.jobs[j].state = reg.jobs[j].state
  BY <1>0, <1>2 DEF Held
<1>5. JobsFlow
  BY <1>1, <1>2, <1>3, <1>4 DEF JobsFlow
<1> QED BY <1>1, <1>2, <1>5

LEMMA DriveStartAlone ==
    ASSUME BootInv, DriveStart, NEW n, drive.id \in Installed(reg),
           work' = work (+) SetToBag({n}), n.by = "job", n.step = "queued",
           n.unit = reg.jobs[drive.id].unit
    PROVE  Alone'
<1>0. /\ Alone /\ IsABag(work) /\ Sound(reg)
      /\ UNCHANGED << mail, waits >>
  BY BootParts DEF DriveStart
<1>1. /\ IsABag(work') /\ Tasks' = Tasks \cup {n}
      /\ \A x : Copies(work', x) = Copies(work, x) + (IF x \in {n} THEN 1 ELSE 0)
  BY <1>0, JoinTasks
<1>j. /\ JobsFlow /\ drive'.id = NoJob
      /\ drive.id \in Installed(reg') => reg'.jobs[drive.id].state = "Running"
  BY StartJobs
<1>d. \A v : Deferred(v)' => Deferred(v)
  BY <1>0, <1>1 DEF Deferred
<1> SUFFICES ASSUME NEW u \in Unit \ Reached
             PROVE  /\ \A s, x \in JobTasks(u)' : s = x /\ work'[x] = 1
                    /\ Undispatched(u)' \/ Deferred(u)' => JobTasks(u)' = {}
                    /\ Deferred(u)' => ~Undispatched(u)'
  BY DEF Alone
<1>2. /\ \A s, x \in JobTasks(u) : s = x /\ work[x] = 1
      /\ Undispatched(u) \/ Deferred(u) => JobTasks(u) = {}
      /\ Deferred(u) => ~Undispatched(u)
  BY <1>0 DEF Alone
<1>3. \A x : /\ x \in Tasks <=> Copies(work, x) > 0
             /\ x \in Tasks => work[x] = Copies(work, x)
             /\ Copies(work, x) \in Nat
  BY <1>0, CopiesAre DEF Tasks
<1>4. \A x : x \in Tasks' => work'[x] = Copies(work', x)
  BY <1>1, CopiesAre DEF Tasks
<1>5. CASE u = n.unit
  <2>1. Undispatched(u)
    BY <1>5 DEF Undispatched
  <2>2. JobTasks(u) = {} /\ ~Deferred(u)
    BY <1>2, <2>1
  <2>3. n \notin Tasks
    BY <1>5, <2>2 DEF JobTasks
  <2>4. work'[n] = 1
    <3>1. Copies(work, n) = 0
      BY <1>3, <2>3
    <3> QED BY <1>1, <1>4, <3>1
  <2>5. \A x \in JobTasks(u)' : x = n
    BY <1>1, <2>2 DEF JobTasks
  <2>6. ~Undispatched(u)'
    <3> SUFFICES ASSUME Undispatched(u)' PROVE FALSE
      OBVIOUS
    <3>1. PICK j \in Installed(reg') : /\ reg'.jobs[j].unit = u
                                       /\ reg'.jobs[j].state = "Waiting" \/ drive'.id = j
      BY DEF Undispatched
    <3>2. j \in Installed(reg) /\ reg.jobs[j].unit = u
      BY <1>j, <3>1 DEF JobsFlow
    <3>3. j = drive.id
      BY <1>0, <1>5, <3>2, OneJob
    <3>4. NoJob \notin Installed(reg)
      BY <1>0, RegistryFacts
    <3> QED BY <1>j, <3>1, <3>3, <3>4
  <2> QED BY <1>d, <2>2, <2>4, <2>5, <2>6
<1>6. CASE u # n.unit
  <2>1. JobTasks(u)' = JobTasks(u)
    BY <1>1, <1>6 DEF JobTasks
  <2>2. \A x \in JobTasks(u) : work'[x] = work[x]
    <3> SUFFICES ASSUME NEW x \in JobTasks(u) PROVE work'[x] = work[x]
      OBVIOUS
    <3>1. x \in Tasks /\ x \notin {n}
      BY <1>6 DEF JobTasks
    <3>2. Copies(work', x) = Copies(work, x) + 0
      BY <1>1, <3>1
    <3> QED BY <1>1, <1>3, <1>4, <3>1, <3>2
  <2>3. (Undispatched(u)' => Undispatched(u)) /\ (Deferred(u)' => Deferred(u))
    BY <1>d, <1>j, UndispatchedKept
  <2> QED BY <1>2, <2>1, <2>2, <2>3
<1> QED BY <1>5, <1>6

LEMMA DriveStartBoot ==
    ASSUME BootInv, DriveStart PROVE BootInv'
<1> DEFINE S == {NewTask(u, "job", drive.id) : u \in {v \in UnitsWithJobs : reg.byUnit[v] = drive.id}}
<1>0. /\ DriveInv /\ Ripe /\ Held /\ MountsFresh /\ drive.pc = "start" /\ IsABag(work)
      /\ UNCHANGED << status, forked, ready, mail, waits, sweep, producer >>
      /\ producer # "install"
  BY BootParts, DriveBusy DEF DriveStart, Locks
<1>1. /\ work' = work (+) SetToBag(S)
      /\ drive.id \notin Installed(reg) => S = {}
      /\ drive.id \in Installed(reg) =>
           \E n \in Task : /\ S = {n} /\ n.by = "job" /\ n.id = drive.id /\ n.step = "queued"
                           /\ n.unit = reg.jobs[drive.id].unit
  BY StartFacts
<1> HIDE DEF S
<1>2. JobsFlow /\ drive'.pc = "pop" /\ drive'.id = NoJob /\ DriveInv'
  BY <1>0, StartJobs, DriveStartDrive
<1>3. Ends'
  BY <1>0, <1>2, BusyEnds
<1>4. /\ IsABag(work') /\ Tasks' = Tasks \cup S
      /\ \A x : Copies(work', x) = Copies(work, x) + (IF x \in S THEN 1 ELSE 0)
  BY <1>0, <1>1, JoinTasks
<1>5. CASE drive.id \notin Installed(reg)
  <2>1. S = {} /\ Tasks' = Tasks
    BY <1>1, <1>4, <1>5
  <2>2. \A x : Copies(work', x) <= Copies(work, x)
    <3> SUFFICES ASSUME NEW x PROVE Copies(work', x) <= Copies(work, x)
      OBVIOUS
    <3>1. Copies(work', x) = Copies(work, x) + 0 /\ Copies(work, x) \in Nat
      BY <1>0, <1>4, <2>1, CopiesAre
    <3> QED BY <3>1
  <2>3. \A u : Deferred(u)' => Deferred(u)
    BY <1>0, <2>1 DEF Deferred
  <2>4. Alone'
    BY <1>2, <1>4, <2>2, <2>3, AloneKept
  <2>5. MountsFresh'
    BY <1>0, <1>2, <2>1, MountsKept
  <2>6. \A x \in S : x \in Task /\ x.step = "queued" /\ Ready(x.unit) /\ Origin(x)
    BY <2>1
  <2> QED BY <1>0, <1>1, <1>2, <1>3, <2>4, <2>5, <2>6, JoinBoot
<1>6. CASE drive.id \in Installed(reg)
  <2>1. PICK n \in Task : /\ S = {n} /\ n.by = "job" /\ n.id = drive.id /\ n.step = "queued"
                          /\ n.unit = reg.jobs[drive.id].unit
    BY <1>1, <1>6
  <2>2. Ready(n.unit)
    BY <1>0, <1>6, <2>1 DEF Ripe, Held
  <2>3. Origin(n)
    BY <2>1 DEF Origin
  <2>4. Alone'
    <3>1. work' = work (+) SetToBag({n})
      BY <1>1, <2>1
    <3> QED BY <1>6, <2>1, <3>1, DriveStartAlone
  <2>5. MountsFresh'
    <3>1. \A u \in Mounts \cap Unit : \A x \in JobTasks(u)' :
            x \in JobTasks(u) \/ (x = n /\ u = reg.jobs[drive.id].unit)
      BY <1>4, <2>1 DEF JobTasks
    <3> QED BY <1>0, <1>2, <1>6, <3>1 DEF MountsFresh
  <2>6. \A x \in S : x \in Task /\ x.step = "queued" /\ Ready(x.unit) /\ Origin(x)
    BY <2>1, <2>2, <2>3
  <2> QED BY <1>0, <1>1, <1>2, <1>3, <2>4, <2>5, <2>6, JoinBoot
<1> QED BY <1>5, <1>6

-----------------------------------------------------------------------------
(* udev. *)

LEMMA PlugBoot ==
    ASSUME BootInv, StartedOnce, NEW u \in Unit, Plug(u) PROVE BootInv'
<1>0. /\ DriveInv /\ Ripe /\ Held /\ MountsFresh /\ Ends /\ WaitsStart /\ TypeOK /\ IsABag(work)
      /\ status \in [Unit -> Status]
  BY BootParts DEF Locks
<1>1. /\ u \in Devices \ Absent /\ status[u] = "NeverStarted" /\ SetStatus(u, "Started")
      /\ work' = work /\ mail' = mail /\ waits' = waits /\ ready' = ready
      /\ reg' = reg /\ drive' = drive /\ producer' = producer
  BY DEF Plug, bootVars
<1>2. \A v \in Unit \ {u} : status'[v] = status[v]
  BY <1>0, <1>1 DEF SetStatus
<1>3. Tasks' = Tasks /\ IsABag(work') /\ \A x : Copies(work', x) <= Copies(work, x)
  BY <1>0, <1>1, SameTasks, CopiesAre
<1>4. DriveInv' /\ SweepInv' /\ Grow /\ JobsFlow
  BY <1>0, <1>1, PlugDrive, PlugSweep, PlugGrow, SameJobsFlow
<1>5. Ends'
  BY <1>0, <1>1 DEF Ends
<1>6. Alone'
  <2>1. \A v : Deferred(v)' => Deferred(v)
    BY <1>1, <1>3 DEF Deferred
  <2> QED BY <1>3, <1>4, <2>1, AloneKept
<1>7. \A x \in Tasks : x.unit # u /\ x.unit \in Unit
  BY <1>0, <1>1, ReadyProps DEF Ripe
<1>8. MountsFresh'
  <2>1. drive.id \in Installed(reg) => reg.jobs[drive.id].unit # u
    BY <1>0, <1>1, ReadyProps DEF Ripe, Held
  <2>2. JobTasks(u)' = {} /\ \A v : JobTasks(v)' = JobTasks(v)
    BY <1>3, <1>7 DEF JobTasks
  <2> QED BY <1>0, <1>1, <1>2, <2>1, <2>2 DEF MountsFresh
<1>9. Locks'
  <2>1. \A x \in Tasks : status'[x.unit] = status[x.unit]
    BY <1>2, <1>7
  <2>2. \A v \in DOMAIN waits' : status'[v] = "Starting" /\ v \notin ready'
    BY <1>0, <1>1, <1>2, GraphAssumption DEF WaitsStart, TypeOK, GraphAssumption
  <2> QED BY <1>1, <1>3, <1>8, <2>1, <2>2, LocksKept
<1>10. /\ \A i \in 1 .. Len(mail') : mail'[i].unit \in Reached \/ ~mail'[i].chain
       /\ \A v \in DOMAIN waits' : ~waits'[v]
  BY <1>1, SameMail
<1> QED BY <1>1, <1>3, <1>4, <1>5, <1>6, <1>9, <1>10, BootTogether

-----------------------------------------------------------------------------
(* The dispatcher's events. *)

LEMMA IdleDispatcher ==
    ASSUME mail = << >>, DOMAIN waits = {}, DispatcherStep
    PROVE  UNCHANGED << status, work, mail, waits >>
BY DEF DispatcherStep, Register, NotifyReady, StartFails

(* What an event does to the parked starts: it finishes one, fails one, or *)
(* leaves it waiting.                                                      *)
Finishing(S) ==
    /\ work' = work (+) SetToBag(S) \/ (work' = work /\ S = {})
    /\ \A x \in S : /\ x \in Task /\ x.step = "finish" /\ x.by = "chain" /\ ~x.chain
                    /\ x.unit \in Deferring /\ x.unit \in ready'
                    /\ status[x.unit] = "Starting" /\ Deferred(x.unit)

Waiting ==
    \A v \in DOMAIN waits' :
        ~waits'[v] /\ status'[v] = "Starting" /\ v \notin ready' /\ Deferred(v)

LEMMA ProgressParks ==
    ASSUME TypeOK, NEW u \in Deferring, u \in Unit, NEW chain \in BOOLEAN, NEW signaled \in BOOLEAN,
           Progress(u, chain, signaled), ~chain, Deferred(u), status' = status,
           signaled <=> u \in ready', ready' \subseteq ready \cup {u},
           \A v \in DOMAIN waits : ~waits[v] /\ status[v] = "Starting" /\ v \notin ready /\ Deferred(v)
    PROVE  (\E S : Finishing(S)) /\ Waiting
<1>1. /\ DOMAIN waits' \subseteq DOMAIN waits \cup {u}
      /\ \A v \in DOMAIN waits' : waits'[v] = IF v = u THEN chain ELSE waits[v]
      /\ u \in DOMAIN waits' => status[u] = "Starting" /\ ~signaled
  BY ProgressEffect
<1>2. PICK S \in SUBSET Task :
            /\ work' = work (+) SetToBag(S) \/ (work' = work /\ S = {})
            /\ \A t \in S : /\ t.unit = u /\ t.by = "chain" /\ t.chain = chain
                            /\ \/ t.step = "chain" /\ status[u] # "Starting" /\ chain
                               \/ t.step = "finish" /\ status[u] = "Starting" /\ signaled
  BY ProgressEffect
<1>3. Finishing(S)
  BY <1>2 DEF Finishing
<1>4. Waiting
  BY <1>1 DEF Waiting
<1> QED BY <1>3, <1>4

LEMMA RegisterEffect ==
    ASSUME BootInv, StartedOnce, Register
    PROVE  /\ \E S : Finishing(S)
           /\ Waiting
           /\ \A i \in 1 .. Len(mail') : mail'[i].unit \in Reached \/ ~mail'[i].chain
           /\ \A v : (\E i \in 1 .. Len(mail') : mail'[i].unit = v)
                       => \E i \in 1 .. Len(mail) : mail[i].unit = v
           /\ status' = status /\ ready' = ready
<1>0. /\ TypeOK /\ Origins /\ WaitsStart /\ mail \in Seq(Letter) /\ mail # << >> /\ mail' = Tail(mail)
      /\ status' = status /\ ready' = ready
  BY BootParts DEF Register, Locks
<1> DEFINE u == Head(mail).unit
           chain == Head(mail).chain
<1>1. /\ Head(mail) \in Letter /\ Head(mail) = mail[1] /\ 1 \in 1 .. Len(mail)
      /\ \A i \in 1 .. Len(mail') : i + 1 \in 1 .. Len(mail) /\ mail'[i] = mail[i + 1]
  <2>1. /\ Len(mail) \in Nat /\ Len(mail) >= 1 /\ Len(mail') = Len(mail) - 1
        /\ Head(mail) = mail[1] /\ Head(mail) \in Letter
        /\ \A i \in 1 .. Len(mail) - 1 : Tail(mail)[i] = mail[i + 1]
    BY <1>0, MailTail
  <2> QED BY <1>0, <2>1
<1>2. u \in Unit /\ chain \in BOOLEAN /\ Deferred(u)
  BY <1>1 DEF Letter, Deferred
<1>3. /\ \A i \in 1 .. Len(mail') : mail'[i].unit \in Reached \/ ~mail'[i].chain
      /\ \A v : (\E i \in 1 .. Len(mail') : mail'[i].unit = v)
                  => \E i \in 1 .. Len(mail) : mail[i].unit = v
  BY <1>0, <1>1 DEF Origins
<1>4. \A v \in DOMAIN waits : ~waits[v] /\ status[v] = "Starting" /\ v \notin ready /\ Deferred(v)
  BY <1>0 DEF Origins, WaitsStart, Deferred
<1>5. (\E S : Finishing(S)) /\ Waiting
  <2>1. CASE u \notin Deferring
    <3>1. work' = work /\ waits' = waits
      BY <2>1 DEF Register
    <3>2. Finishing({})
      BY <3>1 DEF Finishing
    <3>3. Waiting
      BY <1>0, <1>4, <3>1 DEF Waiting
    <3> QED BY <3>2, <3>3
  <2>2. CASE u \in Deferring
    <3>1. ~chain
      BY <1>0, <1>1, <2>2, Parking DEF Origins
    <3>2. Progress(u, chain, u \in ready) /\ (u \in ready) \in BOOLEAN
      BY <2>2 DEF Register
    <3> HIDE DEF u, chain
    <3> QED BY <1>0, <1>2, <1>4, <2>2, <3>1, <3>2, ProgressParks
  <2> QED BY <2>1, <2>2
<1> QED BY <1>0, <1>3, <1>5

LEMMA NotifyEffect ==
    ASSUME BootInv, NEW u \in Deferring, NotifyReady(u)
    PROVE  (\E S : Finishing(S)) /\ Waiting /\ ready \subseteq ready' /\ mail' = mail /\ status' = status
<1>0. /\ TypeOK /\ Origins /\ WaitsStart /\ u \in Unit
      /\ ready' = ready \cup {u} /\ mail' = mail /\ status' = status
  BY BootParts, GraphAssumption DEF NotifyReady, Locks, GraphAssumption
<1>4. \A v \in DOMAIN waits : /\ ~waits[v] /\ waits[v] \in BOOLEAN
                              /\ status[v] = "Starting" /\ v \notin ready /\ Deferred(v)
  BY <1>0 DEF Origins, WaitsStart, Deferred, TypeOK
<1>1. CASE u \notin DOMAIN waits
  <2>1. work' = work /\ waits' = waits
    BY <1>1 DEF NotifyReady
  <2>2. Finishing({})
    BY <2>1 DEF Finishing
  <2>3. Waiting
    BY <1>0, <1>1, <1>4, <2>1 DEF Waiting
  <2> QED BY <1>0, <2>2, <2>3
<1>2. CASE u \in DOMAIN waits
  <2>1. Progress(u, waits[u], TRUE)
    BY <1>2 DEF NotifyReady
  <2>2. waits[u] \in BOOLEAN /\ ~waits[u] /\ Deferred(u) /\ u \in ready' /\ ready' \subseteq ready \cup {u}
    BY <1>0, <1>2, <1>4
  <2>3. (\E S : Finishing(S)) /\ Waiting
    BY <1>0, <1>4, <2>1, <2>2, ProgressParks
  <2> QED BY <1>0, <2>3
<1> QED BY <1>1, <1>2

LEMMA DispatcherEffect ==
    ASSUME BootInv, StartedOnce, DispatcherStep
    PROVE  /\ \E S : Finishing(S)
           /\ Waiting /\ ready \subseteq ready'
           /\ \A i \in 1 .. Len(mail') : mail'[i].unit \in Reached \/ ~mail'[i].chain
           /\ \A v : (\E i \in 1 .. Len(mail') : mail'[i].unit = v)
                       => \E i \in 1 .. Len(mail) : mail[i].unit = v
           /\ \A v \in Unit : status'[v] # status[v] => v \in DOMAIN waits
<1>0. TypeOK /\ Origins /\ WaitsStart /\ status \in [Unit -> Status]
  BY BootParts DEF Locks
<1>1. CASE Register
  BY <1>1, RegisterEffect
<1>2. ASSUME NEW u \in Deferring, NotifyReady(u)
      PROVE  /\ \E S : Finishing(S)
             /\ Waiting /\ ready \subseteq ready' /\ mail' = mail /\ status' = status
  BY <1>2, NotifyEffect
<1>3. ASSUME NEW u \in Deferring, StartFails(u)
      PROVE  /\ \E S : Finishing(S)
             /\ Waiting /\ ready' = ready /\ mail' = mail
             /\ \A v \in Unit : status'[v] # status[v] => v \in DOMAIN waits
  <2>1. /\ u \in DOMAIN waits /\ waits' = Without(waits, u) /\ SetStatus(u, "Failed")
        /\ work' = work /\ mail' = mail /\ ready' = ready
    BY <1>3 DEF StartFails
  <2>2. Finishing({})
    BY <2>1 DEF Finishing
  <2>3. \A v \in Unit \ {u} : status'[v] = status[v]
    BY <1>0, <2>1 DEF SetStatus
  <2>4. DOMAIN waits' = DOMAIN waits \ {u} /\ \A v \in DOMAIN waits' : waits'[v] = waits[v]
    BY <2>1, WithoutProps
  <2>5. \A v \in DOMAIN waits : /\ ~waits[v] /\ v \in Unit
                                /\ status[v] = "Starting" /\ v \notin ready /\ Deferred(v)
    BY <1>0, GraphAssumption DEF Origins, WaitsStart, Deferred, TypeOK, GraphAssumption
  <2>6. Waiting
    BY <2>1, <2>3, <2>4, <2>5 DEF Waiting
  <2> QED BY <2>1, <2>2, <2>3, <2>6
<1>4. /\ mail' = mail =>
           /\ \A i \in 1 .. Len(mail') : mail'[i].unit \in Reached \/ ~mail'[i].chain
           /\ \A v : (\E i \in 1 .. Len(mail') : mail'[i].unit = v)
                       => \E i \in 1 .. Len(mail) : mail[i].unit = v
  BY <1>0 DEF Origins
<1> QED BY <1>1, <1>2, <1>3, <1>4 DEF DispatcherStep

LEMMA TakeStartEnds ==
    ASSUME BootInv, TakeStartEvent PROVE Ends'
<1>0. TypeOK /\ Ends /\ DispatcherStep /\ reg' = reg /\ producer' = producer
  BY BootParts DEF TakeStartEvent
<1>1. CASE producer = "install"
  <2>1. mail = << >> /\ DOMAIN waits = {}
    BY <1>0, <1>1 DEF Ends
  <2> QED BY <1>0, <2>1, IdleDispatcher, SameEnds
<1>2. CASE producer # "install"
  BY <1>0, <1>2 DEF Ends
<1> QED BY <1>1, <1>2

LEMMA TakeStartBoot ==
    ASSUME BootInv, StartedOnce, TakeStartEvent PROVE BootInv'
<1>0. /\ DriveInv /\ SweepInv /\ TypeOK /\ Ripe /\ IsABag(work) /\ drive.pc = "idle" /\ AfterEvent
      /\ DispatcherStep /\ reg' = reg /\ producer' = producer
  BY BootParts DEF TakeStartEvent
<1>1. drive'.id = drive.id /\ drive'.pc \in {"retire", "idle"}
  BY <1>0, AfterEventDrive
<1>2. DriveInv' /\ SweepInv' /\ Grow /\ JobsFlow /\ Ends'
  BY <1>0, <1>1, TakeStartDrive, DispatcherSound, DispatcherGrow, SameJobsFlow, TakeStartEnds
<1>3. PICK S : Finishing(S)
  BY <1>0, DispatcherEffect
<1>4. /\ Waiting /\ ready \subseteq ready'
      /\ \A i \in 1 .. Len(mail') : mail'[i].unit \in Reached \/ ~mail'[i].chain
      /\ \A v : (\E i \in 1 .. Len(mail') : mail'[i].unit = v)
                       => \E i \in 1 .. Len(mail) : mail[i].unit = v
      /\ \A v \in Unit : status'[v] # status[v] => v \in DOMAIN waits
  BY <1>0, DispatcherEffect
<1>5. /\ IsABag(work') /\ Tasks' = Tasks \cup S
      /\ \A x : x \notin S => Copies(work', x) = Copies(work, x)
      /\ \A x : Copies(work, x) \in Nat
  <2>1. \A x : Copies(work, x) \in Nat
    BY <1>0, CopiesAre
  <2>2. CASE work' = work /\ S = {}
    BY <1>0, <2>1, <2>2, SameTasks
  <2>3. CASE work' = work (+) SetToBag(S)
    <3>1. /\ IsABag(work') /\ Tasks' = Tasks \cup S
          /\ \A x : Copies(work', x) = Copies(work, x) + (IF x \in S THEN 1 ELSE 0)
      BY <1>0, <2>3, JoinTasks
    <3>2. ASSUME NEW x, x \notin S PROVE Copies(work', x) = Copies(work, x)
      <4>1. Copies(work', x) = Copies(work, x) + 0
        BY <3>1, <3>2
      <4> QED BY <2>1, <4>1
    <3> QED BY <2>1, <3>1, <3>2
  <2> QED BY <1>3, <2>2, <2>3 DEF Finishing
<1>6. \A x \in S : /\ Ready(x.unit) /\ Origin(x) /\ x.step = "finish" /\ x.by = "chain"
                   /\ x.unit \in ready' /\ Deferred(x.unit)
  <2> SUFFICES ASSUME NEW x \in S
               PROVE  /\ Ready(x.unit) /\ Origin(x) /\ x.step = "finish" /\ x.by = "chain"
                      /\ x.unit \in ready' /\ Deferred(x.unit)
    OBVIOUS
  <2>1. /\ x.step = "finish" /\ x.by = "chain" /\ ~x.chain /\ x.unit \in Deferring
        /\ x.unit \in ready' /\ status[x.unit] = "Starting" /\ Deferred(x.unit)
    BY <1>3 DEF Finishing
  <2>2. Ready(x.unit)
    BY <1>0, <2>1, GraphAssumption DEF Ripe, GraphAssumption
  <2>3. Origin(x)
    BY <2>1 DEF Origin
  <2> QED BY <2>1, <2>2, <2>3
<1>7. \A v : Deferred(v)' => Deferred(v)
  <2> SUFFICES ASSUME NEW v, Deferred(v)' PROVE Deferred(v)
    OBVIOUS
  <2>1. CASE \E i \in 1 .. Len(mail') : mail'[i].unit = v
    BY <1>4, <2>1 DEF Deferred
  <2>2. CASE v \in DOMAIN waits'
    BY <1>4, <2>2 DEF Waiting
  <2>3. CASE \E t \in Tasks' : t.unit = v /\ t.step = "finish"
    <3>1. PICK t \in Tasks' : t.unit = v /\ t.step = "finish"
      BY <2>3
    <3>2. CASE t \in S
      BY <1>6, <3>1, <3>2
    <3>3. CASE t \in Tasks
      BY <3>1, <3>3 DEF Deferred
    <3> QED BY <1>5, <3>2, <3>3
  <2> QED BY <2>1, <2>2, <2>3 DEF Deferred
<1>8. \A x : x.by = "job" \/ x.step = "locked" => Copies(work', x) <= Copies(work, x)
  <2> SUFFICES ASSUME NEW x, x.by = "job" \/ x.step = "locked"
               PROVE  Copies(work', x) <= Copies(work, x)
    OBVIOUS
  <2>1. Copies(work', x) = Copies(work, x)
    BY <1>5, <1>6
  <2> QED BY <1>5, <2>1
<1>9. Alone'
  BY <1>2, <1>5, <1>7, <1>8, AloneKept
<1>10. \A v \in Unit : status'[v] # status[v] => v \in Deferring /\ Deferred(v)
  BY <1>0, <1>4 DEF TypeOK, Deferred
<1>11. MountsFresh'
  <2>1. \A u \in Mounts \cap Unit : status'[u] = status[u]
    BY <1>10, GraphAssumption DEF GraphAssumption
  <2>2. \A x \in Tasks' \ Tasks : x.by # "job"
    BY <1>5, <1>6
  <2> QED BY <1>1, <2>1, <2>2, MountsKept
<1>12. Locks'
  <2>1. \A x \in Tasks : x.step = "locked" => status'[x.unit] = status[x.unit]
    <3> SUFFICES ASSUME NEW x \in Tasks, x.step = "locked" PROVE status'[x.unit] = status[x.unit]
      OBVIOUS
    <3>1. x.unit \in Unit
      BY <1>0, TaskType
    <3> QED BY <1>10, <3>1, DeferredAlone
  <2>2. \A u \in DOMAIN waits' : status'[u] = "Starting" /\ u \notin ready'
    BY <1>4 DEF Waiting
  <2>3. \A x \in Tasks' \ Tasks : x.step = "finish" => x.unit \in ready'
    BY <1>5, <1>6
  <2> QED BY <1>4, <1>5, <1>8, <1>11, <2>1, <2>2, <2>3, LocksKept
<1>13. \A x \in Tasks' \ Tasks :
         Ready(x.unit) /\ Origin(x) /\ (x.step = "err" => status'[x.unit] # "NeverStarted")
  BY <1>5, <1>6
<1>14. \A u \in DOMAIN waits' : ~waits'[u]
  BY <1>4 DEF Waiting
<1> QED BY <1>0, <1>1, <1>2, <1>4, <1>9, <1>12, <1>13, <1>14, BootTogether

-----------------------------------------------------------------------------
(* BootInv is inductive. *)

LEMMA BootStep ==
    ASSUME BootInv, StartedOnce, BootNext PROVE BootInv'
<1>1. ASSUME NEW t \in Tasks, BootWorker(t) PROVE BootInv'
  BY <1>1, WorkerBoot, MountBoot, JobLeaveBoot, JobErrorBoot DEF BootWorker
<1>2. CASE TakeWake \/ TakeStartEvent
  BY <1>2, TakeWakeBoot, TakeStartBoot
<1>3. CASE Drive
  BY <1>3, DriveRetireBoot, DrivePrimeBoot, DrivePopBoot, DriveLookBoot, DriveStartBoot DEF Drive
<1>4. ASSUME NEW id \in JobId, JobDue(id) PROVE BootInv'
  BY <1>4, JobDueBoot
<1>5. CASE Producer \/ Nudge \/ TopUp
  BY <1>5, InstallBoot, ProducerBoot, TopUpBoot DEF Producer
<1>6. ASSUME NEW u \in Unit, Plug(u) \/ OtherStart(u) PROVE BootInv'
  BY <1>6, PlugBoot, OtherStartBoot
<1> QED BY <1>1, <1>2, <1>3, <1>4, <1>5, <1>6 DEF BootNext

LEMMA BootStutters == ASSUME BootInv, UNCHANGED vars PROVE BootInv'
<1>1. /\ UNCHANGED sweepVars /\ UNCHANGED << status, work, mail, waits >>
      /\ reg' = reg /\ drive' = drive /\ producer' = producer
  BY DEF vars, bootVars, sweepVars
<1>2. DriveInv' /\ JobsFlow /\ Ends' /\ MountsFresh'
  BY <1>1, BootParts, DriveStutters, SameJobsFlow, SameEnds, QuietDrive
<1> QED BY <1>1, <1>2, RegistryBoot

LEMMA BootInitial == ASSUME BootInit PROVE BootInv
<1>0. /\ status = [u \in Unit |-> "NeverStarted"] /\ work = EmptyBag /\ mail = << >> /\ waits = << >>
      /\ Nothing /\ sweep = [pc |-> "idle", before |-> 0]
      /\ reg = EmptyRegistry /\ drive = Off /\ producer = "install"
  BY DEF BootInit, Nothing
<1>1. DriveInv
  BY DriveInitial
<1>2. SweepInv
  BY <1>0, NothingSound
<1>3. /\ Tasks = {} /\ Len(mail) = 0 /\ DOMAIN waits = {} /\ Installed(reg) = {}
      /\ drive.pc = "idle"
  BY <1>0 DEF Tasks, BagToSet, EmptyBag, SetToBag, EmptyRegistry, Installed, Off
<1>4. Ripe
  BY <1>0, <1>3 DEF Ripe
<1>5. Covered /\ Held /\ Ends
  BY <1>0, <1>3 DEF Covered, Held, Ends, Expired
<1>6. Origins
  BY <1>3 DEF Origins
<1>7. \A u : JobTasks(u) = {} /\ ~Deferred(u)
  BY <1>3 DEF JobTasks, Deferred
<1>8. Alone
  BY <1>7 DEF Alone
<1>9. Locks
  BY <1>3, <1>7 DEF Locks, LockedOnce, LockedStarts, MountsFresh, WaitsStart, FinishReady
<1> QED BY <1>1, <1>2, <1>4, <1>5, <1>6, <1>8, <1>9 DEF BootInv

LEMMA BootInvAlways == ASSUME StartedOnce PROVE BootSpec => []BootInv
<1>1. BootInit => BootInv
  BY BootInitial
<1>2. BootInv /\ [BootNext]_vars => BootInv'
  BY BootStep, BootStutters
<1> QED BY <1>1, <1>2, PTL DEF BootSpec

LEMMA CompleteFromInv == ASSUME BootInv PROVE BootComplete
<1>0. Covered /\ Ends /\ Sound(reg)
  BY BootParts
<1> SUFFICES ASSUME producer = "done", NEW u \in Closure, status[u] = "NeverStarted" PROVE FALSE
  BY DEF BootComplete
<1>1. u \in DOMAIN reg.byUnit
  BY <1>0 DEF Covered, UnitsWithJobs
<1>2. PICK id \in Installed(reg) : reg.jobs[id].unit = u
  BY <1>0, <1>1, RegistryFacts
<1> QED BY <1>0, <1>2 DEF Ends

(* In a boot whose units are started once, drive_run_queue and its workers *)
(* respect After= between any two units of the closure, as the sweep does: *)
(* is_ready is asked with an activation set that is a snapshot, and jobs   *)
(* stay queued while statuses change.                                      *)
THEOREM BootOrder ==
    ASSUME StartedOnce PROVE BootSpec => []OrderRespected
<1>1. BootInv => OrderRespected
  BY BootParts
<1> QED BY <1>1, BootInvAlways, PTL

(* In such a boot an empty registry means that the boot is over: when      *)
(* activate_needed_units_via_job_graph returns without its 300 s deadline, *)
(* no unit of the closure is NeverStarted, though the scan, the worker's   *)
(* error path and the 90 s deadlines all take jobs out of the registry.    *)
(* The producer's deadline may come at any time.                           *)
THEOREM BootIsComplete ==
    ASSUME StartedOnce PROVE BootSpec => []BootComplete
BY BootInvAlways, CompleteFromInv, PTL
=============================================================================
