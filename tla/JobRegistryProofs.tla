-------------------------- MODULE JobRegistryProofs --------------------------
(***************************************************************************)
(* Proofs about JobRegistry, for any number of units, owners, waiters and  *)
(* ids.  The inductive invariant adds to the invariants of JobRegistry     *)
(* that every id anybody knows of is below nextId: this is what keeps a    *)
(* new job from answering to an old id.  The argument about the registry   *)
(* itself is made once per method, in JobOpsProofs.                        *)
(***************************************************************************)
EXTENDS JobRegistry, JobOpsProofs

-----------------------------------------------------------------------------
(* The steps of the system. *)

(* h was issued an id of r, and the job of that id is still h's unit's.    *)
Known(h, r) ==
    /\ h.id < r.nextId
    /\ h.id \in Installed(r) => r.jobs[h.id].unit = h.unit

IInv ==
    /\ TypeOK
    /\ Sound(reg)
    /\ \A o \in Owner : Known(held[o], reg)
    /\ Known(drive, reg)

LEMMA KnownKept ==
    ASSUME NEW r, NEW s, Sound(r), Sound(s), Evolves(r, s),
           NEW h, h.id \in Nat, Known(h, r)
    PROVE  Known(h, s)
<1>1. r.nextId \in Nat /\ s.nextId \in Nat
  BY JobIdIsNat DEF Sound, IsRegistry
<1>2. h.id < s.nextId
  BY <1>1 DEF Known, Evolves
<1>3. ASSUME h.id \in Installed(s) PROVE s.jobs[h.id].unit = h.unit
  <2>1. ~(h.id >= r.nextId)
    BY <1>1 DEF Known
  <2> QED BY <1>3, <2>1 DEF Evolves, Known
<1> QED BY <1>2, <1>3 DEF Known

LEMMA AnswerType ==
    ASSUME replies \in [Waiter -> Seq(Result)], NEW ws, NEW result \in Result
    PROVE  Answer(ws, result) \in [Waiter -> Seq(Result)]
<1>1. \A w \in Waiter : Append(replies[w], result) \in Seq(Result)
  BY AppendProperties
<1> QED BY <1>1 DEF Answer

(* What is left to show of a step once the registry is known to evolve.    *)
LEMMA StepKept ==
    ASSUME IInv, Sound(reg'), Evolves(reg, reg'),
           held' \in [Owner -> Held \cup {Free}],
           drive' \in Driving \cup {Free},
           asked' \subseteq Waiter,
           replies' \in [Waiter -> Seq(Result)],
           \A o \in Owner : held'[o] = held[o] \/ Known(held'[o], reg'),
           drive' = drive \/ Known(drive', reg')
    PROVE  IInv'
<1>1. TypeOK'
  BY DEF Sound, TypeOK
<1>2. \A o \in Owner : held[o].id \in Nat
  BY JobIdIsNat DEF IInv, TypeOK, Held, Free, NoJob
<1>3. drive.id \in Nat
  BY JobIdIsNat DEF IInv, TypeOK, Driving, Free, NoJob
<1>4. ASSUME NEW o \in Owner PROVE Known(held'[o], reg')
  <2>1. Known(held[o], reg')
    BY <1>2, KnownKept DEF IInv
  <2> QED BY <2>1
<1>5. Known(drive', reg')
  <2>1. Known(drive, reg')
    BY <1>3, KnownKept DEF IInv
  <2> QED BY <2>1
<1> QED BY <1>1, <1>4, <1>5 DEF IInv

(* Nobody is told anything that is not so by forgetting.                   *)
LEMMA FreeKnown ==
    ASSUME NEW r, Sound(r)
    PROVE  Known(Free, r)
<1>1. r.nextId \in Nat /\ r.nextId # 0 /\ Installed(r) \subseteq JobId
  BY JobIdIsNat DEF Sound, IsRegistry, NoJob
<1>2. Free.id = 0 /\ 0 \notin Installed(r)
  BY <1>1, JobIdIsNat DEF Free, NoJob
<1> QED BY <1>1, <1>2 DEF Known

LEMMA ReleaseKept ==
    ASSUME IInv, Sound(reg'), NEW o \in Owner, Release(o)
    PROVE  /\ held' \in [Owner -> Held \cup {Free}]
           /\ \A p \in Owner : held'[p] = held[p] \/ Known(held'[p], reg')
<1>1. held \in [Owner -> Held \cup {Free}]
  BY DEF IInv, TypeOK
<1> QED BY <1>1, FreeKnown DEF Release

LEMMA TakeKept ==
    ASSUME IInv, NEW o \in Owner, NEW role \in Role, NEW u \in Unit,
           NEW id \in JobId, Take(o, role, u, id),
           id < reg'.nextId,
           id \in Installed(reg)' => reg'.jobs[id].unit = u
    PROVE  /\ held' \in [Owner -> Held \cup {Free}]
           /\ \A p \in Owner : held'[p] = held[p] \/ Known(held'[p], reg')
<1> DEFINE h == [role |-> role, unit |-> u, id |-> id]
<1>1. held \in [Owner -> Held \cup {Free}]
  BY DEF IInv, TypeOK
<1>2. h \in Held /\ h.id = id /\ h.unit = u
  BY DEF Held
<1>3. held' = [held EXCEPT ![o] = h]
  BY DEF Take
<1>4. Known(h, reg')
  BY <1>2 DEF Known, Installed
<1> HIDE DEF h
<1> QED BY <1>1, <1>2, <1>3, <1>4

(* The owner of a job that create returned.                                *)
LEMMA CreatorKept ==
    ASSUME IInv, IdsRemain, NEW o \in Owner, NEW role \in Role,
           NEW u \in Unit, NEW kind \in Kind, NEW mode,
           CreatedId(reg, u, kind, mode) # NoJob,
           Sound(reg'), Evolves(Create(reg, u, kind, mode), reg'),
           CreatedId(reg, u, kind, mode) \in Installed(reg'),
           Take(o, role, u, CreatedId(reg, u, kind, mode))
    PROVE  /\ held' \in [Owner -> Held \cup {Free}]
           /\ \A p \in Owner : held'[p] = held[p] \/ Known(held'[p], reg')
<1> DEFINE c  == Create(reg, u, kind, mode)
           id == CreatedId(reg, u, kind, mode)
<1>1. Sound(c) /\ id \in Installed(c) /\ c.jobs[id].unit = u
  BY CreateSound DEF IInv, IdsRemain
<1> HIDE DEF c, id
<1>2. id \in JobId /\ id \in Nat /\ c.nextId \in Nat /\ id < c.nextId
  BY <1>1, JobIdIsNat DEF Sound, IsRegistry, IdsBelow
<1>3. id \in JobId /\ id < reg'.nextId
  BY <1>2 DEF Sound, IdsBelow, IsRegistry, id
<1>4. reg'.jobs[id].unit = u
  BY <1>1, <1>2 DEF Evolves, c, id
<1> QED BY <1>3, <1>4, TakeKept DEF id

(* One lemma per group of actions: the registry stays sound and evolves,   *)
(* and what owners and the drive remember stays true of it.                *)
LEMMA FinishStep ==
    ASSUME IInv, NEW id, NEW result \in Result, DoFinish(id, result)
    PROVE  /\ Sound(reg') /\ Evolves(reg, reg')
           /\ replies' \in [Waiter -> Seq(Result)]
<1>1. Sound(reg') /\ Evolves(reg, reg')
  BY FinishSound DEF IInv, DoFinish
<1>2. replies' \in [Waiter -> Seq(Result)]
  BY AnswerType DEF IInv, TypeOK, DoFinish
<1> QED BY <1>1, <1>2

LEMMA CreateStep ==
    ASSUME IInv, IdsRemain, NEW u \in Unit, NEW kind \in Kind, NEW mode,
           AnswerSuperseded(u, kind, mode)
    PROVE  /\ Sound(Create(reg, u, kind, mode))
           /\ Evolves(reg, Create(reg, u, kind, mode))
           /\ replies' \in [Waiter -> Seq(Result)]
<1>1. replies' \in [Waiter -> Seq(Result)]
  BY AnswerType DEF IInv, TypeOK, AnswerSuperseded, Result
<1> QED BY <1>1, CreateSound DEF IInv, IdsRemain

LEMMA HandleStep ==
    ASSUME IInv, NEW o \in Owner,
           \/ \E u \in Unit, k \in Requested, m \in Mode : HandleCreate(o, u, k, m)
           \/ \E r \in {"Done", "Failed"} : HandleFinish(o, r)
           \/ HandlePark(o) \/ HandleResume(o)
    PROVE  IInv' /\ Evolves(reg, reg')
<1>1. Sound(reg) /\ TypeOK
  BY DEF IInv
<1>2. ASSUME NEW u \in Unit, NEW k \in Requested, NEW m \in Mode,
             HandleCreate(o, u, k, m)
      PROVE  IInv' /\ Evolves(reg, reg')
  <2> DEFINE c  == Create(reg, u, k, m)
             id == CreatedId(reg, u, k, m)
  <2>1. k \in Kind
    BY RequestedAssumption
  <2>2. Sound(c) /\ Evolves(reg, c) /\ replies' \in [Waiter -> Seq(Result)]
    BY <1>2, <2>1, CreateStep DEF HandleCreate
  <2>3. reg' = SetState(c, id, "Running")
    BY <1>2 DEF HandleCreate, SetRunning
  <2>4. id # NoJob => id \in Installed(c)
    BY <1>1, <1>2, <2>1, CreateSound DEF HandleCreate, IdsRemain
  <2> HIDE DEF c
  <2>5. Sound(reg') /\ Evolves(c, reg') /\ Installed(reg') = Installed(c)
    BY <2>2, <2>3, SetStateSound, SameInstalled DEF State
  <2>6. Evolves(reg, reg')
    BY <1>1, <2>2, <2>5, EvolvesTransitive
  <2>7. /\ held' \in [Owner -> Held \cup {Free}]
        /\ \A p \in Owner : held'[p] = held[p] \/ Known(held'[p], reg')
    <3>1. CASE id = NoJob
      BY <1>1, <1>2, <3>1 DEF HandleCreate, TypeOK
    <3>2. CASE id # NoJob
      BY <1>2, <2>1, <2>4, <2>5, <3>2, CreatorKept DEF HandleCreate, Role, c
    <3> QED BY <3>1, <3>2
  <2> QED BY <1>1, <1>2, <2>2, <2>5, <2>6, <2>7, StepKept
          DEF HandleCreate, TypeOK
<1>3. ASSUME NEW r \in {"Done", "Failed"}, HandleFinish(o, r)
      PROVE  IInv' /\ Evolves(reg, reg')
  <2>1. /\ Sound(reg') /\ Evolves(reg, reg')
        /\ replies' \in [Waiter -> Seq(Result)]
    BY <1>3, FinishStep DEF HandleFinish, Result
  <2> QED BY <1>1, <1>3, <2>1, ReleaseKept, StepKept DEF HandleFinish, TypeOK
<1>4. CASE HandlePark(o) \/ HandleResume(o)
  <2>1. Sound(reg') /\ Evolves(reg, reg')
    BY <1>1, <1>4, SetStateSound
       DEF HandlePark, HandleResume, SetWaiting, SetRunning, State
  <2> QED BY <1>1, <1>4, <2>1, StepKept DEF HandlePark, HandleResume, TypeOK
<1> QED BY <1>2, <1>3, <1>4

LEMMA TreeStep ==
    ASSUME IInv, NEW o \in Owner,
           \/ \E w \in Waiter, u \in Unit, m \in Mode : StopRequest(o, w, u, m)
           \/ \E u \in Unit : StopNoBlock(o, u)
           \/ TreeFinish(o)
    PROVE  IInv' /\ Evolves(reg, reg')
<1>1. Sound(reg) /\ TypeOK
  BY DEF IInv
<1>2. ASSUME NEW w \in Waiter, NEW u \in Unit, NEW m \in Mode,
             StopRequest(o, w, u, m)
      PROVE  IInv' /\ Evolves(reg, reg')
  <2> DEFINE c  == Create(reg, u, "Stop", m)
             id == CreatedId(reg, u, "Stop", m)
             d  == SetState(c, id, "Running")
  <2>1. "Stop" \in Kind
    BY DEF Kind
  <2>2. Sound(c) /\ Evolves(reg, c) /\ replies' \in [Waiter -> Seq(Result)]
    BY <1>2, <2>1, CreateStep DEF StopRequest
  <2>3. reg' = AddWaiter(d, id, w) /\ id # NoJob
    BY <1>2 DEF StopRequest, SetRunning
  <2>4. id \in Installed(c)
    BY <1>1, <1>2, <2>1, <2>3, CreateSound DEF StopRequest, IdsRemain
  <2> HIDE DEF c
  <2>5. Sound(d) /\ Evolves(c, d) /\ Installed(d) = Installed(c)
    BY <2>2, SetStateSound, SameInstalled DEF State
  <2> HIDE DEF d
  <2>6. Sound(reg') /\ Evolves(d, reg') /\ Installed(reg') = Installed(c)
    BY <2>3, <2>5, AddWaiterSound, SameInstalled
  <2>7. Evolves(c, reg')
    BY <2>2, <2>5, <2>6, EvolvesTransitive
  <2>8. Evolves(reg, reg')
    BY <1>1, <2>2, <2>6, <2>7, EvolvesTransitive
  <2>9. /\ held' \in [Owner -> Held \cup {Free}]
        /\ \A p \in Owner : held'[p] = held[p] \/ Known(held'[p], reg')
    BY <1>2, <2>1, <2>3, <2>4, <2>6, <2>7, CreatorKept DEF StopRequest, Role, c
  <2> QED BY <1>1, <1>2, <2>2, <2>6, <2>8, <2>9, StepKept
          DEF StopRequest, TypeOK
<1>3. ASSUME NEW u \in Unit, StopNoBlock(o, u)
      PROVE  IInv' /\ Evolves(reg, reg')
  <2> DEFINE c  == Create(reg, u, "Stop", "Replace")
             id == CreatedId(reg, u, "Stop", "Replace")
  <2>1. "Stop" \in Kind
    BY DEF Kind
  <2>2. Sound(c) /\ Evolves(reg, c) /\ replies' \in [Waiter -> Seq(Result)]
    BY <1>3, <2>1, CreateStep DEF StopNoBlock
  <2>3. reg' = SetState(c, id, "Running")
    BY <1>3 DEF StopNoBlock, SetRunning
  <2>4. id # NoJob
    BY <1>1, JobIdIsNat
       DEF CreatedId, Refuses, Merges, HasJob, Sound, IsRegistry
  <2>5. id \in Installed(c)
    BY <1>1, <1>3, <2>1, <2>4, CreateSound DEF StopNoBlock, IdsRemain
  <2> HIDE DEF c
  <2>6. Sound(reg') /\ Evolves(c, reg') /\ Installed(reg') = Installed(c)
    BY <2>2, <2>3, SetStateSound, SameInstalled DEF State
  <2>7. Evolves(reg, reg')
    BY <1>1, <2>2, <2>6, EvolvesTransitive
  <2>8. /\ held' \in [Owner -> Held \cup {Free}]
        /\ \A p \in Owner : held'[p] = held[p] \/ Known(held'[p], reg')
    BY <1>3, <2>1, <2>4, <2>5, <2>6, CreatorKept DEF StopNoBlock, Role, c
  <2> QED BY <1>1, <1>3, <2>2, <2>6, <2>7, <2>8, StepKept
          DEF StopNoBlock, TypeOK
<1>4. CASE TreeFinish(o)
  <2>1. /\ Sound(reg') /\ Evolves(reg, reg')
        /\ replies' \in [Waiter -> Seq(Result)]
    BY <1>4, FinishStep DEF TreeFinish, Result
  <2> QED BY <1>1, <1>4, <2>1, ReleaseKept, StepKept DEF TreeFinish, TypeOK
<1> QED BY <1>2, <1>3, <1>4

LEMMA MonitorStep ==
    ASSUME IInv, NEW o \in Owner,
           \/ \E u \in Unit : NoBlockCreate(o, u)
           \/ MonitorRun(o)
           \/ \E r \in {"Done", "Failed", "Canceled", "Timeout"} :
                MonitorFinish(o, r)
    PROVE  IInv' /\ Evolves(reg, reg')
<1>1. Sound(reg) /\ TypeOK
  BY DEF IInv
<1>2. ASSUME NEW u \in Unit, NoBlockCreate(o, u)
      PROVE  IInv' /\ Evolves(reg, reg')
  <2> DEFINE c  == Create(reg, u, "Start", "Replace")
             id == CreatedId(reg, u, "Start", "Replace")
  <2>1. "Start" \in Kind
    BY DEF Kind
  <2>2. Sound(c) /\ Evolves(reg, c) /\ replies' \in [Waiter -> Seq(Result)]
    BY <1>2, <2>1, CreateStep DEF NoBlockCreate
  <2>3. reg' = c
    BY <1>2 DEF NoBlockCreate
  <2>4. id # NoJob
    BY <1>1, JobIdIsNat
       DEF CreatedId, Refuses, Merges, HasJob, Sound, IsRegistry
  <2>5. id \in Installed(c)
    BY <1>1, <1>2, <2>1, <2>4, CreateSound DEF NoBlockCreate, IdsRemain
  <2> HIDE DEF c
  <2>6. Evolves(c, reg')
    BY <2>2, <2>3, EvolvesReflexive
  <2>7. /\ held' \in [Owner -> Held \cup {Free}]
        /\ \A p \in Owner : held'[p] = held[p] \/ Known(held'[p], reg')
    BY <1>2, <2>1, <2>2, <2>3, <2>4, <2>5, <2>6, CreatorKept
       DEF NoBlockCreate, Role, c
  <2> QED BY <1>1, <1>2, <2>2, <2>3, <2>7, StepKept DEF NoBlockCreate, TypeOK
<1>3. CASE MonitorRun(o)
  <2>1. Sound(reg') /\ Evolves(reg, reg')
    BY <1>1, <1>3, SetStateSound DEF MonitorRun, SetRunning, State
  <2> QED BY <1>1, <1>3, <2>1, StepKept DEF MonitorRun, TypeOK
<1>4. ASSUME NEW r \in {"Done", "Failed", "Canceled", "Timeout"},
             MonitorFinish(o, r)
      PROVE  IInv' /\ Evolves(reg, reg')
  <2>1. /\ Sound(reg') /\ Evolves(reg, reg')
        /\ replies' \in [Waiter -> Seq(Result)]
    BY <1>4, FinishStep DEF MonitorFinish, Result
  <2> QED BY <1>1, <1>4, <2>1, ReleaseKept, StepKept DEF MonitorFinish, TypeOK
<1> QED BY <1>2, <1>3, <1>4

LEMMA QueueStep ==
    ASSUME IInv,
           \/ \E u \in Unit : BootCreate(u)
           \/ \E ready \in SUBSET Unit : EnqueueReady(ready)
           \/ \E ns, ready \in SUBSET Unit : RequeueAfterFinish(ns, ready)
           \/ \E id \in JobId : DeadlinePasses(id)
    PROVE  IInv' /\ Evolves(reg, reg')
<1>1. Sound(reg) /\ TypeOK
  BY DEF IInv
<1>2. ASSUME NEW u \in Unit, BootCreate(u)
      PROVE  IInv' /\ Evolves(reg, reg')
  <2>1. /\ Sound(reg') /\ Evolves(reg, reg')
        /\ replies' \in [Waiter -> Seq(Result)]
    BY <1>2, CreateStep DEF BootCreate, Kind
  <2> QED BY <1>1, <1>2, <2>1, StepKept DEF BootCreate, TypeOK
<1>3. ASSUME NEW ready, EnqueueReady(ready)
      PROVE  IInv' /\ Evolves(reg, reg')
  <2>1. PICK ids \in IdOrder(ReadyIds(reg, ready)) : reg' = EnqueueAll(reg, ids)
    BY <1>3 DEF EnqueueReady
  <2>2. ReadyIds(reg, ready) \in SUBSET Enqueueable(reg)
    BY DEF ReadyIds
  <2>3. Sound(reg') /\ Evolves(reg, reg')
    BY <1>1, <2>1, <2>2, EnqueueAllSound
  <2> QED BY <1>1, <1>3, <2>3, StepKept DEF EnqueueReady, TypeOK
<1>4. ASSUME NEW ns, NEW ready, RequeueAfterFinish(ns, ready)
      PROVE  IInv' /\ Evolves(reg, reg')
  <2>1. PICK ids \in AnyOrder(NeighbourIds(reg, ns, ready)) :
               reg' = EnqueueAll(reg, ids)
    BY <1>4 DEF RequeueAfterFinish
  <2>2. NeighbourIds(reg, ns, ready) \in SUBSET Enqueueable(reg)
    BY DEF NeighbourIds
  <2>3. Sound(reg') /\ Evolves(reg, reg')
    BY <1>1, <2>1, <2>2, EnqueueAllSound
  <2> QED BY <1>1, <1>4, <2>3, StepKept DEF RequeueAfterFinish, TypeOK
<1>5. ASSUME NEW id \in JobId, DeadlinePasses(id)
      PROVE  IInv' /\ Evolves(reg, reg')
  <2>1. Sound(reg') /\ Evolves(reg, reg')
    BY <1>1, <1>5, DeadlineSound DEF DeadlinePasses, Deadline
  <2> QED BY <1>1, <1>5, <2>1, StepKept DEF DeadlinePasses, TypeOK
<1> QED BY <1>2, <1>3, <1>4, <1>5

LEMMA DriveStep ==
    ASSUME IInv,
           \/ \E id \in JobId, r \in {"Done", "Failed", "Canceled"} :
                DriveRetire(id, r)
           \/ \E id \in JobId : DriveExpire(id)
           \/ DrivePop \/ DrivePopNone \/ DriveLookup
           \/ DriveAlreadyStarted \/ DriveLeave
    PROVE  IInv' /\ Evolves(reg, reg')
<1>1. Sound(reg) /\ TypeOK
  BY DEF IInv
<1>2. ASSUME NEW id, NEW r \in {"Done", "Failed", "Canceled"},
             DriveRetire(id, r)
      PROVE  IInv' /\ Evolves(reg, reg')
  <2>1. /\ Sound(reg') /\ Evolves(reg, reg')
        /\ replies' \in [Waiter -> Seq(Result)]
    BY <1>2, FinishStep DEF DriveRetire, Result
  <2> QED BY <1>1, <1>2, <2>1, StepKept DEF DriveRetire, TypeOK
<1>3. ASSUME NEW id, DriveExpire(id)
      PROVE  IInv' /\ Evolves(reg, reg')
  <2>1. /\ Sound(reg') /\ Evolves(reg, reg')
        /\ replies' \in [Waiter -> Seq(Result)]
    BY <1>3, FinishStep DEF DriveExpire, Result
  <2> QED BY <1>1, <1>3, <2>1, StepKept DEF DriveExpire, TypeOK
<1>4. CASE DrivePop
  <2>1. PICK k \in 1 .. Len(reg.runQueue) :
          /\ reg' = PopReady(reg, k)
          /\ drive' = [role |-> "popped",
                       unit |-> reg.jobs[reg.runQueue[k]].unit,
                       id   |-> reg.runQueue[k]]
    BY <1>4 DEF DrivePop
  <2> DEFINE id == reg.runQueue[k]
  <2>2. Sound(reg') /\ Evolves(reg, reg')
    BY <1>1, <2>1, PopReadySound
  <2>3. id \in Installed(reg)
    BY <1>1 DEF Sound, QueueSound, Queued
  <2>4. /\ id \in JobId /\ id \in Nat /\ id < reg.nextId /\ reg.nextId \in Nat
        /\ reg.jobs[id].unit \in Unit
    BY <1>1, <2>3, JobIdIsNat DEF Sound, IsRegistry, IdsBelow, Job
  <2> HIDE DEF id
  <2>5. /\ drive' \in Driving /\ drive'.id = id
        /\ drive'.unit = reg.jobs[id].unit
    BY <2>1, <2>4 DEF Driving, id
  <2>6. Known(drive', reg)
    BY <2>4, <2>5 DEF Known
  <2>7. Known(drive', reg')
    BY <1>1, <2>2, <2>4, <2>5, <2>6, KnownKept
  <2> QED BY <1>1, <1>4, <2>2, <2>5, <2>7, StepKept DEF DrivePop, TypeOK
<1>5. CASE DrivePopNone
  <2>1. << >> \in Seq(JobId) /\ Len(<< >>) = 0
    OBVIOUS
  <2>2. NoDuplicates(<< >>) /\ \A i \in 1 .. Len(<< >>) : FALSE
    BY <2>1 DEF NoDuplicates
  <2>3. Sound(reg') /\ Evolves(reg, reg')
    BY <1>1, <1>5, <2>1, <2>2, QueueUpdateSound DEF DrivePopNone
  <2> QED BY <1>1, <1>5, <2>3, StepKept DEF DrivePopNone, TypeOK
<1>6. CASE DriveLookup
  <2>1. reg' = reg /\ Sound(reg') /\ Evolves(reg, reg')
    BY <1>1, <1>6, EvolvesReflexive DEF DriveLookup
  <2>2. drive \in Driving
    BY <1>1, <1>6 DEF DriveLookup, TypeOK, Free
  <2>3. drive' \in Driving \cup {Free} /\ Known(drive', reg')
    <3>1. CASE drive' = Free
      BY <2>1, <3>1, FreeKnown
    <3>2. CASE drive' = [drive EXCEPT !.role = "start"]
      <4>1. drive' \in Driving /\ drive'.id = drive.id /\ drive'.unit = drive.unit
        BY <2>2, <3>2 DEF Driving
      <4> QED BY <2>1, <4>1 DEF Known, IInv
    <3> QED BY <1>6, <3>1, <3>2 DEF DriveLookup
  <2> QED BY <1>1, <1>6, <2>1, <2>3, StepKept DEF DriveLookup, TypeOK
<1>7. CASE DriveAlreadyStarted
  <2>1. /\ Sound(reg') /\ Evolves(reg, reg')
        /\ replies' \in [Waiter -> Seq(Result)]
    BY <1>7, FinishStep DEF DriveAlreadyStarted, Result
  <2> QED BY <1>1, <1>7, <2>1, FreeKnown, StepKept
          DEF DriveAlreadyStarted, TypeOK
<1>8. CASE DriveLeave
  <2>1. Sound(reg') /\ Evolves(reg, reg')
    BY <1>1, <1>8, SetStateSound DEF DriveLeave, SetRunning, State
  <2> QED BY <1>1, <1>8, <2>1, FreeKnown, StepKept DEF DriveLeave, TypeOK
<1> QED BY <1>2, <1>3, <1>4, <1>5, <1>6, <1>7, <1>8

LEMMA WorkerStep ==
    ASSUME IInv, NEW o \in Owner,
           DriveDispatch(o) \/ WorkerFail(o) \/ WorkerReturn(o)
    PROVE  IInv' /\ Evolves(reg, reg')
<1>1. Sound(reg) /\ TypeOK
  BY DEF IInv
<1>2. CASE DriveDispatch(o)
  <2> DEFINE d == SetState(reg, drive.id, "Running")
  <2>1. Sound(d) /\ Evolves(reg, d)
    BY <1>1, SetStateSound DEF State
  <2>2. reg' = SetDeadline(d, drive.id)
    BY <1>2 DEF DriveDispatch, SetRunning
  <2> HIDE DEF d
  <2>3. Sound(reg') /\ Evolves(d, reg')
    BY <2>1, <2>2, DeadlineSound, EvolvesReflexive DEF SetDeadline, Deadline
  <2>4. Evolves(reg, reg')
    BY <1>1, <2>1, <2>3, EvolvesTransitive
  <2>5. drive \in Driving /\ drive.id \in JobId /\ drive.unit \in Unit
    BY <1>1, <1>2 DEF DriveDispatch, TypeOK, Free, Driving
  <2>6. Known(drive, reg')
    BY <1>1, <2>3, <2>4, <2>5, JobIdIsNat, KnownKept DEF IInv
  <2>7. /\ held' \in [Owner -> Held \cup {Free}]
        /\ \A p \in Owner : held'[p] = held[p] \/ Known(held'[p], reg')
    BY <1>2, <2>5, <2>6, TakeKept DEF DriveDispatch, Role, Known, Installed
  <2> QED BY <1>1, <1>2, <2>3, <2>4, <2>7, FreeKnown, StepKept
          DEF DriveDispatch, TypeOK
<1>3. CASE WorkerFail(o)
  <2>1. /\ Sound(reg') /\ Evolves(reg, reg')
        /\ replies' \in [Waiter -> Seq(Result)]
    BY <1>3, FinishStep DEF WorkerFail, Result
  <2> QED BY <1>1, <1>3, <2>1, ReleaseKept, StepKept DEF WorkerFail, TypeOK
<1>4. CASE WorkerReturn(o)
  <2>1. Sound(reg') /\ Evolves(reg, reg')
    BY <1>1, <1>4, EvolvesReflexive DEF WorkerReturn
  <2> QED BY <1>1, <1>4, <2>1, ReleaseKept, StepKept DEF WorkerReturn, TypeOK
<1> QED BY <1>2, <1>3, <1>4

-----------------------------------------------------------------------------
(* What the steps do to the accounts. *)

(* The account of one client, as WaiterAccounting has it.                  *)
Balanced(on, isAsked, heard) ==
    /\ ~isAsked => on = {} /\ heard = << >>
    /\ isAsked /\ heard = << >> => \E id \in on : on = {id}
    /\ isAsked /\ heard # << >> => on = {} /\ Len(heard) = 1

LEMMA AccountingIsBalance ==
    WaiterAccounting <=> \A w \in Waiter : Balanced(On(reg, w), w \in asked, replies[w])
  BY DEF WaiterAccounting, Balanced, On

(* One job goes and its clients are answered.                              *)
LEMMA AnswerBalanced ==
    ASSUME TypeOK, WaiterAccounting, NEW ws, NEW result \in Result,
           Wakes(reg, reg', ws), replies' = Answer(ws, result), asked' = asked
    PROVE  WaiterAccounting'
<1>1. SUFFICES ASSUME NEW w \in Waiter
               PROVE  Balanced(On(reg', w), w \in asked', replies'[w])
  BY DEF WaiterAccounting, Balanced, On
<1>2. Balanced(On(reg, w), w \in asked, replies[w]) /\ replies[w] \in Seq(Result)
  BY AccountingIsBalance DEF TypeOK
<1>3. PICK id \in JobId \cup {NoJob} : ws = Woken(reg, id)
             /\ On(reg', w) = On(reg, w) \ {id}
  BY DEF Wakes
<1>4. w \in ws <=> id \in On(reg, w)
  BY <1>3 DEF Woken, On
<1>5. CASE w \in ws
  <2>1. replies'[w] = Append(replies[w], result)
    BY <1>5 DEF Answer
  <2>2. On(reg, w) # {}
    BY <1>4, <1>5
  <2>3. w \in asked /\ replies[w] = << >> /\ On(reg, w) = {id}
    BY <1>2, <1>4, <1>5, <2>2 DEF Balanced
  <2>4. replies'[w] # << >> /\ Len(replies'[w]) = 1
    BY <2>1, <2>3
  <2> QED BY <1>3, <2>3, <2>4 DEF Balanced
<1>6. CASE w \notin ws
  <2>1. replies'[w] = replies[w] /\ On(reg', w) = On(reg, w)
    BY <1>3, <1>4, <1>6 DEF Answer
  <2> QED BY <1>2, <2>1
<1> QED BY <1>5, <1>6

LEMMA QuietBalanced ==
    ASSUME WaiterAccounting, SameClients(reg, reg'),
           replies' = replies, asked' = asked
    PROVE  WaiterAccounting'
<1>1. SUFFICES ASSUME NEW w \in Waiter
               PROVE  Balanced(On(reg', w), w \in asked', replies'[w])
  BY DEF WaiterAccounting, Balanced, On
<1> QED BY AccountingIsBalance DEF SameClients

(* stop_units_via_tree: the clients of a replaced job are answered, the    *)
(* new one is attached, in one critical section.                           *)
LEMMA StopRequestBalanced ==
    ASSUME IInv, WaiterAccounting, NEW o \in Owner, NEW w \in Waiter,
           NEW u \in Unit, NEW m \in Mode, StopRequest(o, w, u, m)
    PROVE  WaiterAccounting'
<1> DEFINE c  == Create(reg, u, "Stop", m)
           id == CreatedId(reg, u, "Stop", m)
           d  == SetState(c, id, "Running")
           ws == Superseded(reg, u, "Stop", m)
<1>1. /\ id # NoJob /\ w \notin asked /\ asked' = asked \cup {w}
      /\ reg' = AddWaiter(d, id, w) /\ replies' = Answer(ws, "Canceled")
      /\ reg.nextId < MaxId
  BY DEF StopRequest, SetRunning, AnswerSuperseded, IdsRemain
<1>2. Sound(c) /\ id \in Installed(c)
  BY <1>1, CreateSound DEF IInv, Kind
<1>3. Wakes(reg, c, ws)
  BY CreateWakes DEF IInv, Kind
<1> HIDE DEF c, id, ws
<1>4. Sound(d) /\ id \in Installed(d) /\ SameClients(c, d)
  BY <1>2, SetStateSound, SameInstalled, FieldsKeepClients DEF State
<1> HIDE DEF d
<1>5. PICK gone \in JobId \cup {NoJob} :
        /\ ws = Woken(reg, gone)
        /\ \A x \in Waiter : On(c, x) = On(reg, x) \ {gone}
  BY <1>3 DEF Wakes
<1>6. \A x \in Waiter : On(reg', x) = IF x = w THEN On(d, x) \cup {id} ELSE On(d, x)
  BY <1>1, <1>4, AddWaiterAttaches
<1>7. SUFFICES ASSUME NEW x \in Waiter
               PROVE  Balanced(On(reg', x), x \in asked', replies'[x])
  BY DEF WaiterAccounting, Balanced, On
<1>8. Balanced(On(reg, x), x \in asked, replies[x]) /\ replies[x] \in Seq(Result)
  BY AccountingIsBalance DEF IInv, TypeOK
<1>9. On(d, x) = On(reg, x) \ {gone} /\ (x \in ws <=> gone \in On(reg, x))
  BY <1>4, <1>5 DEF SameClients, Woken, On
<1>10. replies'[x] = IF x \in ws THEN Append(replies[x], "Canceled") ELSE replies[x]
  BY <1>1 DEF Answer
<1>11. CASE x = w
  <2>1. On(reg, x) = {} /\ replies[x] = << >>
    BY <1>1, <1>8, <1>11 DEF Balanced
  <2>2. On(reg', x) = {id} /\ replies'[x] = << >> /\ x \in asked'
    BY <1>1, <1>6, <1>9, <1>10, <1>11, <2>1
  <2> QED BY <2>2 DEF Balanced
<1>12. CASE x # w
  <2>1. On(reg', x) = On(reg, x) \ {gone} /\ (x \in asked' <=> x \in asked)
    BY <1>1, <1>6, <1>9, <1>12
  <2>2. CASE x \in ws
    <3>1. x \in asked /\ replies[x] = << >> /\ On(reg, x) = {gone}
      BY <1>8, <1>9, <2>2 DEF Balanced
    <3>2. replies'[x] # << >> /\ Len(replies'[x]) = 1
      BY <1>10, <2>2, <3>1
    <3> QED BY <2>1, <3>1, <3>2 DEF Balanced
  <2>3. CASE x \notin ws
    BY <1>8, <1>9, <1>10, <2>1, <2>3 DEF Balanced
  <2> QED BY <2>2, <2>3
<1> QED BY <1>11, <1>12

(* A create nobody waits for, with or without the set_running after it.    *)
LEMMA CreateBalanced ==
    ASSUME IInv, WaiterAccounting, IdsRemain, NEW u \in Unit, NEW kind \in Kind,
           NEW mode \in Mode, NEW id,
           \/ reg' = Create(reg, u, kind, mode)
           \/ reg' = SetRunning(Create(reg, u, kind, mode), id),
           AnswerSuperseded(u, kind, mode), asked' = asked
    PROVE  WaiterAccounting'
<1> DEFINE c  == Create(reg, u, kind, mode)
           ws == Superseded(reg, u, kind, mode)
<1>1. Sound(c) /\ Wakes(reg, c, ws)
  BY CreateSound, CreateWakes DEF IInv, IdsRemain
<1>2. SameClients(c, reg')
  <2>1. reg' = c \/ reg' = SetState(c, id, "Running")
    BY DEF SetRunning
  <2>2. SameClients(c, c)
    BY DEF SameClients
  <2> HIDE DEF c
  <2>3. SameClients(c, SetState(c, id, "Running"))
    BY <1>1, FieldsKeepClients
  <2> QED BY <2>1, <2>2, <2>3
<1>3. Wakes(reg, reg', ws)
  BY <1>1, <1>2 DEF Wakes, SameClients
<1>4. replies' = Answer(ws, "Canceled")
  BY DEF AnswerSuperseded
<1> HIDE DEF c, ws
<1> QED BY <1>3, <1>4, AnswerBalanced DEF IInv, Result

LEMMA FinishBalanced ==
    ASSUME IInv, WaiterAccounting, NEW id \in JobId \cup {NoJob},
           NEW result \in Result, DoFinish(id, result), asked' = asked
    PROVE  WaiterAccounting'
<1>1. Wakes(reg, reg', Woken(reg, id)) /\ replies' = Answer(Woken(reg, id), result)
  BY FinishWakes DEF IInv, DoFinish
<1> QED BY <1>1, AnswerBalanced DEF IInv

(* The steps that answer nobody.                                           *)
LEMMA QuietStep ==
    ASSUME IInv,
           \/ \E o \in Owner : \/ HandlePark(o) \/ HandleResume(o)
                               \/ MonitorRun(o) \/ DriveDispatch(o)
                               \/ WorkerReturn(o)
           \/ \E ready \in SUBSET Unit : EnqueueReady(ready)
           \/ \E ns, ready \in SUBSET Unit : RequeueAfterFinish(ns, ready)
           \/ \E id \in JobId : DeadlinePasses(id)
           \/ DrivePop \/ DrivePopNone \/ DriveLookup \/ DriveLeave
    PROVE  SameClients(reg, reg') /\ replies' = replies /\ asked' = asked
<1>1. Sound(reg)
  BY DEF IInv
<1>0. SameClients(reg, reg)
  BY DEF SameClients
<1>2. ASSUME NEW o \in Owner,
             HandlePark(o) \/ HandleResume(o) \/ MonitorRun(o) \/ WorkerReturn(o)
      PROVE  SameClients(reg, reg') /\ replies' = replies /\ asked' = asked
  <2>1. /\ SameClients(reg, SetState(reg, held[o].id, "Running"))
        /\ SameClients(reg, SetState(reg, held[o].id, "Waiting"))
    BY <1>1, FieldsKeepClients
  <2> QED BY <1>0, <1>2, <2>1
          DEF HandlePark, HandleResume, MonitorRun, WorkerReturn, SetWaiting,
              SetRunning
<1>3. ASSUME NEW o \in Owner, DriveDispatch(o)
      PROVE  SameClients(reg, reg') /\ replies' = replies /\ asked' = asked
  <2> DEFINE d == SetState(reg, drive.id, "Running")
  <2>1. reg' = SetDeadline(d, drive.id) /\ replies' = replies /\ asked' = asked
    BY <1>3 DEF DriveDispatch, SetRunning
  <2>2. Sound(d) /\ SameClients(reg, d)
    BY <1>1, SetStateSound, FieldsKeepClients DEF State
  <2> HIDE DEF d
  <2>3. SameClients(d, reg')
    BY <2>1, <2>2, FieldsKeepClients
  <2> QED BY <2>1, <2>2, <2>3 DEF SameClients
<1>4. ASSUME NEW ready, EnqueueReady(ready)
      PROVE  SameClients(reg, reg') /\ replies' = replies /\ asked' = asked
  <2>1. PICK ids : reg' = [reg EXCEPT !.runQueue = reg.runQueue \o ids]
    BY <1>4 DEF EnqueueReady, EnqueueAll
  <2> QED BY <1>1, <1>4, <2>1, FieldsKeepClients DEF EnqueueReady
<1>5. ASSUME NEW ns, NEW ready, RequeueAfterFinish(ns, ready)
      PROVE  SameClients(reg, reg') /\ replies' = replies /\ asked' = asked
  <2>1. PICK ids : reg' = [reg EXCEPT !.runQueue = reg.runQueue \o ids]
    BY <1>5 DEF RequeueAfterFinish, EnqueueAll
  <2> QED BY <1>1, <1>5, <2>1, FieldsKeepClients DEF RequeueAfterFinish
<1>6. ASSUME NEW id \in JobId, DeadlinePasses(id)
      PROVE  SameClients(reg, reg') /\ replies' = replies /\ asked' = asked
  BY <1>1, <1>6, FieldsKeepClients DEF DeadlinePasses
<1>7. CASE DrivePop
  <2>1. PICK k \in 1 .. Len(reg.runQueue) : reg' = PopReady(reg, k)
    BY <1>7 DEF DrivePop
  <2> DEFINE q  == SubSeq(reg.runQueue, k + 1, Len(reg.runQueue))
             id == reg.runQueue[k]
             s  == [reg EXCEPT !.runQueue = q]
  <2>2. /\ reg = [nextId |-> reg.nextId, jobs |-> reg.jobs,
                  byUnit |-> reg.byUnit, runQueue |-> reg.runQueue]
        /\ id \in Installed(reg) /\ reg.jobs \in [Installed(reg) -> Job]
    BY <1>1 DEF Sound, IsRegistry, QueueSound, Queued
  <2> HIDE DEF q, id
  <2>3. reg' = [nextId |-> reg.nextId,
                jobs |-> [reg.jobs EXCEPT ![id].state = "Running"],
                byUnit |-> reg.byUnit, runQueue |-> q]
    BY <2>1, <2>2 DEF PopReady, q, id
  <2>4. SameClients(reg, reg')
    BY <2>2, <2>3 DEF SameClients, On, Installed, Job
  <2> QED BY <1>7, <2>4 DEF DrivePop
<1>8. CASE DrivePopNone \/ DriveLookup \/ DriveLeave
  <2>1. /\ SameClients(reg, SetState(reg, drive.id, "Running"))
        /\ SameClients(reg, [reg EXCEPT !.runQueue = << >>])
    BY <1>1, FieldsKeepClients
  <2> QED BY <1>0, <1>8, <2>1 DEF DrivePopNone, DriveLookup, DriveLeave, SetRunning
<1> QED BY <1>2, <1>3, <1>4, <1>5, <1>6, <1>7, <1>8

(* The steps that create a job.                                            *)
LEMMA CreatingStep ==
    ASSUME IInv, WaiterAccounting, NEW u \in Unit,
           \/ BootCreate(u)
           \/ \E o \in Owner :
                \/ \E k \in Requested, m \in Mode : HandleCreate(o, u, k, m)
                \/ \E w \in Waiter, m \in Mode : StopRequest(o, w, u, m)
                \/ StopNoBlock(o, u) \/ NoBlockCreate(o, u)
    PROVE  WaiterAccounting'
<1>1. /\ "Start" \in Kind /\ "Stop" \in Kind /\ "Replace" \in Mode
      /\ Requested \subseteq Kind
  BY RequestedAssumption DEF Kind, Mode
<1>2. ASSUME NEW o \in Owner, NEW k \in Requested, NEW m \in Mode,
             HandleCreate(o, u, k, m)
      PROVE  WaiterAccounting'
  BY <1>1, <1>2, CreateBalanced DEF HandleCreate
<1>3. ASSUME NEW o \in Owner, StopNoBlock(o, u) \/ NoBlockCreate(o, u)
      PROVE  WaiterAccounting'
  BY <1>1, <1>3, CreateBalanced DEF StopNoBlock, NoBlockCreate
<1>4. CASE BootCreate(u)
  BY <1>1, <1>4, CreateBalanced DEF BootCreate
<1> QED BY <1>2, <1>3, <1>4, StopRequestBalanced

(* The steps that finish one.                                              *)
LEMMA FinishingStep ==
    ASSUME IInv, WaiterAccounting,
           \/ \E o \in Owner :
                \/ \E r \in {"Done", "Failed"} : HandleFinish(o, r)
                \/ \E r \in {"Done", "Failed", "Canceled", "Timeout"} :
                     MonitorFinish(o, r)
                \/ TreeFinish(o) \/ WorkerFail(o)
           \/ \E id \in JobId :
                \/ \E r \in {"Done", "Failed", "Canceled"} : DriveRetire(id, r)
                \/ DriveExpire(id)
           \/ DriveAlreadyStarted
    PROVE  WaiterAccounting'
<1>1. /\ \A o \in Owner : held[o].id \in JobId \cup {NoJob}
      /\ drive.id \in JobId \cup {NoJob}
  BY DEF IInv, TypeOK, Held, Free, Driving
<1>2. {"Done", "Failed", "Canceled", "Timeout"} \subseteq Result
  BY DEF Result
<1>3. ASSUME NEW o \in Owner,
             NEW r \in {"Done", "Failed", "Canceled", "Timeout"},
             HandleFinish(o, r) \/ MonitorFinish(o, r)
      PROVE  WaiterAccounting'
  BY <1>1, <1>2, <1>3, FinishBalanced DEF HandleFinish, MonitorFinish
<1>4. ASSUME NEW o \in Owner, TreeFinish(o) \/ WorkerFail(o)
      PROVE  WaiterAccounting'
  BY <1>1, <1>2, <1>4, FinishBalanced DEF TreeFinish, WorkerFail
<1>5. ASSUME NEW id \in JobId, NEW r \in {"Done", "Failed", "Canceled"},
             DriveRetire(id, r)
      PROVE  WaiterAccounting'
  BY <1>2, <1>5, FinishBalanced DEF DriveRetire
<1>6. ASSUME NEW id \in JobId, DriveExpire(id) PROVE WaiterAccounting'
  BY <1>2, <1>6, FinishBalanced DEF DriveExpire
<1>7. CASE DriveAlreadyStarted
  BY <1>1, <1>2, <1>7, FinishBalanced DEF DriveAlreadyStarted
<1> QED BY <1>3, <1>4, <1>5, <1>6, <1>7

-----------------------------------------------------------------------------
(* The theorems. *)

LEMMA InitInductive == Init => IInv
<1> SUFFICES ASSUME Init PROVE IInv
  OBVIOUS
<1>1. Sound(reg) /\ IsRegistry(reg)
  BY EmptySound DEF Init, Sound
<1>2. TypeOK
  BY <1>1 DEF Init, TypeOK
<1> QED BY <1>1, <1>2, FreeKnown DEF Init, IInv

LEMMA NextInductive == IInv /\ [Next]_vars => IInv' /\ Evolves(reg, reg')
<1> SUFFICES ASSUME IInv, [Next]_vars PROVE IInv' /\ Evolves(reg, reg')
  OBVIOUS
<1>1. CASE UNCHANGED vars
  <2>1. Sound(reg) /\ TypeOK
    BY DEF IInv
  <2>2. Sound(reg') /\ Evolves(reg, reg')
    BY <1>1, <2>1, EvolvesReflexive DEF vars
  <2> QED BY <1>1, <2>1, <2>2, StepKept DEF vars, TypeOK
<1>2. CASE Next
  BY <1>2, HandleStep, TreeStep, MonitorStep, QueueStep, DriveStep, WorkerStep
     DEF Next
<1> QED BY <1>1, <1>2

(* The state keeps its types: no method writes a value that jobs.rs's      *)
(* types exclude, whatever owners call in whatever order.                  *)
THEOREM TypeCorrect == Spec => []TypeOK
<1>1. IInv => TypeOK
  BY DEF IInv
<1> QED BY InitInductive, NextInductive, <1>1, PTL DEF Spec

(* by_unit and jobs stay inverse to each other under create, finish and    *)
(* every other method: a unit never has two jobs and create never indexes  *)
(* jobs with a dangling id.                                                *)
THEOREM UniqueJobs == Spec => []OneJobPerUnit
<1>1. IInv => OneJobPerUnit
  BY DEF IInv, Sound, IndexSound, OneJobPerUnit
<1> QED BY InitInductive, NextInductive, <1>1, PTL DEF Spec

(* The run queue never holds an id twice or the id of a job that is gone.  *)
THEOREM QueueCorrect == Spec => []RunQueueSound
<1>1. IInv => RunQueueSound
  BY DEF IInv, Sound, QueueSound, NoDuplicates, RunQueueSound
<1> QED BY InitInductive, NextInductive, <1>1, PTL DEF Spec

LEMMA BalanceInductive ==
    IInv /\ WaiterAccounting /\ [Next]_vars => WaiterAccounting'
<1> SUFFICES ASSUME IInv, WaiterAccounting, [Next]_vars PROVE WaiterAccounting'
  OBVIOUS
<1>1. CASE UNCHANGED vars
  BY <1>1, QuietBalanced DEF vars, SameClients
<1>2. CASE Next
  BY <1>2, CreatingStep, FinishingStep, QuietStep, QuietBalanced DEF Next
<1> QED BY <1>1, <1>2

(* A client blocked on a stop hears of it exactly once, whatever is merged *)
(* with its job, replaces it, times it out or finishes it a second time:   *)
(* until then its reply channel is kept by exactly one installed job.      *)
THEOREM EveryClientHearsOnce == Spec => []WaiterAccounting
<1>1. Init => WaiterAccounting
  BY DEF Init, EmptyRegistry, WaiterAccounting, Installed
<1> QED BY <1>1, InitInductive, NextInductive, BalanceInductive, PTL DEF Spec

(* A finish that arrives late, from a thread whose job was replaced, timed *)
(* out or retired meanwhile, never completes the job of another unit.      *)
THEOREM LateFinishHarmless == Spec => []HoldersMatch
<1>1. IInv => HoldersMatch
  BY DEF IInv, Known, HoldersMatch
<1> QED BY InitInductive, NextInductive, <1>1, PTL DEF Spec

(* merge_kinds, under any interleaving of its callers, never turns an      *)
(* installed job into one that does less, and no id is given to a new job  *)
(* while an old one has it.                                                *)
THEOREM MergeKeepsPromise == Spec => NoDowngrade
<1> DEFINE Kept == \A id \in Installed(reg) \cap DOMAIN reg'.jobs :
                     Includes(reg'.jobs[id].kind, reg.jobs[id].kind)
<1>1. IInv /\ [Next]_vars => [Kept]_vars
  <2> SUFFICES ASSUME IInv, [Next]_vars,
                      NEW id \in Installed(reg) \cap DOMAIN reg'.jobs
               PROVE  Includes(reg'.jobs[id].kind, reg.jobs[id].kind)
    OBVIOUS
  <2>1. Evolves(reg, reg')
    BY NextInductive
  <2>2. id \in Nat /\ reg.nextId \in Nat /\ id < reg.nextId
    BY JobIdIsNat DEF IInv, Sound, IdsBelow, IsRegistry
  <2>3. id \in Installed(reg')
    BY DEF Installed
  <2> QED BY <2>1, <2>2, <2>3 DEF Evolves
<1> HIDE DEF Kept
<1>2. Spec => [][Kept]_vars
  BY <1>1, InitInductive, NextInductive, PTL DEF Spec
<1> QED BY <1>2 DEF NoDowngrade, Kept
=============================================================================
