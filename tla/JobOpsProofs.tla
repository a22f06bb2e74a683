---------------------------- MODULE JobOpsProofs ----------------------------
(***************************************************************************)
(* Lemmas about the methods of the job registry, on registry values, for   *)
(* the proofs of the modules that keep a registry.  Sound(r) is kept by    *)
(* every method (...Sound lemmas), the new registry evolves from the old   *)
(* one (Evolves), and a blocked client stays with its job until it is      *)
(* answered (Wakes, SameClients).                                          *)
(***************************************************************************)
EXTENDS JobOps, FiniteSetTheorems, SequenceTheorems, TLAPS

IndexSound(r) ==
    /\ \A u \in DOMAIN r.byUnit :
         /\ r.byUnit[u] \in Installed(r)
         /\ r.jobs[r.byUnit[u]].unit = u
    /\ \A id \in Installed(r) :
         /\ HasJob(r, r.jobs[id].unit)
         /\ r.byUnit[r.jobs[id].unit] = id

NoDuplicates(q) == \A i, j \in 1 .. Len(q) : i # j => q[i] # q[j]

QueueSound(r) == Queued(r) \subseteq Installed(r) /\ NoDuplicates(r.runQueue)

IdsBelow(r) == \A id \in Installed(r) : id < r.nextId

Sound(r) == IsRegistry(r) /\ IndexSound(r) /\ QueueSound(r) /\ IdsBelow(r)

(* What a step may do to a registry r: an old job keeps its unit and is    *)
(* not downgraded, a new job has a new id.                                 *)
Evolves(r, s) ==
    /\ r.nextId <= s.nextId
    /\ \A id \in Installed(s) :
         \/ /\ id \in Installed(r)
            /\ s.jobs[id].unit = r.jobs[id].unit
            /\ Includes(s.jobs[id].kind, r.jobs[id].kind)
         \/ id >= r.nextId

-----------------------------------------------------------------------------
(* The run queue. *)

(* VecDeque::retain drops the id and keeps everything else once.           *)
LEMMA RetainProps ==
    ASSUME NEW q \in Seq(JobId), NEW id, NoDuplicates(q)
    PROVE  /\ Retain(q, id) \in Seq(JobId)
           /\ NoDuplicates(Retain(q, id))
           /\ \A i \in 1 .. Len(Retain(q, id)) :
                /\ Retain(q, id)[i] # id
                /\ \E j \in 1 .. Len(q) : Retain(q, id)[i] = q[j]
<1> DEFINE at == {i \in 1 .. Len(q) : q[i] = id}
<1>1. CASE at = {}
  BY <1>1 DEF Retain, NoDuplicates
<1>2. CASE at # {}
  <2> DEFINE k == CHOOSE i \in at : TRUE
  <2>1. k \in 1 .. Len(q) /\ q[k] = id
    BY <1>2
  <2> DEFINE a == SubSeq(q, 1, k - 1)
             b == SubSeq(q, k + 1, Len(q))
             s == a \o b
  <2>2. Retain(q, id) = s
    BY <1>2 DEF Retain
  <2> HIDE DEF k
  <2>3. a \in Seq(JobId) /\ Len(a) = k - 1 /\ \A i \in 1 .. k - 1 : a[i] = q[i]
    BY <2>1
  <2>4. b \in Seq(JobId) /\ Len(b) = Len(q) - k
        /\ \A i \in 1 .. Len(q) - k : b[i] = q[i + k]
    BY <2>1
  <2> HIDE DEF a, b
  <2>9. /\ s \in Seq(JobId)
        /\ Len(s) = Len(a) + Len(b)
        /\ \A i \in 1 .. Len(a) + Len(b) :
             s[i] = IF i <= Len(a) THEN a[i] ELSE b[i - Len(a)]
    BY <2>3, <2>4, ConcatProperties
  <2> HIDE DEF s
  <2>5. s \in Seq(JobId) /\ Len(s) = Len(q) - 1
    BY <2>1, <2>3, <2>4, <2>9
  <2>6. \A i \in 1 .. Len(q) - 1 : s[i] = IF i < k THEN q[i] ELSE q[i + 1]
    BY <2>1, <2>3, <2>4, <2>9
  <2>7. NoDuplicates(s)
    BY <2>1, <2>5, <2>6 DEF NoDuplicates
  <2>8. \A i \in 1 .. Len(s) : s[i] # id /\ \E j \in 1 .. Len(q) : s[i] = q[j]
    <3> SUFFICES ASSUME NEW i \in 1 .. Len(s)
                 PROVE  s[i] # id /\ \E j \in 1 .. Len(q) : s[i] = q[j]
      OBVIOUS
    <3>1. CASE i < k
      <4>1. i \in 1 .. Len(q) /\ s[i] = q[i] /\ i # k
        BY <3>1, <2>1, <2>5, <2>6
      <4> QED BY <4>1, <2>1 DEF NoDuplicates
    <3>2. CASE ~(i < k)
      <4>1. i + 1 \in 1 .. Len(q) /\ s[i] = q[i + 1] /\ i + 1 # k
        BY <3>2, <2>1, <2>5, <2>6
      <4> QED BY <4>1, <2>1 DEF NoDuplicates
    <3> QED BY <3>1, <3>2
  <2> QED BY <2>2, <2>5, <2>7, <2>8
<1> QED BY <1>1, <1>2

(* A sequence of distinct queueable ids goes behind the queue.             *)
LEMMA AppendedQueue ==
    ASSUME NEW q \in Seq(JobId), NoDuplicates(q),
           NEW ids \in Seq(JobId), NoDuplicates(ids),
           \A i \in 1 .. Len(q), j \in 1 .. Len(ids) : q[i] # ids[j]
    PROVE  /\ q \o ids \in Seq(JobId)
           /\ NoDuplicates(q \o ids)
           /\ \A i \in 1 .. Len(q \o ids) :
                \/ \E j \in 1 .. Len(q) : (q \o ids)[i] = q[j]
                \/ \E j \in 1 .. Len(ids) : (q \o ids)[i] = ids[j]
<1> DEFINE s == q \o ids
<1>1. /\ s \in Seq(JobId)
      /\ Len(s) = Len(q) + Len(ids)
      /\ \A i \in 1 .. Len(q) + Len(ids) :
           s[i] = IF i <= Len(q) THEN q[i] ELSE ids[i - Len(q)]
  BY ConcatProperties
<1> HIDE DEF s
<1>2. ASSUME NEW i \in 1 .. Len(s), NEW j \in 1 .. Len(s), i # j
      PROVE  s[i] # s[j]
  <2>1. CASE i <= Len(q) /\ j <= Len(q)
    BY <1>1, <1>2, <2>1 DEF NoDuplicates
  <2>2. CASE i <= Len(q) /\ ~(j <= Len(q))
    <3>1. j - Len(q) \in 1 .. Len(ids) /\ i \in 1 .. Len(q)
      BY <1>1, <2>2
    <3> QED BY <1>1, <2>2, <3>1
  <2>3. CASE ~(i <= Len(q)) /\ j <= Len(q)
    <3>1. i - Len(q) \in 1 .. Len(ids) /\ j \in 1 .. Len(q)
      BY <1>1, <2>3
    <3> QED BY <1>1, <2>3, <3>1
  <2>4. CASE ~(i <= Len(q)) /\ ~(j <= Len(q))
    <3>1. /\ i - Len(q) \in 1 .. Len(ids)
          /\ j - Len(q) \in 1 .. Len(ids)
          /\ i - Len(q) # j - Len(q)
      BY <1>1, <1>2, <2>4
    <3>2. ids[i - Len(q)] # ids[j - Len(q)]
      BY <3>1 DEF NoDuplicates
    <3> QED BY <1>1, <2>4, <3>2
  <2> QED BY <2>1, <2>2, <2>3, <2>4
<1>3. ASSUME NEW i \in 1 .. Len(s)
      PROVE  \/ \E j \in 1 .. Len(q) : s[i] = q[j]
             \/ \E j \in 1 .. Len(ids) : s[i] = ids[j]
  <2>1. CASE i <= Len(q)
    BY <1>1, <2>1
  <2>2. CASE ~(i <= Len(q))
    <3>1. i - Len(q) \in 1 .. Len(ids) /\ s[i] = ids[i - Len(q)]
      BY <1>1, <2>2
    <3> QED BY <3>1
  <2> QED BY <2>1, <2>2
<1> QED BY <1>1, <1>2, <1>3 DEF s, NoDuplicates

(* An enumeration of a set of ids, in any order, is a sequence that holds  *)
(* each of them once.                                                      *)
LEMMA OrderProps ==
    ASSUME NEW S \in SUBSET JobId, NEW ids \in AnyOrder(S) \cup IdOrder(S)
    PROVE  /\ ids \in Seq(JobId)
           /\ NoDuplicates(ids)
           /\ \A i \in 1 .. Len(ids) : ids[i] \in S
<1>1. IsFiniteSet(S)
  <2>1. IsFiniteSet(1 .. MaxId)
    BY MaxIdAssumption, FS_Interval
  <2>2. S \in SUBSET (1 .. MaxId)
    BY DEF JobId
  <2> QED BY <2>1, <2>2, FS_Subset
<1>2. Cardinality(S) \in Nat
  BY <1>1, FS_CardinalityType
<1> DEFINE n == Cardinality(S)
<1>3. ids \in [1 .. n -> S]
  BY DEF AnyOrder, IdOrder
<1>4. \A i, j \in 1 .. n : i # j => ids[i] # ids[j]
  <2>1. CASE ids \in AnyOrder(S)
    BY <2>1 DEF AnyOrder
  <2>2. CASE ids \in IdOrder(S)
    <3>1. \A i, j \in 1 .. n : i < j => ids[i] < ids[j]
      BY <2>2 DEF IdOrder
    <3>9. \A x \in JobId : x \in Int
      BY MaxIdAssumption DEF JobId
    <3>2. \A i \in 1 .. n : ids[i] \in Int
      BY <1>3, <3>9
    <3>3. SUFFICES ASSUME NEW i \in 1 .. n, NEW j \in 1 .. n, i # j
                   PROVE  ids[i] # ids[j]
      OBVIOUS
    <3> HIDE DEF n
    <3>4. i < j \/ j < i
      BY <3>3, <1>2 DEF n
    <3> QED BY <3>1, <3>2, <3>4
  <2> QED BY <2>1, <2>2
<1> HIDE DEF n
<1>5. ids \in [1 .. n -> JobId] /\ n \in Nat
  BY <1>2, <1>3 DEF n
<1>6. ids \in Seq(JobId) /\ Len(ids) = n
  BY <1>5
<1> QED BY <1>3, <1>4, <1>6 DEF NoDuplicates

-----------------------------------------------------------------------------
(* The methods of the registry. *)

LEMMA JobIdIsNat == \A id \in JobId : id \in Nat /\ id # NoJob
  BY MaxIdAssumption DEF JobId, NoJob

LEMMA EmptySound == Sound(EmptyRegistry) /\ Installed(EmptyRegistry) = {}
<1> DEFINE r == EmptyRegistry
<1>1. /\ r.nextId = 1 /\ r.jobs = << >> /\ r.byUnit = << >>
      /\ r.runQueue = << >>
      /\ r = [nextId |-> r.nextId, jobs |-> r.jobs, byUnit |-> r.byUnit,
              runQueue |-> r.runQueue]
  BY DEF EmptyRegistry
<1>2. DOMAIN << >> = {} /\ << >> \in Seq(JobId) /\ Len(<< >>) = 0
  OBVIOUS
<1> HIDE DEF r
<1>3. IsRegistry(r)
  BY <1>1, <1>2, MaxIdAssumption DEF IsRegistry, Installed, JobId
<1>4. IndexSound(r) /\ QueueSound(r) /\ IdsBelow(r)
  BY <1>1, <1>2 DEF IndexSound, QueueSound, NoDuplicates, Queued, IdsBelow, Installed
<1>5. Sound(r) /\ Installed(r) = {}
  BY <1>1, <1>2, <1>3, <1>4 DEF Sound, Installed
<1> QED BY <1>5 DEF r

LEMMA EvolvesReflexive ==
    ASSUME NEW r, Sound(r)
    PROVE  Evolves(r, r)
  BY JobIdIsNat DEF Evolves, Includes, Sound, IsRegistry

LEMMA EvolvesTransitive ==
    ASSUME NEW r, NEW s, NEW t, Sound(r), Sound(s), Sound(t),
           Evolves(r, s), Evolves(s, t)
    PROVE  Evolves(r, t)
<1>1. r.nextId \in Nat /\ s.nextId \in Nat /\ t.nextId \in Nat
  BY JobIdIsNat DEF Sound, IsRegistry
<1>2. r.nextId <= t.nextId
  BY <1>1 DEF Evolves
<1>3. ASSUME NEW id \in Installed(t)
      PROVE  \/ /\ id \in Installed(r)
                /\ t.jobs[id].unit = r.jobs[id].unit
                /\ Includes(t.jobs[id].kind, r.jobs[id].kind)
             \/ id >= r.nextId
  <2>1. id \in Nat
    BY JobIdIsNat DEF Sound, IsRegistry
  <2>2. CASE id >= s.nextId
    BY <1>1, <2>1, <2>2 DEF Evolves
  <2>3. CASE id \in Installed(s) /\ id >= r.nextId
    BY <2>3
  <2>4. CASE /\ id \in Installed(s) /\ id \in Installed(r)
             /\ t.jobs[id].unit = s.jobs[id].unit
             /\ s.jobs[id].unit = r.jobs[id].unit
             /\ Includes(t.jobs[id].kind, s.jobs[id].kind)
             /\ Includes(s.jobs[id].kind, r.jobs[id].kind)
    <3>1. Includes(t.jobs[id].kind, r.jobs[id].kind)
      BY <2>4 DEF Includes
    <3> QED BY <2>4, <3>1
  <2> QED BY <2>2, <2>3, <2>4 DEF Evolves
<1> QED BY <1>2, <1>3 DEF Evolves

(* finish: the index entry goes with the job, the id leaves the queue.     *)
LEMMA FinishSound ==
    ASSUME NEW r, Sound(r), NEW id
    PROVE  /\ Sound(Finish(r, id))
           /\ Evolves(r, Finish(r, id))
           /\ Finish(r, id).nextId = r.nextId
<1>1. CASE id \notin Installed(r)
  BY <1>1, EvolvesReflexive DEF Finish
<1>2. CASE id \in Installed(r)
  <2> DEFINE u == r.jobs[id].unit
             f == Finish(r, id)
  <2>1. IsRegistry(r) /\ IndexSound(r) /\ QueueSound(r) /\ IdsBelow(r)
    BY DEF Sound
  <2>2. u \in DOMAIN r.byUnit /\ r.byUnit[u] = id
    BY <1>2, <2>1 DEF IndexSound, HasJob
  <2>3. f = [nextId |-> r.nextId, jobs |-> Without(r.jobs, id),
             byUnit |-> Without(r.byUnit, u),
             runQueue |-> Retain(r.runQueue, id)]
    BY <1>2, <2>2 DEF Finish, HasJob
  <2>4. /\ f.nextId = r.nextId
        /\ f.jobs = Without(r.jobs, id)
        /\ f.byUnit = Without(r.byUnit, u)
        /\ f.runQueue = Retain(r.runQueue, id)
    BY <2>3
  <2>5. f = [nextId |-> f.nextId, jobs |-> f.jobs, byUnit |-> f.byUnit,
             runQueue |-> f.runQueue]
    BY <2>3, <2>4
  <2>6. /\ Installed(f) = Installed(r) \ {id}
        /\ \A j \in Installed(f) : f.jobs[j] = r.jobs[j]
    BY <2>4 DEF Installed, Without
  <2>7. /\ DOMAIN f.byUnit = DOMAIN r.byUnit \ {u}
        /\ \A v \in DOMAIN f.byUnit : f.byUnit[v] = r.byUnit[v]
    BY <2>4 DEF Without
  <2>8. /\ f.runQueue \in Seq(JobId)
        /\ NoDuplicates(f.runQueue)
        /\ \A i \in 1 .. Len(f.runQueue) :
             /\ f.runQueue[i] # id
             /\ \E j \in 1 .. Len(r.runQueue) : f.runQueue[i] = r.runQueue[j]
    BY <2>1, <2>4, RetainProps DEF IsRegistry, QueueSound
  <2> HIDE DEF f, u
  <2>9. f.jobs \in [Installed(f) -> Job]
    BY <2>1, <2>4, <2>6 DEF IsRegistry, Without, Installed
  <2>10. f.byUnit \in [DOMAIN f.byUnit -> JobId]
    BY <2>1, <2>4, <2>7 DEF IsRegistry, Without
  <2>11. IsRegistry(f)
    BY <2>1, <2>4, <2>5, <2>6, <2>7, <2>8, <2>9, <2>10 DEF IsRegistry
  <2>12. IndexSound(f)
    <3>1. ASSUME NEW v \in DOMAIN f.byUnit
          PROVE  f.byUnit[v] \in Installed(f) /\ f.jobs[f.byUnit[v]].unit = v
      <4>1. v \in DOMAIN r.byUnit /\ v # u /\ f.byUnit[v] = r.byUnit[v]
        BY <2>7
      <4>2. r.byUnit[v] \in Installed(r) /\ r.jobs[r.byUnit[v]].unit = v
        BY <4>1, <2>1 DEF IndexSound
      <4>3. r.byUnit[v] # id
        BY <4>1, <4>2 DEF u
      <4> QED BY <4>1, <4>2, <4>3, <2>6
    <3>2. ASSUME NEW j \in Installed(f)
          PROVE  HasJob(f, f.jobs[j].unit) /\ f.byUnit[f.jobs[j].unit] = j
      <4>1. j \in Installed(r) /\ j # id /\ f.jobs[j] = r.jobs[j]
        BY <2>6
      <4>2. r.jobs[j].unit \in DOMAIN r.byUnit /\ r.byUnit[r.jobs[j].unit] = j
        BY <4>1, <2>1 DEF IndexSound, HasJob
      <4>3. r.jobs[j].unit # u
        BY <4>1, <4>2, <2>2
      <4> QED BY <4>1, <4>2, <4>3, <2>7 DEF HasJob
    <3> QED BY <3>1, <3>2 DEF IndexSound
  <2>13. QueueSound(f)
    <3>1. ASSUME NEW i \in 1 .. Len(f.runQueue)
          PROVE  f.runQueue[i] \in Installed(f)
      BY <2>1, <2>6, <2>8 DEF QueueSound, Queued
    <3> QED BY <3>1, <2>8 DEF QueueSound, Queued
  <2>14. IdsBelow(f)
    BY <2>1, <2>4, <2>6 DEF IdsBelow
  <2>15. Evolves(r, f)
    <3>1. r.nextId <= f.nextId
      BY <2>1, <2>4, JobIdIsNat DEF IsRegistry
    <3> QED BY <3>1, <2>6 DEF Evolves, Includes
  <2> QED BY <2>4, <2>11, <2>12, <2>13, <2>14, <2>15 DEF Sound, f
<1> QED BY <1>1, <1>2

(* Changing one job in place, its unit excepted, disturbs nothing.         *)
LEMMA UpdateSound ==
    ASSUME NEW r, Sound(r), NEW id \in Installed(r),
           NEW job \in Job, job.unit = r.jobs[id].unit,
           Includes(job.kind, r.jobs[id].kind)
    PROVE  LET s == [nextId |-> r.nextId, jobs |-> [r.jobs EXCEPT ![id] = job],
                     byUnit |-> r.byUnit, runQueue |-> r.runQueue]
           IN  Sound(s) /\ Evolves(r, s)
<1> DEFINE s == [nextId |-> r.nextId, jobs |-> [r.jobs EXCEPT ![id] = job],
                 byUnit |-> r.byUnit, runQueue |-> r.runQueue]
<1>1. IsRegistry(r) /\ IndexSound(r) /\ QueueSound(r) /\ IdsBelow(r)
  BY DEF Sound
<1>2. /\ s.nextId = r.nextId /\ s.byUnit = r.byUnit
      /\ s.runQueue = r.runQueue /\ s.jobs = [r.jobs EXCEPT ![id] = job]
      /\ s = [nextId |-> s.nextId, jobs |-> s.jobs, byUnit |-> s.byUnit,
              runQueue |-> s.runQueue]
  OBVIOUS
<1> HIDE DEF s
<1>3. /\ Installed(s) = Installed(r)
      /\ s.jobs \in [Installed(s) -> Job]
      /\ \A j \in Installed(s) : s.jobs[j] = IF j = id THEN job ELSE r.jobs[j]
  BY <1>1, <1>2 DEF Installed, IsRegistry
<1>4. \A j \in Installed(s) : /\ s.jobs[j].unit = r.jobs[j].unit
                              /\ Includes(s.jobs[j].kind, r.jobs[j].kind)
  BY <1>3 DEF Includes
<1>5. IsRegistry(s)
  BY <1>1, <1>2, <1>3 DEF IsRegistry
<1>6. IndexSound(s)
  BY <1>1, <1>2, <1>3, <1>4 DEF IndexSound, HasJob
<1>7. QueueSound(s)
  BY <1>1, <1>2, <1>3 DEF QueueSound, Queued
<1>8. IdsBelow(s)
  BY <1>1, <1>2, <1>3 DEF IdsBelow
<1>9. Evolves(r, s)
  <2>1. r.nextId <= s.nextId
    BY <1>1, <1>2, JobIdIsNat DEF IsRegistry
  <2> QED BY <2>1, <1>3, <1>4 DEF Evolves
<1> QED BY <1>5, <1>6, <1>7, <1>8, <1>9 DEF Sound, s

LEMMA SetStateSound ==
    ASSUME NEW r, Sound(r), NEW id, NEW state \in State
    PROVE  Sound(SetState(r, id, state)) /\ Evolves(r, SetState(r, id, state))
<1>1. CASE id \notin Installed(r)
  BY <1>1, EvolvesReflexive DEF SetState
<1>2. CASE id \in Installed(r)
  <2> DEFINE job == [r.jobs[id] EXCEPT !.state = state]
  <2>1. IsRegistry(r) /\ r.jobs[id] \in Job
    BY <1>2 DEF Sound, IsRegistry
  <2>2. /\ job \in Job /\ job.unit = r.jobs[id].unit
        /\ job.kind = r.jobs[id].kind
    BY <2>1 DEF Job
  <2>3. SetState(r, id, state) =
          [nextId |-> r.nextId, jobs |-> [r.jobs EXCEPT ![id] = job],
           byUnit |-> r.byUnit, runQueue |-> r.runQueue]
    BY <1>2, <2>1 DEF SetState, IsRegistry
  <2> HIDE DEF job
  <2> QED BY <1>2, <2>2, <2>3, UpdateSound DEF Includes
<1> QED BY <1>1, <1>2

LEMMA AddWaiterSound ==
    ASSUME NEW r, Sound(r), NEW id, NEW w \in Waiter
    PROVE  Sound(AddWaiter(r, id, w)) /\ Evolves(r, AddWaiter(r, id, w))
<1>1. CASE id \notin Installed(r)
  BY <1>1, EvolvesReflexive DEF AddWaiter
<1>2. CASE id \in Installed(r)
  <2> DEFINE job == [r.jobs[id] EXCEPT !.waiters = @ \cup {w}]
  <2>1. IsRegistry(r) /\ r.jobs[id] \in Job
    BY <1>2 DEF Sound, IsRegistry
  <2>2. /\ job \in Job /\ job.unit = r.jobs[id].unit
        /\ job.kind = r.jobs[id].kind
    BY <2>1 DEF Job
  <2>3. AddWaiter(r, id, w) =
          [nextId |-> r.nextId, jobs |-> [r.jobs EXCEPT ![id] = job],
           byUnit |-> r.byUnit, runQueue |-> r.runQueue]
    BY <1>2, <2>1 DEF AddWaiter, IsRegistry
  <2> HIDE DEF job
  <2> QED BY <1>2, <2>2, <2>3, UpdateSound DEF Includes
<1> QED BY <1>1, <1>2

(* A deadline that is set or that passes.                                  *)
LEMMA DeadlineSound ==
    ASSUME NEW r, Sound(r), NEW id \in Installed(r), NEW d \in Deadline
    PROVE  LET s == [r EXCEPT !.jobs[id].deadline = d]
           IN  Sound(s) /\ Evolves(r, s)
<1> DEFINE job == [r.jobs[id] EXCEPT !.deadline = d]
<1>1. IsRegistry(r) /\ r.jobs[id] \in Job
  BY DEF Sound, IsRegistry
<1>2. /\ job \in Job /\ job.unit = r.jobs[id].unit
      /\ job.kind = r.jobs[id].kind
  BY <1>1 DEF Job
<1>3. [r EXCEPT !.jobs[id].deadline = d] =
        [nextId |-> r.nextId, jobs |-> [r.jobs EXCEPT ![id] = job],
         byUnit |-> r.byUnit, runQueue |-> r.runQueue]
  BY <1>1 DEF IsRegistry
<1> DEFINE s == [nextId |-> r.nextId, jobs |-> [r.jobs EXCEPT ![id] = job],
                 byUnit |-> r.byUnit, runQueue |-> r.runQueue]
<1> HIDE DEF job
<1>4. Sound(s) /\ Evolves(r, s)
  BY <1>2, UpdateSound DEF Includes
<1> HIDE DEF s
<1> QED BY <1>3, <1>4 DEF s

(* Another sound queue over the same jobs.                                 *)
LEMMA QueueUpdateSound ==
    ASSUME NEW r, Sound(r), NEW q \in Seq(JobId), NoDuplicates(q),
           \A i \in 1 .. Len(q) : q[i] \in Installed(r)
    PROVE  LET s == [r EXCEPT !.runQueue = q]
           IN  Sound(s) /\ Evolves(r, s)
<1> DEFINE s == [r EXCEPT !.runQueue = q]
<1>1. IsRegistry(r) /\ IndexSound(r) /\ QueueSound(r) /\ IdsBelow(r)
  BY DEF Sound
<1>2. /\ s.nextId = r.nextId /\ s.byUnit = r.byUnit
      /\ s.runQueue = q /\ s.jobs = r.jobs
      /\ s = [nextId |-> s.nextId, jobs |-> s.jobs, byUnit |-> s.byUnit,
              runQueue |-> s.runQueue]
  BY <1>1 DEF IsRegistry
<1> HIDE DEF s
<1>3. IsRegistry(s)
  BY <1>1, <1>2 DEF IsRegistry, Installed
<1>4. IndexSound(s)
  BY <1>1, <1>2 DEF IndexSound, HasJob, Installed
<1>5. QueueSound(s)
  BY <1>2 DEF QueueSound, Queued, Installed
<1>6. IdsBelow(s)
  BY <1>1, <1>2 DEF IdsBelow, Installed
<1>7. Evolves(r, s)
  BY <1>1, <1>2, JobIdIsNat DEF Evolves, Includes, IsRegistry, Installed
<1> QED BY <1>3, <1>4, <1>5, <1>6, <1>7 DEF Sound, s

LEMMA EnqueueAllSound ==
    ASSUME NEW r, Sound(r), NEW S \in SUBSET Enqueueable(r),
           NEW ids \in AnyOrder(S) \cup IdOrder(S)
    PROVE  Sound(EnqueueAll(r, ids)) /\ Evolves(r, EnqueueAll(r, ids))
<1> DEFINE q == r.runQueue \o ids
<1>1. /\ r.runQueue \in Seq(JobId) /\ NoDuplicates(r.runQueue)
      /\ Installed(r) \subseteq JobId
      /\ \A i \in 1 .. Len(r.runQueue) : r.runQueue[i] \in Installed(r)
  BY DEF Sound, IsRegistry, QueueSound, Queued
<1>2. \A x \in S : x \in Installed(r) /\ x \notin Queued(r)
  BY DEF Enqueueable
<1>3. S \in SUBSET JobId
  BY <1>1, <1>2
<1>4. /\ ids \in Seq(JobId) /\ NoDuplicates(ids)
      /\ \A i \in 1 .. Len(ids) : ids[i] \in S
  BY <1>3, OrderProps
<1>5. \A i \in 1 .. Len(r.runQueue), j \in 1 .. Len(ids) :
        r.runQueue[i] # ids[j]
  BY <1>2, <1>4 DEF Queued
<1>6. /\ q \in Seq(JobId) /\ NoDuplicates(q)
      /\ \A i \in 1 .. Len(q) :
           \/ \E j \in 1 .. Len(r.runQueue) : q[i] = r.runQueue[j]
           \/ \E j \in 1 .. Len(ids) : q[i] = ids[j]
  BY <1>1, <1>4, <1>5, AppendedQueue
<1>7. EnqueueAll(r, ids) = [r EXCEPT !.runQueue = q]
  BY DEF EnqueueAll
<1> HIDE DEF q
<1>8. \A i \in 1 .. Len(q) : q[i] \in Installed(r)
  BY <1>1, <1>2, <1>4, <1>6
<1> QED BY <1>6, <1>7, <1>8, QueueUpdateSound

(* pop_ready: the entries up to the popped one go, its job runs.           *)
LEMMA PopReadySound ==
    ASSUME NEW r, Sound(r), NEW k \in 1 .. Len(r.runQueue)
    PROVE  Sound(PopReady(r, k)) /\ Evolves(r, PopReady(r, k))
<1> DEFINE q  == SubSeq(r.runQueue, k + 1, Len(r.runQueue))
           id == r.runQueue[k]
           s  == [r EXCEPT !.runQueue = q]
<1>1. /\ r.runQueue \in Seq(JobId) /\ NoDuplicates(r.runQueue)
      /\ \A i \in 1 .. Len(r.runQueue) : r.runQueue[i] \in Installed(r)
      /\ IsRegistry(r)
  BY DEF Sound, IsRegistry, QueueSound, Queued
<1>2. /\ q \in Seq(JobId) /\ Len(q) = Len(r.runQueue) - k
      /\ \A i \in 1 .. Len(r.runQueue) - k : q[i] = r.runQueue[i + k]
  BY <1>1
<1>3. id \in Installed(r)
  BY <1>1
<1>4. PopReady(r, k) = SetState(s, id, "Running")
  BY <1>1, <1>3 DEF PopReady, SetState, Installed, IsRegistry
<1> HIDE DEF q, id
<1>5. NoDuplicates(q)
  <2> SUFFICES ASSUME NEW i \in 1 .. Len(q), NEW j \in 1 .. Len(q), i # j
               PROVE  q[i] # q[j]
    BY DEF NoDuplicates
  <2>1. /\ i + k \in 1 .. Len(r.runQueue) /\ j + k \in 1 .. Len(r.runQueue)
        /\ i + k # j + k
    BY <1>1, <1>2
  <2> QED BY <2>1, <1>1, <1>2 DEF NoDuplicates
<1>6. \A i \in 1 .. Len(q) : q[i] \in Installed(r)
  <2> SUFFICES ASSUME NEW i \in 1 .. Len(q) PROVE q[i] \in Installed(r)
    OBVIOUS
  <2>1. i + k \in 1 .. Len(r.runQueue)
    BY <1>1, <1>2
  <2> QED BY <2>1, <1>1, <1>2
<1>7. Sound(s) /\ Evolves(r, s)
  BY <1>2, <1>5, <1>6, QueueUpdateSound
<1> HIDE DEF s
<1>8. Sound(SetState(s, id, "Running")) /\ Evolves(s, SetState(s, id, "Running"))
  BY <1>7, SetStateSound DEF State
<1> QED BY <1>4, <1>7, <1>8, EvolvesTransitive

LEMMA MergeIncludes ==
    ASSUME NEW a \in Kind, NEW b \in Kind, MergeKinds(a, b) # "Conflict"
    PROVE  MergeKinds(a, b) \in Kind /\ Includes(MergeKinds(a, b), a)
  BY DEF MergeKinds, Includes, Kind

(* A job is installed for a unit that has none, under an id nobody has.    *)
LEMMA InstallSound ==
    ASSUME NEW r, Sound(r), r.nextId < MaxId,
           NEW u \in Unit, ~HasJob(r, u), NEW kind \in Kind
    PROVE  /\ Sound(Install(r, u, kind))
           /\ Evolves(r, Install(r, u, kind))
           /\ r.nextId \in Installed(Install(r, u, kind))
           /\ Install(r, u, kind).jobs[r.nextId].unit = u
<1> DEFINE job == [unit |-> u, kind |-> kind, state |-> "Waiting",
                   deadline |-> "none", waiters |-> {}]
           n   == r.nextId
           s   == Install(r, u, kind)
<1>1. IsRegistry(r) /\ IndexSound(r) /\ QueueSound(r) /\ IdsBelow(r)
  BY DEF Sound
<1>2. n \in JobId /\ n \in Nat /\ n + 1 \in JobId /\ NextId(n) = n + 1
  <2>1. n \in JobId
    BY <1>1 DEF IsRegistry
  <2> QED BY <2>1, MaxIdAssumption DEF JobId, NextId
<1>3. n \notin Installed(r)
  BY <1>1, <1>2 DEF IdsBelow
<1>4. /\ s.nextId = n + 1 /\ s.jobs = With(r.jobs, n, job)
      /\ s.byUnit = With(r.byUnit, u, n) /\ s.runQueue = r.runQueue
      /\ s = [nextId |-> s.nextId, jobs |-> s.jobs, byUnit |-> s.byUnit,
              runQueue |-> s.runQueue]
  BY <1>2 DEF Install
<1>5. job \in Job /\ job.unit = u
  BY DEF Job, State, Deadline
<1> HIDE DEF s, job, n
<1>6. /\ Installed(s) = Installed(r) \cup {n}
      /\ s.jobs[n] = job
      /\ \A j \in Installed(r) : s.jobs[j] = r.jobs[j]
      /\ s.jobs \in [Installed(s) -> Job]
  BY <1>1, <1>3, <1>4, <1>5 DEF Installed, With, IsRegistry
<1>7. /\ DOMAIN s.byUnit = DOMAIN r.byUnit \cup {u}
      /\ s.byUnit[u] = n
      /\ \A v \in DOMAIN r.byUnit : s.byUnit[v] = r.byUnit[v]
      /\ s.byUnit \in [DOMAIN s.byUnit -> JobId]
  BY <1>1, <1>2, <1>4 DEF With, IsRegistry, HasJob
<1>8. IsRegistry(s)
  BY <1>1, <1>2, <1>4, <1>6, <1>7 DEF IsRegistry
<1>9. IndexSound(s)
  <2>1. ASSUME NEW v \in DOMAIN s.byUnit
        PROVE  s.byUnit[v] \in Installed(s) /\ s.jobs[s.byUnit[v]].unit = v
    BY <1>1, <1>5, <1>6, <1>7 DEF IndexSound
  <2>2. ASSUME NEW j \in Installed(s)
        PROVE  HasJob(s, s.jobs[j].unit) /\ s.byUnit[s.jobs[j].unit] = j
    <3>1. CASE j = n
      BY <3>1, <1>5, <1>6, <1>7 DEF HasJob
    <3>2. CASE j \in Installed(r)
      BY <3>2, <1>1, <1>6, <1>7 DEF IndexSound, HasJob
    <3> QED BY <3>1, <3>2, <1>6
  <2> QED BY <2>1, <2>2 DEF IndexSound
<1>10. QueueSound(s)
  BY <1>1, <1>4, <1>6 DEF QueueSound, Queued
<1>11. IdsBelow(s)
  <2> SUFFICES ASSUME NEW j \in Installed(s) PROVE j < s.nextId
    BY DEF IdsBelow
  <2>1. CASE j = n
    BY <2>1, <1>2, <1>4
  <2>2. CASE j \in Installed(r)
    <3>1. j \in Nat /\ j < n
      BY <2>2, <1>1, JobIdIsNat DEF IdsBelow, IsRegistry, n
    <3> QED BY <3>1, <1>2, <1>4
  <2> QED BY <2>1, <2>2, <1>6
<1>12. Evolves(r, s)
  <2>1. r.nextId <= s.nextId
    BY <1>2, <1>4 DEF n
  <2>2. n >= r.nextId
    BY <1>2 DEF n
  <2> QED BY <2>1, <2>2, <1>6 DEF Evolves, Includes
<1>13. Sound(s)
  BY <1>8, <1>9, <1>10, <1>11 DEF Sound
<1> QED BY <1>5, <1>6, <1>12, <1>13 DEF s, n

(* create: the three ways out, and the id it returns.                      *)
LEMMA CreateSound ==
    ASSUME NEW r, Sound(r), r.nextId < MaxId,
           NEW u \in Unit, NEW kind \in Kind, NEW mode
    PROVE  LET s  == Create(r, u, kind, mode)
               id == CreatedId(r, u, kind, mode)
           IN  /\ Sound(s)
               /\ Evolves(r, s)
               /\ id # NoJob => id \in Installed(s) /\ s.jobs[id].unit = u
<1> DEFINE s  == Create(r, u, kind, mode)
           id == CreatedId(r, u, kind, mode)
<1>1. IsRegistry(r) /\ IndexSound(r)
  BY DEF Sound
<1>2. CASE Merges(r, u, kind)
  <2> DEFINE j   == r.byUnit[u]
             k   == MergeKinds(r.jobs[j].kind, kind)
             job == [r.jobs[j] EXCEPT !.kind = k]
             t   == [nextId |-> r.nextId, jobs |-> [r.jobs EXCEPT ![j] = job],
                     byUnit |-> r.byUnit, runQueue |-> r.runQueue]
  <2>1. j \in Installed(r) /\ r.jobs[j].unit = u /\ r.jobs[j] \in Job
    BY <1>1, <1>2 DEF Merges, HasJob, IndexSound, IsRegistry
  <2>2. r.jobs[j].kind \in Kind
    BY <2>1 DEF Job
  <2>3. k \in Kind /\ Includes(k, r.jobs[j].kind)
    BY <1>2, <2>2, MergeIncludes DEF Merges
  <2>4. s = t /\ id = j
    <3>1. ~Refuses(r, u, kind, mode)
      BY <1>2 DEF Refuses
    <3>2. s = [r EXCEPT !.jobs[j].kind = k] /\ id = j
      BY <1>2, <3>1 DEF Create, CreatedId
    <3>3. [r EXCEPT !.jobs[j].kind = k] = t
      BY <1>1, <2>1 DEF IsRegistry
    <3> QED BY <3>2, <3>3
  <2> HIDE DEF k, j
  <2>5. job \in Job /\ job.unit = u /\ job.kind = k
    BY <2>1, <2>3 DEF Job
  <2> HIDE DEF job
  <2>6. Sound(t) /\ Evolves(r, t)
    BY <2>1, <2>3, <2>5, UpdateSound
  <2>7. j \in Installed(t) /\ t.jobs[j].unit = u
    BY <2>1, <2>5 DEF Installed
  <2> HIDE DEF t, s, id
  <2> QED BY <2>4, <2>6, <2>7 DEF s, id
<1>3. CASE ~Merges(r, u, kind) /\ Refuses(r, u, kind, mode)
  <2>1. s = r /\ id = NoJob
    BY <1>3 DEF Create, CreatedId
  <2> HIDE DEF s, id
  <2> QED BY <2>1, EvolvesReflexive DEF s, id
<1>4. CASE ~Merges(r, u, kind) /\ ~Refuses(r, u, kind, mode)
  <2> DEFINE f == IF HasJob(r, u) THEN Finish(r, r.byUnit[u]) ELSE r
  <2>1. s = Install(f, u, kind) /\ id = r.nextId
    BY <1>4 DEF Create, CreatedId
  <2>2. Sound(f) /\ Evolves(r, f) /\ f.nextId = r.nextId /\ ~HasJob(f, u)
    <3>1. CASE ~HasJob(r, u)
      BY <3>1, EvolvesReflexive
    <3>2. CASE HasJob(r, u)
      <4> DEFINE j == r.byUnit[u]
      <4>1. f = Finish(r, j)
        BY <3>2
      <4>2. j \in Installed(r) /\ r.jobs[j].unit = u
        BY <1>1, <3>2 DEF HasJob, IndexSound
      <4>3. ~HasJob(Finish(r, j), u)
        BY <3>2, <4>2 DEF Finish, HasJob, Without
      <4> HIDE DEF f, j
      <4> QED BY <4>1, <4>3, FinishSound
    <3> QED BY <3>1, <3>2
  <2> HIDE DEF f, s, id
  <2>3. /\ Sound(Install(f, u, kind)) /\ Evolves(f, Install(f, u, kind))
        /\ r.nextId \in Installed(Install(f, u, kind))
        /\ Install(f, u, kind).jobs[r.nextId].unit = u
    BY <2>2, InstallSound
  <2> QED BY <2>1, <2>2, <2>3, EvolvesTransitive DEF s, id
<1> QED BY <1>2, <1>3, <1>4

LEMMA SameInstalled ==
    ASSUME NEW r, Sound(r), NEW id, NEW state, NEW w
    PROVE  /\ Installed(SetState(r, id, state)) = Installed(r)
           /\ Installed(AddWaiter(r, id, w)) = Installed(r)
  BY DEF SetState, AddWaiter, Installed, Sound, IsRegistry

-----------------------------------------------------------------------------
(* Blocked clients.  On(r, w) are the jobs of r that owe client w a reply. *)
(* Each method either leaves it alone for everybody or, like finish, takes *)
(* one job away from it and answers exactly the clients of that job.       *)

On(r, w) == {id \in Installed(r) : w \in r.jobs[id].waiters}

SameClients(r, s) == \A w \in Waiter : On(s, w) = On(r, w)

Wakes(r, s, ws) ==
    \E id \in JobId \cup {NoJob} :
        /\ ws = Woken(r, id)
        /\ \A w \in Waiter : On(s, w) = On(r, w) \ {id}

LEMMA SameClientsWakes ==
    ASSUME NEW r, NEW s, Sound(r), SameClients(r, s)
    PROVE  Wakes(r, s, {})
<1>1. NoJob \notin Installed(r)
  BY JobIdIsNat DEF Sound, IsRegistry
<1>2. Woken(r, NoJob) = {} /\ \A w \in Waiter : On(s, w) = On(r, w) \ {NoJob}
  BY <1>1 DEF Woken, SameClients, On
<1> QED BY <1>2 DEF Wakes

(* set_state, a deadline, a merge and the run queue concern no client.     *)
LEMMA FieldsKeepClients ==
    ASSUME NEW r, Sound(r), NEW id, NEW v
    PROVE  /\ SameClients(r, SetState(r, id, v))
           /\ SameClients(r, SetDeadline(r, id))
           /\ SameClients(r, [r EXCEPT !.jobs[id].deadline = v])
           /\ SameClients(r, [r EXCEPT !.jobs[id].kind = v])
           /\ SameClients(r, [r EXCEPT !.runQueue = v])
<1>1. /\ r = [nextId |-> r.nextId, jobs |-> r.jobs, byUnit |-> r.byUnit,
              runQueue |-> r.runQueue]
      /\ r.jobs \in [Installed(r) -> Job]
  BY DEF Sound, IsRegistry
<1>2. SameClients(r, [r EXCEPT !.runQueue = v])
  BY <1>1 DEF SameClients, On, Installed
<1>3. CASE id \in Installed(r)
  BY <1>1, <1>2, <1>3 DEF SameClients, On, Installed, SetState, SetDeadline, Job
<1>4. CASE id \notin Installed(r)
  BY <1>1, <1>2, <1>4 DEF SameClients, On, Installed, SetState, SetDeadline
<1> QED BY <1>3, <1>4

LEMMA FinishWakes ==
    ASSUME NEW r, Sound(r), NEW id \in JobId \cup {NoJob}
    PROVE  Wakes(r, Finish(r, id), Woken(r, id))
<1>1. CASE id \in Installed(r)
  <2>1. Finish(r, id).jobs = Without(r.jobs, id)
    BY <1>1 DEF Finish
  <2>2. \A w \in Waiter : On(Finish(r, id), w) = On(r, w) \ {id}
    BY <2>1 DEF On, Installed, Without
  <2> QED BY <2>2 DEF Wakes
<1>2. CASE id \notin Installed(r)
  <2>1. \A w \in Waiter : On(Finish(r, id), w) = On(r, w) \ {id}
    BY <1>2 DEF Finish, On
  <2> QED BY <2>1 DEF Wakes
<1> QED BY <1>1, <1>2

LEMMA InstallKeepsClients ==
    ASSUME NEW r, Sound(r), NEW u, NEW kind
    PROVE  SameClients(r, Install(r, u, kind))
<1> DEFINE s == Install(r, u, kind)
           n == r.nextId
<1>1. n \notin Installed(r)
  BY JobIdIsNat DEF Sound, IsRegistry, IdsBelow
<1>2. /\ Installed(s) = Installed(r) \cup {n}
      /\ s.jobs[n].waiters = {}
      /\ \A j \in Installed(r) : s.jobs[j] = r.jobs[j]
  BY <1>1 DEF Install, With, Installed
<1> HIDE DEF s, n
<1>3. \A w \in Waiter : On(s, w) = On(r, w)
  BY <1>2 DEF On
<1> QED BY <1>3 DEF SameClients, s

(* create answers the clients of the job it replaces and of no other.      *)
LEMMA CreateWakes ==
    ASSUME NEW r, Sound(r), NEW u \in Unit, NEW kind \in Kind, NEW mode \in Mode
    PROVE  Wakes(r, Create(r, u, kind, mode), Superseded(r, u, kind, mode))
<1> DEFINE s == Create(r, u, kind, mode)
<1>1. CASE Merges(r, u, kind)
  <2>1. s = [r EXCEPT !.jobs[r.byUnit[u]].kind = MergeKinds(@, kind)]
    BY <1>1 DEF Create, Refuses
  <2> DEFINE v == MergeKinds(r.jobs[r.byUnit[u]].kind, kind)
  <2>2. s = [r EXCEPT !.jobs[r.byUnit[u]].kind = v]
    BY <1>1, <2>1 DEF Merges, HasJob, Sound, IndexSound, Installed
  <2>3. Superseded(r, u, kind, mode) = {}
    BY <1>1 DEF Superseded
  <2> HIDE DEF s, v
  <2>4. SameClients(r, s)
    BY <2>2, FieldsKeepClients
  <2> QED BY <2>3, <2>4, SameClientsWakes DEF s
<1>2. CASE ~Merges(r, u, kind) /\ Refuses(r, u, kind, mode)
  <2>1. s = r /\ Superseded(r, u, kind, mode) = {}
    BY <1>2 DEF Create, Superseded, Refuses
  <2>2. SameClients(r, r)
    BY DEF SameClients
  <2> HIDE DEF s
  <2> QED BY <2>1, <2>2, SameClientsWakes DEF s
<1>3. CASE ~HasJob(r, u)
  <2>1. s = Install(r, u, kind) /\ Superseded(r, u, kind, mode) = {}
    BY <1>3 DEF Create, Superseded, Merges, Refuses
  <2> HIDE DEF s
  <2> QED BY <2>1, InstallKeepsClients, SameClientsWakes DEF s
<1>4. CASE HasJob(r, u) /\ ~Merges(r, u, kind) /\ ~Refuses(r, u, kind, mode)
  <2> DEFINE f == Finish(r, r.byUnit[u])
  <2>1. /\ s = Install(f, u, kind)
        /\ Superseded(r, u, kind, mode) = Woken(r, r.byUnit[u])
    BY <1>4 DEF Create, Superseded, Refuses
  <2>2. r.byUnit[u] \in JobId
    BY <1>4 DEF HasJob, Sound, IsRegistry
  <2>3. Sound(f) /\ Wakes(r, f, Woken(r, r.byUnit[u]))
    BY <2>2, FinishSound, FinishWakes
  <2> HIDE DEF f, s
  <2>4. SameClients(f, s)
    BY <2>1, <2>3, InstallKeepsClients
  <2>5. Wakes(r, s, Woken(r, r.byUnit[u]))
    BY <2>3, <2>4 DEF Wakes, SameClients
  <2> QED BY <2>1, <2>5 DEF s
<1> QED BY <1>1, <1>2, <1>3, <1>4

(* add_waiter attaches the client to the one job and disturbs nobody else. *)
LEMMA AddWaiterAttaches ==
    ASSUME NEW r, Sound(r), NEW id \in Installed(r), NEW w \in Waiter
    PROVE  \A x \in Waiter :
             On(AddWaiter(r, id, w), x) =
               IF x = w THEN On(r, x) \cup {id} ELSE On(r, x)
<1> DEFINE s == AddWaiter(r, id, w)
<1>1. /\ r = [nextId |-> r.nextId, jobs |-> r.jobs, byUnit |-> r.byUnit,
              runQueue |-> r.runQueue]
      /\ r.jobs \in [Installed(r) -> Job]
  BY DEF Sound, IsRegistry
<1>2. /\ Installed(s) = Installed(r)
      /\ s.jobs[id].waiters = r.jobs[id].waiters \cup {w}
      /\ \A j \in Installed(r) \ {id} : s.jobs[j] = r.jobs[j]
  BY <1>1 DEF AddWaiter, Installed, Job
<1> HIDE DEF s
<1> QED BY <1>2 DEF On, s
=============================================================================
