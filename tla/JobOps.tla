------------------------------- MODULE JobOps -------------------------------
(***************************************************************************)
(* The job registry of PID 1 (libsystemd/src/units/jobs.rs) as operators   *)
(* on a registry value r, a record of the four fields of JobRegistry:      *)
(*                                                                         *)
(*   r.nextId    the id the next installed job gets                        *)
(*   r.jobs      the installed jobs, a function whose domain is their ids  *)
(*   r.byUnit    the installed job of each unit that has one               *)
(*   r.runQueue  the ids that are ready to dispatch, in order              *)
(*                                                                         *)
(* Every operator is one method of the registry, which runs under the      *)
(* registry's mutex and is therefore one step.  A reply channel is a       *)
(* waiter; what it has received is kept by the modules that use this one.  *)
(* Job::result and Job::source are not kept: a result exists only from the *)
(* moment the job is removed, and the source is never read back.           *)
(***************************************************************************)
EXTENDS Integers, Sequences, FiniteSets

CONSTANTS
    Unit,     \* unit ids
    Waiter,   \* reply channels of blocking clients
    MaxId     \* the largest JobId, 2^32 - 1 in the code

ASSUME MaxIdAssumption == MaxId \in Nat \ {0}

(* 0 is never an id: next_id starts at 1 and is kept at 1 or above.        *)
JobId == 1 .. MaxId
NoJob == 0

Kind   == {"Start", "Stop", "Restart", "TryRestart", "Reload",
           "VerifyActive", "Nop"}
State  == {"Waiting", "Running"}
Result == {"Done", "Failed", "Canceled", "Timeout", "Dependency", "Skipped"}
Mode   == {"Replace", "Fail"}

(* An Instant is abstracted to whether it has passed.                      *)
Deadline == {"none", "armed", "due"}

Job == [unit : Unit, kind : Kind, state : State, deadline : Deadline,
        waiters : SUBSET Waiter]

-----------------------------------------------------------------------------

(* Fault: a mergeable pair gives the newer kind.                           *)
MergeToNewer(existing, new) ==
    LET pair == {existing, new}
    IN  CASE "Stop" \notin pair /\ "Reload" \notin pair -> new
          [] existing = new -> existing
          [] OTHER -> "Conflict"

(* merge_kinds: "Conflict" stands for None.                                *)
MergeKinds(existing, new) ==
    LET restartable == {"Start", "VerifyActive", "TryRestart"}
        pair        == {existing, new}
    IN  CASE existing = new -> existing
          [] new = "Nop" -> existing
          [] existing = "Nop" -> new
          [] "Restart" \in pair /\ pair \subseteq restartable \cup {"Restart"}
               -> "Restart"
          [] pair = {"Start", "VerifyActive"} -> "Start"
          [] pair = {"TryRestart", "VerifyActive"} -> "TryRestart"
          [] OTHER -> "Conflict"

(* A job of kind big does at least what one of kind small does.            *)
Includes(big, small) ==
    \/ big = small
    \/ small = "Nop"
    \/ small = "VerifyActive" /\ big \in {"Start", "TryRestart", "Restart"}
    \/ small \in {"Start", "TryRestart"} /\ big = "Restart"

-----------------------------------------------------------------------------

EmptyRegistry ==
    [nextId |-> 1, jobs |-> << >>, byUnit |-> << >>, runQueue |-> << >>]

Installed(r) == DOMAIN r.jobs

IsRegistry(r) ==
    /\ r = [nextId |-> r.nextId, jobs |-> r.jobs, byUnit |-> r.byUnit,
            runQueue |-> r.runQueue]
    /\ r.nextId \in JobId
    /\ Installed(r) \subseteq JobId
    /\ r.jobs \in [Installed(r) -> Job]
    /\ DOMAIN r.byUnit \subseteq Unit
    /\ r.byUnit \in [DOMAIN r.byUnit -> JobId]
    /\ r.runQueue \in Seq(JobId)

Queued(r) == {r.runQueue[i] : i \in 1 .. Len(r.runQueue)}

HasJob(r, u) == u \in DOMAIN r.byUnit

Without(f, x) == [y \in DOMAIN f \ {x} |-> f[y]]

With(f, x, v) == [y \in DOMAIN f \cup {x} |-> IF y = x THEN v ELSE f[y]]

(* Fault: finish leaves the id in the run queue.                           *)
RetainEverything(q, id) == q

(* VecDeque::retain(|queued| *queued != id).  The queue holds an id at     *)
(* most once (RunQueueSound of JobRegistry), so one entry goes at most.    *)
Retain(q, id) ==
    LET at == {i \in 1 .. Len(q) : q[i] = id}
    IN  IF at = {} THEN q
        ELSE LET i == CHOOSE i \in at : TRUE
             IN  SubSeq(q, 1, i - 1) \o SubSeq(q, i + 1, Len(q))

(* wrapping_add(1).max(1) *)
NextId(n) == IF n = MaxId THEN 1 ELSE n + 1

(* Fault: finish leaves the unit's entry in by_unit.                       *)
FinishKeepsIndex(r, id) ==
    IF id \notin Installed(r) THEN r
    ELSE [r EXCEPT !.jobs = Without(@, id), !.runQueue = Retain(@, id)]

(* Fault: ids start over when the last job is gone.                        *)
FinishRecyclesIds(r, id) ==
    IF id \notin Installed(r) THEN r
    ELSE [nextId   |-> IF Installed(r) = {id} THEN 1 ELSE r.nextId,
          jobs     |-> Without(r.jobs, id),
          byUnit   |-> Without(r.byUnit, r.jobs[id].unit),
          runQueue |-> Retain(r.runQueue, id)]

(* finish: uninstall the job; nothing happens when it is not installed.    *)
Finish(r, id) ==
    IF id \notin Installed(r) THEN r
    ELSE LET u == r.jobs[id].unit
         IN  [nextId   |-> r.nextId,
              jobs     |-> Without(r.jobs, id),
              byUnit   |-> IF HasJob(r, u) /\ r.byUnit[u] = id
                           THEN Without(r.byUnit, u) ELSE r.byUnit,
              runQueue |-> Retain(r.runQueue, id)]

(* The waiters finish sends the result to.                                 *)
Woken(r, id) == IF id \in Installed(r) THEN r.jobs[id].waiters ELSE {}

(* Fault: create merges whatever merge_kinds says.                         *)
MergesAnything(r, u, kind) == HasJob(r, u)

(* The three ways out of create. *)
Merges(r, u, kind) ==
    HasJob(r, u) /\ MergeKinds(r.jobs[r.byUnit[u]].kind, kind) # "Conflict"

Refuses(r, u, kind, mode) ==
    HasJob(r, u) /\ ~Merges(r, u, kind) /\ mode = "Fail"

Install(r, u, kind) ==
    LET job == [unit |-> u, kind |-> kind, state |-> "Waiting",
                deadline |-> "none", waiters |-> {}]
    IN  [nextId   |-> NextId(r.nextId),
         jobs     |-> With(r.jobs, r.nextId, job),
         byUnit   |-> With(r.byUnit, u, r.nextId),
         runQueue |-> r.runQueue]

Create(r, u, kind, mode) ==
    CASE Merges(r, u, kind) ->
           [r EXCEPT !.jobs[r.byUnit[u]].kind = MergeKinds(@, kind)]
      [] Refuses(r, u, kind, mode) -> r
      [] OTHER -> Install(IF HasJob(r, u) THEN Finish(r, r.byUnit[u]) ELSE r,
                          u, kind)

(* The id create returns; NoJob when it returns an error.                  *)
CreatedId(r, u, kind, mode) ==
    CASE Merges(r, u, kind) -> r.byUnit[u]
      [] Refuses(r, u, kind, mode) -> NoJob
      [] OTHER -> r.nextId

(* Fault: create drops the job it replaces instead of finishing it.        *)
SupersededSilently(r, u, kind, mode) == {}

(* The waiters create answers with Canceled when it replaces a job.        *)
Superseded(r, u, kind, mode) ==
    IF HasJob(r, u) /\ ~Merges(r, u, kind) /\ mode # "Fail"
    THEN Woken(r, r.byUnit[u]) ELSE {}

SetState(r, id, state) ==
    IF id \in Installed(r) THEN [r EXCEPT !.jobs[id].state = state] ELSE r

SetRunning(r, id) == SetState(r, id, "Running")

SetWaiting(r, id) == SetState(r, id, "Waiting")

AddWaiter(r, id, w) ==
    IF id \in Installed(r)
    THEN [r EXCEPT !.jobs[id].waiters = @ \cup {w}] ELSE r

SetDeadline(r, id) ==
    IF id \in Installed(r) THEN [r EXCEPT !.jobs[id].deadline = "armed"] ELSE r

(* enqueue accepts installed Waiting jobs that are not queued yet.         *)
Enqueueable(r) ==
    {id \in Installed(r) : r.jobs[id].state = "Waiting"} \ Queued(r)

EnqueueAll(r, ids) == [r EXCEPT !.runQueue = @ \o ids]

(* enqueue_ready, with ready the units whose is_ready holds: the           *)
(* candidates are queued in id order.                                      *)
ReadyIds(r, ready) == {id \in Enqueueable(r) : r.jobs[id].unit \in ready}

IdOrder(S) ==
    {s \in [1 .. Cardinality(S) -> S] :
        \A i, j \in 1 .. Cardinality(S) : i < j => s[i] < s[j]}

(* requeue_after_finish: the neighbours' jobs in the order given.          *)
NeighbourIds(r, neighbours, ready) ==
    {r.byUnit[u] : u \in {v \in neighbours \cap ready :
        HasJob(r, v) /\ r.byUnit[v] \in Enqueueable(r)}}

AnyOrder(S) ==
    {s \in [1 .. Cardinality(S) -> S] :
        \A i, j \in 1 .. Cardinality(S) : i # j => s[i] # s[j]}

(* pop_ready: position k holds the first entry that is still Waiting.      *)
FirstWaiting(r, k) ==
    /\ k \in 1 .. Len(r.runQueue)
    /\ \A i \in 1 .. k :
         (i = k) <=> /\ r.runQueue[i] \in Installed(r)
                     /\ r.jobs[r.runQueue[i]].state = "Waiting"

PopReady(r, k) ==
    [r EXCEPT !.runQueue = SubSeq(@, k + 1, Len(@)),
              !.jobs[r.runQueue[k]].state = "Running"]

(* pop_expired: the jobs it reports, whose deadline it clears.             *)
Expired(r) == {id \in Installed(r) : r.jobs[id].deadline = "due"}
=============================================================================
