------------------------------ MODULE StopGraph ------------------------------
(***************************************************************************)
(* How the dispatcher stops units in dependency order: the StopGraph of    *)
(* entrypoints/dispatcher.rs, the per-unit stop chains of                  *)
(* unitset_manipulation/stop_chain.rs that it schedules, the Stop jobs     *)
(* that clients block on, and the collection of unneeded units.            *)
(*                                                                         *)
(* The dispatcher is one thread.  It takes an event from its queue and     *)
(* runs the handler to the end; the handlers call each other recursively   *)
(* (begin_stop_tree, start_stop_chain, on_stop_chain_finished, and         *)
(* begin_stop_tree again for PropagatesStopTo=).  work is its call stack,  *)
(* a sequence of frames with the innermost last; the next event is taken   *)
(* when it is empty.   The order in which a handler walks a list of units   *)
(* is left open.                                                           *)
(*                                                                         *)
(* A chain is parked on the pid of the process it waits for.  A helper has *)
(* a pid of its own, so a unit may have several helpers parked; the main   *)
(* process has one, so a unit has at most one entry for it.  parked[u]     *)
(* counts the entries of unit u by the phase of their chain.  A phase has  *)
(* at most one command: more commands repeat the same step.                *)
(***************************************************************************)
EXTENDS JobOps

CONSTANTS
    RequiredBy,    \* RequiredBy[u]: the units with Requires=u
    PartOfBy,      \* ... with PartOf=u
    BoundBy,       \* ... with BindsTo=u
    WantedBy,      \* ... with Wants=u or Upholds=u
    PropagatesTo,  \* PropagatesTo[u]: u's PropagatesStopTo=
    Unneeded,      \* the units with StopWhenUnneeded=yes
    Service,       \* the units that are services
    ExecStop,      \* the services with an ExecStop= command
    ExecStopPost,  \* the services with an ExecStopPost= command
    Overlap,       \* whether a request may come before earlier stops are over
    MaxRestarts    \* bound: starts of a stopped unit

NoUnit == "none"

ASSUME StopGraphAssumption ==
    /\ IsFiniteSet(Unit) /\ NoUnit \notin Unit
    /\ {RequiredBy, PartOfBy, BoundBy, WantedBy, PropagatesTo}
         \subseteq [Unit -> SUBSET Unit]
    /\ ExecStop \cup ExecStopPost \subseteq Service
    /\ Service \cup Unneeded \subseteq Unit
    /\ Overlap \in BOOLEAN
    /\ MaxRestarts \in Nat

VARIABLES
    status,     \* status[u], shared with every thread of PID 1
    parked,     \* parked[u][phase]: the chains map, by unit
    active,     \* StopGraph.active
    counts,     \* StopGraph.pending_counts
    owed,       \* owed[c][p]: how often p occurs in StopGraph.parents[c]
    after,      \* the units with an entry in StopGraph.propagate_after
    rootJobs,   \* StopGraph.root_jobs
    work,       \* the dispatcher's call stack
    queue,      \* its normal-priority event queue
    reg,        \* the job registry
    asked,      \* asked[c]: the unit client c asked to stop
    answered,   \* the clients whose job was finished
    restarts

graph == << active, counts, owed, after, rootJobs >>
clients == << asked, answered >>
vars == << status, parked, graph, work, queue, reg, clients, restarts >>

Down == {"NeverStarted", "Stopped"}

Phase == {"exec", "main", "post"}

(* kill_before_this, with how often each unit occurs in it.                *)
Dependents(u) == RequiredBy[u] \cup PartOfBy[u] \cup BoundBy[u]

Occurs(c, S) == IF c \in S THEN 1 ELSE 0

Edges(c, p) ==
    Occurs(c, RequiredBy[p]) + Occurs(c, PartOfBy[p]) + Occurs(c, BoundBy[p])

(* Wants=, Requires=, BindsTo= and Upholds=, in both directions.           *)
Needers(u) == WantedBy[u] \cup RequiredBy[u] \cup BoundBy[u]

(* Fault: only Requires= pulls a unit in.                                  *)
PulledByRequires(u) == {v \in Unit : u \in RequiredBy[v]}

Pulled(u) == {v \in Unit : u \in Needers(v)}

TypeOK ==
    /\ status \in [Unit -> {"NeverStarted", "Started", "Stopping", "Stopped"}]
    /\ parked \in [Unit -> [Phase -> Nat]]
    /\ active \subseteq Unit
    /\ DOMAIN counts \subseteq Unit
    /\ counts \in [DOMAIN counts -> Nat]
    /\ owed \in [Unit -> [Unit -> Nat]]
    /\ after \subseteq Unit
    /\ DOMAIN rootJobs \subseteq Unit
    /\ rootJobs \in [DOMAIN rootJobs -> JobId]
    /\ IsRegistry(reg)
    /\ asked \in [Waiter -> Unit \cup {NoUnit}]
    /\ answered \subseteq Waiter
    /\ restarts \in 0 .. MaxRestarts

Init ==
    /\ status = [u \in Unit |-> "Started"]
    /\ parked = [u \in Unit |-> [ph \in Phase |-> 0]]
    /\ active = {}
    /\ counts = << >>
    /\ owed = [c \in Unit |-> [p \in Unit |-> 0]]
    /\ after = {}
    /\ rootJobs = << >>
    /\ work = << >>
    /\ queue = << >>
    /\ reg = EmptyRegistry
    /\ asked = [c \in Waiter |-> NoUnit]
    /\ answered = {}
    /\ restarts = 0

-----------------------------------------------------------------------------
(* Clients. *)

Settled == work = << >> /\ queue = << >> /\ active = {}

StopTree(u, job) == [op |-> "begin", unit |-> u, job |-> job]

(* Bound: job ids do not run out (2^32 - 1 in the code).                   *)
IdsRemain == reg.nextId < MaxId

(* stop_units_via_tree, with the default job mode: two Stop requests for a *)
(* unit share one job.  A start requested during the stop, whose mark the  *)
(* client applies afterwards, is a Restart here; whether the client still  *)
(* listens after 120 s makes no difference to PID 1.                       *)
RequestStop(c, u) ==
    LET id == CreatedId(reg, u, "Stop", "Replace")
    IN  /\ asked[c] = NoUnit
        /\ IdsRemain
        /\ Overlap \/ Settled
        /\ reg' = AddWaiter(SetRunning(Create(reg, u, "Stop", "Replace"), id),
                            id, c)
        /\ asked' = [asked EXCEPT ![c] = u]
        /\ queue' = Append(queue, StopTree(u, id))
        /\ UNCHANGED << status, parked, graph, work, answered, restarts >>

(* Somebody starts a stopped unit again and with it the units it pulls in. *)
(* A StopWhenUnneeded= unit is started only this way.                      *)
Restart(u) ==
    /\ restarts < MaxRestarts
    /\ Overlap \/ Settled
    /\ status[u] \in Down
    /\ u \notin Unneeded
    /\ status' = [v \in Unit |-> IF v \in {u} \cup Pulled(u) /\ status[v] \in Down
                                THEN "Started" ELSE status[v]]
    /\ restarts' = restarts + 1
    /\ UNCHANGED << parked, graph, work, queue, reg, clients >>

-----------------------------------------------------------------------------
(* The dispatcher takes an event. *)

Idle == work = << >>

Take ==
    /\ Idle
    /\ queue # << >>
    /\ work' = << Head(queue) >>
    /\ queue' = Tail(queue)
    /\ UNCHANGED << status, parked, graph, reg, clients, restarts >>

Top == work[Len(work)]

Callers == IF Idle THEN << >> ELSE SubSeq(work, 1, Len(work) - 1)

Running(op) == work # << >> /\ Top.op = op

(* The frame, or the event handler, returns after calling the frames in    *)
(* calls.                                                                  *)
Return(calls) == work' = Callers \o calls

(* Fault: the job goes without a reply.                                    *)
FinishJobSilently(id) ==
    /\ reg' = Finish(reg, id)
    /\ UNCHANGED << asked, answered >>

(* finish(job, Done), with the replies it sends.                           *)
FinishJob(id) ==
    /\ reg' = Finish(reg, id)
    /\ answered' = answered \cup Woken(reg, id)
    /\ UNCHANGED asked

FinishNoJob == UNCHANGED << reg, clients >>

(* finish_stop_root(u), for roots the map of root jobs.                    *)
FinishRoot(u, roots) ==
    /\ rootJobs' = Without(roots, u)
    /\ IF u \in DOMAIN roots THEN FinishJob(roots[u]) ELSE FinishNoJob

-----------------------------------------------------------------------------
(* begin_stop_tree *)

(* A root that is in the graph already: a duplicate job completes now.     *)
BeginDuplicate ==
    /\ Running("begin")
    /\ Top.unit \in active
    /\ IF Top.job # NoJob THEN FinishJob(Top.job) ELSE FinishNoJob
    /\ Return(<< >>)
    /\ UNCHANGED << status, parked, graph, queue, restarts >>

(* The units reached from root through units that are not down.            *)
Members(root) ==
    LET up     == {u \in Unit : status[u] \notin Down}
        closed == {S \in SUBSET up :
                     root \in S /\ \A u \in S : Dependents(u) \cap up \subseteq S}
    IN  {u \in up : root \in up /\ \A S \in closed : u \in S}

(* Fault: a tree without a job is entered too.                             *)
RootJobsAlways == With(rootJobs, Top.unit, Top.job)

RootJobs == IF Top.job # NoJob THEN With(rootJobs, Top.unit, Top.job)
            ELSE rootJobs

BeginEmpty ==
    /\ Running("begin")
    /\ Top.unit \notin active
    /\ Members(Top.unit) = {}
    /\ FinishRoot(Top.unit, RootJobs)
    /\ Return(<< >>)
    /\ UNCHANGED << status, parked, active, counts, owed, after, queue, restarts >>

(* Fault: dependents that are not being stopped are waited for as well.    *)
CountAll(members, p) ==
    LET old == IF p \in DOMAIN counts THEN counts[p] ELSE 0
    IN  old + IF p \in members THEN Cardinality(Dependents(p)) ELSE 0

(* What the new edges, from every member to its dependents, add.           *)
CountWith(members, p) ==
    LET act == active \cup members
        old == IF p \in DOMAIN counts THEN counts[p] ELSE 0
        Waits(S) == IF p \in members THEN Cardinality(S \cap act) ELSE 0
    IN  old + Waits(RequiredBy[p]) + Waits(PartOfBy[p]) + Waits(BoundBy[p])

BeginTree ==
    LET members == Members(Top.unit)
        act     == active \cup members
        newCounts == [p \in DOMAIN counts \cup members |-> CountWith(members, p)]
    IN  /\ Running("begin")
        /\ Top.unit \notin active
        /\ members # {}
        /\ rootJobs' = RootJobs
        /\ active' = act
        /\ counts' = newCounts
        /\ owed' = [c \in Unit |-> [p \in Unit |->
                      owed[c][p] + IF c \in act /\ p \in members
                                   THEN Edges(c, p) ELSE 0]]
        /\ after' = after \cup {u \in members : PropagatesTo[u] # {}}
        /\ Return(<< [op    |-> "chains",
                      units |-> {u \in members : newCounts[u] = 0}] >>)
        /\ UNCHANGED << status, parked, queue, reg, clients, restarts >>

(* The loop over the leaves, whose list was made before the first chain    *)
(* started.                                                                *)
NextLeaf ==
    /\ Running("chains")
    /\ \/ Top.units = {} /\ Return(<< >>)
       \/ \E u \in Top.units :
            Return(<< [Top EXCEPT !.units = @ \ {u}],
                      [op |-> "start", unit |-> u] >>)
    /\ UNCHANGED << status, parked, graph, queue, reg, clients, restarts >>

-----------------------------------------------------------------------------
(* One unit's chain: start_stop_chain, service_stop_chain_step and         *)
(* route_stop_outcome.                                                     *)

Finished(u) == << [op |-> "finished", unit |-> u] >>

Park(p, u, phase) ==
    [p EXCEPT ![u][phase] = IF phase = "main" THEN 1 ELSE @ + 1]

Unpark(u, phase) == [parked EXCEPT ![u][phase] = @ - 1]

(* finalize_stop_chain *)
Finalize(u, p) ==
    /\ status' = [status EXCEPT ![u] = "Stopped"]
    /\ parked' = p
    /\ Return(Finished(u))

(* The ExecStopPost= phase, entered with chains p and status st; a command *)
(* that cannot be spawned is skipped.                                      *)
PostPhase(u, p, st) ==
    \/ /\ u \in ExecStopPost
       /\ status' = st
       /\ parked' = Park(p, u, "post")
       /\ Return(<< >>)
    \/ Finalize(u, p)

(* InitiateTerm: Stopping, then SIGTERM to a main process that is alive.   *)
TermPhase(u, p) ==
    LET st == [status EXCEPT ![u] = IF @ = "Stopped" THEN @ ELSE "Stopping"]
    IN  \/ /\ status' = st
           /\ parked' = Park(p, u, "main")
           /\ Return(<< >>)
        \/ PostPhase(u, p, st)

StartService(u) ==
    \/ /\ u \in ExecStop
       /\ parked' = Park(parked, u, "exec")
       /\ UNCHANGED status
       /\ Return(<< >>)
    \/ TermPhase(u, parked)

(* deactivate_unit: refused, with only the error recorded, while a         *)
(* dependent is started.                                                   *)
StopInline(u) ==
    /\ IF \E c \in Dependents(u) : status[c] = "Started"
       THEN UNCHANGED status
       ELSE status' = [status EXCEPT ![u] = "Stopped"]
    /\ UNCHANGED parked
    /\ Return(Finished(u))

StartChain ==
    /\ Running("start")
    /\ IF Top.unit \in Service THEN StartService(Top.unit)
       ELSE StopInline(Top.unit)
    /\ UNCHANGED << graph, queue, reg, clients, restarts >>

(* A process that a chain of u is parked on exits, or its deadline passes  *)
(* and it is killed; deadlines are looked at only when no event is queued. *)
Advance(u) ==
    /\ Idle
    /\ \/ /\ parked[u]["exec"] > 0
          /\ TermPhase(u, Unpark(u, "exec"))
       \/ /\ parked[u]["main"] > 0
          /\ PostPhase(u, Unpark(u, "main"), status)
       \/ /\ parked[u]["post"] > 0
          /\ Finalize(u, Unpark(u, "post"))
    /\ UNCHANGED << graph, queue, reg, clients, restarts >>

-----------------------------------------------------------------------------
(* on_stop_chain_finished *)

ChainFinished ==
    /\ Running("finished")
    /\ LET u == Top.unit
       IN  /\ active' = active \ {u}
           /\ counts' = Without(counts, u)
           /\ owed' = [owed EXCEPT ![u] = [p \in Unit |-> 0]]
           /\ FinishRoot(u, rootJobs)
           /\ Return(<< [op |-> "credit", unit |-> u, owed |-> owed[u]] >>)
    /\ UNCHANGED << status, parked, after, queue, restarts >>

(* Fault: the first credit starts the parent's chain.                      *)
DueAtOnce(p, n) == p \in DOMAIN counts

(* Fault: the chain is due one credit early, and not when the last comes.  *)
DueOneEarly(p, n) == p \in DOMAIN counts /\ n = 1

(* Nothing is left to wait for.                                            *)
Due(p, n) == p \in DOMAIN counts /\ n = 0

(* One parent is credited: its chain starts when nothing is left to wait   *)
(* for.                                                                    *)
Credit ==
    /\ Running("credit")
    /\ \E p \in Unit :
         LET n    == IF p \in DOMAIN counts /\ counts[p] > 0
                     THEN counts[p] - 1 ELSE 0
             rest == [Top EXCEPT !.owed[p] = @ - 1]
         IN  /\ Top.owed[p] > 0
             /\ IF p \in DOMAIN counts
                THEN counts' = [counts EXCEPT ![p] = n]
                ELSE UNCHANGED counts
             /\ Return(IF Due(p, n)
                       THEN << rest, [op |-> "start", unit |-> p] >>
                       ELSE << rest >>)
    /\ UNCHANGED << status, parked, active, owed, after, rootJobs, queue,
                    reg, clients, restarts >>

(* Every parent is credited; then each PropagatesStopTo= target gets a     *)
(* tree of its own, here and now, ...                                      *)
CreditsDone ==
    /\ Running("credit")
    /\ \A p \in Unit : Top.owed[p] = 0
    /\ after' = after \ {Top.unit}
    /\ Return(<< [op |-> "trees", unit |-> Top.unit,
                  units |-> IF Top.unit \in after THEN PropagatesTo[Top.unit]
                            ELSE {}] >>)
    /\ UNCHANGED << status, parked, active, counts, owed, rootJobs, queue,
                    reg, clients, restarts >>

NextTree ==
    /\ Running("trees")
    /\ \E u \in Top.units :
         Return(<< [Top EXCEPT !.units = @ \ {u}], StopTree(u, NoJob) >>)
    /\ UNCHANGED << status, parked, graph, queue, reg, clients, restarts >>

(* ... and the units that u pulled in are looked at in a later event.      *)
TreesDone ==
    /\ Running("trees")
    /\ Top.units = {}
    /\ queue' = IF Pulled(Top.unit) = {} THEN queue
                ELSE Append(queue, [op |-> "gc", units |-> Pulled(Top.unit)])
    /\ Return(<< >>)
    /\ UNCHANGED << status, parked, graph, reg, clients, restarts >>

(* is_unit_unneeded *)
IsUnneeded(u) ==
    /\ u \in Unneeded
    /\ status[u] = "Started"
    /\ \A n \in Needers(u) : status[n] # "Started"

(* Event::GcUnneeded: the candidates are checked together, then stopped    *)
(* one after the other.                                                    *)
Collect ==
    /\ Running("gc")
    /\ Return(<< [op |-> "collect", units |-> {u \in Top.units : IsUnneeded(u)}] >>)
    /\ UNCHANGED << status, parked, graph, queue, reg, clients, restarts >>

NextCollected ==
    /\ Running("collect")
    /\ \/ Top.units = {} /\ Return(<< >>)
       \/ \E u \in Top.units :
            Return(<< [Top EXCEPT !.units = @ \ {u}], StopTree(u, NoJob) >>)
    /\ UNCHANGED << status, parked, graph, queue, reg, clients, restarts >>

-----------------------------------------------------------------------------

Dispatch ==
    \/ Take
    \/ BeginDuplicate \/ BeginEmpty \/ BeginTree \/ NextLeaf
    \/ StartChain
    \/ ChainFinished \/ Credit \/ CreditsDone \/ NextTree \/ TreesDone
    \/ Collect \/ NextCollected

AllDone == Settled /\ answered = Waiter /\ UNCHANGED vars

Next ==
    \/ Dispatch
    \/ \E u \in Unit : Advance(u)
    \/ \E c \in Waiter, u \in Unit : RequestStop(c, u)
    \/ \E u \in Unit : Restart(u)
    \/ AllDone

Spec == Init /\ [][Next]_vars

(* The dispatcher runs, and every process it waits for exits or is killed  *)
(* at its deadline (TimeoutStopSec= is not infinity).                      *)
FairSpec ==
    Spec /\ WF_vars(Dispatch) /\ \A u \in Unit : WF_vars(Advance(u))

-----------------------------------------------------------------------------

(* What a client sees of a unit: its stop has begun when its ExecStop=     *)
(* command runs or its status says so.                                     *)
PhaseOf(u) ==
    CASE status[u] \in Down -> "down"
      [] status[u] \notin Down /\ (status[u] = "Stopping" \/ parked[u]["exec"] > 0) -> "stopping"
      [] OTHER -> "up"

Ordered == INSTANCE OrderedStop WITH
    Client       <- Waiter,
    DependentsOf <- [u \in Unit |-> Dependents(u)],
    phase        <- [u \in Unit |-> PhaseOf(u)]

(* The graph and its chains keep the promise of OrderedStop: dependents    *)
(* are down before anything is done to a unit and still are when it goes   *)
(* down, answers are true, and everyone gets one.                          *)
StopsInOrder == Ordered!Spec

(* A unit has one chain at most: its ExecStop= commands are not run twice. *)
OneChain ==
    \A u \in Unit : parked[u]["exec"] + parked[u]["main"] + parked[u]["post"] <= 1

(* The dispatcher never comes to rest with a unit it still means to stop   *)
(* or a client it still owes an answer.                                    *)
NothingForgotten ==
    (Idle /\ queue = << >> /\ \A u \in Unit, ph \in Phase : parked[u][ph] = 0)
        => /\ active = {}
           /\ rootJobs = << >>
           /\ \A c \in Waiter : asked[c] # NoUnit => c \in answered

(* Once a stop is requested the client is answered, ...                    *)
StopAnswered ==
    \A c \in Waiter : asked[c] # NoUnit ~> c \in answered

(* ... and the stop takes effect: the unit goes down unless somebody       *)
(* starts it again, whichever other stops it meets.  The answer itself may *)
(* come earlier, when the unit is being stopped already (BeginDuplicate).  *)
StopTakesEffect ==
    \A c \in Waiter, u \in Unit : asked[c] = u ~> (restarts > 0 \/ status[u] \in Down)

(* In the end no StopWhenUnneeded= unit stays up that nobody who   *)
(* is up needs.                                                            *)
UnneededCollected ==
    <>[](\A u \in Unneeded :
           (\A n \in Needers(u) : status[n] \in Down) => status[u] \in Down)
=============================================================================
