---------------------------- MODULE OrderedStop ----------------------------
(***************************************************************************)
(* What stopping units promises, without the graph, the chains, the jobs   *)
(* and the dispatcher that keep the promise in StopGraph: a unit goes down *)
(* only when everything that depends on it is down, a client is answered   *)
(* only when its unit is down, and every client is answered.               *)
(***************************************************************************)

CONSTANTS
    Unit,
    Client,
    NoUnit,
    DependentsOf   \* DependentsOf[u]: the units that go down before u

VARIABLES
    phase,         \* phase[u]: "up", "stopping" or "down"
    asked,         \* asked[c]: the unit client c asked to stop, or NoUnit
    answered       \* the clients who were told that it is done

vars == << phase, asked, answered >>

Init ==
    /\ phase = [u \in Unit |-> "up"]
    /\ asked = [c \in Client |-> NoUnit]
    /\ answered = {}

Ask(c, u) ==
    /\ asked[c] = NoUnit
    /\ asked' = [asked EXCEPT ![c] = u]
    /\ UNCHANGED << phase, answered >>

DependentsDown(u) == \A d \in DependentsOf[u] : phase[d] = "down"

Begin(u) ==
    /\ phase[u] = "up" /\ DependentsDown(u)
    /\ phase' = [phase EXCEPT ![u] = "stopping"]
    /\ UNCHANGED << asked, answered >>

(* A unit without commands and processes goes down at once.                *)
End(u) ==
    /\ phase[u] # "down" /\ DependentsDown(u)
    /\ phase' = [phase EXCEPT ![u] = "down"]
    /\ UNCHANGED << asked, answered >>

(* Two requests for one unit may share a job and get its answer together.  *)
Answer(C) ==
    /\ \A c \in C : asked[c] # NoUnit /\ phase[asked[c]] = "down"
    /\ answered' = answered \cup C
    /\ UNCHANGED << phase, asked >>

Start(U) ==
    /\ \A u \in U : phase[u] = "down"
    /\ phase' = [u \in Unit |-> IF u \in U THEN "up" ELSE phase[u]]
    /\ UNCHANGED << asked, answered >>

Next ==
    \/ \E c \in Client, u \in Unit : Ask(c, u)
    \/ \E u \in Unit : Begin(u) \/ End(u)
    \/ \E C \in SUBSET Client : Answer(C)
    \/ \E U \in SUBSET Unit : Start(U)

EveryoneAnswered == \A c \in Client : asked[c] # NoUnit ~> c \in answered

Spec == Init /\ [][Next]_vars /\ EveryoneAnswered
=============================================================================
