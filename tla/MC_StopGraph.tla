---------------------------- MODULE MC_StopGraph ----------------------------
(***************************************************************************)
(* StopGraph for TLC: the unit files of the runs, as dependency maps.      *)
(***************************************************************************)
EXTENDS StopGraph, TLC

CONSTANTS db, app, web, cache, log, c1, c2

None == [u \in Unit |-> {}]

(* web -> app -> db by three kinds of dependency, web also directly on db; *)
(* stopping db propagates to log, and cache is wanted by web and app.      *)
StackRequiredBy == [None EXCEPT ![db] = {app}]
StackPartOfBy   == [None EXCEPT ![app] = {web}]
StackBoundBy    == [None EXCEPT ![db] = {app, web}]
StackWantedBy   == [None EXCEPT ![cache] = {web, app}]
StackPropagates == [None EXCEPT ![db] = {log}]

(* app requires db, and stopping app propagates to log.                    *)
OverlapRequiredBy == [None EXCEPT ![db] = {app}]
OverlapPropagates == [None EXCEPT ![app] = {log}]
=============================================================================
