--------------------------- MODULE MC_StartSweep ---------------------------
(* Small start closures for TLC.                                           *)
EXTENDS StartSweep

CONSTANTS goal, db, log, app, mnt

None == [u \in Unit |-> {}]

(* db and app are reached from two sides, by the completion of mnt and by  *)
(* the chain of log, whose condition fails.  app is the service that parks *)
(* and nothing is ordered after it.                                        *)
FanInAfter == [None EXCEPT ![goal] = {db}, ![app] = {log, mnt}, ![db] = {log, mnt}]
FanInWants == [None EXCEPT ![goal] = {app, db, log}, ![app] = {mnt}]
FanInRequires == [None EXCEPT ![db] = {mnt}]
=============================================================================
