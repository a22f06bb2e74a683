---------------------------- MODULE MC_BootDrive ----------------------------
(* A boot closure for TLC.                                                 *)
EXTENDS BootDrive

CONSTANTS dev, mnt, app, log

None == [u \in Unit |-> {}]

(* The goal app needs mnt, which needs dev; it pulls in log, which is only *)
(* ordered after it.                                                       *)
BootAfter == [None EXCEPT ![app] = {mnt}, ![mnt] = {dev}, ![log] = {app}]
BootRequires == [None EXCEPT ![mnt] = {dev}, ![app] = {mnt}]
BootWants == [None EXCEPT ![app] = {log}]

(* Who starts log beside the drive does not get to mnt or app.             *)
ASSUME LogApart == OthersApart
=============================================================================
