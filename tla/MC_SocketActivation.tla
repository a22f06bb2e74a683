------------------------- MODULE MC_SocketActivation -------------------------
(***************************************************************************)
(* SocketActivation for TLC: the limits of each kind of socket.            *)
(***************************************************************************)
EXTENDS SocketActivation, TLC

TriggerLimits == [simple |-> 2, notify |-> 0, accept |-> 2]
PollLimits == [simple |-> 0, notify |-> 1, accept |-> 1]

=============================================================================
