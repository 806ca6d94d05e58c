-------------------------- MODULE MCStreamSockets --------------------------
(* Instances of StreamSockets for TLC.                                      *)
EXTENDS StreamSockets, TLC

(* The servers differ in nothing.                                           *)
ServersAlike == Permutations(Servers)
=============================================================================
