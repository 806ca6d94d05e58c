---------------------------- MODULE MCUdpServer ----------------------------
(* Instances of UdpServer for TLC.                                          *)
EXTENDS UdpServer

CONSTANTS p1, p2

(* A packet and the answer have one byte of payload.                        *)
OneByte(i) == 1

(* One peer writes two packets, the other only connects.                    *)
TwoOfOne(p) == IF p = p1 THEN 2 ELSE 0
=============================================================================
