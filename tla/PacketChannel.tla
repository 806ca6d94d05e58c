--------------------------- MODULE PacketChannel ---------------------------
(* What packet_proto promises to the code above it (mux, the examples, the  *)
(* tests): a connection carries packets; the ones write_packet accepted are *)
(* handed out by read_packet whole, once, and in the order of acceptance,   *)
(* until one side closes.  Nothing is said of bytes, headers, buffers or    *)
(* threads: PacketProto implements this module.                             *)
EXTENDS Naturals, Sequences

CONSTANTS Conns,      \* connections
          Packets     \* what a packet may be

VARIABLES accepted,   \* accepted[c]: packets the sending side took, oldest first
          delivered,  \* delivered[c]: packets the receiving side was handed
          wopen,      \* the sending end of c is open
          ropen       \* the receiving end of c is open

vars == <<accepted, delivered, wopen, ropen>>

Init == /\ accepted = [c \in Conns |-> <<>>]
        /\ delivered = [c \in Conns |-> <<>>]
        /\ wopen = [c \in Conns |-> TRUE]
        /\ ropen = [c \in Conns |-> TRUE]

(* write_packet takes a packet only while its side is connected.            *)
Accept(c, p) == /\ wopen[c]
                /\ accepted' = [accepted EXCEPT ![c] = Append(@, p)]
                /\ UNCHANGED <<delivered, wopen, ropen>>

(* read_packet hands out the oldest packet not handed out yet.  A reader    *)
(* that was inside read_packet when its side closed may still get one.      *)
Deliver(c) ==
  /\ Len(delivered[c]) < Len(accepted[c])
  /\ delivered' = [delivered EXCEPT
                     ![c] = Append(@, accepted[c][Len(@) + 1])]
  /\ UNCHANGED <<accepted, wopen, ropen>>

CloseWrite(c) == /\ wopen' = [wopen EXCEPT ![c] = FALSE]
                 /\ UNCHANGED <<accepted, delivered, ropen>>

CloseRead(c) == /\ ropen' = [ropen EXCEPT ![c] = FALSE]
                /\ UNCHANGED <<accepted, delivered, wopen>>

Next == \E c \in Conns : \/ \E p \in Packets : Accept(c, p)
                         \/ Deliver(c)
                         \/ CloseWrite(c)
                         \/ CloseRead(c)

Spec == Init /\ [][Next]_vars
=============================================================================
