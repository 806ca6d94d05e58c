---------------------------- MODULE MCStructures ----------------------------
(* One run for the four structures of the library that stand alone:         *)
(* fifo_buffer, ring_buffer, packet and session_store.  A behaviour is one  *)
(* of a single structure, the one that `which` names.                       *)
EXTENDS FifoBuffer

CONSTANTS
  RingSizes, RingMax,             \* Sizes and MaxSize of RingBuffer
  PacketBytes, Capacity, MaxWritten,  \* of Packet
  Requests, Cookies               \* of SessionStore

ASSUME RingAssumption == RingMax \in Nat /\ RingSizes \subseteq 0 .. RingMax

(* A length takes one byte, and texts have up to two bytes.                 *)
ASSUME PacketAssumption == /\ 0 .. 2 \subseteq PacketBytes /\ PacketBytes \subseteq Nat
                           /\ Capacity \in Nat /\ MaxWritten \in Nat

VARIABLES
  which,
  ring, ring_size, ring_read, ring_write, ring_bytes, ring_queue, ring_disordered,
  pkt_size, pkt_offset, pkt_block, pkt_read, pkt_write, pkt_moved, pkt_out,
  sessions, cookie, found, holds, pc

(* Nothing, less than a block, a whole block, more than there is; a size    *)
(* that is not positive is answered with 0.                                 *)
AskedFor == -1 .. 5

Ring == INSTANCE RingBuffer WITH
  Sizes <- RingSizes, MaxSize <- RingMax,
  m_buffer <- ring, m_buffer_size <- ring_size, m_read_offs <- ring_read,
  m_write_offs <- ring_write, m_bytes_written <- ring_bytes,
  queue <- ring_queue, disordered <- ring_disordered

Pkt == INSTANCE Packet WITH
  Bytes <- PacketBytes,
  m_size <- pkt_size, m_offset <- pkt_offset, block <- pkt_block,
  m_read_pointer <- pkt_read, m_write_pointer <- pkt_write,
  moved <- pkt_moved, out <- pkt_out

Store == INSTANCE SessionStore

fifo == <<m_buffer, m_buffer_size, block, out, broken>>
ringVars == <<ring, ring_size, ring_read, ring_write, ring_bytes, ring_queue,
              ring_disordered>>
pktVars == <<pkt_size, pkt_offset, pkt_block, pkt_read, pkt_write, pkt_moved,
             pkt_out>>
storeVars == <<sessions, cookie, found, holds, pc>>

(* The structures that are not looked at stay in one initial state each.    *)
StructuresInit ==
  /\ which \in {"fifo", "ring", "packet", "store"}
  /\ Init /\ Ring!Init /\ Pkt!Init /\ Store!Init
  /\ which # "ring" => ring_size = 0
  /\ which # "packet" => pkt_block = <<0>>
  /\ which # "store" => cookie = [r \in Requests |-> "implement_me"]

StructuresNext ==
  \/ which = "fifo" /\ Next /\ UNCHANGED <<which, ringVars, pktVars, storeVars>>
  \/ which = "ring" /\ Ring!Next /\ UNCHANGED <<which, fifo, pktVars, storeVars>>
  \/ which = "packet" /\ Pkt!Next /\ UNCHANGED <<which, fifo, ringVars, storeVars>>
  \/ which = "store" /\ Store!Next /\ UNCHANGED <<which, fifo, ringVars, pktVars>>

StructuresSpec ==
  StructuresInit /\ [][StructuresNext]_<<which, fifo, ringVars, pktVars, storeVars>>

-----------------------------------------------------------------------------
(* The type invariants of the four modules: the pointers of a packet stay   *)
(* in its block (packet.cpp:14-111), and so do the offsets of a ring_buffer *)
(* until the order of its bytes is lost (ring_buffer.cpp:39-50, 123-134);   *)
(* the size of a fifo_buffer is that of its block (fifo_buffer.cpp:35-44,   *)
(* 91-102), and who holds the mutex of a session_store exclusively holds it *)
(* alone.                                                                   *)
StructuresTypeOK ==
  /\ TypeOK /\ BlockFits
  /\ Ring!TypeOK
  /\ Pkt!TypeOK
  /\ Store!TypeOK /\ Store!ExclusiveLock

(* RingBuffer: a queue around the end of the block (ring_buffer.cpp:39-50). *)
RingIsQueue == Ring!RingIsQueue

(* Packet: the operations are those of a cursor over the bytes written      *)
(* (packet.h:46-95).                                                        *)
StepsOfCursor == Pkt!StepsOfCursor

(* SessionStore: no request replaces a session that was handed out          *)
(* (http_session_store.cpp:36-47).                                          *)
NeverReplaced == Store!NeverReplaced
=============================================================================
