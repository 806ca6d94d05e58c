-------------------------------- MODULE Packet --------------------------------
(* networkio::proto::packet and the memory::buffer under it: one reader and *)
(* one writer move through a block that grows, whose start set_start moves. *)
(* m_begin and the two pointers are positions in the block; a length takes  *)
(* one byte.                                                                *)
EXTENDS Integers, Sequences

CONSTANTS Bytes,       \* byte values, which are lengths as well: 0, 1 ...
          Capacity,    \* of a packet that is made to be written
          MaxWritten   \* bound: bytes written

VARIABLES
  m_size, m_offset,    \* of the buffer; m_begin is at m_offset
  block,               \* what the block holds: any bytes before they are written
  m_read_pointer, m_write_pointer,
  moved,               \* the block is not the one of m_read_pointer any more
  out                  \* the bytes the last operation returned

vars == <<m_size, m_offset, block, m_read_pointer, m_write_pointer, moved, out>>

OfLength(n) == [1 .. n -> Bytes]
Blocks == UNION {OfLength(n) : n \in 1 .. 2}
Texts == UNION {OfLength(n) : n \in 0 .. 2}
Lengths == 1 .. 3

(* A packet to be written, or one that read_packet has made of a payload:   *)
(* its block is full.                                                       *)
Init ==
  /\ \/ m_size = Capacity /\ m_write_pointer = 0
     \/ m_size \in 1 .. Capacity /\ m_write_pointer = m_size
  /\ block \in OfLength(m_size)
  /\ m_offset = 0 /\ m_read_pointer = 0 /\ moved = FALSE /\ out = <<>>

-----------------------------------------------------------------------------
(* Mutant of Grown: the block grows only when it is full.                   *)
GrownWhenFull(size, at, n) == IF size = at THEN size + n ELSE size

(* ensure_capacity of n bytes at a write pointer: the size of the block.    *)
Grown(size, at, n) == IF size - at < n THEN size + n ELSE size

(* Bytes are written to a block of this size.  A block that grows may move: *)
(* the write pointer is corrected, the read pointer is not.                 *)
Write(bytes, size) ==
  /\ m_write_pointer + Len(bytes) <= MaxWritten
  /\ m_size' = size
  /\ \E new \in OfLength(size - m_size) :
       LET larger == block \o new IN
       block' = [i \in 1 .. size |->
                   IF i - m_write_pointer \in DOMAIN bytes
                     THEN bytes[i - m_write_pointer] ELSE larger[i]]
  /\ m_write_pointer' = m_write_pointer + Len(bytes)
  /\ \/ UNCHANGED moved
     \/ size > m_size /\ moved' = TRUE
  /\ out' = <<>>
  /\ UNCHANGED <<m_offset, m_read_pointer>>

write_data(bytes) == Write(bytes, Grown(m_size, m_write_pointer, Len(bytes)))

(* Mutant of Encoded: the length after the bytes.                           *)
EncodedLengthLast(text) == text \o <<Len(text)>>

(* A string: its length, and its bytes.                                     *)
Encoded(text) == <<Len(text)>> \o text

(* write_string makes two writes, each of which may let the block grow.     *)
write_string(text) ==
  Write(Encoded(text),
        Grown(Grown(m_size, m_write_pointer, 1), m_write_pointer + 1, Len(text)))

-----------------------------------------------------------------------------
(* size().                                                                  *)
Size == m_write_pointer - m_offset

(* read_bytesleft(), with the read pointer at a position.                   *)
BytesLeft(at) == Size - (at - m_offset)

(* read_data from a position: too few bytes are not read.  A pointer into   *)
(* an old block must not be followed: the model has no such step.           *)
Read(at, n) ==
  /\ ~moved
  /\ out' = IF n <= BytesLeft(at) THEN SubSeq(block, at + 1, at + n) ELSE <<>>
  /\ m_read_pointer' = IF n <= BytesLeft(at) THEN at + n ELSE at
  /\ UNCHANGED <<m_size, m_offset, block, m_write_pointer, moved>>

read_data(n) == Read(m_read_pointer, n)

(* read_string: a length, and as many bytes; "" when there are too few.     *)
read_string == IF BytesLeft(m_read_pointer) = 0
                 THEN Read(m_read_pointer, 0)
                 ELSE Read(m_read_pointer + 1, block[m_read_pointer + 1])

begin_read ==
  /\ m_read_pointer' = m_offset /\ moved' = FALSE /\ out' = <<>>
  /\ UNCHANGED <<m_size, m_offset, block, m_write_pointer>>

(* What set_start passes to set_offset: the distance from the start.        *)
NewOffset == m_read_pointer - m_offset

(* set_start: set_offset counts from the beginning of the block, and leaves *)
(* out an offset at its end.                                                *)
set_start ==
  /\ ~moved
  /\ m_offset' = IF NewOffset < m_size THEN NewOffset ELSE m_offset
  /\ m_read_pointer' = m_offset' /\ out' = <<>>
  /\ UNCHANGED <<m_size, block, m_write_pointer, moved>>

(* The copy constructor: all of the block counts as written.                *)
copy ==
  /\ m_read_pointer' = m_offset /\ m_write_pointer' = m_size
  /\ moved' = FALSE /\ out' = <<>>
  /\ UNCHANGED <<m_size, m_offset, block>>

Next == \/ \E b \in Blocks : write_data(b)
        \/ \E t \in Texts : write_string(t)
        \/ \E n \in Lengths : read_data(n)
        \/ read_string \/ begin_read \/ set_start \/ copy

Spec == Init /\ [][Next]_vars

-----------------------------------------------------------------------------
(* The variables keep their types: no pointer leaves the block, and the     *)
(* reader does not pass the writer.                                         *)
TypeOK ==
  /\ block \in OfLength(m_size)
  /\ 0 <= m_offset /\ m_offset <= m_read_pointer
  /\ m_read_pointer <= m_write_pointer /\ m_write_pointer <= m_size
  /\ moved \in BOOLEAN

Cursor == INSTANCE PacketCursor WITH
  written <- SubSeq(block, 1, m_write_pointer),
  position <- m_read_pointer, start <- m_offset

(* Each operation is one of a cursor over the bytes written, whether the    *)
(* block has to grow, moves or has a start of its own (packet.h:46-95,      *)
(* packet.cpp:52-111).  Three are not, and are excepted by name: a second   *)
(* set_start, set_start at the end of the block (packet.h:53-54,            *)
(* shared_buffer.cpp:55-60), and a copy of a block with bytes to spare      *)
(* (packet.cpp:42-45).                                                      *)
StepsOfCursor ==
  [][\/ Cursor!Next
     \/ set_start /\ (m_offset > 0 \/ m_read_pointer = m_size)
     \/ copy /\ m_write_pointer < m_size]_vars
=============================================================================
