----------------------------- MODULE RingBuffer -----------------------------
(* networkio::memory::ring_buffer: a queue of bytes in a block that the     *)
(* offsets run around and that grows when a push does not fit.  Each        *)
(* operation runs under m_mutex, so it is one step.                         *)
EXTENDS Integers, Sequences

CONSTANTS Bytes,      \* byte values
          Sizes,      \* initial_size of the constructor, 0 for the other one
          MaxSize     \* bound: bytes in the block

VARIABLES
  m_buffer,           \* the block: a byte, or Garbage, per place
  m_buffer_size,
  m_read_offs, m_write_offs, m_bytes_written,
  queue,              \* the bytes pushed and not popped, oldest first, as
                      \* long as they are in order
  disordered          \* the block has grown, or peek was called, at a time
                      \* when they lose the order of the bytes

vars == <<m_buffer, m_buffer_size, m_read_offs, m_write_offs, m_bytes_written,
          queue, disordered>>

Garbage == "garbage"
Places(size) == 0 .. size - 1

Init ==
  /\ m_buffer_size \in Sizes
  /\ m_buffer = [i \in Places(m_buffer_size) |-> Garbage]
  /\ m_read_offs = 0 /\ m_write_offs = 0 /\ m_bytes_written = 0
  /\ queue = <<>> /\ disordered = FALSE

BytesLeft == m_buffer_size - m_bytes_written

(* Mutant of Place: no wrap at the end of the block.                        *)
LastPlace(offs, n, size) == IF n < size - offs THEN offs + n ELSE size - 1

(* Where n bytes lead from an offset: up to the end of the block and then   *)
(* on from its beginning, once.  From the end itself that is n, which may   *)
(* be the end again.                                                        *)
Place(offs, n, size) == IF n < size - offs THEN offs + n ELSE n - (size - offs)

(* What push_back adds to the block for n bytes.                            *)
GrownBy(n) == IF n > BytesLeft THEN n - BytesLeft ELSE 0

(* push_back.  A block that grows moves the write offset by the old size:   *)
(* the bytes stay in order when the old ones fill the block to its end;     *)
(* otherwise the offset may come to stand at the end of the new block, or   *)
(* past it.  From the end nothing is copied before the wrap; past it the    *)
(* length that memcpy gets is negative, and the model has no step.          *)
push_back(b) ==
  LET size == m_buffer_size + GrownBy(Len(b))
      at == IF GrownBy(Len(b)) > 0 THEN m_write_offs + m_buffer_size ELSE m_write_offs
      From(i) == {j \in DOMAIN b : Place(at, j - 1, size) = i}
      Kept(i) == IF i < m_buffer_size THEN m_buffer[i] ELSE Garbage
  IN /\ b # <<>> /\ size <= MaxSize /\ at <= size
     /\ m_buffer_size' = size
     /\ m_buffer' = [i \in Places(size) |->
          IF From(i) = {} THEN Kept(i) ELSE b[CHOOSE j \in From(i) : TRUE]]
     /\ m_write_offs' = Place(at, Len(b), size)
     /\ m_bytes_written' = m_bytes_written + Len(b)
     /\ disordered' = (disordered \/ /\ GrownBy(Len(b)) > 0 /\ m_buffer_size > 0
                                     /\ (m_write_offs # 0 \/ m_bytes_written = 0))
     /\ queue' = IF disordered' THEN <<>> ELSE queue \o b
     /\ UNCHANGED m_read_offs

Received(n) == IF n < m_bytes_written THEN n ELSE m_bytes_written

(* pop_front, with a destination (the branches of Place) or without one     *)
(* (the remainder, the same for an offset inside the block).                *)
pop_front(n) ==
  /\ Received(n) > 0
  /\ m_read_offs' = Place(m_read_offs, Received(n), m_buffer_size)
  /\ m_bytes_written' = m_bytes_written - Received(n)
  /\ queue' = SubSeq(queue, Received(n) + 1, Len(queue))
  /\ UNCHANGED <<m_buffer, m_buffer_size, m_write_offs, disordered>>

(* peek of a type of n bytes: the read offset is put back, the number of    *)
(* bytes is not.                                                            *)
peek(n) ==
  /\ Received(n) > 0
  /\ m_bytes_written' = m_bytes_written - Received(n)
  /\ disordered' = TRUE /\ queue' = <<>>
  /\ UNCHANGED <<m_buffer, m_buffer_size, m_read_offs, m_write_offs>>

Blocks == UNION {[1 .. n -> Bytes] : n \in 1 .. MaxSize}

Next == \/ \E b \in Blocks : push_back(b)
        \/ \E n \in 1 .. MaxSize : pop_front(n) \/ peek(n)

Spec == Init /\ [][Next]_vars

-----------------------------------------------------------------------------
(* The variables keep their types.  The read offset stays inside the block, *)
(* and never more is written than it holds.  The write offset stays inside  *)
(* it as long as the bytes are in order; a growth that loses the order may  *)
(* leave it at the end (ring_buffer.cpp:39-46, 112), which is no place.     *)
TypeOK ==
  /\ m_buffer \in [Places(m_buffer_size) -> Bytes \cup {Garbage}]
  /\ m_buffer_size \in 0 .. MaxSize
  /\ m_read_offs \in Places(m_buffer_size) \cup {0}
  /\ m_write_offs \in 0 .. m_buffer_size
  /\ disordered \/ m_write_offs \in Places(m_buffer_size) \cup {0}
  /\ m_bytes_written \in 0 .. m_buffer_size

(* What the next pop_front returns, were all of it asked for.               *)
Content == [i \in 1 .. m_bytes_written |->
              m_buffer[Place(m_read_offs, i - 1, m_buffer_size)]]

(* The ring is a queue around its end and through the growth of a block     *)
(* that is full to its end (ring_buffer.cpp:39-50, 105-134): the condition  *)
(* names the two calls that do not keep the order, a growth at another time *)
(* (ring_buffer.cpp:112) and peek (ring_buffer.h:45).                       *)
RingIsQueue == ~disordered => Content = queue
=============================================================================
