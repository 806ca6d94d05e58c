----------------------------- MODULE FifoBuffer -----------------------------
(* networkio::memory::fifo_buffer: a block of the heap that is replaced by  *)
(* every operation.  Each operation runs under m_mutex, so it is one step.  *)
(* realloc and free of memory that is free already are undefined: they set  *)
(* the flag broken, and the model ends there.                               *)
EXTENDS Integers, Sequences

CONSTANTS Bytes,       \* byte values
          Amounts,     \* sizes asked for by pop_front
          MaxLength    \* bound: bytes in the buffer

ASSUME AmountsAssumption == Amounts \subseteq Int
ASSUME MaxLengthAssumption == MaxLength \in Nat

VARIABLES
  m_buffer,        \* "null", "valid", or "freed": it points to freed memory
  m_buffer_size,
  block,           \* what the allocated block holds
  out,             \* the bytes the last pop_front copied to its caller
  broken           \* freed memory was passed to realloc or free

vars == <<m_buffer, m_buffer_size, block, out, broken>>

Init == /\ m_buffer = "null"
        /\ m_buffer_size = 0
        /\ block = <<>>
        /\ out = <<>>
        /\ broken = FALSE

(* The step of an operation that hands freed memory to the allocator.       *)
Break == broken' = TRUE /\ UNCHANGED <<m_buffer, m_buffer_size, block, out>>

(* push_back: the first block is allocated, a later one reallocated and     *)
(* filled from m_buffer_size on.                                            *)
push_back(b) ==
  /\ ~broken
  /\ Len(block) + Len(b) <= MaxLength
  /\ CASE b = <<>> ->
            out' = <<>> /\ UNCHANGED <<m_buffer, m_buffer_size, block, broken>>
       [] b # <<>> /\ m_buffer = "freed" -> Break
       [] OTHER ->
            /\ block' = block \o b
            /\ m_buffer_size' = m_buffer_size + Len(b)
            /\ m_buffer' = "valid"
            /\ out' = <<>>
            /\ UNCHANGED broken

Smaller(a, b) == IF a < b THEN a ELSE b

(* Mutant of _pop_front: the new block is copied from the old start.        *)
_pop_front_head(n) ==
  IF n = m_buffer_size
    THEN /\ block' = <<>>
         /\ m_buffer' = "null"
         /\ m_buffer_size' = 0
    ELSE /\ block' = SubSeq(block, 1, m_buffer_size - n)
         /\ m_buffer_size' = m_buffer_size - n
         /\ UNCHANGED m_buffer

(* _pop_front with 0 < n <= m_buffer_size: the block is freed, or a new one *)
(* takes the bytes that remain.                                             *)
_pop_front(n) ==
  IF n = m_buffer_size
    THEN /\ block' = <<>>
         /\ m_buffer' = "null"
         /\ m_buffer_size' = 0
    ELSE /\ block' = SubSeq(block, n + 1, m_buffer_size)
         /\ m_buffer_size' = m_buffer_size - n
         /\ UNCHANGED m_buffer

Nothing(size) == size <= 0 \/ m_buffer_size <= 0

(* pop_front(buf, size).                                                    *)
pop_front(size) ==
  /\ ~broken
  /\ IF Nothing(size)
       THEN out' = <<>> /\ UNCHANGED <<m_buffer, m_buffer_size, block>>
       ELSE /\ out' = SubSeq(block, 1, Smaller(size, m_buffer_size))
            /\ _pop_front(Smaller(size, m_buffer_size))
  /\ UNCHANGED broken

(* pop_front(size).                                                         *)
pop_front_skip(size) ==
  /\ ~broken
  /\ out' = <<>>
  /\ IF Nothing(size)
       THEN UNCHANGED <<m_buffer, m_buffer_size, block>>
       ELSE _pop_front(Smaller(size, m_buffer_size))
  /\ UNCHANGED broken

(* clear(): the block is freed, the size is 0, the pointer stays.           *)
clear ==
  /\ ~broken
  /\ CASE m_buffer = "null" ->
            out' = <<>> /\ UNCHANGED <<m_buffer, m_buffer_size, block, broken>>
       [] m_buffer = "freed" -> Break
       [] m_buffer = "valid" ->
            /\ m_buffer' = "freed"
            /\ m_buffer_size' = 0
            /\ block' = <<>>
            /\ out' = <<>>
            /\ UNCHANGED broken

Blocks == UNION {[1 .. n -> Bytes] : n \in 0 .. MaxLength}

Next == \/ \E b \in Blocks : push_back(b)
        \/ \E n \in Amounts : pop_front(n) \/ pop_front_skip(n)
        \/ clear

Spec == Init /\ [][Next]_vars

-----------------------------------------------------------------------------
(* The variables keep their types.                                          *)
TypeOK ==
  /\ m_buffer \in {"null", "valid", "freed"}
  /\ m_buffer_size \in 0 .. MaxLength
  /\ block \in Seq(Bytes) /\ out \in Seq(Bytes)
  /\ broken \in BOOLEAN

(* The size, the pointer and the block agree (fifo_buffer.cpp:35-44,        *)
(* 91-102): no operation reads or copies past the end of the block.         *)
BlockFits ==
  /\ Len(block) = m_buffer_size
  /\ m_buffer = "valid" <=> m_buffer_size > 0

Queue == INSTANCE ByteQueue WITH queue <- block

(* fifo_buffer is a byte queue: packet_proto may treat m_in_buffer as a     *)
(* sequence of bytes (fifo_buffer.cpp:28-105).                              *)
ImplementsByteQueue == Queue!Spec
=============================================================================
