-------------------------- MODULE StructuresProofs --------------------------
(* Proofs about the four structures that stand alone, for any bytes, sizes, *)
(* threads and bounds: that fifo_buffer keeps its size and its block        *)
(* together and is a byte queue, that ring_buffer is a queue around the end *)
(* of its block, that packet is a cursor, and that session_store never      *)
(* replaces a session.                                                      *)
EXTENDS MCStructures, SequenceTheorems, TLAPS

-----------------------------------------------------------------------------
(* fifo_buffer                                                              *)

(* The size counts the bytes of the block, so that every copy stays in it.  *)
BufferInv == TypeOK /\ BlockFits

(* What is left of a sequence when its first n elements are gone.           *)
LEMMA RestOf ==
  ASSUME NEW s \in Seq(Bytes), NEW n \in 0 .. Len(s)
  PROVE  /\ SubSeq(s, n + 1, Len(s)) \in Seq(Bytes)
         /\ Len(SubSeq(s, n + 1, Len(s))) = Len(s) - n
         /\ SubSeq(s, 1, n) \in Seq(Bytes)
<1>1. Len(s) \in Nat /\ n \in Nat
  BY LenProperties
<1>2. \A i \in n + 1 .. Len(s) : s[i] \in Bytes
  BY <1>1, ElementOfSeq
<1>3. \A i \in 1 .. n : s[i] \in Bytes
  BY <1>1, ElementOfSeq
<1>4. /\ SubSeq(s, n + 1, Len(s)) \in Seq(Bytes)
      /\ Len(SubSeq(s, n + 1, Len(s))) = IF n + 1 <= Len(s) THEN Len(s) - (n + 1) + 1 ELSE 0
  BY <1>1, <1>2, SubSeqProperties
<1>5. SubSeq(s, 1, n) \in Seq(Bytes)
  BY <1>1, <1>3, SubSeqProperties
<1> QED
  BY <1>1, <1>4, <1>5

(* The bytes of a block.                                                    *)
LEMMA BlockIsSeq ==
  ASSUME NEW b \in Blocks
  PROVE  b \in Seq(Bytes) /\ Len(b) \in Nat
BY MaxLengthAssumption DEF Blocks

LEMMA InvInit == Init => BufferInv
<1>1. <<>> \in Seq(Bytes) /\ Len(<<>>) = 0 /\ 0 \in 0 .. MaxLength
  BY MaxLengthAssumption, EmptySeq
<1>2. ASSUME Init PROVE TypeOK
  BY <1>1, <1>2 DEF Init, TypeOK
<1>3. ASSUME Init PROVE BlockFits
  <2>1. m_buffer_size = 0 /\ m_buffer = "null" /\ Len(block) = 0
    BY <1>1, <1>3 DEF Init
  <2> QED
    BY <2>1 DEF BlockFits
<1> QED
  BY <1>2, <1>3 DEF BufferInv

(* push_back                                                                *)
LEMMA PushInv ==
  ASSUME BufferInv, NEW b \in Blocks, push_back(b)
  PROVE  BufferInv'
<1>1. b \in Seq(Bytes) /\ Len(b) \in Nat /\ block \in Seq(Bytes) /\ Len(block) \in Nat
  BY BlockIsSeq, LenProperties DEF BufferInv, TypeOK
<1>2. CASE b = <<>>
  BY <1>2, EmptySeq DEF push_back, BufferInv, TypeOK, BlockFits
<1>3. CASE b # <<>> /\ m_buffer = "freed"
  BY <1>3 DEF push_back, Break, BufferInv, TypeOK, BlockFits
<1>4. CASE b # <<>> /\ m_buffer # "freed"
  <2>1. /\ block' = block \o b /\ m_buffer_size' = m_buffer_size + Len(b)
        /\ m_buffer' = "valid" /\ out' = <<>> /\ broken' = broken
        /\ Len(block) + Len(b) <= MaxLength
    BY <1>4 DEF push_back
  <2>2. block' \in Seq(Bytes) /\ Len(block') = Len(block) + Len(b)
    BY <1>1, <2>1, ConcatProperties
  <2>3. Len(b) > 0
    BY <1>1, <1>4, EmptySeq
  <2> QED
    BY <1>1, <2>1, <2>2, <2>3, MaxLengthAssumption, EmptySeq
    DEF BufferInv, TypeOK, BlockFits
<1> QED
  BY <1>2, <1>3, <1>4

(* _pop_front of some of the bytes.                                         *)
LEMMA TakeOff ==
  ASSUME BufferInv, NEW n \in 1 .. m_buffer_size, _pop_front(n)
  PROVE  /\ block' = SubSeq(block, n + 1, Len(block))
         /\ block' \in Seq(Bytes) /\ Len(block') = m_buffer_size'
         /\ m_buffer_size' \in 0 .. MaxLength
         /\ m_buffer' \in {"null", "valid"} /\ (m_buffer' = "null" <=> m_buffer_size' = 0)
<1>1. /\ block \in Seq(Bytes) /\ Len(block) = m_buffer_size
      /\ m_buffer_size \in 0 .. MaxLength /\ m_buffer_size > 0
      /\ n \in 0 .. Len(block) /\ m_buffer = "valid"
  BY MaxLengthAssumption DEF BufferInv, TypeOK, BlockFits
<1>2. /\ SubSeq(block, n + 1, Len(block)) \in Seq(Bytes)
      /\ Len(SubSeq(block, n + 1, Len(block))) = Len(block) - n
  BY <1>1, RestOf
<1>3. CASE n = m_buffer_size
  <2>1. SubSeq(block, n + 1, Len(block)) = <<>>
    BY <1>1, <1>2, <1>3, EmptySeq
  <2> QED
    BY <1>1, <1>3, <2>1, EmptySeq, MaxLengthAssumption DEF _pop_front
<1>4. CASE n # m_buffer_size
  BY <1>1, <1>2, <1>4, MaxLengthAssumption DEF _pop_front
<1> QED
  BY <1>3, <1>4

(* What pop_front takes off is what the queue says.                         *)
LEMMA TakenBytes ==
  ASSUME BufferInv, NEW n \in Int
  PROVE  /\ Nothing(n) => /\ SubSeq(block, Queue!Taken(n) + 1, Len(block)) = block
                          /\ SubSeq(block, 1, Queue!Taken(n)) = <<>>
         /\ ~Nothing(n) => /\ Queue!Taken(n) = Smaller(n, m_buffer_size)
                           /\ Smaller(n, m_buffer_size) \in 1 .. m_buffer_size
<1>1. block \in Seq(Bytes) /\ Len(block) = m_buffer_size /\ m_buffer_size \in Nat
  BY MaxLengthAssumption DEF BufferInv, TypeOK, BlockFits
<1>2. CASE Nothing(n)
  <2>1. Queue!Taken(n) = 0
    BY <1>1, <1>2 DEF Nothing, Queue!Taken
  <2>2. SubSeq(block, 1, Len(block)) = block
    BY <1>1, SubSeqFull
  <2>3. SubSeq(block, 1, 0) = <<>>
    BY SubSeqEmpty
  <2>4. Queue!Taken(n) + 1 = 1
    BY <2>1
  <2> QED
    BY <1>2, <2>1, <2>2, <2>3, <2>4
<1>3. CASE ~Nothing(n)
  BY <1>1, <1>3 DEF Nothing, Queue!Taken, Smaller
<1> QED
  BY <1>2, <1>3

(* The two pop_fronts, whatever they hand out.                              *)
LEMMA PopInv ==
  ASSUME BufferInv, NEW n \in Int, broken' = broken, out' \in Seq(Bytes),
         IF Nothing(n) THEN UNCHANGED <<m_buffer, m_buffer_size, block>>
                       ELSE _pop_front(Smaller(n, m_buffer_size))
  PROVE  /\ BufferInv'
         /\ block' = SubSeq(block, Queue!Taken(n) + 1, Len(block))
<1>1. CASE Nothing(n)
  <2>1. m_buffer' = m_buffer /\ m_buffer_size' = m_buffer_size /\ block' = block
    BY <1>1
  <2>2. BufferInv'
    BY <2>1 DEF BufferInv, TypeOK, BlockFits
  <2> QED
    BY <1>1, <2>1, <2>2, TakenBytes
<1>2. CASE ~Nothing(n)
  <2> DEFINE k == Smaller(n, m_buffer_size)
  <2>1. k \in 1 .. m_buffer_size /\ Queue!Taken(n) = k
    BY <1>2, TakenBytes
  <2>2. _pop_front(k)
    BY <1>2
  <2> HIDE DEF k
  <2>3. /\ block' = SubSeq(block, k + 1, Len(block))
        /\ block' \in Seq(Bytes) /\ Len(block') = m_buffer_size'
        /\ m_buffer_size' \in 0 .. MaxLength
        /\ m_buffer' \in {"null", "valid"} /\ (m_buffer' = "null" <=> m_buffer_size' = 0)
    BY <2>1, <2>2, TakeOff
  <2>4. BufferInv'
    BY <2>3, MaxLengthAssumption DEF BufferInv, TypeOK, BlockFits
  <2> QED
    BY <2>1, <2>3, <2>4
<1> QED
  BY <1>1, <1>2

(* pop_front(buf, size)                                                     *)
LEMMA PopStep ==
  ASSUME BufferInv, NEW n \in Int, pop_front(n)
  PROVE  BufferInv' /\ Queue!Pop(n)
<1>1. block \in Seq(Bytes) /\ Len(block) = m_buffer_size /\ m_buffer_size \in Nat
  BY MaxLengthAssumption DEF BufferInv, TypeOK, BlockFits
<1>2. out' = SubSeq(block, 1, Queue!Taken(n))
  BY TakenBytes DEF pop_front
<1>3. out' \in Seq(Bytes)
  <2>1. CASE Nothing(n)
    BY <2>1, EmptySeq DEF pop_front
  <2>2. CASE ~Nothing(n)
    <3>1. Queue!Taken(n) \in 0 .. Len(block)
      BY <1>1, <2>2, TakenBytes
    <3> QED
      BY <1>1, <1>2, <3>1, RestOf
  <2> QED
    BY <2>1, <2>2
<1>4. BufferInv' /\ block' = SubSeq(block, Queue!Taken(n) + 1, Len(block))
  BY <1>3, PopInv DEF pop_front
<1> QED
  BY <1>2, <1>4 DEF Queue!Pop

(* pop_front(size)                                                          *)
LEMMA SkipStep ==
  ASSUME BufferInv, NEW n \in Int, pop_front_skip(n)
  PROVE  BufferInv' /\ Queue!Skip(n)
<1>1. out' \in Seq(Bytes) /\ out' = <<>> /\ broken' = broken
  BY EmptySeq DEF pop_front_skip
<1>2. BufferInv' /\ block' = SubSeq(block, Queue!Taken(n) + 1, Len(block))
  BY <1>1, PopInv DEF pop_front_skip
<1> QED
  BY <1>1, <1>2 DEF Queue!Skip

(* A step that hands freed memory to the allocator changes no byte of the   *)
(* queue.                                                                   *)
LEMMA BreakStep ==
  ASSUME BufferInv, Break
  PROVE  BufferInv' /\ UNCHANGED <<block, out>>
BY DEF Break, BufferInv, TypeOK, BlockFits

(* push_back appends, unless the step is undefined.                         *)
LEMMA PushStep ==
  ASSUME BufferInv, NEW b \in Blocks, push_back(b)
  PROVE  Queue!Push(b) \/ UNCHANGED <<block, out>>
<1>1. b \in Seq(Bytes) /\ block \in Seq(Bytes)
  BY BlockIsSeq DEF BufferInv, TypeOK
<1>2. CASE b = <<>>
  <2>1. block \o b = block
    BY <1>1, <1>2, ConcatEmptySeq
  <2> QED
    BY <1>2, <2>1 DEF push_back, Queue!Push
<1>3. CASE b # <<>> /\ m_buffer = "freed"
  BY <1>3 DEF push_back, Break
<1>4. CASE b # <<>> /\ m_buffer # "freed"
  BY <1>4 DEF push_back, Queue!Push
<1> QED
  BY <1>2, <1>3, <1>4

(* clear()                                                                  *)
LEMMA ClearStep ==
  ASSUME BufferInv, clear
  PROVE  BufferInv' /\ (Queue!Clear \/ UNCHANGED <<block, out>>)
<1>1. m_buffer \in {"null", "valid", "freed"} /\ broken \in BOOLEAN
  BY DEF BufferInv, TypeOK
<1>2. <<>> \in Seq(Bytes) /\ Len(<<>>) = 0 /\ 0 \in 0 .. MaxLength
  BY EmptySeq, MaxLengthAssumption
<1>3. CASE m_buffer = "null"
  <2>1. /\ out' = <<>> /\ m_buffer' = m_buffer /\ block' = block
        /\ m_buffer_size' = m_buffer_size /\ broken' = broken
    BY <1>3 DEF clear
  <2>2. block = <<>>
    <3>1. block \in Seq(Bytes) /\ Len(block) = 0
      BY <1>3, MaxLengthAssumption DEF BufferInv, TypeOK, BlockFits
    <3> QED
      BY <3>1, EmptySeq
  <2>3. BufferInv'
    BY <1>2, <2>1 DEF BufferInv, TypeOK, BlockFits
  <2> QED
    BY <2>1, <2>2, <2>3 DEF Queue!Clear
<1>4. CASE m_buffer = "freed"
  BY <1>4, BreakStep DEF clear
<1>5. CASE m_buffer = "valid"
  <2>1. /\ out' = <<>> /\ m_buffer' = "freed" /\ block' = <<>>
        /\ m_buffer_size' = 0 /\ broken' = broken
    BY <1>5 DEF clear
  <2>2. TypeOK'
    BY <1>1, <1>2, <2>1 DEF TypeOK
  <2>3. BlockFits'
    BY <1>2, <2>1 DEF BlockFits
  <2> QED
    BY <2>1, <2>2, <2>3 DEF BufferInv, Queue!Clear
<1> QED
  BY <1>1, <1>3, <1>4, <1>5

(* Every step keeps the invariant, and is a step of the queue or none.      *)
LEMMA BufferStep ==
  ASSUME BufferInv, [Next]_vars
  PROVE  BufferInv' /\ [Queue!Next]_<<block, out>>
<1>1. ASSUME NEW b \in Blocks, push_back(b)
      PROVE  BufferInv' /\ [Queue!Next]_<<block, out>>
  BY <1>1, PushInv, PushStep DEF Queue!Next
<1>2. ASSUME NEW n \in Amounts, pop_front(n) \/ pop_front_skip(n)
      PROVE  BufferInv' /\ [Queue!Next]_<<block, out>>
  <2>1. n \in Int
    BY AmountsAssumption
  <2> QED
    BY <1>2, <2>1, PopStep, SkipStep DEF Queue!Next
<1>3. CASE clear
  BY <1>3, ClearStep DEF Queue!Next
<1>4. CASE UNCHANGED vars
  BY <1>4 DEF vars, BufferInv, TypeOK, BlockFits
<1> QED
  BY <1>1, <1>2, <1>3, <1>4 DEF Next

(* The variables keep their types and the size is that of the block:        *)
(* no operation reads or copies past its end (fifo_buffer.cpp:28-105).      *)
THEOREM BufferCorrect == Spec => [](TypeOK /\ BlockFits)
<1>1. Init => BufferInv
  BY InvInit
<1>2. BufferInv /\ [Next]_vars => BufferInv'
  BY BufferStep
<1>3. BufferInv => TypeOK /\ BlockFits
  BY DEF BufferInv
<1> QED
  BY <1>1, <1>2, <1>3, PTL DEF Spec

(* fifo_buffer is a byte queue, up to and including the step that is        *)
(* undefined (fifo_buffer.cpp:28-105).                                      *)
THEOREM QueueRefinement == Spec => ImplementsByteQueue
<1>1. Init => BufferInv /\ Queue!Init
  BY InvInit DEF Init, Queue!Init
<1>2. BufferInv /\ [Next]_vars => BufferInv' /\ [Queue!Next]_<<block, out>>
  BY BufferStep
<1> QED
  BY <1>1, <1>2, PTL DEF Spec, ImplementsByteQueue, Queue!Spec

-----------------------------------------------------------------------------
(* ring_buffer                                                              *)

Places(size) == Ring!Places(size)
Values == Bytes \cup {Ring!Garbage}

(* As long as the bytes are in order, the write offset is where the bytes   *)
(* that are in the block end; after that it may be the end of the block.    *)
RingInv ==
  /\ ring_size \in 0 .. RingMax
  /\ ring \in [0 .. ring_size - 1 -> Values]
  /\ ring_read \in 0 .. ring_size /\ (ring_size > 0 => ring_read < ring_size)
  /\ ring_write \in 0 .. ring_size
  /\ ring_bytes \in 0 .. ring_size
  /\ ~ring_disordered =>
       /\ ring_queue = Ring!Content
       /\ ring_size > 0 => ring_write = (ring_read + ring_bytes) % ring_size

(* An offset that has passed the end of the block at most once.             *)
LEMMA Wrap ==
  ASSUME NEW size \in Nat, size > 0, NEW offs \in Nat
  PROVE  /\ offs % size \in 0 .. size - 1
         /\ offs < size => offs % size = offs
         /\ size <= offs /\ offs < 2 * size => offs % size = offs - size
OBVIOUS

(* In order, the write offset is a place of the block.                      *)
LEMMA RingInOrder ==
  ASSUME RingInv, ~ring_disordered, ring_size > 0
  PROVE  ring_write < ring_size
<1>1. /\ ring_size \in Nat /\ ring_read \in Nat /\ ring_bytes \in Nat
      /\ ring_write = (ring_read + ring_bytes) % ring_size
  BY RingAssumption DEF RingInv
<1>2. (ring_read + ring_bytes) % ring_size \in 0 .. ring_size - 1
  BY <1>1, Wrap
<1> QED
  BY <1>1, <1>2

(* Where the branches lead: inside the block, the remainder; from its end,  *)
(* or with all of a block, perhaps to its end.                              *)
LEMMA PlaceIs ==
  ASSUME NEW size \in Nat, size > 0, NEW offs \in 0 .. size, NEW n \in 0 .. size
  PROVE  /\ Ring!Place(offs, n, size) \in 0 .. size
         /\ n < size => Ring!Place(offs, n, size) \in 0 .. size - 1
         /\ offs < size => Ring!Place(offs, n, size) = (offs + n) % size
<1>1. Ring!Place(offs, n, size) = IF n < size - offs THEN offs + n ELSE n - (size - offs)
  BY DEF Ring!Place
<1>2. offs < size => (offs + n) % size = IF n < size - offs THEN offs + n ELSE offs + n - size
  BY Wrap
<1> QED
  BY <1>1, <1>2

LEMMA RingTypes == RingInv => Ring!TypeOK
<1> SUFFICES ASSUME RingInv PROVE Ring!TypeOK
  OBVIOUS
<1>1. ring_disordered \/ ring_write \in (0 .. ring_size - 1) \cup {0}
  <2>1. CASE ring_size > 0 /\ ~ring_disordered
    BY <2>1, RingInOrder, RingAssumption DEF RingInv
  <2>2. CASE ring_size = 0
    BY <2>2 DEF RingInv
  <2> QED
    BY <2>1, <2>2, RingAssumption DEF RingInv
<1> QED
  BY <1>1, RingAssumption DEF RingInv, Ring!TypeOK, Ring!Places, Values

LEMMA RingStart == Ring!Init => RingInv
<1> SUFFICES ASSUME Ring!Init PROVE RingInv
  OBVIOUS
<1>1. /\ ring_size \in 0 .. RingMax /\ ring_read = 0 /\ ring_write = 0 /\ ring_bytes = 0
      /\ ring \in [0 .. ring_size - 1 -> Values] /\ ring_queue = <<>>
  BY RingAssumption DEF Ring!Init, Ring!Places, Values
<1>2. Ring!Content = <<>>
  BY <1>1 DEF Ring!Content
<1>3. ring_size > 0 => 0 % ring_size = 0
  BY <1>1, RingAssumption, Wrap
<1> QED
  BY <1>1, <1>2, <1>3, RingAssumption DEF RingInv

(* The bytes of the queue, when they are in order.                          *)
LEMMA RingContent ==
  ASSUME RingInv
  PROVE  /\ Ring!Content \in Seq(Values) /\ Len(Ring!Content) = ring_bytes
         /\ \A i \in 1 .. ring_bytes :
              Ring!Content[i] = ring[(ring_read + i - 1) % ring_size]
<1>1. /\ ring_size \in Nat /\ ring_read \in Nat /\ ring_bytes \in 0 .. ring_size
      /\ ring \in [0 .. ring_size - 1 -> Values]
  BY RingAssumption DEF RingInv
<1>2. \A i \in 1 .. ring_bytes :
        ring[(ring_read + i - 1) % ring_size] \in Values
  <2> TAKE i \in 1 .. ring_bytes
  <2>1. ring_read + i - 1 \in Nat /\ ring_size > 0
    BY <1>1
  <2>2. (ring_read + i - 1) % ring_size \in 0 .. ring_size - 1
    BY <1>1, <2>1, Wrap
  <2> QED
    BY <1>1, <2>2
<1>3. Ring!Content = [i \in 1 .. ring_bytes |-> ring[(ring_read + i - 1) % ring_size]]
  <2>1. \A i \in 1 .. ring_bytes :
          Ring!Place(ring_read, i - 1, ring_size) = (ring_read + i - 1) % ring_size
    <3> TAKE i \in 1 .. ring_bytes
    <3>1. /\ ring_size > 0 /\ ring_read \in 0 .. ring_size /\ ring_read < ring_size
          /\ i - 1 \in 0 .. ring_size /\ ring_read + (i - 1) = ring_read + i - 1
      BY <1>1 DEF RingInv
    <3> QED
      BY <1>1, <3>1, PlaceIs
  <2> QED
    BY <2>1 DEF Ring!Content
<1>4. ring_bytes \in Nat
  BY <1>1
<1> QED
  BY <1>2, <1>3, <1>4

(* pop_front takes bytes off the front.                                     *)
LEMMA RingPop ==
  ASSUME RingInv, NEW n \in 1 .. RingMax, Ring!pop_front(n)
  PROVE  RingInv'
<1> DEFINE r == Ring!Received(n)
<1>1. /\ ring_size \in Nat /\ ring_read \in 0 .. ring_size - 1 /\ ring_bytes \in 1 .. ring_size
      /\ ring_write \in 0 .. ring_size
      /\ ring \in [0 .. ring_size - 1 -> Values] /\ r \in 1 .. ring_bytes
  BY RingAssumption DEF RingInv, Ring!pop_front, Ring!Received
<1>2. /\ ring_read' = (ring_read + r) % ring_size /\ ring_bytes' = ring_bytes - r
      /\ ring_queue' = SubSeq(ring_queue, r + 1, Len(ring_queue))
      /\ ring' = ring /\ ring_size' = ring_size /\ ring_write' = ring_write
      /\ ring_disordered' = ring_disordered
  <2>1. ring_read' = Ring!Place(ring_read, r, ring_size)
    BY DEF Ring!pop_front
  <2>2. ring_size > 0 /\ ring_read \in 0 .. ring_size /\ ring_read < ring_size /\ r \in 0 .. ring_size
    BY <1>1
  <2>3. Ring!Place(ring_read, r, ring_size) = (ring_read + r) % ring_size
    BY <1>1, <2>2, PlaceIs
  <2> QED
    BY <2>1, <2>3 DEF Ring!pop_front
<1> HIDE DEF r
<1>3. ring_read' \in 0 .. ring_size - 1
  BY <1>1, <1>2, Wrap
<1>4. ASSUME NEW k \in 0 .. ring_bytes - r
      PROVE  (ring_read' + k) % ring_size = (ring_read + r + k) % ring_size
  <2>1. CASE ring_read + r < ring_size
    <3>1. ring_read' = ring_read + r
      BY <1>1, <1>2, <2>1, Wrap
    <3> QED
      BY <3>1
  <2>2. CASE ring_read + r >= ring_size
    <3>1. ring_read' = ring_read + r - ring_size
      BY <1>1, <1>2, <2>2, Wrap
    <3>2. ring_read + r + k \in Nat /\ ring_read + r + k < 2 * ring_size
          /\ ring_size <= ring_read + r + k
      BY <1>1, <2>2
    <3>3. (ring_read + r + k) % ring_size = ring_read + r + k - ring_size
      BY <1>1, <3>2, Wrap
    <3>4. (ring_read' + k) % ring_size = ring_read' + k
      BY <1>1, <3>1, <3>2, Wrap
    <3> QED
      BY <1>1, <3>1, <3>3, <3>4
  <2> QED
    BY <1>1, <2>1, <2>2
<1>5. ASSUME ~ring_disordered
      PROVE  /\ ring_write' = (ring_read' + ring_bytes') % ring_size'
             /\ ring_queue' = Ring!Content'
  <2>1. ring_write = (ring_read + ring_bytes) % ring_size /\ ring_queue = Ring!Content
    BY <1>1, <1>5 DEF RingInv
  <2>2. (ring_read' + ring_bytes') % ring_size = (ring_read + r + (ring_bytes - r)) % ring_size
    BY <1>1, <1>2, <1>4
  <2>3. ring_read + r + (ring_bytes - r) = ring_read + ring_bytes
    BY <1>1
  <2>4. ring_queue \in Seq(Values) /\ Len(ring_queue) = ring_bytes
        /\ \A i \in 1 .. ring_bytes : ring_queue[i] = ring[(ring_read + i - 1) % ring_size]
    BY <2>1, RingContent
  <2>5. ring_queue' = [i \in 1 .. ring_bytes - r |-> ring_queue[i + r]]
    BY <1>1, <1>2, <2>4
  <2>6. Ring!Content' = [i \in 1 .. ring_bytes' |-> ring'[(ring_read' + i - 1) % ring_size']]
    <3>1. \A i \in 1 .. ring_bytes' :
            Ring!Place(ring_read', i - 1, ring_size') = (ring_read' + i - 1) % ring_size'
      <4> TAKE i \in 1 .. ring_bytes'
      <4>1. /\ ring_size \in Nat /\ ring_size > 0 /\ ring_read' \in 0 .. ring_size
            /\ ring_read' < ring_size /\ i - 1 \in 0 .. ring_size
            /\ ring_read' + (i - 1) = ring_read' + i - 1
        BY <1>1, <1>2, <1>3
      <4> QED
        BY <1>2, <4>1, PlaceIs
    <3> QED
      BY <3>1 DEF Ring!Content
  <2>7. ASSUME NEW i \in 1 .. ring_bytes - r
        PROVE  ring_queue[i + r] = ring'[(ring_read' + i - 1) % ring_size']
    <3>1. /\ i + r \in 1 .. ring_bytes /\ i - 1 \in 0 .. ring_bytes - r
          /\ ring_read + (i + r) - 1 = ring_read + r + (i - 1)
          /\ ring_read' + i - 1 = ring_read' + (i - 1)
      BY <1>1, <1>3
    <3>2. (ring_read' + (i - 1)) % ring_size = (ring_read + r + (i - 1)) % ring_size
      BY <1>4, <3>1
    <3> QED
      BY <1>2, <2>4, <3>1, <3>2
  <2> QED
    BY <1>2, <2>1, <2>2, <2>3, <2>5, <2>6, <2>7
<1> QED
  BY <1>1, <1>2, <1>3, <1>5, RingAssumption DEF RingInv

(* peek gives the order up.                                                 *)
LEMMA RingPeek ==
  ASSUME RingInv, NEW n \in 1 .. RingMax, Ring!peek(n)
  PROVE  RingInv'
BY RingAssumption DEF RingInv, Ring!peek, Ring!Received

(* push_back of n bytes from offset at on, in a block of this size: byte j  *)
(* is where j - 1 bytes lead.                                               *)
LEMMA RingFilled ==
  ASSUME RingInv, NEW b \in Ring!Blocks, Ring!push_back(b)
  PROVE  LET n == Len(b)
             size == ring_size + Ring!GrownBy(n)
             at == IF Ring!GrownBy(n) > 0 THEN ring_write + ring_size ELSE ring_write
         IN /\ n \in Nat \ {0} /\ b \in [1 .. n -> Bytes] /\ b \in Seq(Values)
            /\ size \in 1 .. RingMax /\ n <= size /\ at \in 0 .. size
            /\ Ring!GrownBy(n) = IF n > ring_size - ring_bytes
                                    THEN n - (ring_size - ring_bytes) ELSE 0
            /\ ring_size' = size
            /\ ring' \in [0 .. size - 1 -> Values]
            /\ \A j \in 1 .. n : ring'[Ring!Place(at, j - 1, size)] = b[j]
            /\ \A i \in 0 .. ring_size - 1 :
                 (\A j \in 1 .. n : Ring!Place(at, j - 1, size) # i) => ring'[i] = ring[i]
            /\ ring_write' = Ring!Place(at, n, size)
<1> DEFINE n == Len(b)
           g == Ring!GrownBy(n)
           size == ring_size + g
           at == IF g > 0 THEN ring_write + ring_size ELSE ring_write
           From(i) == {j \in DOMAIN b : Ring!Place(at, j - 1, size) = i}
           Kept(i) == IF i < ring_size THEN ring[i] ELSE Ring!Garbage
<1>1. PICK m \in 1 .. RingMax : b \in [1 .. m -> Bytes]
  BY DEF Ring!Blocks
<1>2. n = m /\ n \in Nat \ {0} /\ b \in [1 .. n -> Bytes] /\ b \in Seq(Values) /\ DOMAIN b = 1 .. n
  BY <1>1, RingAssumption DEF Values
<1>3. /\ ring_size \in Nat /\ ring_bytes \in 0 .. ring_size /\ ring_write \in 0 .. ring_size
      /\ ring \in [0 .. ring_size - 1 -> Values]
  BY RingAssumption DEF RingInv
<1>4. g = IF n > ring_size - ring_bytes THEN n - (ring_size - ring_bytes) ELSE 0
  BY DEF Ring!GrownBy, Ring!BytesLeft
<1>5. /\ size <= RingMax /\ at <= size /\ ring_size' = size
      /\ ring' = [i \in 0 .. size - 1 |->
                    IF From(i) = {} THEN Kept(i) ELSE b[CHOOSE j \in From(i) : TRUE]]
      /\ ring_write' = Ring!Place(at, n, size)
  BY DEF Ring!push_back, Ring!Places
<1>6. g \in Nat /\ size \in 1 .. RingMax /\ n <= size /\ at \in 0 .. size
  <2> HIDE DEF n, g
  <2>1. g \in Nat /\ n <= size /\ size \in Nat
    BY <1>2, <1>3, <1>4
  <2> QED
    BY <1>2, <1>3, <1>5, <2>1, RingAssumption
<1> HIDE DEF n, g, size, at
<1>7. ASSUME NEW i, NEW j \in 1 .. n, NEW k \in 1 .. n,
             Ring!Place(at, j - 1, size) = i, Ring!Place(at, k - 1, size) = i
      PROVE  j = k
  <2>1. size \in Nat /\ at \in 0 .. size /\ j - 1 \in 0 .. size - 1 /\ k - 1 \in 0 .. size - 1
    BY <1>2, <1>6
  <2>2. /\ i = IF j - 1 < size - at THEN at + (j - 1) ELSE (j - 1) - (size - at)
        /\ i = IF k - 1 < size - at THEN at + (k - 1) ELSE (k - 1) - (size - at)
    BY <1>7 DEF Ring!Place
  <2>3. j - 1 = k - 1
    BY <2>1, <2>2
  <2> QED
    BY <2>3
<1>8. ASSUME NEW i, From(i) # {}
      PROVE  /\ (CHOOSE j \in From(i) : TRUE) \in 1 .. n
             /\ Ring!Place(at, (CHOOSE j \in From(i) : TRUE) - 1, size) = i
  BY <1>2, <1>8
<1>9. ring' \in [0 .. size - 1 -> Values]
  <2> SUFFICES ASSUME NEW i \in 0 .. size - 1
               PROVE  (IF From(i) = {} THEN Kept(i) ELSE b[CHOOSE j \in From(i) : TRUE]) \in Values
    BY <1>5
  <2>1. CASE From(i) = {}
    BY <1>3, <1>6, <2>1 DEF Values
  <2>2. CASE From(i) # {}
    BY <1>2, <1>8, <2>2 DEF Values
  <2> QED
    BY <2>1, <2>2
<1>10. ASSUME NEW j \in 1 .. n PROVE ring'[Ring!Place(at, j - 1, size)] = b[j]
  <2> DEFINE i == Ring!Place(at, j - 1, size)
  <2>1. i \in 0 .. size - 1
    <3>1. size \in Nat /\ size > 0 /\ j - 1 \in 0 .. size /\ j - 1 < size
      BY <1>2, <1>6
    <3> QED
      BY <1>6, <3>1, PlaceIs
  <2>2. j \in From(i)
    BY <1>2
  <2>3. (CHOOSE k \in From(i) : TRUE) = j
    BY <1>7, <1>8, <2>2
  <2> QED
    BY <1>5, <2>1, <2>2, <2>3
<1>11. ASSUME NEW i \in 0 .. ring_size - 1, \A j \in 1 .. n : Ring!Place(at, j - 1, size) # i
       PROVE  ring'[i] = ring[i]
  <2>1. From(i) = {}
    BY <1>2, <1>11
  <2>2. i \in 0 .. size - 1 /\ i < ring_size
    BY <1>3, <1>6 DEF size
  <2> QED
    BY <1>5, <2>1, <2>2
<1> QED
  BY <1>2, <1>4, <1>5, <1>6, <1>9, <1>10, <1>11 DEF n, g, size, at

(* push_back appends: when the bytes fit, and when the block grows at a     *)
(* time when the old ones fill it to its end.                               *)
LEMMA RingPush ==
  ASSUME RingInv, NEW b \in Ring!Blocks, Ring!push_back(b)
  PROVE  RingInv'
<1> DEFINE n == Len(b)
           g == Ring!GrownBy(n)
           size == ring_size + g
           at == IF g > 0 THEN ring_write + ring_size ELSE ring_write
<1>1. /\ n \in Nat \ {0} /\ b \in [1 .. n -> Bytes] /\ b \in Seq(Values)
      /\ size \in 1 .. RingMax /\ n <= size /\ at \in 0 .. size
      /\ g = (IF n > ring_size - ring_bytes THEN n - (ring_size - ring_bytes) ELSE 0)
      /\ ring_size' = size
      /\ ring' \in [0 .. size - 1 -> Values]
      /\ \A j \in 1 .. n : ring'[Ring!Place(at, j - 1, size)] = b[j]
      /\ \A i \in 0 .. ring_size - 1 :
           (\A j \in 1 .. n : Ring!Place(at, j - 1, size) # i) => ring'[i] = ring[i]
      /\ ring_write' = Ring!Place(at, n, size)
  BY RingFilled
<1>2. /\ ring_size \in Nat /\ ring_bytes \in 0 .. ring_size
      /\ ring_read \in 0 .. ring_size /\ (ring_size > 0 => ring_read < ring_size)
      /\ ring_write \in 0 .. ring_size
      /\ ring \in [0 .. ring_size - 1 -> Values]
  BY RingAssumption DEF RingInv
<1>3. /\ ring_bytes' = ring_bytes + n /\ ring_read' = ring_read
      /\ ring_disordered' = (ring_disordered \/ /\ g > 0 /\ ring_size > 0
                                                /\ (ring_write # 0 \/ ring_bytes = 0))
      /\ ring_queue' = IF ring_disordered' THEN <<>> ELSE ring_queue \o b
  BY DEF Ring!push_back
<1> HIDE DEF n, g
<1>4. g \in Nat /\ ring_bytes + n \in 0 .. size
  BY <1>1, <1>2
<1>5. at = IF g > 0 THEN ring_write + ring_size ELSE ring_write
  OBVIOUS
<1>6. size = ring_size + g
  OBVIOUS
<1> HIDE DEF size, at
<1>7. ring_write' \in 0 .. size
  <2>1. size \in Nat /\ size > 0 /\ n \in 0 .. size
    BY <1>1
  <2> QED
    BY <1>1, <2>1, PlaceIs
<1>8. ASSUME ~ring_disordered'
      PROVE  /\ ring_queue' = Ring!Content'
             /\ ring_write' = (ring_read' + ring_bytes') % ring_size'
  <2>1. /\ ~ring_disordered /\ ring_queue = Ring!Content
        /\ ring_queue' = ring_queue \o b
        /\ ring_size > 0 => ring_write = (ring_read + ring_bytes) % ring_size
    BY <1>3, <1>8 DEF RingInv
  <2>2. /\ ring_queue \in Seq(Values) /\ Len(ring_queue) = ring_bytes
        /\ \A i \in 1 .. ring_bytes : ring_queue[i] = ring[(ring_read + i - 1) % ring_size]
    BY <2>1, RingContent
  \* They start from a place of the block, so that they go around its end.
  <2>a. at < size
    <3>1. ring_size > 0 => ring_write < ring_size
      BY <2>1, RingInOrder
    <3>2. CASE g = 0
      BY <1>1, <1>2, <1>5, <1>6, <3>1, <3>2
    <3>3. CASE g > 0
      <4>1. ring_size > 0 => ring_write = 0
        BY <1>3, <1>8, <3>3
      <4> QED
        BY <1>2, <1>4, <1>5, <1>6, <3>3, <4>1
    <3> QED
      BY <1>4, <3>2, <3>3
  <2>b. ASSUME NEW k \in 0 .. n PROVE Ring!Place(at, k, size) = (at + k) % size
    <3>1. size \in Nat /\ size > 0 /\ k \in 0 .. size
      BY <1>1
    <3> QED
      BY <1>1, <2>a, <3>1, PlaceIs
  <2>c. /\ \A j \in 1 .. n : ring'[(at + j - 1) % size] = b[j]
        /\ \A i \in 0 .. ring_size - 1 :
             (\A j \in 1 .. n : (at + j - 1) % size # i) => ring'[i] = ring[i]
        /\ ring_write' = (at + n) % size
    <3>1. \A j \in 1 .. n : Ring!Place(at, j - 1, size) = (at + j - 1) % size
      <4> TAKE j \in 1 .. n
      <4>1. j - 1 \in 0 .. n /\ at + (j - 1) = at + j - 1
        BY <1>1
      <4> QED
        BY <2>b, <4>1
    <3>2. n \in 0 .. n
      BY <1>1
    <3> QED
      BY <1>1, <2>b, <3>1, <3>2
  \* The new bytes go behind the old ones.
  <2>3. ASSUME NEW k \in 0 .. n
        PROVE  (at + k) % size = (ring_read + ring_bytes + k) % size
    <3>1. CASE g = 0
      <4>1. size = ring_size /\ at = ring_write /\ ring_size > 0
            /\ ring_write = (ring_read + ring_bytes) % ring_size /\ ring_bytes + n <= ring_size
        BY <1>1, <1>2, <1>4, <1>5, <1>6, <2>1, <3>1
      <4>2. CASE ring_read + ring_bytes < ring_size
        <5>1. ring_write = ring_read + ring_bytes
          BY <1>2, <4>1, <4>2, Wrap
        <5> QED
          BY <4>1, <5>1
      <4>3. CASE ring_read + ring_bytes >= ring_size
        <5>1. ring_write = ring_read + ring_bytes - ring_size
          BY <1>2, <4>1, <4>3, Wrap
        <5>2. /\ ring_read + ring_bytes + k \in Nat /\ ring_size <= ring_read + ring_bytes + k
              /\ ring_read + ring_bytes + k < 2 * ring_size
          BY <1>1, <1>2, <4>1, <4>3
        <5>3. (ring_read + ring_bytes + k) % ring_size = ring_read + ring_bytes + k - ring_size
          BY <1>2, <4>1, <5>2, Wrap
        <5>4. (ring_write + k) % ring_size = ring_write + k
          BY <1>2, <4>1, <5>1, <5>2, Wrap
        <5> QED
          BY <1>1, <1>2, <4>1, <5>1, <5>3, <5>4
      <4> QED
        BY <1>2, <4>2, <4>3
    <3>2. CASE g > 0 /\ ring_size = 0
      BY <1>2, <1>5, <3>2
    <3>3. CASE g > 0 /\ ring_size > 0
      <4>0. ring_write = 0 /\ ring_bytes # 0
        BY <1>3, <1>8, <3>3
      <4>1. ring_write = 0 /\ ring_bytes > 0 /\ (ring_read + ring_bytes) % ring_size = 0
        BY <1>2, <2>1, <3>3, <4>0
      <4>2. ring_read + ring_bytes = ring_size
        <5>1. CASE ring_read + ring_bytes < ring_size
          BY <1>2, <4>1, <5>1, Wrap
        <5>2. CASE ring_read + ring_bytes >= ring_size
          <6>1. (ring_read + ring_bytes) % ring_size = ring_read + ring_bytes - ring_size
            BY <1>2, <3>3, <5>2, Wrap
          <6> QED
            BY <1>2, <4>1, <6>1
        <5> QED
          BY <1>2, <5>1, <5>2
      <4> QED
        BY <1>2, <1>5, <3>3, <4>1, <4>2
    <3> QED
      BY <1>4, <1>2, <3>1, <3>2, <3>3
  \* They overwrite none of them.
  <2>4. ASSUME NEW i \in 1 .. ring_bytes
        PROVE  ring'[(ring_read + i - 1) % size] = ring_queue[i]
    <3>1. ring_size > 0 /\ ring_read < ring_size
      BY <1>2
    <3>2. (ring_read + i - 1) % size = (ring_read + i - 1) % ring_size
      <4>1. CASE g = 0
        BY <1>2, <1>6, <4>1
      <4>2. CASE g > 0
        <5>0. ring_write = 0 /\ ring_bytes # 0
          BY <1>3, <1>8, <3>1, <4>2
        <5>1. ring_write = 0 /\ ring_bytes > 0 /\ (ring_read + ring_bytes) % ring_size = 0
          BY <1>2, <2>1, <3>1, <5>0
        <5>2. ring_read + ring_bytes <= ring_size
          <6>1. ring_read + ring_bytes >= ring_size =>
                  (ring_read + ring_bytes) % ring_size = ring_read + ring_bytes - ring_size
            BY <1>2, <3>1, Wrap
          <6> QED
            BY <1>2, <5>1, <6>1
        <5>3. ring_read + i - 1 \in Nat /\ ring_read + i - 1 < ring_size /\ ring_size <= size
          BY <1>2, <1>4, <1>6, <5>2
        <5>4. (ring_read + i - 1) % ring_size = ring_read + i - 1
          BY <1>2, <3>1, <5>3, Wrap
        <5>5. size \in Nat /\ size > 0 /\ ring_read + i - 1 < size
          BY <1>1, <1>2, <5>3
        <5>6. (ring_read + i - 1) % size = ring_read + i - 1
          BY <5>3, <5>5, Wrap
        <5> QED
          BY <5>4, <5>6
      <4> QED
        BY <1>4, <4>1, <4>2
    <3>3. (ring_read + i - 1) % ring_size \in 0 .. ring_size - 1
      BY <1>2, <3>1, Wrap
    <3>4. ASSUME NEW j \in 1 .. n
          PROVE  (at + j - 1) % size # (ring_read + i - 1) % size
      <4> DEFINE x == ring_read + i - 1
                 y == ring_read + ring_bytes + j - 1
      <4>1. (at + (j - 1)) % size = (ring_read + ring_bytes + (j - 1)) % size
        BY <1>1, <2>3
      <4>2. at + j - 1 = at + (j - 1) /\ y = ring_read + ring_bytes + (j - 1)
        BY <1>1, <1>2
      <4>3. /\ x \in Nat /\ y \in Nat /\ x < y /\ y < x + size
            /\ x < 2 * size /\ y < 2 * size /\ size \in Nat /\ size > 0
        BY <1>1, <1>2, <1>4, <1>6, <3>1
      <4>4. x % size = IF x < size THEN x ELSE x - size
        BY <4>3, Wrap
      <4>5. y % size = IF y < size THEN y ELSE y - size
        BY <4>3, Wrap
      <4>6. x % size # y % size
        BY <4>3, <4>4, <4>5
      <4> QED
        BY <4>1, <4>2, <4>6
    <3>5. ring'[(ring_read + i - 1) % ring_size] = ring[(ring_read + i - 1) % ring_size]
      BY <1>1, <2>c, <3>2, <3>3, <3>4
    <3> QED
      BY <2>2, <3>2, <3>5
  <2>5. ASSUME NEW j \in 1 .. n
        PROVE  ring'[(ring_read + (ring_bytes + j) - 1) % size] = b[j]
    <3>1. (at + (j - 1)) % size = (ring_read + ring_bytes + (j - 1)) % size
      BY <1>1, <2>3
    <3>2. /\ at + j - 1 = at + (j - 1)
          /\ ring_read + (ring_bytes + j) - 1 = ring_read + ring_bytes + (j - 1)
      BY <1>1, <1>2
    <3> QED
      BY <1>1, <2>c, <3>1, <3>2
  <2>6. Ring!Content' = [i \in 1 .. ring_bytes' |-> ring'[(ring_read' + i - 1) % ring_size']]
    <3>1. /\ ring_read' \in 0 .. size /\ ring_read' < size /\ ring_bytes' \in 0 .. size
          /\ ring_size' = size /\ size \in Nat /\ size > 0
      <4>1. CASE ring_size = 0
        BY <1>1, <1>2, <1>3, <1>4, <4>1
      <4>2. CASE ring_size > 0
        BY <1>1, <1>2, <1>3, <1>4, <1>6, <4>2
      <4> QED
        BY <1>2, <4>1, <4>2
    <3>2. \A i \in 1 .. ring_bytes' :
            Ring!Place(ring_read', i - 1, ring_size') = (ring_read' + i - 1) % ring_size'
      <4> TAKE i \in 1 .. ring_bytes'
      <4>1. i - 1 \in 0 .. size /\ ring_read' + (i - 1) = ring_read' + i - 1
        BY <3>1
      <4> QED
        BY <3>1, <4>1, PlaceIs
    <3> QED
      BY <3>2 DEF Ring!Content
  <2>7. /\ ring_queue' \in Seq(Values) /\ Len(ring_queue') = ring_bytes + n
        /\ \A i \in 1 .. ring_bytes + n :
             ring_queue'[i] = IF i <= ring_bytes THEN ring_queue[i] ELSE b[i - ring_bytes]
    <3>1. Len(b) = n
      BY DEF n
    <3>2. /\ (ring_queue \o b) \in Seq(Values)
          /\ Len(ring_queue \o b) = Len(ring_queue) + Len(b)
          /\ \A i \in 1 .. Len(ring_queue) + Len(b) :
               (ring_queue \o b)[i] = IF i <= Len(ring_queue) THEN ring_queue[i]
                                      ELSE b[i - Len(ring_queue)]
      BY <1>1, <2>2, ConcatProperties
    <3> QED
      BY <2>1, <2>2, <3>1, <3>2
  <2>8. ASSUME NEW i \in 1 .. ring_bytes + n
        PROVE  ring_queue'[i] = ring'[(ring_read + i - 1) % size]
    <3>1. CASE i <= ring_bytes
      <4>1. i \in 1 .. ring_bytes
        BY <1>1, <1>2, <3>1
      <4> QED
        BY <2>4, <2>7, <3>1, <4>1
    <3>2. CASE i > ring_bytes
      <4>1. i - ring_bytes \in 1 .. n /\ ring_bytes + (i - ring_bytes) = i
        BY <1>1, <1>2, <3>2
      <4>2. ring'[(ring_read + (ring_bytes + (i - ring_bytes)) - 1) % size] = b[i - ring_bytes]
        BY <2>5, <4>1
      <4>3. ring_queue'[i] = b[i - ring_bytes]
        BY <1>1, <1>2, <2>7, <3>2
      <4> QED
        BY <4>1, <4>2, <4>3
    <3> QED
      BY <1>1, <1>2, <3>1, <3>2
  <2>9. ring_queue' = Ring!Content'
    <3>1. ring_queue' = [i \in 1 .. ring_bytes + n |-> ring_queue'[i]]
      BY <2>7
    <3> QED
      BY <1>1, <1>3, <2>6, <2>8, <3>1
  <2>10. (at + n) % size = (ring_read + ring_bytes + n) % size
    BY <1>1, <2>3
  <2>11. ring_read + ring_bytes + n = ring_read' + ring_bytes'
    BY <1>1, <1>2, <1>3
  <2> QED
    BY <1>1, <2>c, <2>9, <2>10, <2>11
<1> QED
  BY <1>1, <1>2, <1>3, <1>4, <1>6, <1>7, <1>8, RingAssumption DEF RingInv

LEMMA RingStep == RingInv /\ [Ring!Next]_ringVars => RingInv'
<1> SUFFICES ASSUME RingInv, [Ring!Next]_ringVars PROVE RingInv'
  OBVIOUS
<1>1. CASE UNCHANGED ringVars
  <2>1. Ring!Content' = Ring!Content
    BY <1>1 DEF ringVars, Ring!Content
  <2> QED
    BY <1>1, <2>1 DEF ringVars, RingInv
<1> QED
  BY <1>1, RingPush, RingPop, RingPeek DEF Ring!Next

-----------------------------------------------------------------------------
(* packet                                                                   *)

PacketInv ==
  /\ pkt_size \in Nat /\ pkt_block \in [1 .. pkt_size -> PacketBytes]
  /\ pkt_offset \in Nat /\ pkt_read \in Nat /\ pkt_write \in Nat
  /\ pkt_offset <= pkt_read /\ pkt_read <= pkt_write /\ pkt_write <= pkt_size
  /\ pkt_moved \in BOOLEAN

LEMMA PacketTypes == PacketInv => Pkt!TypeOK
BY DEF PacketInv, Pkt!TypeOK, Pkt!OfLength

LEMMA PacketStart == Pkt!Init => PacketInv
<1> SUFFICES ASSUME Pkt!Init PROVE PacketInv
  OBVIOUS
<1>1. pkt_size \in Nat /\ pkt_write \in Nat /\ pkt_write <= pkt_size
  <2>1. CASE pkt_size = Capacity /\ pkt_write = 0
    BY <2>1, PacketAssumption
  <2>2. CASE pkt_size \in 1 .. Capacity /\ pkt_write = pkt_size
    BY <2>2, PacketAssumption
  <2> QED
    BY <2>1, <2>2 DEF Pkt!Init
<1>2. pkt_block \in [1 .. pkt_size -> PacketBytes]
  BY DEF Pkt!Init, Pkt!OfLength
<1>3. pkt_offset = 0 /\ pkt_read = 0
  BY DEF Pkt!Init
<1>4. pkt_moved \in BOOLEAN
  BY DEF Pkt!Init
<1> QED
  BY <1>1, <1>2, <1>3, <1>4 DEF PacketInv

(* The bytes of the cursor.                                                 *)
WrittenBytes == SubSeq(pkt_block, 1, pkt_write)

LEMMA PacketWritten ==
  ASSUME PacketInv
  PROVE  /\ WrittenBytes = [i \in 1 .. pkt_write |-> pkt_block[i]]
         /\ WrittenBytes \in Seq(PacketBytes) /\ Len(WrittenBytes) = pkt_write
BY DEF PacketInv, WrittenBytes

(* Bytes are appended, to a block with room for them.                       *)
LEMMA PacketAppends ==
  ASSUME PacketInv, NEW bytes \in Seq(PacketBytes), NEW size \in Nat,
         pkt_size <= size, pkt_write + Len(bytes) <= size, Pkt!Write(bytes, size)
  PROVE  /\ PacketInv'
         /\ WrittenBytes' = WrittenBytes \o bytes
         /\ pkt_out' = <<>> /\ pkt_read' = pkt_read /\ pkt_offset' = pkt_offset
<1> DEFINE n == Len(bytes)
<1>1. n \in Nat /\ bytes \in [1 .. n -> PacketBytes] /\ DOMAIN bytes = 1 .. n
  OBVIOUS
<1>2. /\ pkt_size \in Nat /\ pkt_block \in [1 .. pkt_size -> PacketBytes]
      /\ pkt_write \in Nat /\ pkt_write <= pkt_size
  BY DEF PacketInv
<1>3. PICK new \in [1 .. size - pkt_size -> PacketBytes] :
        pkt_block' = [i \in 1 .. size |->
                        IF i - pkt_write \in DOMAIN bytes
                          THEN bytes[i - pkt_write] ELSE (pkt_block \o new)[i]]
  BY DEF Pkt!Write, Pkt!OfLength
<1>4. pkt_write' = pkt_write + n /\ pkt_size' = size /\ pkt_out' = <<>>
      /\ pkt_read' = pkt_read /\ pkt_offset' = pkt_offset /\ pkt_moved' \in {pkt_moved, TRUE}
  BY DEF Pkt!Write
<1> HIDE DEF n
<1>5. /\ pkt_block \in Seq(PacketBytes) /\ Len(pkt_block) = pkt_size
      /\ new \in Seq(PacketBytes) /\ Len(new) = size - pkt_size
  <2>1. size - pkt_size \in Nat
    BY <1>2
  <2> QED
    BY <1>2, <2>1
<1>6. \A i \in 1 .. size :
        /\ (pkt_block \o new)[i] \in PacketBytes
        /\ i <= pkt_size => (pkt_block \o new)[i] = pkt_block[i]
  BY <1>2, <1>5
<1>7. pkt_block' \in [1 .. size -> PacketBytes]
  BY <1>1, <1>3, <1>6
<1>8. PacketInv'
  <2>1. /\ pkt_offset \in Nat /\ pkt_read \in Nat /\ pkt_moved' \in BOOLEAN
        /\ pkt_offset <= pkt_read /\ pkt_read <= pkt_write
    BY <1>4 DEF PacketInv
  <2>2. pkt_write + n <= size
    BY DEF n
  <2> QED
    BY <1>1, <1>2, <1>4, <1>7, <2>1, <2>2 DEF PacketInv
<1>9. WrittenBytes' = [i \in 1 .. pkt_write + n |-> pkt_block'[i]]
  BY <1>4, <1>8, PacketWritten DEF PacketInv, WrittenBytes
<1>10. WrittenBytes \o bytes =
         [i \in 1 .. pkt_write + n |->
            IF i <= pkt_write THEN pkt_block[i] ELSE bytes[i - pkt_write]]
  <2>1. /\ WrittenBytes = [i \in 1 .. pkt_write |-> pkt_block[i]]
        /\ WrittenBytes \in Seq(PacketBytes) /\ Len(WrittenBytes) = pkt_write
    BY PacketWritten
  <2> QED
    BY <1>1, <1>2, <2>1 DEF n
<1>11. \A i \in 1 .. pkt_write + n :
         pkt_block'[i] = IF i <= pkt_write THEN pkt_block[i] ELSE bytes[i - pkt_write]
  <2> SUFFICES ASSUME NEW i \in 1 .. pkt_write + n
               PROVE  pkt_block'[i] = IF i <= pkt_write THEN pkt_block[i]
                                                        ELSE bytes[i - pkt_write]
    OBVIOUS
  <2>1. i \in 1 .. size
    BY <1>1, <1>2 DEF n
  <2>2. i - pkt_write \in 1 .. n <=> i > pkt_write
    BY <1>1, <1>2
  <2> QED
    BY <1>1, <1>2, <1>3, <1>6, <2>1, <2>2
<1> QED
  BY <1>4, <1>8, <1>9, <1>10, <1>11

(* Reading n bytes from a position that is not behind the writer.           *)
LEMMA PacketReads ==
  ASSUME PacketInv, NEW at \in Nat, pkt_read <= at, at <= pkt_write,
         NEW n \in Nat, Pkt!Read(at, n)
  PROVE  PacketInv' /\ Pkt!Cursor!Return(at, n)
<1>1. /\ pkt_size \in Nat /\ pkt_block \in [1 .. pkt_size -> PacketBytes]
      /\ pkt_offset \in Nat /\ pkt_read \in Nat /\ pkt_write \in Nat
      /\ pkt_offset <= pkt_read /\ pkt_write <= pkt_size
  BY DEF PacketInv
<1>2. n <= Pkt!BytesLeft(at) <=> at + n <= pkt_write
  BY <1>1 DEF Pkt!BytesLeft, Pkt!Size
<1>3. /\ WrittenBytes = [i \in 1 .. pkt_write |-> pkt_block[i]]
      /\ WrittenBytes \in Seq(PacketBytes) /\ Len(WrittenBytes) = pkt_write
  BY PacketWritten
<1>4. at + n <= pkt_write =>
        SubSeq(pkt_block, at + 1, at + n) = SubSeq(WrittenBytes, at + 1, at + n)
  BY <1>1, <1>3
<1>5. /\ pkt_size' = pkt_size /\ pkt_offset' = pkt_offset /\ pkt_block' = pkt_block
      /\ pkt_write' = pkt_write /\ pkt_moved' = pkt_moved
      /\ pkt_out' = IF at + n <= pkt_write THEN SubSeq(pkt_block, at + 1, at + n) ELSE <<>>
      /\ pkt_read' = IF at + n <= pkt_write THEN at + n ELSE at
  BY <1>2 DEF Pkt!Read
<1>6. PacketInv'
  BY <1>1, <1>5 DEF PacketInv
<1>7. WrittenBytes' = WrittenBytes
  BY <1>5 DEF WrittenBytes
<1> QED
  BY <1>3, <1>4, <1>5, <1>6, <1>7 DEF Pkt!Cursor!Return, WrittenBytes

(* Every operation keeps the invariant, and is one of the cursor with the   *)
(* three exceptions.                                                        *)
CursorStep ==
  \/ [Pkt!Cursor!Next]_pktVars
  \/ Pkt!set_start /\ (pkt_offset > 0 \/ pkt_read = pkt_size)
  \/ Pkt!copy /\ pkt_write < pkt_size

LEMMA PacketWriteData ==
  ASSUME PacketInv, NEW b \in Pkt!Blocks, Pkt!write_data(b)
  PROVE  PacketInv' /\ CursorStep
<1> DEFINE size == Pkt!Grown(pkt_size, pkt_write, Len(b))
<1>1. b \in Seq(PacketBytes) /\ Len(b) \in Nat
  <2>1. PICK m \in 1 .. 2 : b \in [1 .. m -> PacketBytes]
    BY DEF Pkt!Blocks, Pkt!OfLength
  <2> QED
    BY <2>1
<1>2. size \in Nat /\ pkt_size <= size /\ pkt_write + Len(b) <= size
  BY <1>1 DEF PacketInv, Pkt!Grown
<1>3. Pkt!Write(b, size)
  BY DEF Pkt!write_data
<1> HIDE DEF size
<1>4. /\ PacketInv' /\ WrittenBytes' = WrittenBytes \o b
      /\ pkt_out' = <<>> /\ pkt_read' = pkt_read /\ pkt_offset' = pkt_offset
  BY <1>1, <1>2, <1>3, PacketAppends
<1> QED
  BY <1>4 DEF CursorStep, Pkt!Cursor!Next, Pkt!Cursor!Write, WrittenBytes

LEMMA PacketWriteString ==
  ASSUME PacketInv, NEW t \in Pkt!Texts, Pkt!write_string(t)
  PROVE  PacketInv' /\ CursorStep
<1> DEFINE size == Pkt!Grown(Pkt!Grown(pkt_size, pkt_write, 1), pkt_write + 1, Len(t))
           b == <<Len(t)>> \o t
<1>1. t \in Seq(PacketBytes) /\ Len(t) \in 0 .. 2
  <2>1. PICK m \in 0 .. 2 : t \in [1 .. m -> PacketBytes]
    BY DEF Pkt!Texts, Pkt!OfLength
  <2> QED
    BY <2>1
<1>2. <<Len(t)>> \in Seq(PacketBytes) /\ Len(<<Len(t)>>) = 1
  <2>1. Len(t) \in PacketBytes
    BY <1>1, PacketAssumption
  <2> QED
    BY <2>1
<1>3. b \in Seq(PacketBytes) /\ Len(b) = Len(t) + 1
  BY <1>1, <1>2
<1>4. size \in Nat /\ pkt_size <= size /\ pkt_write + Len(b) <= size
  BY <1>1, <1>3 DEF PacketInv, Pkt!Grown
<1>5. Pkt!Write(b, size)
  BY DEF Pkt!write_string, Pkt!Encoded
<1>6. Pkt!Cursor!Write(b) <=> /\ WrittenBytes' = WrittenBytes \o b /\ pkt_out' = <<>>
                              /\ pkt_read' = pkt_read /\ pkt_offset' = pkt_offset
  BY DEF Pkt!Cursor!Write, WrittenBytes
<1>7. Pkt!Cursor!Write(b) => CursorStep
  BY DEF CursorStep, Pkt!Cursor!Next
<1> HIDE DEF size, b
<1>8. /\ PacketInv' /\ WrittenBytes' = WrittenBytes \o b
      /\ pkt_out' = <<>> /\ pkt_read' = pkt_read /\ pkt_offset' = pkt_offset
  BY <1>3, <1>4, <1>5, PacketAppends
<1> QED
  BY <1>6, <1>7, <1>8

LEMMA PacketReadData ==
  ASSUME PacketInv, NEW n \in Pkt!Lengths, Pkt!read_data(n)
  PROVE  PacketInv' /\ CursorStep
<1>1. n \in Nat /\ Pkt!Read(pkt_read, n) /\ pkt_read \in Nat /\ pkt_read <= pkt_write
  BY DEF Pkt!Lengths, Pkt!read_data, PacketInv
<1>2. PacketInv' /\ Pkt!Cursor!Return(pkt_read, n)
  BY <1>1, PacketReads
<1> QED
  BY <1>2 DEF CursorStep, Pkt!Cursor!Next

LEMMA PacketReadString ==
  ASSUME PacketInv, Pkt!read_string
  PROVE  PacketInv' /\ CursorStep
<1>1. /\ pkt_read \in Nat /\ pkt_write \in Nat /\ pkt_read <= pkt_write
      /\ pkt_write <= pkt_size /\ pkt_size \in Nat /\ pkt_offset \in Nat
      /\ pkt_block \in [1 .. pkt_size -> PacketBytes]
  BY DEF PacketInv
<1>2. Pkt!BytesLeft(pkt_read) = pkt_write - pkt_read
  BY <1>1 DEF Pkt!BytesLeft, Pkt!Size
<1>3. Len(WrittenBytes) = pkt_write /\ WrittenBytes = [i \in 1 .. pkt_write |-> pkt_block[i]]
  BY PacketWritten
<1>4. CASE pkt_read = pkt_write
  <2>1. Pkt!Read(pkt_read, 0)
    BY <1>1, <1>2, <1>4 DEF Pkt!read_string
  <2>2. PacketInv' /\ Pkt!Cursor!Return(pkt_read, 0)
    BY <1>1, <2>1, PacketReads
  <2>3. Pkt!Cursor!ReadString
    BY <1>1, <1>3, <1>4, <2>2 DEF Pkt!Cursor!ReadString, WrittenBytes
  <2> QED
    BY <2>2, <2>3 DEF CursorStep, Pkt!Cursor!Next
<1>5. CASE pkt_read < pkt_write
  <2> DEFINE n == pkt_block[pkt_read + 1]
  <2>1. n \in Nat /\ WrittenBytes[pkt_read + 1] = n
    <3>1. pkt_read + 1 \in 1 .. pkt_write /\ pkt_read + 1 \in 1 .. pkt_size
      BY <1>1, <1>5
    <3>2. n \in PacketBytes
      BY <1>1, <3>1
    <3> QED
      BY <1>3, <3>1, <3>2, PacketAssumption
  <2>2. Pkt!Read(pkt_read + 1, n)
    BY <1>1, <1>2, <1>5 DEF Pkt!read_string
  <2>3. PacketInv' /\ Pkt!Cursor!Return(pkt_read + 1, n)
    BY <1>1, <1>5, <2>1, <2>2, PacketReads
  <2>4. Pkt!Cursor!ReadString
    BY <1>1, <1>3, <1>5, <2>1, <2>3 DEF Pkt!Cursor!ReadString, WrittenBytes
  <2> QED
    BY <2>3, <2>4 DEF CursorStep, Pkt!Cursor!Next
<1> QED
  BY <1>1, <1>4, <1>5

(* begin_read, set_start and the copy constructor.                          *)
LEMMA PacketMoves ==
  ASSUME PacketInv, Pkt!begin_read \/ Pkt!set_start \/ Pkt!copy
  PROVE  PacketInv' /\ CursorStep
<1>1. /\ pkt_read \in Nat /\ pkt_write \in Nat /\ pkt_read <= pkt_write
      /\ pkt_write <= pkt_size /\ pkt_size \in Nat /\ pkt_offset \in Nat
      /\ pkt_offset <= pkt_read /\ pkt_moved \in BOOLEAN
      /\ pkt_block \in [1 .. pkt_size -> PacketBytes]
  BY DEF PacketInv
<1>2. CASE Pkt!begin_read
  <2>1. PacketInv'
    <3>1. /\ pkt_size' = pkt_size /\ pkt_block' = pkt_block /\ pkt_write' = pkt_write
          /\ pkt_read' = pkt_offset /\ pkt_offset' = pkt_offset
      BY <1>2 DEF Pkt!begin_read
    <3>2. pkt_moved' \in BOOLEAN
      BY <1>2 DEF Pkt!begin_read
    <3> QED
      BY <1>1, <3>1, <3>2 DEF PacketInv
  <2>2. Pkt!Cursor!Begin
    BY <1>2 DEF Pkt!begin_read, Pkt!Cursor!Begin
  <2> QED
    BY <2>1, <2>2 DEF CursorStep, Pkt!Cursor!Next
<1>3. CASE Pkt!set_start
  <2>1. PacketInv'
    <3>1. /\ pkt_size' = pkt_size /\ pkt_block' = pkt_block /\ pkt_write' = pkt_write
          /\ pkt_read' = pkt_offset'
          /\ pkt_offset' = IF pkt_read - pkt_offset < pkt_size THEN pkt_read - pkt_offset
                                                              ELSE pkt_offset
      BY <1>3 DEF Pkt!set_start, Pkt!NewOffset
    <3>2. pkt_offset' \in Nat /\ pkt_offset' <= pkt_write
      BY <1>1, <3>1
    <3>3. pkt_moved' \in BOOLEAN
      BY <1>1, <1>3 DEF Pkt!set_start
    <3> QED
      BY <1>1, <3>1, <3>2, <3>3 DEF PacketInv
  <2>2. pkt_offset = 0 /\ pkt_read < pkt_size => Pkt!Cursor!SetStart
    BY <1>1, <1>3 DEF Pkt!set_start, Pkt!NewOffset, Pkt!Cursor!SetStart
  <2> QED
    BY <1>1, <1>3, <2>1, <2>2 DEF CursorStep, Pkt!Cursor!Next
<1>4. CASE Pkt!copy
  <2>1. PacketInv'
    <3>1. /\ pkt_size' = pkt_size /\ pkt_block' = pkt_block /\ pkt_write' = pkt_size
          /\ pkt_read' = pkt_offset /\ pkt_offset' = pkt_offset
      BY <1>4 DEF Pkt!copy
    <3>2. pkt_moved' \in BOOLEAN
      BY <1>4 DEF Pkt!copy
    <3> QED
      BY <1>1, <3>1, <3>2 DEF PacketInv
  <2>2. pkt_write = pkt_size => Pkt!Cursor!Begin
    BY <1>1, <1>4 DEF Pkt!copy, Pkt!Cursor!Begin
  <2> QED
    BY <1>1, <1>4, <2>1, <2>2 DEF CursorStep, Pkt!Cursor!Next
<1> QED
  BY <1>2, <1>3, <1>4

LEMMA PacketStep == PacketInv /\ [Pkt!Next]_pktVars => PacketInv' /\ CursorStep
<1> SUFFICES ASSUME PacketInv, [Pkt!Next]_pktVars PROVE PacketInv' /\ CursorStep
  OBVIOUS
<1>1. CASE UNCHANGED pktVars
  BY <1>1 DEF pktVars, PacketInv, CursorStep
<1> QED
  BY <1>1, PacketWriteData, PacketWriteString, PacketReadData, PacketReadString, PacketMoves
  DEF Pkt!Next

-----------------------------------------------------------------------------
(* session_store                                                            *)

StoreInv == Store!TypeOK /\ Store!ExclusiveLock

LEMMA StoreStart == Store!Init => StoreInv
BY DEF Store!Init, StoreInv, Store!TypeOK, Store!ExclusiveLock, Store!Sids, Store!Locks

(* A session in the map stays there.                                        *)
Kept == \A sid \in Store!Sids :
          Store!IsSession(sessions[sid]) => sessions'[sid] = sessions[sid]

LEMMA StoreStep == StoreInv /\ [Store!Next]_storeVars => StoreInv' /\ Kept
<1> SUFFICES ASSUME StoreInv, [Store!Next]_storeVars PROVE StoreInv' /\ Kept
  OBVIOUS
<1> USE DEF StoreInv, Store!TypeOK, Store!ExclusiveLock, Kept, Store!Goto
<1>1. ASSUME NEW r \in Requests, Store!LockShared(r) PROVE StoreInv' /\ Kept
  BY <1>1 DEF Store!LockShared, Store!Locks
<1>2. ASSUME NEW r \in Requests, Store!Lookup(r) PROVE StoreInv' /\ Kept
  BY <1>2 DEF Store!Lookup, Store!IsSession
<1>3. ASSUME NEW r \in Requests, Store!UnlockShared(r) PROVE StoreInv' /\ Kept
  BY <1>3 DEF Store!UnlockShared, Store!Locks
<1>4. ASSUME NEW r \in Requests, Store!LockExclusive(r) PROVE StoreInv' /\ Kept
  BY <1>4 DEF Store!LockExclusive, Store!Locks
<1>5. ASSUME NEW r \in Requests, Store!Create(r) PROVE StoreInv' /\ Kept
  BY <1>5 DEF Store!Create, Store!Locks
<1>6. ASSUME NEW r \in Requests, Store!TryNext(r) PROVE StoreInv' /\ Kept
  BY <1>6 DEF Store!TryNext, Store!vars
<1>7. CASE UNCHANGED storeVars
  BY <1>7 DEF storeVars
<1> QED
  BY <1>1, <1>2, <1>3, <1>4, <1>5, <1>6, <1>7 DEF Store!Next, Store!Get

-----------------------------------------------------------------------------
(* The four of them.                                                        *)

StructuresInv == BufferInv /\ RingInv /\ PacketInv /\ StoreInv

LEMMA StructuresStart == StructuresInit => StructuresInv
BY InvInit, RingStart, PacketStart, StoreStart DEF StructuresInit, StructuresInv

LEMMA StructuresStep ==
  StructuresInv /\ [StructuresNext]_<<which, fifo, ringVars, pktVars, storeVars>>
    => StructuresInv' /\ CursorStep /\ Kept
<1> SUFFICES ASSUME StructuresInv,
                    [StructuresNext]_<<which, fifo, ringVars, pktVars, storeVars>>
             PROVE  StructuresInv' /\ CursorStep /\ Kept
  OBVIOUS
<1>1. /\ [Next]_vars /\ [Ring!Next]_ringVars /\ [Pkt!Next]_pktVars
      /\ [Store!Next]_storeVars
  BY DEF StructuresNext, fifo, vars
<1>2. BufferInv'
  BY <1>1, BufferStep DEF StructuresInv
<1>3. RingInv'
  BY <1>1, RingStep DEF StructuresInv
<1>4. PacketInv' /\ CursorStep
  BY <1>1, PacketStep DEF StructuresInv
<1>5. StoreInv' /\ Kept
  BY <1>1, StoreStep DEF StructuresInv
<1> QED
  BY <1>2, <1>3, <1>4, <1>5 DEF StructuresInv

(* The variables of all four keep their types; the pointers of a packet     *)
(* stay in its block (packet.cpp:14-111), the read offset of a ring_buffer  *)
(* is inside its block, and the write offset is as long as the bytes are in *)
(* order; after a growth that loses the order it may be the end of the      *)
(* block (ring_buffer.cpp:39-50, 112), from where the next push may have no *)
(* step.  The size of a fifo_buffer is that of its block                    *)
(* (fifo_buffer.cpp:35-44, 91-102), and the exclusive lock of a             *)
(* session_store excludes every other holder                                *)
(* (http_session_store.cpp:31-50).                                          *)
THEOREM StructuresCorrect == StructuresSpec => []StructuresTypeOK
<1>1. StructuresInv => StructuresTypeOK
  BY RingTypes, PacketTypes DEF StructuresInv, StructuresTypeOK, BufferInv, StoreInv
<1> QED
  BY StructuresStart, StructuresStep, <1>1, PTL DEF StructuresSpec

(* What pop_front of a ring_buffer returns are the bytes pushed, in order,  *)
(* unless the block grew at another time than when it was full to its end,  *)
(* or peek was called (ring_buffer.cpp:39-50, 105-134).                     *)
THEOREM RingCorrect == StructuresSpec => []RingIsQueue
<1>1. StructuresInv => RingIsQueue
  BY DEF StructuresInv, RingInv, RingIsQueue, Ring!RingIsQueue
<1> QED
  BY StructuresStart, StructuresStep, <1>1, PTL DEF StructuresSpec

(* Every operation of a packet is one of a cursor over the bytes written,   *)
(* with the three exceptions that the property names (packet.h:46-95,       *)
(* packet.cpp:52-111).                                                      *)
THEOREM PacketCorrect == StructuresSpec => StepsOfCursor
<1>1. CursorStep => [\/ Pkt!Cursor!Next
                     \/ Pkt!set_start /\ (pkt_offset > 0 \/ pkt_read = pkt_size)
                     \/ Pkt!copy /\ pkt_write < pkt_size]_(Pkt!vars)
  BY DEF CursorStep, pktVars, Pkt!vars
<1> QED
  BY StructuresStart, StructuresStep, <1>1, PTL
  DEF StructuresSpec, StepsOfCursor, Pkt!StepsOfCursor

(* No request takes over or replaces a session that was handed out          *)
(* (http_session_store.cpp:36-47).                                          *)
THEOREM SessionsCorrect == StructuresSpec => NeverReplaced
<1>1. Kept => [Kept]_(Store!vars)
  OBVIOUS
<1> QED
  BY StructuresStart, StructuresStep, <1>1, PTL
  DEF StructuresSpec, NeverReplaced, Store!NeverReplaced, Kept
=============================================================================
