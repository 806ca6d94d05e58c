----------------------------- MODULE ByteQueue -----------------------------
(* What memory::fifo_buffer promises to packet_proto, udp and tls: a queue  *)
(* of bytes.  push_back appends a block; pop_front takes bytes off the      *)
(* front, at most as many as asked for and at most as many as there are;    *)
(* clear empties it.                                                        *)
EXTENDS Integers, Sequences

CONSTANTS Blocks,    \* what may be pushed: sequences of bytes
          Amounts    \* what may be asked for: integers

VARIABLES queue,     \* the bytes, oldest first
          out        \* the bytes the last operation handed out

Init == queue = <<>> /\ out = <<>>

Push(b) == queue' = queue \o b /\ out' = <<>>

(* n bytes leave the queue, or all of them, or none if n is not positive.   *)
Taken(n) == IF n <= 0 THEN 0 ELSE IF n < Len(queue) THEN n ELSE Len(queue)

Pop(n) == /\ queue' = SubSeq(queue, Taken(n) + 1, Len(queue))
          /\ out' = SubSeq(queue, 1, Taken(n))

(* pop_front without a destination.                                         *)
Skip(n) == /\ queue' = SubSeq(queue, Taken(n) + 1, Len(queue))
           /\ out' = <<>>

Clear == queue' = <<>> /\ out' = <<>>

Next == \/ \E b \in Blocks : Push(b)
        \/ \E n \in Amounts : Pop(n) \/ Skip(n)
        \/ Clear

Spec == Init /\ [][Next]_<<queue, out>>
=============================================================================
