---------------------------- MODULE PacketCursor ----------------------------
(* What proto::packet promises to mux and to its users: bytes are appended, *)
(* and one reader goes through them, who can go back to a start of his own. *)
EXTENDS Integers, Sequences

CONSTANTS Blocks,    \* what may be written: sequences of bytes
          Texts,     \* the strings that may be written
          Lengths    \* lengths that may be read

VARIABLES written, position, start,
          out        \* the bytes the last operation returned

Init(bytes) == written = bytes /\ position = 0 /\ start = 0 /\ out = <<>>

Write(bytes) ==
  written' = written \o bytes /\ out' = <<>> /\ UNCHANGED <<position, start>>

(* n bytes after the first p are returned, or none.                         *)
Return(p, n) ==
  /\ IF p + n <= Len(written)
       THEN out' = SubSeq(written, p + 1, p + n) /\ position' = p + n
       ELSE out' = <<>> /\ position' = p
  /\ UNCHANGED <<written, start>>

(* A string follows its length.                                             *)
ReadString == IF position < Len(written)
                THEN Return(position + 1, written[position + 1])
                ELSE Return(position, 0)

Begin == position' = start /\ out' = <<>> /\ UNCHANGED <<written, start>>

SetStart == start' = position /\ out' = <<>> /\ UNCHANGED <<written, position>>

Next == \/ \E b \in Blocks : Write(b)
        \/ \E t \in Texts : Write(<<Len(t)>> \o t)
        \/ \E n \in Lengths : Return(position, n)
        \/ ReadString \/ Begin \/ SetStart
=============================================================================
