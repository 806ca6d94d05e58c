------------------------- MODULE PacketProtoProofs -------------------------
(* Proofs about PacketProto, for any connections, threads, header and       *)
(* payload sizes and buffer length.                                         *)
EXTENDS PacketProto, SequenceTheorems, WellFoundedInduction, TLAPS

-----------------------------------------------------------------------------
(* The pieces the actions are built from.                                   *)

(* A frame is a header and the payload: H + size bytes, at least one.       *)
LEMMA FrameBytes ==
  ASSUME NEW p \in Packets
  PROVE  /\ FrameLen(p) \in Nat \ {0}
         /\ Frame(p) \in Seq(Bytes)
         /\ Len(Frame(p)) = FrameLen(p)
         /\ \A i \in 1 .. FrameLen(p) : Frame(p)[i] = <<p, i>>
<1>0. p.size \in Nat
  BY SizesAssumption DEF Packets
<1>1. FrameLen(p) \in Nat \ {0}
  BY <1>0, HeaderAssumption DEF FrameLen
<1>2. \A i \in 1 .. FrameLen(p) : <<p, i>> \in Bytes
  BY <1>1 DEF Bytes
<1> QED
  BY <1>1, <1>2 DEF Frame

(* A part of a sequence is a sequence, of the length asked for.             *)
LEMMA PartOfSeq ==
  ASSUME NEW S, NEW s \in Seq(S), NEW a \in Nat, NEW b \in Nat, b <= Len(s)
  PROVE  /\ SubSeq(s, a + 1, b) \in Seq(S)
         /\ Len(SubSeq(s, a + 1, b)) = IF a < b THEN b - a ELSE 0
         /\ \A i \in 1 .. b - a : SubSeq(s, a + 1, b)[i] = s[a + i]
<1>1. \A i \in a + 1 .. b : s[i] \in S
  BY ElementOfSeq
<1>2. a + 1 \in Int /\ b \in Int
  OBVIOUS
<1>3. /\ SubSeq(s, a + 1, b) \in Seq(S)
      /\ Len(SubSeq(s, a + 1, b)) = IF a + 1 <= b THEN b - (a + 1) + 1 ELSE 0
      /\ \A i \in 1 .. b - (a + 1) + 1 : SubSeq(s, a + 1, b)[i] = s[a + 1 + i - 1]
  BY <1>1, <1>2, SubSeqProperties
<1> QED
  BY <1>3

(* Drop(s, n) leaves what follows the first n elements.                     *)
LEMMA DropSeq ==
  ASSUME NEW S, NEW s \in Seq(S), NEW n \in 0 .. Len(s)
  PROVE  /\ Drop(s, n) \in Seq(S)
         /\ Len(Drop(s, n)) = Len(s) - n
         /\ \A i \in 1 .. Len(s) - n : Drop(s, n)[i] = s[n + i]
<1>1. /\ n \in Nat /\ Len(s) \in Nat /\ Len(s) <= Len(s)
      /\ Len(s) - n = IF n < Len(s) THEN Len(s) - n ELSE 0
  BY LenProperties
<1> QED
  BY <1>1, PartOfSeq DEF Drop

(* The header loop ends somewhere in the buffer.                            *)
LEMMA SkippedInBuffer ==
  ASSUME NEW b \in Seq(Bytes)
  PROVE  /\ Skipped(b) \in 0 .. Len(b)
         /\ LoopEnds(b, Skipped(b))
<1> DEFINE T == {k \in 0 .. Len(b) : LoopEnds(b, k)}
<1>1. T \subseteq Nat /\ Len(b) \in T
  BY HeaderAssumption, LenProperties DEF LoopEnds
<1>2. PICK k \in T : \A i \in T : ~(<<i, k>> \in OpToRel(<, Nat))
  BY <1>1, NatLessThanWellFounded, WFMin
<1>3. ASSUME NEW i \in 0 .. k - 1, LoopEnds(b, i)
      PROVE  FALSE
  <2>1. i \in Nat /\ k \in Nat /\ i < k /\ i \in 0 .. Len(b)
    BY LenProperties
  <2>2. <<i, k>> \in OpToRel(<, Nat)
    BY <2>1 DEF OpToRel
  <2>3. i \in T
    BY <2>1, <1>3
  <2> QED
    BY <1>2, <2>2, <2>3
<1>4. \E j \in 0 .. Len(b) :
        LoopEnds(b, j) /\ \A i \in 0 .. j - 1 : ~LoopEnds(b, i)
  BY <1>2, <1>3
<1> QED
  BY <1>4 DEF Skipped

-----------------------------------------------------------------------------
(* Type correctness, with what it needs: a reader between the calls has     *)
(* nothing in the buffer, one inside a call works on a connection, and the  *)
(* bytes it counts were written into the buffer.                            *)
Readings ==
  /\ \A t \in Readers : pc[t] \in {"idle", "lock"} => got[t] = 0
  /\ \A t \in Readers : pc[t] # "idle" => at[t] \in Conns
  /\ \A t \in Readers : \A i \in 1 .. got[t] : buf[i] \in Bytes

TypeInv == TypeOK /\ Readings

(* The initial state is well typed and every reader is between calls.       *)
LEMMA TypeInvInit == Init => TypeInv
<1> SUFFICES ASSUME Init
             PROVE  TypeInv
  OBVIOUS
<1>1. TypeOK
  BY NetMaxAssumption DEF Init, TypeOK, NoHdr
<1>2. Readings
  BY DEF Init, Readings
<1> QED
  BY <1>1, <1>2 DEF TypeInv

(* The packet that write_packet makes of a size is a packet.                *)
LEMMA NewPacketIsPacket ==
  ASSUME TypeOK, NEW c \in Conns, NEW s \in Sizes
  PROVE  NewPacket(c, s) \in Packets
<1> DEFINE n == Len(accepted[c])
<1>1. accepted[c] \in Seq(Packets) /\ n \in Nat
  BY LenProperties DEF TypeOK
<1>2. EndOf(c, n) + 1 \in Nat \ {0}
  <2>1. CASE n = 0
    BY <2>1 DEF EndOf
  <2>2. CASE n # 0
    <3>1. accepted[c][n] \in Packets
      BY <1>1, <2>2, ElementOfSeq
    <3>2. accepted[c][n].start \in Nat \ {0} /\ FrameLen(accepted[c][n]) \in Nat \ {0}
      BY <3>1, FrameBytes DEF Packets
    <3>3. EndOf(c, n) = accepted[c][n].start + FrameLen(accepted[c][n]) - 1
      BY <2>2 DEF EndOf
    <3> HIDE DEF n
    <3> QED
      BY <3>2, <3>3
  <2> QED
    BY <2>1, <2>2
<1>3. n + 1 \in Nat \ {0}
  BY <1>1
<1> QED
  BY <1>2, <1>3 DEF NewPacket, Packets

(* What process() sends from is the rest of a frame.                        *)
LEMMA OutFrameType ==
  ASSUME TypeOK, NEW c \in Conns, queue[c] # <<>>
  PROVE  /\ Head(queue[c]) \in Packets
         /\ OutFrame(c) \in Seq(Bytes)
         /\ OutFrom(c) \in Nat
         /\ Len(OutFrame(c)) \in Nat
         /\ Left(c) = Len(OutFrame(c)) - OutFrom(c)
<1>1. queue[c] \in Seq(Packets) /\ outBuf[c] \in Seq(Bytes) /\ outSent[c] \in Nat
  BY DEF TypeOK
<1>2. Head(queue[c]) \in Packets
  BY <1>1, HeadTailProperties
<1>3. OutFrame(c) \in Seq(Bytes) /\ OutFrom(c) \in Nat
  BY <1>1, <1>2, FrameBytes DEF OutFrame, OutFrom
<1> QED
  BY <1>2, <1>3, LenProperties DEF Left

(* The bytes of one write_raw.                                              *)
LEMMA WrittenBytes ==
  ASSUME TypeOK, NEW c \in Conns, queue[c] # <<>>, NEW n \in 0 .. Left(c)
  PROVE  /\ Written(c, n) \in Seq(Bytes)
         /\ Len(Written(c, n)) = n
         /\ \A i \in 1 .. n : Written(c, n)[i] = OutFrame(c)[OutFrom(c) + i]
<1>1. /\ OutFrame(c) \in Seq(Bytes)
      /\ OutFrom(c) \in Nat
      /\ Len(OutFrame(c)) \in Nat
      /\ Left(c) = Len(OutFrame(c)) - OutFrom(c)
  BY OutFrameType
<1> DEFINE f == OutFrame(c)
           a == OutFrom(c)
           e == OutFrom(c) + n
<1>2. /\ a \in Nat /\ e \in Nat /\ e <= Len(f) /\ e - a = n /\ e = a + n
      /\ (IF a < e THEN e - a ELSE 0) = n
  BY <1>1
<1>3. f \in Seq(Bytes)
  BY <1>1
<1>4. Written(c, n) = SubSeq(f, a + 1, e)
  BY DEF Written
<1> HIDE DEF f, a, e
<1>5. /\ SubSeq(f, a + 1, e) \in Seq(Bytes)
      /\ Len(SubSeq(f, a + 1, e)) = IF a < e THEN e - a ELSE 0
      /\ \A i \in 1 .. e - a : SubSeq(f, a + 1, e)[i] = f[a + i]
  BY <1>2, <1>3, PartOfSeq
<1>6. /\ Written(c, n) \in Seq(Bytes)
      /\ Len(Written(c, n)) = n
      /\ \A i \in 1 .. n : Written(c, n)[i] = f[a + i]
  BY <1>2, <1>4, <1>5
<1> QED
  BY <1>6 DEF f, a

(* The result of the header loop.                                           *)
LEMMA ParsedType ==
  ASSUME TypeOK, NEW c \in Conns
  PROVE  /\ Header(c) \in Sizes \cup {NoHdr}
         /\ Rest(c) \in Seq(Bytes)
<1> DEFINE b == inBuf[c]
<1>1. b \in Seq(Bytes) /\ inHdr[c] \in Sizes \cup {NoHdr}
  BY DEF TypeOK
<1>2. Skipped(b) \in 0 .. Len(b) /\ Len(b) \in Nat
  BY <1>1, SkippedInBuffer, LenProperties
<1>3. Drop(b, Skipped(b)) \in Seq(Bytes)
  BY <1>1, <1>2, DropSeq
<1>4. CASE inHdr[c] # NoHdr
  BY <1>1, <1>4 DEF Header, Rest
<1>5. CASE inHdr[c] = NoHdr /\ HasHeader(b)
  <2>1. H \in Nat /\ Skipped(b) + H \in 0 .. Len(b) /\ Skipped(b) + 1 \in 1 .. Len(b)
    BY <1>2, <1>5, HeaderAssumption DEF HasHeader
  <2>2. Drop(b, Skipped(b) + H) \in Seq(Bytes)
    BY <1>1, <2>1, DropSeq
  <2>3. b[Skipped(b) + 1] \in Bytes
    BY <1>1, <2>1, ElementOfSeq
  <2>4. b[Skipped(b) + 1][1].size \in Sizes
    BY <2>3 DEF Bytes, Packets
  <2> QED
    BY <1>5, <2>2, <2>4 DEF Header, Rest
<1>6. CASE inHdr[c] = NoHdr /\ ~HasHeader(b)
  BY <1>3, <1>6 DEF Header, Rest
<1> QED
  BY <1>4, <1>5, <1>6

(* Every step of either end keeps the types.                                *)
LEMMA TypeInvStep ==
  ASSUME TypeInv, [Next]_vars
  PROVE  TypeInv'
<1> USE DEF TypeInv
<1>1. ASSUME NEW c \in Conns, NEW w \in Writers, NEW s \in Sizes,
             WritePacket(w, c, s)
      PROVE  TypeInv'
  <2>1. NewPacket(c, s) \in Packets
    BY NewPacketIsPacket
  <2>2. /\ accepted' \in [Conns -> Seq(Packets)]
        /\ queue' \in [Conns -> Seq(Packets)]
        /\ writing' \in [Writers -> Conns \cup {NoConn}]
    BY <1>1, <2>1 DEF WritePacket, TypeOK
  <2>3. TypeOK'
    BY <1>1, <2>2 DEF WritePacket, TypeOK, sendVars, recvVars
  <2>4. Readings'
    BY <1>1 DEF WritePacket, Readings, recvVars
  <2> QED
    BY <2>3, <2>4
<1>2. ASSUME NEW c \in Conns, NEW w \in Writers, ProcessNothing(w, c)
      PROVE  TypeInv'
  <2>1. TypeOK'
    BY <1>2 DEF ProcessNothing, Calls, TypeOK, recvVars
  <2>2. Readings'
    BY <1>2 DEF ProcessNothing, Readings, recvVars
  <2> QED
    BY <2>1, <2>2
<1>3. ASSUME NEW c \in Conns, NEW w \in Writers, NEW n \in 0 .. Left(c),
             Transmit(w, c, n)
      PROVE  TypeInv'
  <2>1. queue[c] # <<>>
    BY <1>3 DEF Transmit
  <2>2. /\ OutFrame(c) \in Seq(Bytes) /\ Written(c, n) \in Seq(Bytes)
        /\ OutFrom(c) \in Nat /\ n \in Nat
    BY <2>1, OutFrameType, WrittenBytes
  <2>3. Tail(queue[c]) \in Seq(Packets)
    BY <2>1, HeadTailProperties DEF TypeOK
  <2>4. stream' \in [Conns -> Seq(Bytes)]
    BY <1>3, <2>2, ConcatProperties DEF Transmit, TypeOK
  <2>5. /\ queue' \in [Conns -> Seq(Packets)]
        /\ outBuf' \in [Conns -> Seq(Bytes)]
        /\ outSent' \in [Conns -> Nat]
    <3>1. OutFrom(c) + n \in Nat
      BY <2>2
    <3>2. <<>> \in Seq(Bytes) /\ 0 \in Nat
      OBVIOUS
    <3> QED
      <4>1. queue' \in [Conns -> Seq(Packets)]
        BY <1>3, <2>3 DEF Transmit, TypeOK
      <4>2. outBuf' \in [Conns -> Seq(Bytes)]
        <5>1. CASE n = Left(c)
          BY <1>3, <5>1, <3>2 DEF Transmit, TypeOK
        <5>2. CASE n # Left(c)
          BY <1>3, <5>2, <2>2 DEF Transmit, TypeOK
        <5> QED
          BY <5>1, <5>2
      <4>3. outSent' \in [Conns -> Nat]
        BY <1>3, <3>1, <3>2 DEF Transmit, TypeOK
      <4> QED
        BY <4>1, <4>2, <4>3
  <2>6. TypeOK'
    BY <1>3, <2>4, <2>5 DEF Transmit, Calls, TypeOK, recvVars
  <2>7. Readings'
    BY <1>3 DEF Transmit, Readings, recvVars
  <2> QED
    BY <2>6, <2>7
<1>4. ASSUME NEW c \in Conns, NEW w \in Writers, NEW n \in 0 .. Left(c),
             TransmitFail(w, c, n)
      PROVE  TypeInv'
  <2>1. queue[c] # <<>>
    BY <1>4 DEF TransmitFail
  <2>2. /\ OutFrame(c) \in Seq(Bytes) /\ Written(c, n) \in Seq(Bytes)
        /\ OutFrom(c) \in Nat
    BY <2>1, OutFrameType, WrittenBytes
  <2>3. stream' \in [Conns -> Seq(Bytes)]
    BY <1>4, <2>2, ConcatProperties DEF TransmitFail, TypeOK
  <2>4. /\ outBuf' \in [Conns -> Seq(Bytes)]
        /\ outSent' \in [Conns -> Nat]
        /\ wopen' \in [Conns -> BOOLEAN]
    BY <1>4, <2>2 DEF TransmitFail, TypeOK
  <2>5. TypeOK'
    BY <1>4, <2>3, <2>4 DEF TransmitFail, Calls, TypeOK, recvVars
  <2>6. Readings'
    BY <1>4 DEF TransmitFail, Readings, recvVars
  <2> QED
    BY <2>5, <2>6
<1>5. ASSUME NEW c \in Conns, NEW t \in Readers, ReadPacket(t, c)
      PROVE  TypeInv'
  <2>1. TypeOK'
    BY <1>5 DEF ReadPacket, TypeOK, sendVars
  <2>2. Readings'
    BY <1>5 DEF ReadPacket, Readings, TypeOK
  <2> QED
    BY <2>1, <2>2
<1>6. ASSUME NEW c \in Conns, NEW t \in Readers, ReadComplete(t, c)
      PROVE  TypeInv'
  <2>1. Rest(c) \in Seq(Bytes) /\ Header(c) \in Nat
    BY <1>6, ParsedType, SizesAssumption DEF ReadComplete, Complete
  <2>2. Header(c) \in 0 .. Len(Rest(c))
    BY <1>6, <2>1, LenProperties DEF ReadComplete, Complete
  <2>3. /\ SubSeq(Rest(c), 1, Header(c)) \in Seq(Bytes)
        /\ Drop(Rest(c), Header(c)) \in Seq(Bytes)
    <3>1. 0 + 1 = 1 /\ 0 \in Nat /\ Header(c) <= Len(Rest(c))
      BY <2>2, <2>1, LenProperties
    <3>2. SubSeq(Rest(c), 0 + 1, Header(c)) \in Seq(Bytes)
      BY <2>1, <3>1, PartOfSeq
    <3>3. SubSeq(Rest(c), 1, Header(c)) \in Seq(Bytes)
      BY <3>1, <3>2
    <3>4. Drop(Rest(c), Header(c)) \in Seq(Bytes)
      BY <2>1, <2>2, DropSeq
    <3> QED
      BY <3>3, <3>4
  <2>4. /\ delivered' \in [Conns -> Seq(Seq(Bytes))]
        /\ inBuf' \in [Conns -> Seq(Bytes)]
        /\ inHdr' \in [Conns -> Sizes \cup {NoHdr}]
    BY <1>6, <2>3 DEF ReadComplete, TypeOK
  <2>5. TypeOK'
    BY <1>6, <2>4 DEF ReadComplete, TypeOK, sendVars
  <2>6. Readings'
    BY <1>6 DEF ReadComplete, Readings, TypeOK
  <2> QED
    BY <2>5, <2>6
<1>7. ASSUME NEW c \in Conns, NEW t \in Readers, ReadMore(t, c)
      PROVE  TypeInv'
  <2>1. Rest(c) \in Seq(Bytes) /\ Header(c) \in Sizes \cup {NoHdr}
    BY ParsedType
  <2>2. TypeOK'
    BY <1>7, <2>1 DEF ReadMore, TypeOK, sendVars
  <2>3. Readings'
    BY <1>7 DEF ReadMore, Readings, TypeOK
  <2> QED
    BY <2>2, <2>3
<1>8. ASSUME NEW c \in Conns, NEW t \in Readers, NEW n \in 1 .. NetMax,
             Recv(t, c, n)
      PROVE  TypeInv'
  <2> DEFINE m == got[t]
  <2>1. /\ m \in 0 .. NetMax /\ taken[c] \in Nat /\ NetMax \in Nat
        /\ n \in 1 .. NetMax - m
    BY <1>8, NetMaxAssumption DEF TypeOK, Recv
  <2>2. m + n \in 0 .. NetMax /\ taken[c] + n \in Nat
    BY <2>1
  <2>3. ASSUME NEW i \in 1 .. NetMax
        PROVE  /\ i \in m + 1 .. m + n => buf'[i] \in Bytes
               /\ i \notin m + 1 .. m + n => buf'[i] = buf[i]
    <3>1. buf'[i] = IF i \in m + 1 .. m + n
                    THEN stream[c][taken[c] + i - m] ELSE buf[i]
      BY <1>8 DEF Recv
    <3>2. CASE i \in m + 1 .. m + n
      <4>1. stream[c] \in Seq(Bytes) /\ taken[c] + n <= Len(stream[c])
        BY <1>8 DEF Recv, TypeOK
      <4>2. taken[c] + i - m \in 1 .. Len(stream[c])
        <5>1. Len(stream[c]) \in Nat
          BY <4>1, LenProperties
        <5>2. i - m \in 1 .. n
          BY <2>1, <3>2
        <5> HIDE DEF m
        <5> QED
          BY <2>1, <4>1, <5>1, <5>2
      <4> QED
        BY <3>1, <3>2, <4>1, <4>2, ElementOfSeq
    <3> QED
      BY <3>1, <3>2
  <2>4. buf' \in [1 .. NetMax -> Bytes \cup {<<>>}]
    <3>1. \A i \in 1 .. NetMax : buf'[i] \in Bytes \cup {<<>>}
      BY <2>3 DEF TypeOK
    <3>2. buf' = [i \in 1 .. NetMax |-> buf'[i]]
      BY <1>8 DEF Recv
    <3> QED
      BY <3>1, <3>2
  <2>5. /\ taken' \in [Conns -> Nat]
        /\ got' \in [Readers -> 0 .. NetMax]
        /\ pc' \in [Readers -> {"idle", "lock", "recv", "push"}]
    BY <1>8, <2>2 DEF Recv, TypeOK
  <2>6. TypeOK'
    BY <1>8, <2>4, <2>5 DEF Recv, TypeOK, sendVars
  <2>7. Readings'
    <3>1. ASSUME NEW u \in Readers, NEW i \in 1 .. got'[u]
          PROVE  buf'[i] \in Bytes
      <4>1. got[u] \in 0 .. NetMax /\ got'[u] \in 0 .. NetMax /\ i \in 1 .. NetMax
        <5>1. got[u] \in 0 .. NetMax /\ got'[u] \in 0 .. NetMax
          BY <2>5 DEF TypeInv, TypeOK
        <5> QED
          BY <5>1, NetMaxAssumption
      <4>2. CASE i \in m + 1 .. m + n
        BY <2>3, <4>1, <4>2
      <4>3. CASE i \notin m + 1 .. m + n
        <5>1. i \in 1 .. got[u]
          <6>1. CASE u = t
            <7>1. got'[u] = m + n
              BY <1>8, <6>1 DEF Recv, TypeOK
            <7> QED
              BY <2>1, <4>1, <4>3, <6>1, <7>1
          <6>2. CASE u # t
            BY <1>8, <6>2 DEF Recv, TypeOK
          <6> QED
            BY <6>1, <6>2
        <5>2. buf[i] \in Bytes
          BY <5>1 DEF Readings
        <5> QED
          BY <2>3, <4>1, <4>3, <5>2
      <4> QED
        BY <4>2, <4>3
    <3>2. \A u \in Readers : pc'[u] \in {"idle", "lock"} => got'[u] = 0
      BY <1>8 DEF Recv, Readings, TypeOK
    <3>3. \A u \in Readers : pc'[u] # "idle" => at'[u] \in Conns
      BY <1>8 DEF Recv, Readings, TypeOK
    <3> QED
      BY <3>1, <3>2, <3>3 DEF Readings
  <2> QED
    BY <2>6, <2>7
<1>9. ASSUME NEW c \in Conns, NEW t \in Readers, RecvNothing(t, c)
      PROVE  TypeInv'
  <2>1. TypeOK'
    BY <1>9 DEF RecvNothing, TypeOK, sendVars
  <2>2. Readings'
    BY <1>9 DEF RecvNothing, Readings, TypeOK
  <2> QED
    BY <2>1, <2>2
<1>10. ASSUME NEW c \in Conns, NEW t \in Readers, GiveUp(t, c)
       PROVE  TypeInv'
  <2>1. 0 \in 0 .. NetMax
    BY NetMaxAssumption
  <2>2. TypeOK'
    BY <1>10, <2>1 DEF GiveUp, TypeOK, sendVars
  <2>3. Readings'
    <3>1. \A u \in Readers : got'[u] = got[u] \/ got'[u] = 0
      BY <1>10 DEF GiveUp, TypeOK
    <3>2. \A u \in Readers : \A i \in 1 .. got'[u] : buf'[i] \in Bytes
      BY <1>10, <3>1 DEF GiveUp, Readings
    <3> QED
      BY <1>10, <3>2 DEF GiveUp, Readings, TypeOK
  <2> QED
    BY <2>2, <2>3
<1>11. ASSUME NEW c \in Conns, NEW t \in Readers, Push(t, c)
       PROVE  TypeInv'
  <2>1. got[t] \in Nat /\ 0 \in 0 .. NetMax
    BY NetMaxAssumption DEF TypeOK
  <2>2. \A i \in 1 .. got[t] : buf[i] \in Bytes
    BY DEF Readings
  <2>3. SubSeq(buf, 1, got[t]) \in Seq(Bytes)
    BY <2>1, <2>2, SubSeqProperties
  <2>4. inBuf' \in [Conns -> Seq(Bytes)]
    BY <1>11, <2>3, ConcatProperties DEF Push, TypeOK
  <2>5. TypeOK'
    BY <1>11, <2>1, <2>4 DEF Push, TypeOK, sendVars
  <2>6. Readings'
    <3>1. \A u \in Readers : got'[u] = got[u] \/ got'[u] = 0
      BY <1>11 DEF Push, TypeOK
    <3>2. \A u \in Readers : \A i \in 1 .. got'[u] : buf'[i] \in Bytes
      BY <1>11, <3>1 DEF Push, Readings
    <3> QED
      BY <1>11, <3>2 DEF Push, Readings, TypeOK
  <2> QED
    BY <2>5, <2>6
<1>12. ASSUME NEW c \in Conns, CloseWriter(c) \/ CloseReader(c)
       PROVE  TypeInv'
  <2>1. TypeOK'
    BY <1>12 DEF CloseWriter, CloseReader, TypeOK, sendVars, recvVars
  <2>2. Readings'
    BY <1>12 DEF CloseWriter, CloseReader, Readings, recvVars
  <2> QED
    BY <2>1, <2>2
<1>13. ASSUME UNCHANGED vars
       PROVE  TypeInv'
  <2>1. TypeOK'
    BY <1>13 DEF vars, TypeOK
  <2>2. Readings'
    BY <1>13 DEF vars, Readings
  <2> QED
    BY <2>1, <2>2
<1> QED
  BY <1>1, <1>2, <1>3, <1>4, <1>5, <1>6, <1>7, <1>8, <1>9, <1>10, <1>11, <1>12,
     <1>13 DEF Next, Send, Read, RecvFail, RecvEnd

(* The variables of every reachable state have the types that the code      *)
(* relies on, for any number of connections, threads and packets and any    *)
(* sizes: in particular the lengths returned by read_raw never exceed the   *)
(* receive buffer, and every byte handed on is one a writer sent            *)
(* (packet_proto.cpp:64-88, tcp.cpp:200-242).                               *)
THEOREM TypeCorrect == Spec => []TypeOK
<1>1. Init => TypeInv
  BY TypeInvInit
<1>2. TypeInv /\ [Next]_vars => TypeInv'
  BY TypeInvStep
<1>3. TypeInv => TypeOK
  BY DEF TypeInv
<1> QED
  BY <1>1, <1>2, <1>3, PTL DEF Spec

-----------------------------------------------------------------------------
(* The sending end puts frames on the wire, one after the other.           *)

(* Frames follow each other without a gap.                                  *)
Chained ==
  \A c \in Conns :
    /\ \A i \in 1 .. Len(accepted[c]) :
         accepted[c][i].start = EndOf(c, i - 1) + 1
    /\ \A i, j \in 1 .. Len(accepted[c]) :
         i < j => EndOf(c, i) < accepted[c][j].start

(* How many packets of c have left the queue.                               *)
Gone(c) == Len(accepted[c]) - Len(queue[c])

(* The queue is what is left of the accepted packets.                       *)
Queued ==
  \A c \in Conns :
    /\ Len(queue[c]) <= Len(accepted[c])
    /\ \A j \in 1 .. Len(queue[c]) : queue[c][j] = accepted[c][Gone(c) + j]

(* The stream ends where the buffer at hand says it does, on an open        *)
(* connection.                                                              *)
Sending ==
  \A c \in Conns :
    wopen[c] =>
      /\ Len(stream[c]) = EndOf(c, Gone(c)) + outSent[c]
      /\ outBuf[c] = <<>> => outSent[c] = 0
      /\ outBuf[c] # <<>> => /\ queue[c] # <<>>
                             /\ outBuf[c] = Frame(Head(queue[c]))
                             /\ outSent[c] < FrameLen(Head(queue[c]))

SendInv == Chained /\ Queued /\ Sending /\ StreamIsFrames


(* The positions of the frames are natural numbers.                         *)
LEMMA EndOfType ==
  ASSUME TypeOK, NEW c \in Conns, NEW n \in 0 .. Len(accepted[c])
  PROVE  /\ EndOf(c, n) \in Nat
         /\ n # 0 => /\ accepted[c][n] \in Packets
                     /\ accepted[c][n].start \in Nat \ {0}
                     /\ FrameLen(accepted[c][n]) \in Nat \ {0}
                     /\ EndOf(c, n) = accepted[c][n].start
                                        + FrameLen(accepted[c][n]) - 1
<1>1. accepted[c] \in Seq(Packets) /\ Len(accepted[c]) \in Nat
  BY LenProperties DEF TypeOK
<1>2. CASE n = 0
  BY <1>2 DEF EndOf
<1>3. CASE n # 0
  <2>1. accepted[c][n] \in Packets
    BY <1>1, <1>3, ElementOfSeq
  <2>2. /\ accepted[c][n].start \in Nat \ {0}
        /\ FrameLen(accepted[c][n]) \in Nat \ {0}
    BY <2>1, FrameBytes DEF Packets
  <2>3. EndOf(c, n) = accepted[c][n].start + FrameLen(accepted[c][n]) - 1
    BY <1>3 DEF EndOf
  <2> QED
    BY <2>1, <2>2, <2>3
<1> QED
  BY <1>2, <1>3

(* A step only adds to the packets accepted.                                *)
Grows == \A d \in Conns :
           /\ Len(accepted[d]) <= Len(accepted'[d])
           /\ \A i \in 1 .. Len(accepted[d]) : accepted'[d][i] = accepted[d][i]

(* Such a step moves no frame: positions and the bytes at them stay.        *)
LEMMA FramesStay ==
  ASSUME TypeOK, TypeOK', Grows, NEW d \in Conns
  PROVE  /\ \A n \in 0 .. Len(accepted[d]) : EndOf(d, n)' = EndOf(d, n)
         /\ \A k, x : ByteAt(d, k, x) => ByteAt(d, k, x)'
<1>1. /\ Len(accepted[d]) \in Nat /\ Len(accepted'[d]) \in Nat
      /\ Len(accepted[d]) <= Len(accepted'[d])
      /\ \A i \in 1 .. Len(accepted[d]) : accepted'[d][i] = accepted[d][i]
  BY LenProperties DEF TypeOK, Grows
<1>2. \A n \in 0 .. Len(accepted[d]) : EndOf(d, n)' = EndOf(d, n)
  BY <1>1 DEF EndOf
<1>3. \A k, x : ByteAt(d, k, x) => ByteAt(d, k, x)'
  BY <1>1 DEF ByteAt
<1> QED
  BY <1>2, <1>3

(* write_packet appends a packet to the chain.                              *)
LEMMA WritePacketGrows ==
  ASSUME TypeOK, NEW c \in Conns, NEW w \in Writers, NEW s \in Sizes,
         WritePacket(w, c, s)
  PROVE  /\ Grows
         /\ Len(accepted'[c]) = Len(accepted[c]) + 1
         /\ accepted'[c][Len(accepted[c]) + 1] = NewPacket(c, s)
         /\ Len(queue'[c]) = Len(queue[c]) + 1
         /\ queue'[c][Len(queue[c]) + 1] = NewPacket(c, s)
         /\ \A j \in 1 .. Len(queue[c]) : queue'[c][j] = queue[c][j]
         /\ \A d \in Conns \ {c} : /\ accepted'[d] = accepted[d]
                                   /\ queue'[d] = queue[d]
<1>1. NewPacket(c, s) \in Packets
  BY NewPacketIsPacket
<1>2. \A d \in Conns : accepted[d] \in Seq(Packets) /\ queue[d] \in Seq(Packets)
  BY DEF TypeOK
<1>3. /\ accepted'[c] = Append(accepted[c], NewPacket(c, s))
      /\ queue'[c] = Append(queue[c], NewPacket(c, s))
      /\ \A d \in Conns \ {c} : /\ accepted'[d] = accepted[d]
                                /\ queue'[d] = queue[d]
  BY DEF WritePacket, TypeOK
<1>4. /\ Len(accepted'[c]) = Len(accepted[c]) + 1
      /\ accepted'[c][Len(accepted[c]) + 1] = NewPacket(c, s)
      /\ \A i \in 1 .. Len(accepted[c]) : accepted'[c][i] = accepted[c][i]
  BY <1>1, <1>2, <1>3, AppendProperties
<1>5. /\ Len(queue'[c]) = Len(queue[c]) + 1
      /\ queue'[c][Len(queue[c]) + 1] = NewPacket(c, s)
      /\ \A j \in 1 .. Len(queue[c]) : queue'[c][j] = queue[c][j]
  BY <1>1, <1>2, <1>3, AppendProperties
<1>6. \A d \in Conns : Len(accepted[d]) \in Nat
  BY <1>2, LenProperties
<1>7. ASSUME NEW d \in Conns
      PROVE  /\ Len(accepted[d]) <= Len(accepted'[d])
             /\ \A i \in 1 .. Len(accepted[d]) : accepted'[d][i] = accepted[d][i]
  <2>1. CASE d = c
    BY <1>4, <1>6, <2>1
  <2>2. CASE d # c
    <3>1. accepted'[d] = accepted[d]
      BY <1>3, <2>2
    <3> QED
      BY <1>6, <3>1
  <2> QED
    BY <2>1, <2>2
<1>8. Grows
  BY <1>7 DEF Grows
<1> QED
  BY <1>3, <1>4, <1>5, <1>8

(* Before the first packet nothing was sent and no frame stands anywhere.   *)
LEMMA SendInvInit == Init => SendInv
<1> SUFFICES ASSUME Init
             PROVE  SendInv
  OBVIOUS
<1>1. \A c \in Conns : /\ Len(accepted[c]) = 0 /\ Len(queue[c]) = 0
                       /\ Len(stream[c]) = 0 /\ outSent[c] = 0
                       /\ outBuf[c] = <<>> /\ EndOf(c, 0) = 0
  BY DEF Init, EndOf
<1>2. Chained /\ Queued /\ StreamIsFrames
  BY <1>1 DEF Chained, Queued, StreamIsFrames
<1>3. ASSUME NEW c \in Conns
      PROVE  Gone(c) = 0
  <2>1. Len(accepted[c]) = 0 /\ Len(queue[c]) = 0
    BY <1>1
  <2> QED
    BY <2>1 DEF Gone
<1>4. Sending
  BY <1>1, <1>3 DEF Sending
<1> QED
  BY <1>2, <1>4 DEF SendInv

(* The m-th packet's bytes stand at the positions of its frame.             *)
LEMMA ByteAtFrame ==
  ASSUME NEW c \in Conns, NEW m \in 1 .. Len(accepted[c]), NEW k, NEW o,
         k - accepted[c][m].start + 1 = o, o \in 1 .. FrameLen(accepted[c][m])
  PROVE  ByteAt(c, k, <<accepted[c][m], o>>)
BY DEF ByteAt

(* On an open connection process() sends from the frame of the packet whose *)
(* turn it is, and from the byte where the stream ends.                     *)
LEMMA NextBytes ==
  ASSUME TypeOK, SendInv, NEW c \in Conns, wopen[c], queue[c] # <<>>,
         NEW n \in 0 .. Left(c)
  PROVE  /\ Gone(c) \in Nat /\ Gone(c) + 1 \in 1 .. Len(accepted[c])
         /\ Head(queue[c]) = accepted[c][Gone(c) + 1]
         /\ OutFrame(c) = Frame(accepted[c][Gone(c) + 1])
         /\ OutFrom(c) = outSent[c]
         /\ Left(c) = FrameLen(accepted[c][Gone(c) + 1]) - outSent[c]
         /\ Left(c) > 0
         /\ \A i \in 1 .. n : ByteAt(c, Len(stream[c]) + i, Written(c, n)[i])
<1> DEFINE g == Gone(c)
           p == accepted[c][g + 1]
           o == outSent[c]
<1>1. /\ Len(accepted[c]) \in Nat /\ Len(queue[c]) \in Nat \ {0}
      /\ queue[c] \in Seq(Packets) /\ o \in Nat
  BY EmptySeq, LenProperties DEF TypeOK
<1>2. Len(queue[c]) <= Len(accepted[c])
  BY DEF SendInv, Queued
<1>3. g \in Nat /\ g + 1 \in 1 .. Len(accepted[c])
  <2> DEFINE a == Len(accepted[c])
             q == Len(queue[c])
  <2>1. g = a - q /\ a \in Nat /\ q \in Nat \ {0} /\ q <= a
    BY <1>1, <1>2 DEF Gone
  <2> HIDE DEF g, a, q
  <2>2. g \in Nat /\ g + 1 \in 1 .. a
    BY <2>1
  <2> QED
    BY <2>2 DEF a
<1>4. Head(queue[c]) = p
  <2>1. Head(queue[c]) = queue[c][1]
    BY <1>1, HeadTailProperties
  <2>2. queue[c][1] = accepted[c][g + 1]
    BY <1>1 DEF SendInv, Queued
  <2> QED
    BY <2>1, <2>2
<1>5. /\ Len(stream[c]) = EndOf(c, g) + o
      /\ outBuf[c] = <<>> => o = 0
      /\ outBuf[c] # <<>> => outBuf[c] = Frame(p) /\ o < FrameLen(p)
  BY <1>4 DEF SendInv, Sending
<1>6. p \in Packets /\ p.start = EndOf(c, g) + 1 /\ EndOf(c, g) \in Nat
  <2>1. p \in Packets
    BY <1>3, EndOfType
  <2>2. p.start = EndOf(c, g + 1 - 1) + 1
    BY <1>3 DEF SendInv, Chained
  <2>3. g + 1 - 1 = g /\ g \in 0 .. Len(accepted[c])
    BY <1>3, <1>1
  <2>4. EndOf(c, g) \in Nat
    BY <2>3, EndOfType
  <2> QED
    BY <2>1, <2>2, <2>3, <2>4
<1>7. /\ FrameLen(p) \in Nat \ {0} /\ Len(Frame(p)) = FrameLen(p)
      /\ \A i \in 1 .. FrameLen(p) : Frame(p)[i] = <<p, i>>
  BY <1>6, FrameBytes
<1>8. OutFrame(c) = Frame(p) /\ OutFrom(c) = o
  BY <1>4, <1>5 DEF OutFrame, OutFrom
<1>9. Left(c) = FrameLen(p) - o /\ o < FrameLen(p)
  BY <1>1, <1>5, <1>7, <1>8 DEF Left
<1>10. \A i \in 1 .. n : Written(c, n)[i] = OutFrame(c)[OutFrom(c) + i]
  BY WrittenBytes
<1> HIDE DEF g, p, o
<1>11. ASSUME NEW i \in 1 .. n
       PROVE  ByteAt(c, Len(stream[c]) + i, Written(c, n)[i])
  <2>1. o + i \in 1 .. FrameLen(p)
    BY <1>1, <1>7, <1>9
  <2>2. Written(c, n)[i] = <<p, o + i>>
    BY <1>7, <1>8, <1>10, <2>1
  <2>3. p = accepted[c][g + 1]
    BY DEF p
  <2> DEFINE k == Len(stream[c]) + i
             q == o + i
             m == g + 1
  <2>5. m \in 1 .. Len(accepted[c]) /\ accepted[c][m] = p
    BY <1>3, <2>3
  <2>6. k - p.start + 1 = q
    BY <1>1, <1>5, <1>6
  <2>7. q \in 1 .. FrameLen(p) /\ Written(c, n)[i] = <<p, q>>
    BY <2>1, <2>2
  <2> HIDE DEF k, q, m
  <2>8. ByteAt(c, k, Written(c, n)[i])
    BY <2>5, <2>6, <2>7, ByteAtFrame
  <2> QED
    BY <2>8 DEF k
<1>12. Left(c) > 0
  BY <1>1, <1>7, <1>9
<1> QED
  BY <1>3, <1>4, <1>8, <1>9, <1>11, <1>12 DEF g, p, o

(* What process() adds to the stream continues the frames.                  *)
LEMMA StreamGrows ==
  ASSUME TypeOK, SendInv, NEW c \in Conns, wopen[c], queue[c] # <<>>,
         NEW n \in 0 .. Left(c),
         UNCHANGED accepted,
         stream' = [stream EXCEPT ![c] = @ \o Written(c, n)]
  PROVE  /\ StreamIsFrames'
         /\ Len(stream'[c]) = Len(stream[c]) + n
<1> DEFINE s == stream[c]
           b == Written(c, n)
<1>1. s \in Seq(Bytes) /\ b \in Seq(Bytes) /\ Len(b) = n /\ Len(s) \in Nat
  BY WrittenBytes, LenProperties DEF TypeOK
<1>2. stream'[c] = s \o b
  BY DEF TypeOK
<1>4. \A k, x : \A d \in Conns : ByteAt(d, k, x)' = ByteAt(d, k, x)
  BY DEF ByteAt
<1> HIDE DEF s, b
<1>3. /\ Len(s \o b) = Len(s) + n
      /\ \A k \in 1 .. Len(s) + n :
           (s \o b)[k] = IF k <= Len(s) THEN s[k] ELSE b[k - Len(s)]
  BY <1>1, ConcatProperties
<1>5. ASSUME NEW d \in Conns, NEW k \in 1 .. Len(stream'[d])
      PROVE  ByteAt(d, k, stream'[d][k])
  <2>1. CASE d # c
    BY <2>1 DEF TypeOK, SendInv, StreamIsFrames
  <2>2. CASE d = c /\ k <= Len(s)
    <3>1. k \in 1 .. Len(s) /\ stream'[c][k] = s[k]
      BY <1>1, <1>2, <1>3, <2>2
    <3> QED
      BY <3>1, <2>2 DEF s, SendInv, StreamIsFrames
  <2>3. CASE d = c /\ ~(k <= Len(s))
    <3> DEFINE l == Len(s)
    <3>1. l \in Nat /\ k \in 1 .. l + n /\ ~(k <= l)
      BY <1>1, <1>2, <1>3, <2>3
    <3>2. k - l \in 1 .. n /\ k = l + (k - l)
      <4> HIDE DEF l
      <4> QED
        BY <3>1
    <3>3. stream'[c][k] = b[k - l]
      BY <1>2, <1>3, <3>1
    <3>4. ByteAt(c, l + (k - l), b[k - l])
      BY <3>2, NextBytes DEF s, b
    <3> QED
      BY <2>3, <3>2, <3>3, <3>4
  <2> QED
    BY <2>1, <2>2, <2>3
<1>6. StreamIsFrames'
  BY <1>4, <1>5 DEF StreamIsFrames
<1> QED
  BY <1>2, <1>3, <1>6 DEF s

(* write_packet puts a frame at the end of the chain and of the queue.      *)
LEMMA WritePacketSendInv ==
  ASSUME TypeOK, TypeOK', SendInv, NEW c \in Conns, NEW w \in Writers,
         NEW s \in Sizes, WritePacket(w, c, s)
  PROVE  SendInv'
<1> DEFINE n == Len(accepted[c])
           l == Len(queue[c])
           g == Gone(c)
<1>1. /\ Grows
      /\ Len(accepted'[c]) = n + 1
      /\ accepted'[c][n + 1] = NewPacket(c, s)
      /\ Len(queue'[c]) = l + 1
      /\ queue'[c][l + 1] = NewPacket(c, s)
      /\ \A j \in 1 .. l : queue'[c][j] = queue[c][j]
      /\ \A d \in Conns \ {c} : accepted'[d] = accepted[d] /\ queue'[d] = queue[d]
  BY WritePacketGrows
<1>2. /\ \A d \in Conns : \A k \in 0 .. Len(accepted[d]) : EndOf(d, k)' = EndOf(d, k)
      /\ \A d \in Conns : \A k, x : ByteAt(d, k, x) => ByteAt(d, k, x)'
  BY <1>1, FramesStay
<1>3. /\ n \in Nat /\ l \in Nat /\ l <= n /\ g = n - l
      /\ \A d \in Conns : Len(accepted[d]) \in Nat
  BY LenProperties DEF TypeOK, SendInv, Queued, Gone
<1>4. \A k \in 0 .. n : EndOf(c, k)' = EndOf(c, k) /\ EndOf(c, k) \in Nat
  BY <1>2, EndOfType
<1>5. \A i \in 1 .. n : accepted'[c][i] = accepted[c][i]
  BY <1>1 DEF Grows
<1>6. NewPacket(c, s).start = EndOf(c, n) + 1
  BY DEF NewPacket
<1>7. Gone(c)' = g
  <2>1. Gone(c)' = (n + 1) - (l + 1)
    BY <1>1 DEF Gone
  <2> HIDE DEF n, l, g
  <2> QED
    BY <1>3, <2>1
<1>8. /\ \A i \in 1 .. n : accepted[c][i].start = EndOf(c, i - 1) + 1
      /\ \A i, j \in 1 .. n : i < j => EndOf(c, i) < accepted[c][j].start
      /\ \A j \in 1 .. l : queue[c][j] = accepted[c][g + j]
  BY DEF SendInv, Chained, Queued
<1>9. \A i \in 1 .. n : /\ accepted[c][i].start \in Nat
                        /\ accepted[c][i].start <= EndOf(c, i)
  <2> SUFFICES ASSUME NEW i \in 1 .. n
               PROVE  /\ accepted[c][i].start \in Nat
                      /\ accepted[c][i].start <= EndOf(c, i)
    OBVIOUS
  <2>1. /\ accepted[c][i].start \in Nat
        /\ FrameLen(accepted[c][i]) \in Nat \ {0}
        /\ EndOf(c, i) = accepted[c][i].start + FrameLen(accepted[c][i]) - 1
    BY <1>3, EndOfType
  <2> QED
    BY <2>1
<1>10. Chained'
  <2>1. ASSUME NEW d \in Conns \ {c}
        PROVE  /\ \A i \in 1 .. Len(accepted[d]) :
                    accepted[d][i].start = EndOf(d, i - 1)' + 1
               /\ \A i, j \in 1 .. Len(accepted[d]) :
                    i < j => EndOf(d, i)' < accepted[d][j].start
    <3>1. \A i \in 1 .. Len(accepted[d]) :
            /\ EndOf(d, i)' = EndOf(d, i)
            /\ EndOf(d, i - 1)' = EndOf(d, i - 1)
      BY <1>2, <1>3
    <3> QED
      BY <3>1 DEF SendInv, Chained
  <2>2. \A i \in 1 .. n + 1 : accepted'[c][i].start = EndOf(c, i - 1)' + 1
    <3> SUFFICES ASSUME NEW i \in 1 .. n + 1
                 PROVE  accepted'[c][i].start = EndOf(c, i - 1)' + 1
      OBVIOUS
    <3>1. CASE i = n + 1
      <4>1. i - 1 \in 0 .. n /\ i - 1 = n
        <5> HIDE DEF n
        <5> QED
          BY <1>3, <3>1
      <4>2. EndOf(c, i - 1)' = EndOf(c, i - 1)
        BY <1>4, <4>1
      <4>3. EndOf(c, i - 1) = EndOf(c, n)
        BY <4>1
      <4> QED
        BY <1>1, <1>6, <3>1, <4>2, <4>3
    <3>2. CASE i # n + 1
      <4>1. i \in 1 .. n /\ i - 1 \in 0 .. n
        BY <1>3, <3>2
      <4> QED
        BY <1>4, <1>5, <1>8, <4>1
    <3> QED
      BY <3>1, <3>2
  <2>3. \A i, j \in 1 .. n + 1 : i < j => EndOf(c, i)' < accepted'[c][j].start
    <3> SUFFICES ASSUME NEW i \in 1 .. n + 1, NEW j \in 1 .. n + 1, i < j
                 PROVE  EndOf(c, i)' < accepted'[c][j].start
      OBVIOUS
    <3>1. i \in 1 .. n /\ i \in 0 .. n
      <4> HIDE DEF n
      <4> QED
        BY <1>3
    <3>2. EndOf(c, i)' = EndOf(c, i) /\ EndOf(c, i) \in Nat
      BY <1>4, <3>1
    <3>3. CASE j = n + 1
      <4>1. accepted'[c][j].start = EndOf(c, n) + 1 /\ EndOf(c, n) \in Nat
        <5>1. n \in 0 .. n
          BY <1>3
        <5>2. EndOf(c, n) \in Nat
          BY <1>4, <5>1
        <5> QED
          BY <1>1, <1>6, <3>3, <5>2
      <4>2. CASE i = n
        BY <3>2, <4>1, <4>2
      <4>3. CASE i # n
        <5>1. i < n /\ n \in 1 .. n
          BY <1>3, <3>1, <4>3
        <5>2. /\ EndOf(c, i) < accepted[c][n].start
              /\ accepted[c][n].start <= EndOf(c, n)
              /\ accepted[c][n].start \in Nat
          BY <1>8, <1>9, <3>1, <5>1
        <5> HIDE DEF n
        <5> QED
          BY <3>2, <4>1, <5>2
      <4> QED
        BY <4>2, <4>3
    <3>4. CASE j # n + 1
      <4>1. j \in 1 .. n
        BY <1>3, <3>4
      <4> QED
        BY <1>5, <1>8, <3>1, <3>2, <4>1
    <3> QED
      BY <3>3, <3>4
  <2> QED
    <3>1. ASSUME NEW d \in Conns
          PROVE  /\ \A i \in 1 .. Len(accepted'[d]) :
                      accepted'[d][i].start = EndOf(d, i - 1)' + 1
                 /\ \A i, j \in 1 .. Len(accepted'[d]) :
                      i < j => EndOf(d, i)' < accepted'[d][j].start
      <4>1. CASE d = c
        BY <1>1, <2>2, <2>3, <4>1
      <4>2. CASE d # c
        <5>1. accepted'[d] = accepted[d] /\ d \in Conns \ {c}
          BY <1>1, <4>2
        <5> QED
          BY <2>1, <5>1
      <4> QED
        BY <4>1, <4>2
    <3> QED
      BY <3>1 DEF Chained
<1>11. Queued'
  <2>1. ASSUME NEW d \in Conns \ {c}
        PROVE  /\ Len(queue'[d]) <= Len(accepted'[d])
               /\ \A j \in 1 .. Len(queue'[d]) :
                    queue'[d][j] = accepted'[d][Gone(d)' + j]
    <3>1. accepted'[d] = accepted[d] /\ queue'[d] = queue[d] /\ Gone(d)' = Gone(d)
      BY <1>1 DEF Gone
    <3> QED
      BY <3>1 DEF SendInv, Queued
  <2>2. /\ Len(queue'[c]) <= Len(accepted'[c])
        /\ \A j \in 1 .. Len(queue'[c]) :
             queue'[c][j] = accepted'[c][Gone(c)' + j]
    <3>1. Len(queue'[c]) <= Len(accepted'[c])
      BY <1>1, <1>3
    <3>2. ASSUME NEW j \in 1 .. l + 1
          PROVE  queue'[c][j] = accepted'[c][g + j]
      <4>1. CASE j = l + 1
        <5>1. g + j = n + 1
          <6> HIDE DEF n, l, g
          <6> QED
            BY <1>3, <4>1
        <5> QED
          BY <1>1, <4>1, <5>1
      <4>2. CASE j # l + 1
        <5>1. j \in 1 .. l
          BY <1>3, <4>2
        <5>2. g + j \in 1 .. n
          <6> HIDE DEF n, l, g
          <6> QED
            BY <1>3, <5>1
        <5> QED
          BY <1>1, <1>5, <1>8, <5>1, <5>2
      <4> QED
        BY <4>1, <4>2
    <3> QED
      BY <1>1, <1>7, <3>1, <3>2
  <2> QED
    BY <2>1, <2>2 DEF Queued
<1>12. Sending'
  <2> SUFFICES ASSUME NEW d \in Conns, wopen'[d]
               PROVE  /\ Len(stream'[d]) = EndOf(d, Gone(d))' + outSent'[d]
                      /\ outBuf'[d] = <<>> => outSent'[d] = 0
                      /\ outBuf'[d] # <<>> =>
                           /\ queue'[d] # <<>>
                           /\ outBuf'[d] = Frame(Head(queue'[d]))
                           /\ outSent'[d] < FrameLen(Head(queue'[d]))
    BY DEF Sending, Frame, FrameLen
  <2>1. UNCHANGED <<outBuf, outSent, wopen, stream>>
    BY DEF WritePacket
  <2>2. /\ Len(stream[d]) = EndOf(d, Gone(d)) + outSent[d]
        /\ outBuf[d] = <<>> => outSent[d] = 0
        /\ outBuf[d] # <<>> => /\ queue[d] # <<>>
                               /\ outBuf[d] = Frame(Head(queue[d]))
                               /\ outSent[d] < FrameLen(Head(queue[d]))
    BY <2>1 DEF SendInv, Sending
  <2>3. Gone(d)' = Gone(d) /\ Gone(d) \in 0 .. Len(accepted[d])
    <3>1. CASE d = c
      <4>1. g \in 0 .. n
        <5> HIDE DEF n, l, g
        <5> QED
          BY <1>3
      <4> QED
        BY <1>7, <3>1, <4>1
    <3>2. CASE d # c
      <4>1. Gone(d)' = Gone(d)
        BY <1>1, <3>2 DEF Gone
      <4> DEFINE a == Len(accepted[d])
                 q == Len(queue[d])
      <4>2. Gone(d) = a - q /\ a \in Nat /\ q \in Nat /\ q <= a
        BY LenProperties DEF TypeOK, SendInv, Queued, Gone
      <4> HIDE DEF a, q
      <4>3. Gone(d) \in 0 .. a
        BY <4>2
      <4> QED
        BY <4>1, <4>3 DEF a
    <3> QED
      BY <3>1, <3>2
  <2>4. EndOf(d, Gone(d))' = EndOf(d, Gone(d))
    <3>1. \A k \in 0 .. Len(accepted[d]) : EndOf(d, k)' = EndOf(d, k)
      BY <1>2
    <3> QED
      BY <2>3, <3>1 DEF EndOf
  <2>5. queue[d] # <<>> => queue'[d] # <<>> /\ Head(queue'[d]) = Head(queue[d])
    <3>1. CASE d # c
      BY <1>1, <3>1
    <3>2. CASE d = c
      <4>1. queue[c] \in Seq(Packets) /\ queue'[c] \in Seq(Packets)
        BY DEF TypeOK
      <4>2. queue[c] # <<>> => l > 0
        BY <4>1, <1>3, EmptySeq
      <4>3. queue'[c] # <<>>
        BY <1>1, <1>3, <4>1, EmptySeq
      <4>4. queue[c] # <<>> => Head(queue[c]) = queue[c][1]
        BY <4>1, HeadTailProperties
      <4>5. Head(queue'[c]) = queue'[c][1]
        BY <4>1, <4>3, HeadTailProperties
      <4>6. queue[c] # <<>> => queue'[c][1] = queue[c][1]
        BY <1>1, <1>3, <4>2
      <4> QED
        BY <3>2, <4>3, <4>4, <4>5, <4>6
    <3> QED
      BY <3>1, <3>2
  <2> QED
    BY <2>1, <2>2, <2>4, <2>5
<1>13. StreamIsFrames'
  BY <1>2 DEF SendInv, StreamIsFrames, WritePacket
<1> QED
  BY <1>10, <1>11, <1>12, <1>13 DEF SendInv

(* A step that leaves the sending end alone, or closes it.                  *)
LEMMA SendInvKept ==
  ASSUME SendInv,
         UNCHANGED <<accepted, queue, outBuf, outSent, stream>>,
         \A d \in Conns : wopen'[d] => wopen[d]
  PROVE  SendInv'
<1>1. \A d \in Conns : /\ Gone(d)' = Gone(d)
                       /\ \A k : EndOf(d, k)' = EndOf(d, k)
                       /\ \A k, x : ByteAt(d, k, x)' = ByteAt(d, k, x)
  BY DEF Gone, EndOf, FrameLen, ByteAt
<1>2. Chained'
  BY <1>1 DEF SendInv, Chained
<1>3. Queued'
  BY <1>1 DEF SendInv, Queued
<1>4. Sending'
  BY <1>1 DEF SendInv, Sending, Frame, FrameLen
<1>5. StreamIsFrames'
  BY <1>1 DEF SendInv, StreamIsFrames
<1> QED
  BY <1>2, <1>3, <1>4, <1>5 DEF SendInv

(* process() that does not send all of a frame stays inside it; one that    *)
(* does moves on to the next packet of the queue.                           *)
LEMMA TransmitSendInv ==
  ASSUME TypeOK, SendInv, NEW c \in Conns, NEW w \in Writers,
         NEW n \in 0 .. Left(c), Transmit(w, c, n)
  PROVE  SendInv'
<1> DEFINE g == Gone(c)
           p == accepted[c][g + 1]
           o == outSent[c]
           l == Len(queue[c])
<1>1. /\ wopen[c] /\ queue[c] # <<>>
      /\ UNCHANGED <<accepted, wopen>>
      /\ stream' = [stream EXCEPT ![c] = @ \o Written(c, n)]
  BY DEF Transmit
<1>2. /\ g \in Nat /\ g + 1 \in 1 .. Len(accepted[c])
      /\ Head(queue[c]) = p
      /\ OutFrame(c) = Frame(p)
      /\ OutFrom(c) = o
      /\ Left(c) = FrameLen(p) - o
  BY <1>1, NextBytes
<1>3. StreamIsFrames' /\ Len(stream'[c]) = Len(stream[c]) + n
  BY <1>1, StreamGrows
<1>4. /\ queue[c] \in Seq(Packets) /\ l \in Nat \ {0} /\ o \in Nat
      /\ Len(accepted[c]) \in Nat /\ l <= Len(accepted[c])
      /\ g = Len(accepted[c]) - l
  BY <1>1, EmptySeq, LenProperties DEF TypeOK, SendInv, Queued, Gone
<1>5. Len(stream[c]) = EndOf(c, g) + o
  BY <1>1 DEF SendInv, Sending
<1>6. /\ FrameLen(p) \in Nat \ {0}
      /\ EndOf(c, g) \in Nat
      /\ EndOf(c, g + 1) = EndOf(c, g) + FrameLen(p)
      /\ Frame(p) # <<>>
  <2>1. /\ g \in 0 .. Len(accepted[c])
        /\ g + 1 \in 0 .. Len(accepted[c]) /\ g + 1 # 0
    <3> DEFINE a == Len(accepted[c])
    <3>1. g \in Nat /\ a \in Nat /\ g + 1 \in 1 .. a
      BY <1>2, <1>4
    <3> HIDE DEF g, a
    <3>2. g \in 0 .. a /\ g + 1 \in 0 .. a /\ g + 1 # 0
      BY <3>1
    <3> QED
      BY <3>2 DEF a
  <2>2. EndOf(c, g) \in Nat
    BY <2>1, EndOfType
  <2>4. /\ p \in Packets /\ FrameLen(p) \in Nat \ {0} /\ p.start \in Nat
        /\ EndOf(c, g + 1) = p.start + FrameLen(p) - 1
    BY <2>1, EndOfType
  <2>5. p.start = EndOf(c, g) + 1
    <3>1. p.start = EndOf(c, g + 1 - 1) + 1
      BY <1>2 DEF SendInv, Chained
    <3>2. g + 1 - 1 = g
      BY <1>2
    <3> QED
      BY <3>1, <3>2
  <2>6. Frame(p) # <<>>
    BY <2>4, FrameBytes, EmptySeq
  <2> DEFINE e == EndOf(c, g)
             z == EndOf(c, g + 1)
             f == FrameLen(p)
             a == p.start
  <2>7. e \in Nat /\ f \in Nat /\ a = e + 1 /\ z = a + f - 1
    BY <2>2, <2>4, <2>5
  <2>8. z = e + f
    <3> HIDE DEF e, z, f, a
    <3> QED
      BY <2>7
  <2> QED
    BY <2>2, <2>4, <2>6, <2>8
<1>7. \A d \in Conns : \A k : EndOf(d, k)' = EndOf(d, k)
  BY <1>1 DEF EndOf, FrameLen
<1>8. Chained'
  BY <1>1, <1>7 DEF SendInv, Chained
<1>9. ASSUME NEW d \in Conns \ {c}
      PROVE  /\ queue'[d] = queue[d] /\ outBuf'[d] = outBuf[d]
             /\ outSent'[d] = outSent[d] /\ stream'[d] = stream[d]
             /\ Gone(d)' = Gone(d)
  <2>1. stream'[d] = stream[d]
    BY <1>1 DEF TypeOK
  <2>2. queue'[d] = queue[d]
    BY DEF Transmit, TypeOK
  <2>3. outBuf'[d] = outBuf[d]
    BY DEF Transmit, TypeOK
  <2>4. outSent'[d] = outSent[d]
    BY DEF Transmit, TypeOK
  <2> QED
    BY <1>1, <2>1, <2>2, <2>3, <2>4 DEF Gone
<1>10. ASSUME /\ queue'[c] \in Seq(Packets)
              /\ Len(queue'[c]) <= Len(accepted[c])
              /\ \A j \in 1 .. Len(queue'[c]) :
                   queue'[c][j] = accepted[c][Gone(c)' + j]
              /\ Len(stream'[c]) = EndOf(c, Gone(c)') + outSent'[c]
              /\ outBuf'[c] = <<>> => outSent'[c] = 0
              /\ outBuf'[c] # <<>> => /\ queue'[c] # <<>>
                                      /\ outBuf'[c] = Frame(Head(queue'[c]))
                                      /\ outSent'[c] < FrameLen(Head(queue'[c]))
       PROVE  Queued' /\ Sending'
  <2>1. Queued'
    BY <1>1, <1>9, <1>10 DEF SendInv, Queued
  <2>2. \A d \in Conns : EndOf(d, Gone(d))' = EndOf(d, Gone(d)')
    BY <1>1 DEF EndOf, FrameLen
  <2>3. ASSUME NEW d \in Conns, wopen'[d]
        PROVE  /\ Len(stream'[d]) = EndOf(d, Gone(d))' + outSent'[d]
               /\ outBuf'[d] = <<>> => outSent'[d] = 0
               /\ outBuf'[d] # <<>> =>
                    /\ queue'[d] # <<>>
                    /\ outBuf'[d] = Frame(Head(queue'[d]))
                    /\ outSent'[d] < FrameLen(Head(queue'[d]))
    <3>1. CASE d = c
      BY <1>10, <2>2, <3>1
    <3>2. CASE d # c
      BY <1>1, <1>9, <2>2, <2>3, <3>2 DEF SendInv, Sending
    <3> QED
      BY <3>1, <3>2
  <2>4. Sending'
    BY <2>3 DEF Sending, Frame, FrameLen
  <2> QED
    BY <2>1, <2>4
<1>11. CASE n = Left(c)
  <2>1. /\ queue'[c] = Tail(queue[c]) /\ outBuf'[c] = <<>> /\ outSent'[c] = 0
    BY <1>11 DEF Transmit, TypeOK
  <2>2. /\ queue'[c] \in Seq(Packets) /\ Len(queue'[c]) = l - 1
        /\ \A j \in 1 .. l - 1 : queue'[c][j] = queue[c][j + 1]
    BY <1>1, <1>4, <2>1, HeadTailProperties
  <2>3. Gone(c)' = g + 1
    <3>1. Gone(c)' = Len(accepted[c]) - (l - 1)
      BY <1>1, <2>2 DEF Gone
    <3> DEFINE a == Len(accepted[c])
    <3> HIDE DEF g, l, a
    <3> QED
      BY <1>4, <3>1 DEF a
  <2>4. Len(queue'[c]) <= Len(accepted[c])
    BY <1>4, <2>2
  <2>5. ASSUME NEW j \in 1 .. l - 1
        PROVE  queue'[c][j] = accepted[c][g + 1 + j]
    <3>1. j + 1 \in 1 .. l
      BY <1>4
    <3>2. queue[c][j + 1] = accepted[c][g + (j + 1)]
      BY <3>1 DEF SendInv, Queued
    <3>3. g + (j + 1) = g + 1 + j
      BY <1>2
    <3> QED
      BY <2>2, <3>2, <3>3
  <2>6. Len(stream'[c]) = EndOf(c, g + 1) + 0
    <3> DEFINE e == EndOf(c, g)
               f == FrameLen(p)
               z == Len(stream'[c])
    <3>1. /\ n = f - o /\ z = e + o + n /\ EndOf(c, g + 1) = e + f
          /\ o \in Nat /\ f \in Nat /\ e \in Nat
      BY <1>2, <1>3, <1>4, <1>5, <1>6, <1>11
    <3> HIDE DEF g, p, o, e, f, z
    <3>2. z = EndOf(c, g + 1) + 0
      BY <3>1
    <3> QED
      BY <3>2 DEF z
  <2> QED
    BY <1>3, <1>8, <1>10, <2>1, <2>2, <2>3, <2>4, <2>5, <2>6
      DEF SendInv
<1>12. CASE n # Left(c)
  <2>1. /\ queue'[c] = queue[c] /\ outBuf'[c] = Frame(p)
        /\ outSent'[c] = o + n
    BY <1>2, <1>12 DEF Transmit, TypeOK
  <2>2. Gone(c)' = g
    BY <1>1, <2>1 DEF Gone
  <2>3. o + n < FrameLen(p)
    <3> HIDE DEF o, p
    <3> QED
      BY <1>2, <1>4, <1>6, <1>12
  <2>4. Len(stream'[c]) = EndOf(c, g) + (o + n)
    <3> DEFINE e == EndOf(c, g)
               z == Len(stream'[c])
    <3>1. z = e + o + n /\ o \in Nat /\ e \in Nat
      BY <1>3, <1>4, <1>5, <1>6
    <3> HIDE DEF g, o, e, z
    <3>2. z = e + (o + n)
      BY <3>1
    <3> QED
      BY <3>2 DEF z, e
  <2>5. \A j \in 1 .. l : queue[c][j] = accepted[c][g + j]
    BY DEF SendInv, Queued
  <2> QED
    <3>1. Queued' /\ Sending'
      BY <1>1, <1>2, <1>4, <1>6, <1>10, <2>1, <2>2, <2>3, <2>4, <2>5
    <3> QED
      BY <1>3, <1>8, <3>1 DEF SendInv
<1> QED
  BY <1>3, <1>8, <1>11, <1>12 DEF SendInv

(* A process() that fails closes the connection: its stream ends there.     *)
LEMMA TransmitFailSendInv ==
  ASSUME TypeOK, SendInv, NEW c \in Conns, NEW w \in Writers,
         NEW n \in 0 .. Left(c), TransmitFail(w, c, n)
  PROVE  SendInv'
<1>1. /\ wopen[c] /\ queue[c] # <<>>
      /\ UNCHANGED <<accepted, queue>>
      /\ stream' = [stream EXCEPT ![c] = @ \o Written(c, n)]
      /\ ~wopen'[c]
      /\ \A d \in Conns \ {c} : /\ outBuf'[d] = outBuf[d]
                                /\ outSent'[d] = outSent[d]
                                /\ wopen'[d] = wopen[d]
                                /\ stream'[d] = stream[d]
  BY DEF TransmitFail, TypeOK
<1>2. StreamIsFrames'
  BY <1>1, StreamGrows
<1>3. \A d \in Conns : /\ Gone(d)' = Gone(d)
                       /\ \A k : EndOf(d, k)' = EndOf(d, k)
  BY <1>1 DEF Gone, EndOf, FrameLen
<1>4. Chained'
  BY <1>1, <1>3 DEF SendInv, Chained
<1>5. Queued'
  BY <1>1, <1>3 DEF SendInv, Queued
<1>6. ASSUME NEW d \in Conns, wopen'[d]
      PROVE  /\ Len(stream'[d]) = EndOf(d, Gone(d))' + outSent'[d]
             /\ outBuf'[d] = <<>> => outSent'[d] = 0
             /\ outBuf'[d] # <<>> =>
                  /\ queue'[d] # <<>>
                  /\ outBuf'[d] = Frame(Head(queue'[d]))
                  /\ outSent'[d] < FrameLen(Head(queue'[d]))
  <2>1. d # c
    BY <1>1, <1>6
  <2> QED
    BY <1>1, <1>3, <1>6, <2>1 DEF SendInv, Sending
<1>7. Sending'
  BY <1>6 DEF Sending, Frame, FrameLen
<1> QED
  BY <1>2, <1>4, <1>5, <1>7 DEF SendInv

(* Every step keeps the sending end in order.                               *)
LEMMA SendInvStep == TypeOK /\ TypeOK' /\ SendInv /\ [Next]_vars => SendInv'
<1> SUFFICES ASSUME TypeOK, TypeOK', SendInv, [Next]_vars
             PROVE  SendInv'
  OBVIOUS
<1>1. CASE UNCHANGED vars
  BY <1>1, SendInvKept DEF vars
<1>2. ASSUME NEW c \in Conns, NEW w \in Writers, Send(w, c)
      PROVE  SendInv'
  <2>1. CASE \E s \in Sizes : WritePacket(w, c, s)
    BY <2>1, WritePacketSendInv
  <2>2. CASE ProcessNothing(w, c)
    BY <2>2, SendInvKept DEF ProcessNothing
  <2>3. CASE \E n \in 0 .. Left(c) : Transmit(w, c, n)
    BY <2>3, TransmitSendInv
  <2>4. CASE \E n \in 0 .. Left(c) : TransmitFail(w, c, n)
    BY <2>4, TransmitFailSendInv
  <2> QED
    BY <1>2, <2>1, <2>2, <2>3, <2>4 DEF Send
<1>3. ASSUME NEW c \in Conns, NEW t \in Readers, ReadPacket(t, c) \/ Read(t, c)
      PROVE  SendInv'
  <2>1. UNCHANGED <<accepted, queue, outBuf, outSent, wopen, stream>>
    BY <1>3 DEF ReadPacket, Read, ReadComplete, ReadMore, Recv, RecvNothing,
                RecvFail, RecvEnd, GiveUp, Push, sendVars
  <2> QED
    BY <2>1, SendInvKept
<1>4. ASSUME NEW c \in Conns, CloseWriter(c)
      PROVE  SendInv'
  <2>1. /\ UNCHANGED <<accepted, queue, outBuf, outSent, stream>>
        /\ \A d \in Conns : wopen'[d] => wopen[d]
    BY <1>4 DEF CloseWriter, sendVars, TypeOK
  <2> QED
    BY <2>1, SendInvKept
<1>5. ASSUME NEW c \in Conns, CloseReader(c)
      PROVE  SendInv'
  BY <1>5, SendInvKept DEF CloseReader, sendVars
<1> QED
  BY <1>1, <1>2, <1>3, <1>4, <1>5 DEF Next

(* The stream is the frames of the accepted packets one after the other     *)
(* (packet_proto.cpp:118-157), for every number of connections, writers and *)
(* readers, every packet size and any breaking of connections.              *)
THEOREM StreamCorrect == Spec => []StreamIsFrames
<1>1. Init => SendInv
  BY SendInvInit
<1>2. TypeOK /\ TypeOK' /\ SendInv /\ [Next]_vars => SendInv'
  BY SendInvStep
<1>3. SendInv => StreamIsFrames
  BY DEF SendInv
<1> QED
  BY <1>1, <1>2, <1>3, TypeCorrect, PTL DEF Spec

-----------------------------------------------------------------------------
(* The receiving end returns the packets whole and in order, as long as    *)
(* its receive buffer is not shared.                                       *)

(* How many packets of c were returned, and the stream position after them  *)
(* and after the header that was popped.                                    *)
Returned(c) == Len(delivered[c])
After(c, h) == EndOf(c, Returned(c)) + (IF h = NoHdr THEN 0 ELSE H)
Base(c) == After(c, inHdr[c])

Busy(t) == pc[t] \in {"recv", "push"}

(* A header that was read announces the packet whose turn it is.            *)
Announces(c, h) ==
  h # NoHdr => /\ Returned(c) < Len(accepted[c])
               /\ h = accepted[c][Returned(c) + 1].size
HeaderNext == \A c \in Conns : Announces(c, inHdr[c])

(* Bytes b are the part of the stream that starts at position k.            *)
PartAt(c, k, b) == /\ k + Len(b) <= taken[c]
                   /\ \A j \in 1 .. Len(b) : b[j] = stream[c][k + j]

(* m_in_buffer is the part of the stream that starts at Base, and nothing   *)
(* of what was read is missing while no reader is at work.                  *)
Buffered ==
  \A c \in Conns :
    /\ taken[c] <= Len(stream[c])
    /\ PartAt(c, Base(c), inBuf[c])
    /\ ropen[c] /\ ~Locked(c) => Base(c) + Len(inBuf[c]) = taken[c]

(* What a reader has in the receive buffer follows it.                      *)
Follows(t, c) ==
  /\ ropen[c] \/ got[t] > 0 => Base(c) + Len(inBuf[c]) + got[t] = taken[c]
  /\ \A j \in 1 .. got[t] : buf[j] = stream[c][taken[c] - got[t] + j]
BufferHolds == \A t \in Readers : Busy(t) => Follows(t, at[t])

(* One reader at a time is in read_raw.                                     *)
Exclusive == \A t, u \in Readers : Busy(t) /\ Busy(u) => t = u

RecvInv == HeaderNext /\ Buffered /\ BufferHolds /\ Exclusive /\ DeliveredInOrder

-----------------------------------------------------------------------------
(* What stands in the stream.                                               *)

(* The byte at an offset of a frame is the byte of that packet.             *)
LEMMA FrameByte ==
  ASSUME TypeOK, Chained, NEW c \in Conns, NEW d \in 0 .. Len(accepted[c]),
         NEW o \in Nat \ {0}, NEW x, ByteAt(c, EndOf(c, d) + o, x)
  PROVE  /\ d < Len(accepted[c])
         /\ o <= FrameLen(accepted[c][d + 1]) => x = <<accepted[c][d + 1], o>>
<1> DEFINE e == EndOf(c, d)
           l == Len(accepted[c])
           k == e + o
<1>1. PICK i \in 1 .. l :
        /\ k - accepted[c][i].start + 1 \in 1 .. FrameLen(accepted[c][i])
        /\ x = <<accepted[c][i], k - accepted[c][i].start + 1>>
  BY DEF ByteAt
<1> DEFINE s == accepted[c][i].start
           f == FrameLen(accepted[c][i])
<1>2. l \in Nat /\ e \in Nat
  BY EndOfType, LenProperties DEF TypeOK
<1>3. s \in Nat /\ f \in Nat /\ EndOf(c, i) = s + f - 1
  <2>1. i \in 0 .. l /\ i # 0
    BY <1>2
  <2> QED
    BY <2>1, EndOfType
<1>4. s <= e + o /\ e + o <= EndOf(c, i)
  <2>1. k - s + 1 \in 1 .. f /\ k \in Nat
    BY <1>1, <1>2
  <2>2. s <= k /\ k <= EndOf(c, i)
    <3> HIDE DEF s, f, k
    <3> QED
      BY <1>3, <2>1
  <2> QED
    BY <2>2
<1>5. i > d
  <2> SUFFICES ASSUME ~(i > d)
               PROVE  FALSE
    OBVIOUS
  <2>1. d \in 1 .. l /\ i <= d
    BY <1>2
  <2>2. CASE i = d
    BY <1>2, <1>4, <2>2
  <2>3. CASE i < d
    <3>1. EndOf(c, i) < accepted[c][d].start
      BY <2>1, <2>3 DEF Chained
    <3>2. /\ accepted[c][d].start \in Nat
          /\ FrameLen(accepted[c][d]) \in Nat \ {0}
          /\ e = accepted[c][d].start + FrameLen(accepted[c][d]) - 1
      BY <2>1, EndOfType
    <3> DEFINE v == EndOf(c, i)
               a == accepted[c][d].start
               h == FrameLen(accepted[c][d])
    <3>3. /\ k = e + o /\ e \in Nat /\ v \in Int /\ k <= v /\ v < a
          /\ a \in Nat /\ h \in Nat \ {0} /\ e = a + h - 1
      <4>1. v \in Int
        <5> HIDE DEF s, f
        <5> QED
          BY <1>3
      <4> QED
        BY <1>2, <1>4, <3>1, <3>2, <4>1
    <3> HIDE DEF e, k, v, a, h
    <3> QED
      BY <3>3
  <2> QED
    BY <2>1, <2>2, <2>3
<1>6. d < l /\ d + 1 \in 1 .. l
  BY <1>2, <1>5
<1>7. ASSUME o <= FrameLen(accepted[c][d + 1])
      PROVE  x = <<accepted[c][d + 1], o>>
  <2> DEFINE t == accepted[c][d + 1].start
             g == FrameLen(accepted[c][d + 1])
  <2>1. t \in Nat /\ g \in Nat /\ EndOf(c, d + 1) = t + g - 1
    <3>1. d + 1 \in 0 .. l /\ d + 1 # 0
      BY <1>6, <1>2
    <3> QED
      BY <3>1, EndOfType
  <2>2. t = e + 1
    <3>1. t = EndOf(c, d + 1 - 1) + 1
      BY <1>6 DEF Chained
    <3>2. d + 1 - 1 = d
      OBVIOUS
    <3> QED
      BY <3>1, <3>2
  <2>3. i = d + 1
    <3> SUFFICES ASSUME i # d + 1
                 PROVE  FALSE
      OBVIOUS
    <3>1. d + 1 < i
      BY <1>5
    <3>2. EndOf(c, d + 1) < s
      BY <1>6, <3>1 DEF Chained
    <3> HIDE DEF e, s, f, t, g
    <3>3. o <= g
      BY <1>7 DEF g
    <3> QED
      BY <1>2, <1>3, <1>4, <2>1, <2>2, <3>2, <3>3
  <2>4. k - t + 1 = o
    <3>1. k = e + o
      OBVIOUS
    <3> HIDE DEF e, t, k
    <3> QED
      BY <1>2, <2>2, <3>1
  <2> QED
    BY <1>1, <2>3, <2>4
<1> QED
  BY <1>6, <1>7

(* The same of the bytes in the stream.                                     *)
LEMMA StreamByte ==
  ASSUME TypeOK, SendInv, NEW c \in Conns, NEW d \in 0 .. Len(accepted[c]),
         NEW o \in Nat \ {0}, EndOf(c, d) + o <= Len(stream[c])
  PROVE  /\ d < Len(accepted[c])
         /\ o <= FrameLen(accepted[c][d + 1]) =>
              stream[c][EndOf(c, d) + o] = <<accepted[c][d + 1], o>>
<1>1. EndOf(c, d) \in Nat /\ Len(stream[c]) \in Nat
  BY EndOfType, LenProperties DEF TypeOK
<1>2. EndOf(c, d) + o \in 1 .. Len(stream[c])
  BY <1>1
<1>3. ByteAt(c, EndOf(c, d) + o, stream[c][EndOf(c, d) + o])
  BY <1>2 DEF SendInv, StreamIsFrames
<1> QED
  BY <1>3, FrameByte DEF SendInv

(* In a buffer that starts with a frame the header loop skips nothing.      *)
LEMMA NothingSkipped ==
  ASSUME NEW b \in Seq(Bytes), NEW p,
         Len(b) > H => \A j \in 1 .. H : b[j] = <<p, j>>
  PROVE  Skipped(b) = 0
<1>1. Len(b) \in Nat /\ H \in Nat \ {0}
  BY HeaderAssumption, LenProperties
<1>2. LoopEnds(b, 0)
  <2>1. CASE Len(b) <= H
    BY <1>1, <2>1 DEF LoopEnds
  <2>2. CASE Len(b) > H
    <3>1. b[0 + 1][1] = p
      BY <1>1, <2>2
    <3>2. ASSUME NEW j \in 1 .. H
          PROVE  b[0 + j] = <<b[0 + 1][1], j>>
      <4>1. 0 + j = j
        BY <1>1
      <4> QED
        BY <2>2, <3>1, <4>1
    <3>3. ValidHeader(b, 0)
      BY <3>2 DEF ValidHeader
    <3> QED
      BY <3>3 DEF LoopEnds
  <2> QED
    BY <1>1, <2>1, <2>2
<1>3. \E k \in 0 .. Len(b) : LoopEnds(b, k) /\ \A i \in 0 .. k - 1 : ~LoopEnds(b, i)
  BY <1>1, <1>2
<1>4. /\ Skipped(b) \in 0 .. Len(b)
      /\ \A i \in 0 .. Skipped(b) - 1 : ~LoopEnds(b, i)
  BY <1>3 DEF Skipped
<1> QED
  BY <1>1, <1>2, <1>4
-----------------------------------------------------------------------------
(* The parsing.                                                             *)

(* The header loop leaves a part of the stream and a header that announces  *)
(* the packet whose turn it is.                                             *)
LEMMA Parsing ==
  ASSUME TypeInv, SendInv, RecvInv, NEW c \in Conns
  PROVE  /\ Header(c) \in Sizes \cup {NoHdr}
         /\ Rest(c) \in Seq(Bytes)
         /\ Announces(c, Header(c))
         /\ After(c, Header(c)) \in Nat
         /\ After(c, Header(c)) + Len(Rest(c)) = Base(c) + Len(inBuf[c])
         /\ PartAt(c, After(c, Header(c)), Rest(c))
<1> DEFINE d == Returned(c)
           e == EndOf(c, d)
           b == inBuf[c]
           l == Len(b)
<1>1. /\ b \in Seq(Bytes) /\ l \in Nat /\ Len(stream[c]) \in Nat
      /\ Len(accepted[c]) \in Nat /\ taken[c] \in Nat /\ H \in Nat \ {0}
      /\ Header(c) \in Sizes \cup {NoHdr} /\ Rest(c) \in Seq(Bytes)
  BY LenProperties, HeaderAssumption, ParsedType DEF TypeInv, TypeOK
<1>2. d \in 0 .. Len(accepted[c])
  BY LenProperties DEF TypeInv, TypeOK, RecvInv, DeliveredInOrder, Returned
<1>3. e \in Nat
  BY <1>2, EndOfType DEF TypeInv
<1>4. taken[c] <= Len(stream[c]) /\ PartAt(c, Base(c), b)
  BY DEF RecvInv, Buffered
<1>5. CASE inHdr[c] # NoHdr
  <2>1. Header(c) = inHdr[c] /\ Rest(c) = b
    BY <1>5 DEF Header, Rest
  <2>2. After(c, Header(c)) = Base(c) /\ Base(c) \in Nat
    BY <1>1, <1>3, <2>1 DEF Base, After
  <2>3. Announces(c, Header(c))
    BY <2>1 DEF RecvInv, HeaderNext
  <2> QED
    BY <1>1, <1>4, <2>1, <2>2, <2>3
<1>6. CASE inHdr[c] = NoHdr
  <2>1. Base(c) = e
    BY <1>3, <1>6 DEF Base, After
  <2>2. e + l <= taken[c] /\ \A j \in 1 .. l : b[j] = stream[c][e + j]
    BY <1>4, <2>1 DEF PartAt
  <2>3. ASSUME l > H
        PROVE  /\ d < Len(accepted[c])
               /\ \A j \in 1 .. H : b[j] = <<accepted[c][d + 1], j>>
    <3>1. ASSUME NEW j \in 1 .. H
          PROVE  /\ d < Len(accepted[c])
                 /\ b[j] = <<accepted[c][d + 1], j>>
      <4>1. j \in Nat \ {0} /\ j \in 1 .. l
        BY <1>1, <2>3
      <4>2. e + j <= Len(stream[c])
        <5> DEFINE x == taken[c]
                   y == Len(stream[c])
        <5>1. /\ e \in Nat /\ l \in Nat /\ x \in Nat /\ y \in Nat
              /\ e + l <= x /\ x <= y /\ j \in 1 .. l
          BY <1>1, <1>3, <1>4, <2>2, <4>1
        <5> HIDE DEF e, l, x, y
        <5>2. e + j <= y
          BY <5>1
        <5> QED
          BY <5>2 DEF y
      <4>3. d < Len(accepted[c])
        BY <1>2, <4>1, <4>2, StreamByte DEF TypeInv
      <4>4. j <= FrameLen(accepted[c][d + 1])
        <5>1. d + 1 \in 1 .. Len(accepted[c])
          BY <1>2, <4>3
        <5>2. accepted[c][d + 1] \in Packets
          BY <5>1, ElementOfSeq DEF TypeInv, TypeOK
        <5>3. accepted[c][d + 1].size \in Nat
          BY <5>2, SizesAssumption DEF Packets
        <5> DEFINE z == accepted[c][d + 1].size
        <5>4. FrameLen(accepted[c][d + 1]) = H + z /\ z \in Nat /\ H \in Nat
          BY <1>1, <5>3 DEF FrameLen
        <5> HIDE DEF z
        <5> QED
          BY <5>4
      <4>5. stream[c][e + j] = <<accepted[c][d + 1], j>>
        BY <1>2, <4>1, <4>2, <4>4, StreamByte DEF TypeInv
      <4> QED
        BY <2>2, <4>1, <4>3, <4>5
    <3>2. 1 \in 1 .. H
      BY <1>1
    <3> QED
      BY <3>1, <3>2
  <2>4. Skipped(b) = 0
    BY <1>1, <2>3, NothingSkipped
  <2>5. CASE HasHeader(b)
    <3>1. l > H /\ H \in 0 .. l
      BY <1>1, <2>4, <2>5 DEF HasHeader
    <3>2. b[1] = <<accepted[c][d + 1], 1>>
      BY <1>1, <2>3, <3>1
    <3>3. Header(c) = b[0 + 1][1].size /\ Rest(c) = Drop(b, 0 + H)
      BY <1>6, <2>4, <2>5 DEF Header, Rest
    <3>4. Header(c) = accepted[c][d + 1].size
      BY <3>2, <3>3
    <3>5. Header(c) # NoHdr
      <4>1. d + 1 \in 1 .. Len(accepted[c])
        BY <1>1, <1>2, <2>3, <3>1
      <4>2. accepted[c][d + 1] \in Packets
        BY <4>1, ElementOfSeq DEF TypeInv, TypeOK
      <4>3. accepted[c][d + 1].size \in Nat
        BY <4>2, SizesAssumption DEF Packets
      <4> QED
        BY <3>4, <4>3 DEF NoHdr
    <3>6. /\ Len(Rest(c)) = l - H
          /\ \A j \in 1 .. l - H : Rest(c)[j] = b[H + j]
      <4>1. 0 + H = H
        BY <1>1
      <4>2. Rest(c) = Drop(b, H)
        BY <3>3, <4>1
      <4>3. /\ Len(Drop(b, H)) = l - H
            /\ \A j \in 1 .. l - H : Drop(b, H)[j] = b[H + j]
        <5> HIDE DEF b
        <5> QED
          BY <1>1, <3>1, DropSeq
      <4> QED
        BY <4>2, <4>3
    <3>7. After(c, Header(c)) = e + H
      BY <3>5 DEF After
    <3>8. ASSUME NEW j \in 1 .. l - H
          PROVE  Rest(c)[j] = stream[c][e + H + j]
      <4>1. H + j \in 1 .. l
        BY <1>1, <3>1
      <4>2. e + (H + j) = e + H + j
        BY <1>1, <1>3
      <4> QED
        BY <2>2, <3>6, <4>1, <4>2
    <3>9. /\ e + H \in Nat /\ e + H + (l - H) = e + l
      <4> HIDE DEF e, l
      <4> QED
        BY <1>1, <1>3
    <3>10. PartAt(c, e + H, Rest(c))
      BY <2>2, <3>6, <3>8, <3>9 DEF PartAt
    <3>11. Announces(c, Header(c))
      BY <2>3, <3>1, <3>4 DEF Announces
    <3> QED
      BY <1>1, <2>1, <3>6, <3>7, <3>9, <3>10, <3>11
  <2>6. CASE ~HasHeader(b)
    <3>1. Header(c) = NoHdr /\ Rest(c) = Drop(b, 0)
      BY <1>6, <2>4, <2>6 DEF Header, Rest
    <3>2. Drop(b, 0) = b
      BY <1>1, SubSeqFull DEF Drop
    <3>3. After(c, Header(c)) = e
      BY <1>3, <3>1 DEF After
    <3> QED
      BY <1>1, <1>3, <1>4, <2>1, <3>1, <3>2, <3>3 DEF Announces
  <2> QED
    BY <2>5, <2>6
<1> QED
  BY <1>5, <1>6

-----------------------------------------------------------------------------
(* The steps.                                                               *)

(* Busy readers hold the lock of the connection they work on; when the      *)
(* receive buffer is not shared, there is at most one.                      *)
LEMMA LockExcludes ==
  ASSUME OneBuffer, TypeInv, NEW c \in Conns, NEW t \in Readers,
         pc[t] = "lock", at[t] = c, ~Locked(c)
  PROVE  \A u \in Readers : ~Busy(u)
<1> SUFFICES ASSUME NEW u \in Readers, Busy(u)
             PROVE  FALSE
  OBVIOUS
<1>1. u # t
  BY DEF Busy
<1>2. at[u] \in Conns
  BY DEF TypeInv, Readings, Busy
<1>3. at[u] = c
  BY <1>1, <1>2 DEF OneBuffer
<1> QED
  BY <1>3 DEF Locked, Busy

(* Nothing was delivered, nothing is buffered, nobody reads.                *)
LEMMA RecvInvInit == Init => RecvInv
<1> SUFFICES ASSUME Init
             PROVE  RecvInv
  OBVIOUS
<1>1. \A c \in Conns : /\ Returned(c) = 0 /\ inHdr[c] = NoHdr /\ taken[c] = 0
                       /\ Len(inBuf[c]) = 0 /\ Len(stream[c]) = 0
                       /\ Len(delivered[c]) = 0 /\ Len(accepted[c]) = 0
  BY DEF Init, Returned
<1>2. ASSUME NEW c \in Conns
      PROVE  Base(c) = 0
  <2>1. Returned(c) = 0 /\ inHdr[c] = NoHdr
    BY <1>1
  <2>2. EndOf(c, Returned(c)) = 0
    BY <2>1 DEF EndOf
  <2> QED
    BY <2>1, <2>2 DEF Base, After
<1>3. \A t \in Readers : ~Busy(t)
  BY DEF Init, Busy
<1>4. HeaderNext /\ DeliveredInOrder
  BY <1>1 DEF HeaderNext, Announces, DeliveredInOrder
<1>5. Buffered
  <2>1. ASSUME NEW c \in Conns
        PROVE  /\ taken[c] <= Len(stream[c])
               /\ PartAt(c, Base(c), inBuf[c])
               /\ Base(c) + Len(inBuf[c]) = taken[c]
    BY <1>1, <1>2 DEF PartAt
  <2> QED
    BY <2>1 DEF Buffered
<1> QED
  BY <1>3, <1>4, <1>5 DEF RecvInv, BufferHolds, Exclusive

(* What the sending end does leaves the receiving end in order, and so does *)
(* a reader that goes no further than to the lock or to its push.           *)
LEMMA RecvInvKept ==
  ASSUME TypeOK, TypeOK', RecvInv, Grows,
         UNCHANGED <<taken, inBuf, inHdr, buf, got, delivered>>,
         \A d \in Conns :
           /\ ropen'[d] => ropen[d]
           /\ Len(stream[d]) <= Len(stream'[d])
           /\ \A k \in 1 .. Len(stream[d]) : stream'[d][k] = stream[d][k],
         \A u \in Readers : /\ Busy(u)' = Busy(u)
                            /\ Busy(u) => at[u] \in Conns /\ at'[u] = at[u]
  PROVE  RecvInv'
<1>1. ASSUME NEW d \in Conns
      PROVE  /\ Len(stream[d]) \in Nat /\ Len(stream'[d]) \in Nat
             /\ Len(accepted[d]) \in Nat /\ Len(accepted'[d]) \in Nat
             /\ Returned(d) \in 0 .. Len(accepted[d])
             /\ Len(inBuf[d]) \in Nat /\ taken[d] \in Nat
  <2>1. /\ stream[d] \in Seq(Bytes) /\ stream'[d] \in Seq(Bytes)
        /\ accepted[d] \in Seq(Packets) /\ accepted'[d] \in Seq(Packets)
        /\ inBuf[d] \in Seq(Bytes) /\ taken[d] \in Nat
        /\ delivered[d] \in Seq(Seq(Bytes))
    BY DEF TypeOK
  <2>2. Len(delivered[d]) \in Nat /\ Len(accepted[d]) \in Nat
    BY <2>1, LenProperties
  <2>3. Returned(d) \in 0 .. Len(accepted[d])
    BY <2>2 DEF RecvInv, DeliveredInOrder, Returned
  <2> QED
    BY <2>1, <2>3, LenProperties
<1>2. ASSUME NEW d \in Conns
      PROVE  /\ Base(d)' = Base(d) /\ Base(d) \in Nat
             /\ Returned(d)' = Returned(d)
  <2>1. \A n \in 0 .. Len(accepted[d]) : EndOf(d, n)' = EndOf(d, n)
    BY FramesStay
  <2>2. Returned(d)' = Returned(d) /\ Returned(d) \in 0 .. Len(accepted[d])
    BY <1>1 DEF Returned
  <2>3. EndOf(d, Returned(d))' = EndOf(d, Returned(d))
    BY <2>1, <2>2 DEF EndOf
  <2>4. EndOf(d, Returned(d)) \in Nat /\ H \in Nat
    BY <2>2, EndOfType, HeaderAssumption
  <2> QED
    BY <2>2, <2>3, <2>4 DEF Base, After
<1>3. \A d \in Conns : Locked(d)' = Locked(d)
  BY DEF Locked, Busy
<1>4. HeaderNext'
  <2>1. ASSUME NEW d \in Conns, inHdr[d] # NoHdr
        PROVE  /\ Returned(d) < Len(accepted'[d])
               /\ inHdr[d] = accepted'[d][Returned(d) + 1].size
    <3>1. /\ Returned(d) < Len(accepted[d])
          /\ inHdr[d] = accepted[d][Returned(d) + 1].size
      BY <2>1 DEF RecvInv, HeaderNext, Announces
    <3>2. Len(accepted[d]) <= Len(accepted'[d])
      BY DEF Grows
    <3>3. Returned(d) + 1 \in 1 .. Len(accepted[d])
      BY <1>1, <3>1
    <3>4. accepted'[d][Returned(d) + 1] = accepted[d][Returned(d) + 1]
      BY <3>3 DEF Grows
    <3>5. Returned(d) < Len(accepted'[d])
      BY <1>1, <3>1, <3>2
    <3> QED
      BY <3>1, <3>4, <3>5
  <2> QED
    BY <1>2, <2>1 DEF HeaderNext, Announces, NoHdr
<1>5. Buffered'
  <2>1. ASSUME NEW d \in Conns
        PROVE  /\ taken[d] <= Len(stream'[d])
               /\ Base(d) + Len(inBuf[d]) <= taken[d]
               /\ \A j \in 1 .. Len(inBuf[d]) :
                    inBuf[d][j] = stream'[d][Base(d) + j]
               /\ ropen'[d] /\ ~Locked(d) => Base(d) + Len(inBuf[d]) = taken[d]
    <3>1. /\ taken[d] <= Len(stream[d]) /\ Base(d) + Len(inBuf[d]) <= taken[d]
          /\ \A j \in 1 .. Len(inBuf[d]) : inBuf[d][j] = stream[d][Base(d) + j]
          /\ ropen'[d] /\ ~Locked(d) => Base(d) + Len(inBuf[d]) = taken[d]
      BY DEF RecvInv, Buffered, PartAt
    <3>2. taken[d] <= Len(stream'[d])
      BY <1>1, <3>1
    <3>3. ASSUME NEW j \in 1 .. Len(inBuf[d])
          PROVE  stream'[d][Base(d) + j] = stream[d][Base(d) + j]
      <4>1. Base(d) + j \in 1 .. Len(stream[d])
        BY <1>1, <1>2, <3>1
      <4> QED
        BY <4>1
    <3> QED
      BY <3>1, <3>2, <3>3
  <2> QED
    BY <1>2, <1>3, <2>1 DEF Buffered, PartAt
<1>6. BufferHolds'
  <2>1. ASSUME NEW u \in Readers, Busy(u)
        PROVE  /\ ropen'[at[u]] \/ got[u] > 0
                    => Base(at[u]) + Len(inBuf[at[u]]) + got[u] = taken[at[u]]
               /\ \A j \in 1 .. got[u] :
                    buf[j] = stream'[at[u]][taken[at[u]] - got[u] + j]
    <3>1. at[u] \in Conns /\ Follows(u, at[u]) /\ got[u] \in Nat
      BY <2>1, NetMaxAssumption DEF RecvInv, BufferHolds, TypeOK
    <3>2. ASSUME NEW j \in 1 .. got[u]
          PROVE  stream'[at[u]][taken[at[u]] - got[u] + j]
                   = stream[at[u]][taken[at[u]] - got[u] + j]
      <4> DEFINE k == taken[at[u]]
                 l == Len(stream[at[u]])
                 q == Base(at[u])
                 i == Len(inBuf[at[u]])
      <4>1. q + i + got[u] = k
        BY <3>1 DEF Follows
      <4>2. k <= l
        BY <3>1 DEF RecvInv, Buffered
      <4>3. k \in Nat /\ l \in Nat /\ q \in Nat /\ i \in Nat
        BY <1>1, <1>2, <3>1
      <4>4. k - got[u] + j \in 1 .. l
        <5> HIDE DEF k, l, q, i
        <5> QED
          BY <3>1, <4>1, <4>2, <4>3
      <4> QED
        BY <3>1, <4>4
    <3> QED
      BY <3>1, <3>2 DEF Follows
  <2>2. \A u \in Readers : Busy(u) => Base(at[u])' = Base(at[u])
    BY <1>2 DEF Base, After, EndOf, Returned, FrameLen
  <2> QED
    BY <2>1, <2>2 DEF BufferHolds, Follows
<1>7. Exclusive'
  BY DEF RecvInv, Exclusive
<1>8. DeliveredInOrder'
  <2>1. ASSUME NEW d \in Conns
        PROVE  /\ Len(delivered[d]) <= Len(accepted'[d])
               /\ \A i \in 1 .. Len(delivered[d]) :
                    delivered[d][i] = Payload(accepted'[d][i])
    <3>1. /\ Len(delivered[d]) \in 0 .. Len(accepted[d])
          /\ \A i \in 1 .. Len(delivered[d]) :
               delivered[d][i] = Payload(accepted[d][i])
      BY <1>1 DEF RecvInv, DeliveredInOrder, Returned
    <3>2. /\ Len(accepted[d]) <= Len(accepted'[d])
          /\ \A i \in 1 .. Len(accepted[d]) : accepted'[d][i] = accepted[d][i]
      BY DEF Grows
    <3>3. \A i \in 1 .. Len(delivered[d]) : i \in 1 .. Len(accepted[d])
      BY <1>1, <3>1
    <3> QED
      BY <1>1, <3>1, <3>2, <3>3
  <2> QED
    BY <2>1 DEF DeliveredInOrder, Payload
<1> QED
  BY <1>4, <1>5, <1>6, <1>7, <1>8 DEF RecvInv

(* A step of the one reader that is at work, on connection c, keeps the     *)
(* receiving end in order if it does so for c.                              *)
LEMMA ReaderStep ==
  ASSUME TypeOK, RecvInv, NEW c \in Conns, NEW t \in Readers,
         UNCHANGED <<accepted, stream>>,
         \A d \in Conns \ {c} :
           /\ taken'[d] = taken[d] /\ inBuf'[d] = inBuf[d]
           /\ inHdr'[d] = inHdr[d] /\ delivered'[d] = delivered[d]
           /\ ropen'[d] = ropen[d] /\ ~Locked(d),
         \A u \in Readers \ {t} : ~Busy(u)',
         Busy(t)' => at'[t] = c /\ Follows(t, c)',
         Announces(c, inHdr[c])',
         taken'[c] <= Len(stream[c]),
         PartAt(c, Base(c), inBuf[c])',
         ropen'[c] /\ ~Locked(c)' => Base(c)' + Len(inBuf'[c]) = taken'[c],
         Len(delivered'[c]) <= Len(accepted[c]),
         \A i \in 1 .. Len(delivered'[c]) :
           delivered'[c][i] = Payload(accepted[c][i])
  PROVE  RecvInv'
<1>1. \A d \in Conns \ {c} : Base(d)' = Base(d) /\ Returned(d)' = Returned(d)
  BY DEF Base, After, EndOf, Returned, FrameLen
<1>2. HeaderNext'
  <2>1. \A d \in Conns \ {c} : Announces(d, inHdr[d])'
    BY <1>1 DEF RecvInv, HeaderNext, Announces
  <2> QED
    BY <2>1 DEF HeaderNext
<1>3. Buffered'
  <2>1. ASSUME NEW d \in Conns \ {c}
        PROVE  /\ taken'[d] <= Len(stream'[d])
               /\ PartAt(d, Base(d), inBuf[d])'
               /\ ropen'[d] => Base(d)' + Len(inBuf'[d]) = taken'[d]
    BY <1>1 DEF RecvInv, Buffered, PartAt
  <2>2. ASSUME NEW d \in Conns
        PROVE  /\ taken'[d] <= Len(stream'[d])
               /\ PartAt(d, Base(d), inBuf[d])'
               /\ ropen'[d] /\ ~Locked(d)'
                    => Base(d)' + Len(inBuf'[d]) = taken'[d]
    BY <2>1
  <2> QED
    BY <2>2 DEF Buffered
<1>4. BufferHolds'
  <2>1. \A u \in Readers : Busy(u)' => u = t
    OBVIOUS
  <2>2. Busy(t)' => Follows(t, at[t])'
    BY DEF Follows, Base, After, EndOf, Returned, FrameLen
  <2> QED
    BY <2>1, <2>2 DEF BufferHolds
<1>5. Exclusive'
  BY DEF Exclusive
<1>6. DeliveredInOrder'
  <2>1. ASSUME NEW d \in Conns
        PROVE  /\ Len(delivered'[d]) <= Len(accepted'[d])
               /\ \A i \in 1 .. Len(delivered'[d]) :
                    delivered'[d][i] = Payload(accepted'[d][i])
    BY DEF RecvInv, DeliveredInOrder
  <2> QED
    BY <2>1 DEF DeliveredInOrder, Payload
<1> QED
  BY <1>2, <1>3, <1>4, <1>5, <1>6 DEF RecvInv

(* The quantities of one connection.                                        *)
LEMMA Numbers ==
  ASSUME TypeOK, RecvInv, NEW c \in Conns
  PROVE  /\ Returned(c) \in 0 .. Len(accepted[c])
         /\ EndOf(c, Returned(c)) \in Nat /\ H \in Nat \ {0} /\ Base(c) \in Nat
         /\ inBuf[c] \in Seq(Bytes) /\ Len(inBuf[c]) \in Nat
         /\ Len(stream[c]) \in Nat /\ taken[c] \in Nat
         /\ Len(accepted[c]) \in Nat
<1>1. /\ stream[c] \in Seq(Bytes) /\ accepted[c] \in Seq(Packets)
      /\ inBuf[c] \in Seq(Bytes) /\ taken[c] \in Nat
      /\ delivered[c] \in Seq(Seq(Bytes))
  BY DEF TypeOK
<1>2. /\ Len(delivered[c]) \in Nat /\ Len(accepted[c]) \in Nat
      /\ Len(inBuf[c]) \in Nat /\ Len(stream[c]) \in Nat
  BY <1>1, LenProperties
<1>3. Returned(c) \in 0 .. Len(accepted[c])
  BY <1>2 DEF RecvInv, DeliveredInOrder, Returned
<1>4. EndOf(c, Returned(c)) \in Nat
  BY <1>3, EndOfType
<1> QED
  BY <1>1, <1>2, <1>3, <1>4, HeaderAssumption DEF Base, After

(* A reader at work is alone at it.                                         *)
LEMMA Alone ==
  ASSUME TypeInv, RecvInv, NEW t \in Readers, Busy(t)
  PROVE  /\ \A u \in Readers \ {t} : ~Busy(u)
         /\ \A d \in Conns : d # at[t] => ~Locked(d)
         /\ Locked(at[t])
BY DEF RecvInv, Exclusive, Locked, Busy

(* The call that finds too few bytes keeps what the parsing left.           *)
LEMMA ReadMoreInv ==
  ASSUME OneBuffer, TypeInv, SendInv, RecvInv, NEW c \in Conns,
         NEW t \in Readers, ReadMore(t, c)
  PROVE  RecvInv'
<1>1. /\ UNCHANGED <<accepted, stream, taken, delivered, ropen, buf, got>>
      /\ inBuf'[c] = Rest(c) /\ inHdr'[c] = Header(c)
      /\ at[t] = c /\ at'[t] = c /\ pc'[t] = "recv" /\ pc[t] = "lock"
      /\ \A d \in Conns \ {c} : inBuf'[d] = inBuf[d] /\ inHdr'[d] = inHdr[d]
      /\ \A u \in Readers \ {t} : pc'[u] = pc[u]
      /\ ~Locked(c)
  BY DEF ReadMore, sendVars, TypeInv, TypeOK
<1>2. \A u \in Readers : ~Busy(u)
  BY <1>1, LockExcludes
<1>3. \A d \in Conns : ~Locked(d)
  BY <1>2 DEF Locked, Busy
<1>4. \A u \in Readers \ {t} : ~Busy(u)'
  BY <1>1, <1>2 DEF Busy
<1>5. /\ Announces(c, Header(c))
      /\ After(c, Header(c)) \in Nat
      /\ After(c, Header(c)) + Len(Rest(c)) = Base(c) + Len(inBuf[c])
      /\ PartAt(c, After(c, Header(c)), Rest(c))
      /\ Len(Rest(c)) \in Nat
  BY Parsing, LenProperties
<1>6. Base(c)' = After(c, Header(c))
  BY <1>1 DEF Base, After, EndOf, Returned, FrameLen
<1>7. Announces(c, inHdr[c])'
  BY <1>1, <1>5 DEF Announces, Returned
<1>8. PartAt(c, Base(c), inBuf[c])'
  BY <1>1, <1>5, <1>6 DEF PartAt
<1>9. Follows(t, c)'
  <2>1. got[t] = 0
    BY <1>1 DEF TypeInv, Readings
  <2>2. ropen[c] => Base(c) + Len(inBuf[c]) = taken[c]
    BY <1>3 DEF RecvInv, Buffered
  <2>3. taken[c] \in Nat
    BY DEF TypeInv, TypeOK
  <2> QED
    BY <1>1, <1>5, <1>6, <2>1, <2>2, <2>3 DEF Follows
<1>10. Locked(c)'
  BY <1>1 DEF Locked
<1>11. /\ taken[c] <= Len(stream[c])
       /\ Len(delivered[c]) <= Len(accepted[c])
       /\ \A i \in 1 .. Len(delivered[c]) :
            delivered[c][i] = Payload(accepted[c][i])
  BY DEF RecvInv, Buffered, DeliveredInOrder
<1> QED
  BY <1>1, <1>3, <1>4, <1>7, <1>8, <1>9, <1>10, <1>11, ReaderStep DEF TypeInv

(* The call that finds a whole packet returns the payload of the packet     *)
(* whose turn it is.                                                        *)
LEMMA ReadCompleteInv ==
  ASSUME OneBuffer, TypeInv, SendInv, RecvInv, NEW c \in Conns,
         NEW t \in Readers, ReadComplete(t, c)
  PROVE  RecvInv'
<1> DEFINE d == Returned(c)
           e == EndOf(c, d)
           p == accepted[c][d + 1]
           r == Rest(c)
           s == SubSeq(r, 1, Header(c))
           l == Len(r)
<1>1. /\ UNCHANGED <<accepted, stream, taken, ropen, buf, got>>
      /\ delivered'[c] = Append(delivered[c], s)
      /\ inBuf'[c] = Drop(r, Header(c)) /\ inHdr'[c] = NoHdr
      /\ at[t] = c /\ pc'[t] = "idle" /\ pc[t] = "lock"
      /\ \A k \in Conns \ {c} : /\ inBuf'[k] = inBuf[k] /\ inHdr'[k] = inHdr[k]
                                /\ delivered'[k] = delivered[k]
      /\ \A u \in Readers \ {t} : pc'[u] = pc[u]
      /\ ~Locked(c) /\ Complete(c)
  BY DEF ReadComplete, sendVars, TypeInv, TypeOK
<1>2. \A u \in Readers : ~Busy(u)
  BY <1>1, LockExcludes
<1>3. \A k \in Conns : ~Locked(k)
  BY <1>2 DEF Locked, Busy
<1>4. \A u \in Readers : ~Busy(u)'
  BY <1>1, <1>2 DEF Busy
<1>5. /\ r \in Seq(Bytes) /\ l \in Nat
      /\ Header(c) = p.size /\ d < Len(accepted[c]) /\ p.size <= l
      /\ After(c, Header(c)) = e + H
      /\ e + H + l = Base(c) + Len(inBuf[c])
      /\ e + H + l <= taken[c]
      /\ \A j \in 1 .. l : r[j] = stream[c][e + H + j]
  <2>1. Header(c) # NoHdr /\ l >= Header(c)
    BY <1>1 DEF Complete
  <2> QED
    BY <2>1, Parsing, LenProperties DEF Announces, After, PartAt
<1>6. /\ d \in Nat /\ d \in 0 .. Len(accepted[c]) /\ e \in Nat /\ H \in Nat \ {0}
      /\ Len(stream[c]) \in Nat /\ taken[c] \in Nat /\ Len(accepted[c]) \in Nat
  BY Numbers DEF TypeInv
<1>7. p \in Packets /\ p.size \in Nat /\ FrameLen(p) = H + p.size
  <2>1. d + 1 \in 1 .. Len(accepted[c])
    BY <1>5, <1>6
  <2>2. p \in Packets
    BY <2>1, ElementOfSeq DEF TypeInv, TypeOK
  <2> QED
    BY <2>2, SizesAssumption DEF Packets, FrameLen
<1>8. taken[c] <= Len(stream[c])
  BY DEF RecvInv, Buffered
<1>9. ASSUME NEW j \in 1 .. p.size
      PROVE  r[j] = <<p, H + j>>
  <2>1. j \in 1 .. l /\ H + j \in Nat \ {0} /\ H + j <= FrameLen(p)
    <3> DEFINE n == p.size
    <3>1. n <= l /\ n \in Nat /\ l \in Nat /\ j \in 1 .. n /\ H \in Nat \ {0}
      BY <1>5, <1>6, <1>7
    <3>2. FrameLen(p) = H + n
      BY <1>7
    <3> HIDE DEF n, l, p
    <3> QED
      BY <3>1, <3>2
  <2>2. e + (H + j) = e + H + j /\ e + (H + j) <= Len(stream[c])
    <3> DEFINE x == taken[c]
               y == Len(stream[c])
    <3>1. /\ e \in Nat /\ l \in Nat /\ x \in Nat /\ y \in Nat /\ H \in Nat
          /\ e + H + l <= x /\ x <= y /\ j \in 1 .. l
      BY <1>5, <1>6, <1>8, <2>1
    <3> HIDE DEF e, l, x, y
    <3>2. e + (H + j) = e + H + j /\ e + (H + j) <= y
      BY <3>1
    <3> QED
      BY <3>2 DEF y
  <2>3. stream[c][e + (H + j)] = <<p, H + j>>
    BY <1>6, <2>1, <2>2, StreamByte DEF TypeInv
  <2> QED
    BY <1>5, <2>1, <2>2, <2>3
<1>10. s = Payload(p)
  <2>1. /\ s \in Seq(Bytes) /\ Len(s) = p.size
        /\ \A j \in 1 .. p.size : s[j] = r[j]
    <3>1. /\ SubSeq(r, 0 + 1, p.size) \in Seq(Bytes)
          /\ Len(SubSeq(r, 0 + 1, p.size)) = IF 0 < p.size THEN p.size - 0 ELSE 0
          /\ \A i \in 1 .. p.size - 0 : SubSeq(r, 0 + 1, p.size)[i] = r[0 + i]
      BY <1>5, <1>7, PartOfSeq
    <3>2. 0 + 1 = 1 /\ p.size - 0 = p.size /\ \A i \in 1 .. p.size : 0 + i = i
      BY <1>7
    <3> QED
      BY <1>5, <1>7, <3>1, <3>2
  <2>2. s = [j \in 1 .. p.size |-> s[j]]
    BY <2>1
  <2> QED
    BY <1>9, <2>1, <2>2 DEF Payload
<1>11. /\ Len(delivered'[c]) = d + 1
       /\ \A i \in 1 .. d : delivered'[c][i] = delivered[c][i]
       /\ delivered'[c][d + 1] = s
  <2>1. delivered[c] \in Seq(Seq(Bytes)) /\ s \in Seq(Bytes)
    <3>1. Payload(p) \in Seq(Bytes)
      <4>1. \A j \in 1 .. p.size : <<p, H + j>> \in Bytes
        BY <1>6, <1>7 DEF Bytes
      <4> QED
        BY <1>7, <4>1 DEF Payload
    <3> QED
      BY <1>10, <3>1 DEF TypeInv, TypeOK
  <2> QED
    BY <1>1, <2>1, AppendProperties DEF Returned
<1>12. /\ Len(delivered'[c]) <= Len(accepted[c])
       /\ \A i \in 1 .. Len(delivered'[c]) :
            delivered'[c][i] = Payload(accepted[c][i])
  <2>1. d + 1 <= Len(accepted[c])
    BY <1>5, <1>6
  <2>2. ASSUME NEW i \in 1 .. d + 1
        PROVE  delivered'[c][i] = Payload(accepted[c][i])
    <3>1. CASE i = d + 1
      BY <1>10, <1>11, <3>1
    <3>2. CASE i # d + 1
      <4>1. i \in 1 .. d
        BY <1>6, <3>2
      <4> QED
        BY <1>11, <4>1 DEF RecvInv, DeliveredInOrder, Returned
    <3> QED
      BY <3>1, <3>2
  <2> QED
    BY <1>11, <2>1, <2>2
<1>13. Base(c)' = e + H + p.size
  <2>1. Base(c)' = EndOf(c, d + 1) + 0
    BY <1>1, <1>11 DEF Base, After, EndOf, Returned, FrameLen
  <2>2. d + 1 \in 0 .. Len(accepted[c]) /\ d + 1 # 0 /\ d + 1 \in 1 .. Len(accepted[c])
    BY <1>5, <1>6
  <2>3. EndOf(c, d + 1) = p.start + FrameLen(p) - 1 /\ p.start \in Nat
    BY <2>2, EndOfType DEF TypeInv
  <2>4. p.start = e + 1
    <3>1. p.start = EndOf(c, (d + 1) - 1) + 1
      <4>1. \A i \in 1 .. Len(accepted[c]) :
              accepted[c][i].start = EndOf(c, i - 1) + 1
        BY DEF SendInv, Chained
      <4> QED
        BY <2>2, <4>1
    <3>2. (d + 1) - 1 = d
      BY <1>6
    <3> QED
      BY <3>1, <3>2
  <2> HIDE DEF e, p, d
  <2>5. p.start + FrameLen(p) - 1 = e + H + p.size
    BY <1>6, <1>7, <2>4
  <2> QED
    BY <1>6, <1>7, <2>1, <2>3, <2>5
<1>14. /\ Len(inBuf'[c]) = l - p.size
       /\ \A j \in 1 .. l - p.size : inBuf'[c][j] = r[p.size + j]
  <2>1. p.size \in 0 .. l /\ inBuf'[c] = Drop(r, p.size)
    BY <1>1, <1>5, <1>7
  <2>2. /\ Len(Drop(r, p.size)) = l - p.size
        /\ \A j \in 1 .. l - p.size : Drop(r, p.size)[j] = r[p.size + j]
    <3>1. p.size \in 0 .. Len(r) /\ r \in Seq(Bytes)
      BY <1>5, <2>1
    <3> HIDE DEF p, r
    <3> QED
      BY <3>1, DropSeq
  <2> QED
    BY <2>1, <2>2
<1>15. PartAt(c, Base(c), inBuf[c])' /\ Base(c)' + Len(inBuf'[c]) = e + H + l
  <2>1. e + H + p.size + (l - p.size) = e + H + l
    <3> HIDE DEF e, l, p
    <3> QED
      BY <1>5, <1>6, <1>7
  <2>2. ASSUME NEW j \in 1 .. l - p.size
        PROVE  inBuf'[c][j] = stream[c][e + H + p.size + j]
    <3>1. p.size + j \in 1 .. l
      BY <1>5, <1>7
    <3>2. e + H + (p.size + j) = e + H + p.size + j
      <4> HIDE DEF e, p
      <4> QED
        BY <1>6, <1>7
    <3> QED
      BY <1>5, <1>14, <3>1, <3>2
  <2>3. \A j \in 1 .. Len(inBuf'[c]) : inBuf'[c][j] = stream[c][Base(c)' + j]
    BY <1>13, <1>14, <2>2
  <2>4. Base(c)' + Len(inBuf'[c]) = e + H + l
    BY <1>13, <1>14, <2>1
  <2> QED
    BY <1>1, <1>5, <2>3, <2>4 DEF PartAt
<1>16. ropen[c] => e + H + l = taken[c]
  BY <1>3, <1>5 DEF RecvInv, Buffered
<1>17. Announces(c, inHdr[c])'
  BY <1>1 DEF Announces
<1> HIDE DEF d, e, p, r, s, l
<1> QED
  BY <1>1, <1>3, <1>4, <1>8, <1>12, <1>15, <1>16, <1>17, ReaderStep DEF TypeInv

(* recv() copies the bytes that follow those already in the buffer.         *)
LEMMA RecvKeeps ==
  ASSUME TypeInv, RecvInv, NEW c \in Conns, NEW t \in Readers,
         NEW n \in 1 .. NetMax, Recv(t, c, n)
  PROVE  RecvInv'
<1> DEFINE k == taken[c]
           g == got[t]
           x == stream[c]
           a == Base(c) + Len(inBuf[c])
<1>1. /\ UNCHANGED <<accepted, stream, ropen, inBuf, inHdr, at, delivered>>
      /\ taken'[c] = k + n /\ got'[t] = g + n
      /\ k + n <= Len(x)
      /\ at[t] = c /\ pc[t] = "recv" /\ pc'[t] \in {"recv", "push"} /\ ropen[c]
      /\ \A d \in Conns \ {c} : taken'[d] = taken[d]
      /\ \A u \in Readers \ {t} : pc'[u] = pc[u]
      /\ n \in 1 .. NetMax - g
  BY DEF Recv, sendVars, TypeInv, TypeOK
<1>2. Busy(t)
  BY <1>1 DEF Busy
<1>3. /\ \A u \in Readers \ {t} : ~Busy(u)'
      /\ \A d \in Conns \ {c} : ~Locked(d)
      /\ Locked(c)'
  BY <1>1, <1>2, Alone DEF Busy, Locked
<1>4. /\ k \in Nat /\ n \in Nat /\ g \in Nat /\ a \in Nat /\ Base(c) \in Nat
      /\ Len(inBuf[c]) \in Nat /\ g + n <= NetMax /\ NetMax \in Nat
  <2>1. k \in Nat /\ Base(c) \in Nat /\ Len(inBuf[c]) \in Nat
    BY Numbers DEF TypeInv
  <2>2. g \in Nat
    BY NetMaxAssumption DEF TypeInv, TypeOK
  <2>3. NetMax \in Nat /\ n \in Nat /\ g + n <= NetMax
    BY <1>1, <2>2, NetMaxAssumption
  <2> QED
    BY <2>1, <2>2, <2>3
<1>5. a + g = k /\ \A j \in 1 .. g : buf[j] = x[k - g + j]
  BY <1>1, <1>2 DEF RecvInv, BufferHolds, Follows
<1>6. Base(c)' = Base(c)
  BY <1>1 DEF Base, After, EndOf, Returned, FrameLen
<1>7. ASSUME NEW j \in 1 .. g + n
      PROVE  buf'[j] = x[(k + n) - (g + n) + j]
  <2>0. j \in 1 .. NetMax
    <3> HIDE DEF g
    <3> QED
      BY <1>4
  <2>1. buf'[j] = IF j \in g + 1 .. g + n THEN x[k + j - g] ELSE buf[j]
    BY <2>0 DEF Recv
  <2>2. /\ (k + n) - (g + n) + j = k + j - g
        /\ k - g + j = k + j - g
    <3> HIDE DEF k, g
    <3> QED
      BY <1>4
  <2>3. CASE j \in g + 1 .. g + n
    BY <2>1, <2>2, <2>3
  <2>4. CASE j \notin g + 1 .. g + n
    <3>1. j \in 1 .. g
      <4> HIDE DEF g
      <4> QED
        BY <1>4, <2>4
    <3> QED
      BY <1>5, <2>1, <2>2, <2>4, <3>1
  <2> QED
    BY <2>3, <2>4
<1>8. Follows(t, c)'
  <2>1. a + (g + n) = k + n
    <3> HIDE DEF a, g, k
    <3> QED
      BY <1>4, <1>5
  <2> QED
    BY <1>1, <1>6, <1>7, <2>1 DEF Follows
<1>9. PartAt(c, Base(c), inBuf[c])'
  <2>1. /\ a <= k
        /\ \A j \in 1 .. Len(inBuf[c]) : inBuf[c][j] = stream[c][Base(c) + j]
    BY DEF RecvInv, Buffered, PartAt
  <2>2. a <= k + n
    <3> HIDE DEF a, k
    <3> QED
      BY <1>4, <2>1
  <2> QED
    BY <1>1, <1>6, <2>1, <2>2 DEF PartAt
<1>10. Announces(c, inHdr[c])'
  BY <1>1 DEF RecvInv, HeaderNext, Announces, Returned
<1>11. /\ Len(delivered[c]) <= Len(accepted[c])
       /\ \A i \in 1 .. Len(delivered[c]) :
            delivered[c][i] = Payload(accepted[c][i])
  BY DEF RecvInv, DeliveredInOrder
<1> QED
  BY <1>1, <1>3, <1>8, <1>9, <1>10, <1>11, ReaderStep DEF TypeInv

(* A read that gives up closes the receiving end: what is missing will not  *)
(* be read around.                                                          *)
LEMMA GiveUpKeeps ==
  ASSUME TypeInv, RecvInv, NEW c \in Conns, NEW t \in Readers,
         pc[t] = "recv", at[t] = c, GiveUp(t, c)
  PROVE  RecvInv'
<1>1. /\ UNCHANGED <<accepted, stream, taken, inBuf, inHdr, buf, delivered>>
      /\ ~ropen'[c] /\ pc'[t] = "idle"
      /\ \A d \in Conns \ {c} : ropen'[d] = ropen[d]
      /\ \A u \in Readers \ {t} : pc'[u] = pc[u]
  BY DEF GiveUp, sendVars, TypeInv, TypeOK
<1>2. Busy(t)
  BY DEF Busy
<1>3. /\ \A u \in Readers \ {t} : ~Busy(u)'
      /\ \A d \in Conns \ {c} : ~Locked(d)
      /\ ~Busy(t)'
  BY <1>1, <1>2, Alone DEF Busy
<1>4. Base(c)' = Base(c)
  BY <1>1 DEF Base, After, EndOf, Returned, FrameLen
<1>5. taken[c] <= Len(stream[c]) /\ PartAt(c, Base(c), inBuf[c])'
  BY <1>1, <1>4 DEF RecvInv, Buffered, PartAt
<1>6. Announces(c, inHdr[c])'
  BY <1>1 DEF RecvInv, HeaderNext, Announces, Returned
<1>7. /\ Len(delivered[c]) <= Len(accepted[c])
      /\ \A i \in 1 .. Len(delivered[c]) :
           delivered[c][i] = Payload(accepted[c][i])
  BY DEF RecvInv, DeliveredInOrder
<1> QED
  BY <1>1, <1>3, <1>5, <1>6, <1>7, ReaderStep DEF TypeInv

(* The bytes appended to m_in_buffer continue it.                           *)
LEMMA PushKeeps ==
  ASSUME TypeInv, RecvInv, NEW c \in Conns, NEW t \in Readers, Push(t, c)
  PROVE  RecvInv'
<1> DEFINE k == taken[c]
           g == got[t]
           b == inBuf[c]
           l == Len(b)
           q == Base(c)
           s == SubSeq(buf, 1, g)
<1>1. /\ UNCHANGED <<accepted, stream, taken, ropen, inHdr, buf, delivered>>
      /\ inBuf'[c] = b \o s
      /\ at[t] = c /\ pc[t] = "push" /\ pc'[t] = "idle"
      /\ \A d \in Conns \ {c} : inBuf'[d] = inBuf[d]
      /\ \A u \in Readers \ {t} : pc'[u] = pc[u]
  BY DEF Push, sendVars, TypeInv, TypeOK
<1>2. Busy(t)
  BY <1>1 DEF Busy
<1>3. /\ \A u \in Readers \ {t} : ~Busy(u)'
      /\ \A d \in Conns \ {c} : ~Locked(d)
      /\ ~Busy(t)'
  BY <1>1, <1>2, Alone DEF Busy
<1>4. /\ k \in Nat /\ l \in Nat /\ q \in Nat /\ b \in Seq(Bytes)
      /\ g \in Nat /\ g \in 0 .. NetMax /\ NetMax \in Nat /\ k <= Len(stream[c])
      /\ q + l <= k
  <2>1. k \in Nat /\ l \in Nat /\ q \in Nat /\ b \in Seq(Bytes)
    BY Numbers DEF TypeInv
  <2>2. g \in Nat /\ g \in 0 .. NetMax /\ NetMax \in Nat
    BY NetMaxAssumption DEF TypeInv, TypeOK
  <2>3. k <= Len(stream[c]) /\ q + l <= k
    BY DEF RecvInv, Buffered, PartAt
  <2> QED
    BY <2>1, <2>2, <2>3
<1>5. /\ ropen[c] \/ g > 0 => q + l + g = k
      /\ \A j \in 1 .. g : buf[j] = stream[c][k - g + j]
  BY <1>1, <1>2 DEF RecvInv, BufferHolds, Follows
<1>6. /\ s \in Seq(Bytes) /\ Len(s) = g /\ \A j \in 1 .. g : s[j] = buf[j]
  <2>1. \A i \in 1 .. g : buf[i] \in Bytes
    BY DEF TypeInv, Readings
  <2>2. /\ SubSeq(buf, 1, g) \in Seq(Bytes)
        /\ Len(SubSeq(buf, 1, g)) = IF 1 <= g THEN g - 1 + 1 ELSE 0
        /\ \A i \in 1 .. g - 1 + 1 : SubSeq(buf, 1, g)[i] = buf[1 + i - 1]
    <3>1. 1 \in Int /\ g \in Int
      BY <1>4
    <3> HIDE DEF g
    <3> QED
      BY <2>1, <3>1, SubSeqProperties
  <2>3. g - 1 + 1 = g /\ \A i \in 1 .. g : 1 + i - 1 = i
    <3> HIDE DEF g
    <3> QED
      BY <1>4
  <2>4. (IF 1 <= g THEN g ELSE 0) = g
    <3> HIDE DEF g
    <3> QED
      BY <1>4
  <2> QED
    BY <2>2, <2>3, <2>4
<1>7. /\ Len(b \o s) = l + g
      /\ \A j \in 1 .. l + g : (b \o s)[j] = IF j <= l THEN b[j] ELSE s[j - l]
  <2> HIDE DEF b, s, g
  <2>1. Len(b) = l
    OBVIOUS
  <2> QED
    BY <1>4, <1>6, <2>1, ConcatProperties
<1>8. q + (l + g) <= k /\ (ropen[c] => q + (l + g) = k)
  <2> HIDE DEF q, l, g, k
  <2>1. CASE g > 0
    BY <1>4, <1>5, <2>1
  <2>2. CASE g = 0
    BY <1>4, <1>5, <2>2
  <2> QED
    BY <1>4, <2>1, <2>2
<1>9. ASSUME NEW j \in 1 .. l + g
      PROVE  (b \o s)[j] = stream[c][q + j]
  <2>1. CASE j <= l
    <3>1. j \in 1 .. l
      <4> HIDE DEF l, g
      <4> QED
        BY <1>4, <2>1
    <3>2. b[j] = stream[c][q + j]
      BY <3>1 DEF RecvInv, Buffered, PartAt
    <3> QED
      BY <1>7, <2>1, <3>2
  <2>2. CASE ~(j <= l)
    <3>1. j - l \in 1 .. g /\ k - g + (j - l) = q + j
      <4> HIDE DEF l, g, k, q
      <4>1. g > 0 /\ l \in Nat /\ g \in Nat /\ q \in Nat /\ k \in Nat
        BY <1>4, <2>2
      <4>2. q + l + g = k
        BY <1>5, <4>1
      <4> QED
        BY <2>2, <4>1, <4>2
    <3>2. s[j - l] = stream[c][k - g + (j - l)]
      BY <1>5, <1>6, <3>1
    <3> QED
      BY <1>7, <2>2, <3>1, <3>2
  <2>3. j <= l \/ ~(j <= l)
    OBVIOUS
  <2> QED
    BY <2>1, <2>2, <2>3
<1>10. Base(c)' = q
  BY <1>1 DEF Base, After, EndOf, Returned, FrameLen
<1>11. /\ PartAt(c, Base(c), inBuf[c])'
       /\ ropen'[c] => Base(c)' + Len(inBuf'[c]) = taken'[c]
  <2>1. Len(inBuf'[c]) = l + g
    BY <1>1, <1>7
  <2>2. \A j \in 1 .. l + g : inBuf'[c][j] = stream'[c][q + j]
    BY <1>1, <1>9
  <2>3. taken'[c] = k /\ ropen'[c] = ropen[c]
    BY <1>1
  <2> HIDE DEF q, l, g, k
  <2> QED
    BY <1>8, <1>10, <2>1, <2>2, <2>3 DEF PartAt
<1>12. Announces(c, inHdr[c])'
  BY <1>1 DEF RecvInv, HeaderNext, Announces, Returned
<1>13. /\ Len(delivered[c]) <= Len(accepted[c])
       /\ \A i \in 1 .. Len(delivered[c]) :
            delivered[c][i] = Payload(accepted[c][i])
  BY DEF RecvInv, DeliveredInOrder
<1> HIDE DEF k, g, b, l, q, s
<1> QED
  BY <1>1, <1>3, <1>4, <1>11, <1>12, <1>13, ReaderStep DEF TypeInv, k

(* The sending end only adds to the packets and to the stream.              *)
LEMMA SendGrows ==
  ASSUME TypeOK, NEW c \in Conns, NEW w \in Writers, Send(w, c)
  PROVE  /\ Grows
         /\ UNCHANGED <<taken, ropen, inBuf, inHdr, buf, pc, at, got, delivered>>
         /\ \A d \in Conns :
              /\ Len(stream[d]) <= Len(stream'[d])
              /\ \A k \in 1 .. Len(stream[d]) : stream'[d][k] = stream[d][k]
<1>1. \A d \in Conns : Len(accepted[d]) \in Nat /\ Len(stream[d]) \in Nat
  BY LenProperties DEF TypeOK
<1>2. UNCHANGED <<taken, ropen, inBuf, inHdr, buf, pc, at, got, delivered>>
  BY DEF Send, WritePacket, ProcessNothing, Transmit, TransmitFail, recvVars
<1>3. CASE \E s \in Sizes : WritePacket(w, c, s)
  <2>1. Grows /\ stream' = stream
    BY <1>3, WritePacketGrows DEF WritePacket
  <2> QED
    BY <1>1, <1>2, <2>1
<1>4. CASE ProcessNothing(w, c)
  BY <1>1, <1>2, <1>4 DEF ProcessNothing, Grows
<1>5. ASSUME NEW n \in 0 .. Left(c), Transmit(w, c, n) \/ TransmitFail(w, c, n)
      PROVE  /\ Grows
             /\ \A d \in Conns :
                  /\ Len(stream[d]) <= Len(stream'[d])
                  /\ \A k \in 1 .. Len(stream[d]) : stream'[d][k] = stream[d][k]
  <2>1. /\ queue[c] # <<>> /\ accepted' = accepted
        /\ stream' = [stream EXCEPT ![c] = @ \o Written(c, n)]
    BY <1>5 DEF Transmit, TransmitFail
  <2>2. Written(c, n) \in Seq(Bytes) /\ stream[c] \in Seq(Bytes)
    BY <2>1, WrittenBytes DEF TypeOK
  <2>3. /\ Len(stream[c]) <= Len(stream[c] \o Written(c, n))
        /\ \A k \in 1 .. Len(stream[c]) :
             (stream[c] \o Written(c, n))[k] = stream[c][k]
    <3> DEFINE s == stream[c]
               b == Written(c, n)
    <3>1. s \in Seq(Bytes) /\ b \in Seq(Bytes)
      BY <2>2
    <3> HIDE DEF s, b
    <3>2. /\ Len(s \o b) = Len(s) + Len(b) /\ Len(s) \in Nat /\ Len(b) \in Nat
          /\ \A k \in 1 .. Len(s) + Len(b) :
               (s \o b)[k] = IF k <= Len(s) THEN s[k] ELSE b[k - Len(s)]
      BY <3>1, ConcatProperties, LenProperties
    <3>3. Len(s) <= Len(s \o b) /\ \A k \in 1 .. Len(s) : (s \o b)[k] = s[k]
      BY <3>2
    <3> QED
      BY <3>3 DEF s, b
  <2>4. Grows
    BY <1>1, <2>1 DEF Grows
  <2>5. ASSUME NEW d \in Conns
        PROVE  /\ Len(stream[d]) <= Len(stream'[d])
               /\ \A k \in 1 .. Len(stream[d]) : stream'[d][k] = stream[d][k]
    <3>1. CASE d = c
      <4>1. stream'[c] = stream[c] \o Written(c, n)
        BY <2>1 DEF TypeOK
      <4> QED
        BY <2>3, <3>1, <4>1
    <3>2. CASE d # c
      <4>1. stream'[d] = stream[d]
        BY <2>1, <3>2 DEF TypeOK
      <4> QED
        BY <1>1, <4>1
    <3> QED
      BY <3>1, <3>2
  <2> QED
    BY <2>4, <2>5
<1> QED
  BY <1>2, <1>3, <1>4, <1>5 DEF Send

(* Every step keeps the receiving end in order.                             *)
LEMMA RecvInvStep ==
  ASSUME OneBuffer, TypeInv, TypeInv', SendInv, RecvInv, [Next]_vars
  PROVE  RecvInv'
<1>1. TypeOK /\ TypeOK'
  BY DEF TypeInv
<1>2. \A d \in Conns : Len(accepted[d]) \in Nat /\ Len(stream[d]) \in Nat
  BY <1>1, LenProperties DEF TypeOK
<1>3. \A u \in Readers : Busy(u) => at[u] \in Conns
  BY DEF TypeInv, Readings, Busy
<1>4. ASSUME UNCHANGED <<accepted, stream, taken, inBuf, inHdr, buf, got,
                         delivered>>,
             \A d \in Conns : ropen'[d] => ropen[d],
             \A u \in Readers : /\ Busy(u)' = Busy(u)
                                /\ Busy(u) => at'[u] = at[u]
      PROVE  RecvInv'
  <2>1. Grows
    BY <1>2, <1>4 DEF Grows
  <2> QED
    BY <1>1, <1>2, <1>3, <1>4, <2>1, RecvInvKept
<1>5. ASSUME NEW c \in Conns, NEW w \in Writers, Send(w, c)
      PROVE  RecvInv'
  <2>1. /\ Grows
        /\ UNCHANGED <<taken, ropen, inBuf, inHdr, buf, pc, at, got, delivered>>
        /\ \A d \in Conns :
             /\ Len(stream[d]) <= Len(stream'[d])
             /\ \A k \in 1 .. Len(stream[d]) : stream'[d][k] = stream[d][k]
    BY <1>1, <1>5, SendGrows
  <2>2. \A u \in Readers : Busy(u)' = Busy(u)
    BY <2>1 DEF Busy
  <2> QED
    BY <1>1, <1>3, <2>1, <2>2, RecvInvKept
<1>6. ASSUME NEW c \in Conns, NEW t \in Readers, ReadPacket(t, c)
      PROVE  RecvInv'
  <2>1. /\ UNCHANGED <<accepted, stream, taken, ropen, inBuf, inHdr, buf, got,
                       delivered>>
        /\ pc[t] = "idle" /\ pc'[t] = "lock"
        /\ \A u \in Readers \ {t} : pc'[u] = pc[u] /\ at'[u] = at[u]
    BY <1>1, <1>6 DEF ReadPacket, sendVars, TypeOK
  <2>2. \A u \in Readers : /\ Busy(u)' = Busy(u)
                           /\ Busy(u) => at'[u] = at[u]
    BY <2>1 DEF Busy
  <2> QED
    BY <1>4, <2>1, <2>2
<1>7. ASSUME NEW c \in Conns, NEW t \in Readers, RecvNothing(t, c)
      PROVE  RecvInv'
  <2>1. /\ UNCHANGED <<accepted, stream, taken, ropen, inBuf, inHdr, buf, got,
                       delivered, at>>
        /\ pc[t] = "recv" /\ pc'[t] = "push"
        /\ \A u \in Readers \ {t} : pc'[u] = pc[u]
    BY <1>1, <1>7 DEF RecvNothing, sendVars, TypeOK
  <2>2. \A u \in Readers : Busy(u)' = Busy(u)
    BY <2>1 DEF Busy
  <2> QED
    BY <1>4, <2>1, <2>2
<1>8. ASSUME NEW c \in Conns, NEW t \in Readers,
             ReadComplete(t, c) \/ ReadMore(t, c)
      PROVE  RecvInv'
  BY <1>8, ReadCompleteInv, ReadMoreInv
<1>9. ASSUME NEW c \in Conns, NEW t \in Readers,
             \E n \in 1 .. NetMax : Recv(t, c, n)
      PROVE  RecvInv'
  BY <1>9, RecvKeeps
<1>10. ASSUME NEW c \in Conns, NEW t \in Readers,
              RecvFail(t, c) \/ RecvEnd(t, c)
       PROVE  RecvInv'
  BY <1>10, GiveUpKeeps DEF RecvFail, RecvEnd
<1>11. ASSUME NEW c \in Conns, NEW t \in Readers, Push(t, c)
       PROVE  RecvInv'
  BY <1>11, PushKeeps
<1>12. ASSUME NEW c \in Conns, CloseWriter(c) \/ CloseReader(c)
       PROVE  RecvInv'
  <2>1. /\ UNCHANGED <<accepted, stream, taken, inBuf, inHdr, buf, got,
                       delivered, pc, at>>
        /\ \A d \in Conns : ropen'[d] => ropen[d]
    BY <1>1, <1>12 DEF CloseWriter, CloseReader, sendVars, recvVars, TypeOK
  <2>2. \A u \in Readers : Busy(u)' = Busy(u)
    BY <2>1 DEF Busy
  <2> QED
    BY <1>4, <2>1, <2>2
<1>13. CASE UNCHANGED vars
  <2>1. /\ UNCHANGED <<accepted, stream, taken, ropen, inBuf, inHdr, buf, got,
                       delivered, pc, at>>
    BY <1>13 DEF vars
  <2>2. \A u \in Readers : Busy(u)' = Busy(u)
    BY <2>1 DEF Busy
  <2> QED
    BY <1>4, <2>1, <2>2
<1> QED
  BY <1>5, <1>6, <1>7, <1>8, <1>9, <1>10, <1>11, <1>12, <1>13 DEF Next, Read

(* read_packet returns the packets that write_packet took, whole, unmixed,  *)
(* once and in order (packet_proto.cpp:27-93), however the stream is cut    *)
(* and whenever connections break, for any connections, sizes and buffer    *)
(* length, if no two readers of different connections share the receive     *)
(* buffer.                                                                  *)
THEOREM DeliveryCorrect ==
  ASSUME OneBuffer
  PROVE  Spec => []DeliveredInOrder
<1> DEFINE Inv == TypeInv /\ SendInv /\ RecvInv
<1>1. Init => Inv
  BY TypeInvInit, SendInvInit, RecvInvInit
<1>2. Inv /\ [Next]_vars => Inv'
  <2> SUFFICES ASSUME Inv, [Next]_vars
               PROVE  Inv'
    OBVIOUS
  <2>1. TypeInv'
    BY TypeInvStep
  <2>2. SendInv'
    BY <2>1, SendInvStep DEF TypeInv
  <2>3. RecvInv'
    BY <2>1, RecvInvStep
  <2> QED
    BY <2>1, <2>2, <2>3
<1>3. Inv => DeliveredInOrder
  BY DEF RecvInv
<1> QED
  BY <1>1, <1>2, <1>3, PTL DEF Spec

-----------------------------------------------------------------------------
(* Both ends together are a PacketChannel, under the same condition.       *)

Contents == [num : Nat \ {0}, size : Sizes]

(* A sequence that extends s by e.                                          *)
LEMMA IsAppend ==
  ASSUME NEW S, NEW s \in Seq(S), NEW u \in Seq(S), NEW e \in S,
         Len(u) = Len(s) + 1, u[Len(s) + 1] = e,
         \A i \in 1 .. Len(s) : u[i] = s[i]
  PROVE  u = Append(s, e)
<1>1. /\ Append(s, e) \in Seq(S)
      /\ Len(Append(s, e)) = Len(s) + 1
      /\ \A i \in 1 .. Len(s) : Append(s, e)[i] = s[i]
      /\ Append(s, e)[Len(s) + 1] = e
  BY AppendProperties
<1>2. Len(s) \in Nat
  BY LenProperties
<1>3. \A i \in 1 .. Len(u) : u[i] = Append(s, e)[i]
  BY <1>1, <1>2
<1> QED
  BY <1>1, <1>3, SeqEqual

(* What the channel sees of accepted packets a and of delivered payloads d  *)
(* that are those of the first packets.                                     *)
SentOf(a) == [i \in 1 .. Len(a) |-> Content(a[i])]
ReceivedOf(a, d) == [i \in 1 .. Len(d) |->
                       IF i <= Len(a) /\ d[i] = Payload(a[i])
                       THEN Content(a[i]) ELSE <<>>]
InOrder(a, d) == /\ Len(d) <= Len(a)
                 /\ \A i \in 1 .. Len(d) : d[i] = Payload(a[i])

(* The packets accepted for a connection, as the channel sees them.         *)
LEMMA SentSeq ==
  ASSUME NEW a \in Seq(Packets)
  PROVE  /\ SentOf(a) \in Seq(Contents) /\ Len(SentOf(a)) = Len(a)
         /\ \A i \in 1 .. Len(a) : /\ SentOf(a)[i] = Content(a[i])
                                   /\ Content(a[i]) \in Contents
<1>1. Len(a) \in Nat
  BY LenProperties
<1>2. ASSUME NEW i \in 1 .. Len(a)
      PROVE  Content(a[i]) \in Contents
  <2>1. a[i] \in Packets
    BY ElementOfSeq
  <2> QED
    BY <2>1 DEF Packets, Content, Contents
<1> QED
  BY <1>1, <1>2 DEF SentOf

(* The packets returned on a connection, as the channel sees them.          *)
LEMMA ReceivedSeq ==
  ASSUME NEW a \in Seq(Packets), NEW d \in Seq(Seq(Bytes)), InOrder(a, d)
  PROVE  /\ ReceivedOf(a, d) \in Seq(Contents) /\ Len(ReceivedOf(a, d)) = Len(d)
         /\ \A i \in 1 .. Len(d) : ReceivedOf(a, d)[i] = Content(a[i])
<1>1. Len(a) \in Nat /\ Len(d) \in Nat
  BY LenProperties
<1>2. \A i \in 1 .. Len(d) : i \in 1 .. Len(a) /\ i <= Len(a)
  BY <1>1 DEF InOrder
<1>3. ReceivedOf(a, d) = [i \in 1 .. Len(d) |-> Content(a[i])]
  BY <1>2 DEF ReceivedOf, InOrder
<1> QED
  BY <1>1, <1>2, <1>3, SentSeq

(* The types of the histories, and their views.                             *)
LEMMA Histories ==
  ASSUME TypeOK, NEW c \in Conns
  PROVE  /\ accepted[c] \in Seq(Packets) /\ delivered[c] \in Seq(Seq(Bytes))
         /\ Len(accepted[c]) \in Nat /\ Len(delivered[c]) \in Nat
         /\ Sent(c) = SentOf(accepted[c])
         /\ Received(c) = ReceivedOf(accepted[c], delivered[c])
         /\ DeliveredInOrder => InOrder(accepted[c], delivered[c])
<1>1. accepted[c] \in Seq(Packets) /\ delivered[c] \in Seq(Seq(Bytes))
  BY DEF TypeOK
<1> QED
  BY <1>1, LenProperties
     DEF Sent, SentOf, Received, ReceivedOf, DeliveredInOrder, InOrder

(* The same of the next state.                                              *)
LEMMA HistoriesNext ==
  ASSUME TypeOK', NEW c \in Conns
  PROVE  /\ accepted'[c] \in Seq(Packets) /\ delivered'[c] \in Seq(Seq(Bytes))
         /\ Len(accepted'[c]) \in Nat /\ Len(delivered'[c]) \in Nat
         /\ Sent(c)' = SentOf(accepted'[c])
         /\ Received(c)' = ReceivedOf(accepted'[c], delivered'[c])
         /\ DeliveredInOrder' => InOrder(accepted'[c], delivered'[c])
<1>1. accepted'[c] \in Seq(Packets) /\ delivered'[c] \in Seq(Seq(Bytes))
  BY DEF TypeOK
<1> QED
  BY <1>1, LenProperties
     DEF Sent, SentOf, Received, ReceivedOf, DeliveredInOrder, InOrder, Content,
         Payload

(* The initial states are initial states of the channel.                    *)
LEMMA ChannelInit == Init => Channel!Init
<1> SUFFICES ASSUME Init
             PROVE  Channel!Init
  OBVIOUS
<1>1. /\ <<>> \in Seq(Packets) /\ <<>> \in Seq(Seq(Bytes)) /\ InOrder(<<>>, <<>>)
      /\ \A s \in Seq(Contents) : Len(s) = 0 => s = <<>>
  BY EmptySeq DEF InOrder
<1>2. SentOf(<<>>) = <<>> /\ ReceivedOf(<<>>, <<>>) = <<>>
  BY <1>1, SentSeq, ReceivedSeq, EmptySeq
<1>3. \A c \in Conns : /\ accepted[c] = <<>> /\ delivered[c] = <<>>
                       /\ Sent(c) = SentOf(accepted[c])
                       /\ Received(c) = ReceivedOf(accepted[c], delivered[c])
  BY DEF Init, Sent, SentOf, Received, ReceivedOf
<1>4. \A c \in Conns : Sent(c) = <<>> /\ Received(c) = <<>>
  BY <1>2, <1>3
<1> QED
  BY <1>4 DEF Init, Channel!Init

(* A step that changes neither history changes nothing of them for the      *)
(* channel.                                                                 *)
LEMMA HistoriesKept ==
  ASSUME UNCHANGED <<accepted, delivered>>
  PROVE  UNCHANGED <<[c \in Conns |-> Sent(c)], [c \in Conns |-> Received(c)]>>
BY DEF Sent, Received, Content, Payload

(* write_packet accepts for the channel.                                    *)
LEMMA WritePacketAccepts ==
  ASSUME TypeOK, TypeOK', DeliveredInOrder, DeliveredInOrder',
         NEW c \in Conns, NEW w \in Writers, NEW s \in Sizes,
         WritePacket(w, c, s)
  PROVE  Channel!Next
<1> DEFINE p == NewPacket(c, s)
           n == Len(accepted[c])
<1>1. /\ Grows
      /\ Len(accepted'[c]) = n + 1
      /\ accepted'[c][n + 1] = p
      /\ \A d \in Conns \ {c} : accepted'[d] = accepted[d]
  BY WritePacketGrows
<1>2. UNCHANGED <<delivered, wopen, ropen>> /\ wopen[c] /\ n < MaxPackets
  BY DEF WritePacket, recvVars
<1>3. n \in Nat
  BY Histories
<1>4. Content(p) \in [num : 1 .. MaxPackets, size : Sizes]
  <2>1. n + 1 \in 1 .. MaxPackets
    BY <1>2, <1>3, MaxPacketsAssumption
  <2> QED
    BY <2>1 DEF NewPacket, Content
<1>5. Sent(c)' = Append(Sent(c), Content(p))
  <2>1. /\ Sent(c)' \in Seq(Contents) /\ Len(Sent(c)') = n + 1
        /\ \A i \in 1 .. n + 1 : Sent(c)'[i] = Content(accepted'[c][i])
    <3>1. accepted'[c] \in Seq(Packets) /\ Sent(c)' = SentOf(accepted'[c])
      BY HistoriesNext
    <3> QED
      BY <1>1, <3>1, SentSeq
  <2>2. /\ Sent(c) \in Seq(Contents) /\ Len(Sent(c)) = n
        /\ \A i \in 1 .. n : Sent(c)[i] = Content(accepted[c][i])
    BY Histories, SentSeq
  <2>3. \A i \in 1 .. n : accepted'[c][i] = accepted[c][i]
    BY <1>1 DEF Grows
  <2>4. Content(p) \in Contents
    BY <1>4 DEF Contents
  <2> HIDE DEF p
  <2>5. \A i \in 1 .. n : Sent(c)'[i] = Sent(c)[i]
    BY <1>3, <2>1, <2>2, <2>3
  <2>6. Sent(c)'[n + 1] = Content(p)
    BY <1>1, <1>3, <2>1
  <2> QED
    BY <2>1, <2>2, <2>4, <2>5, <2>6, IsAppend
<1>6. \A d \in Conns \ {c} : Sent(d)' = Sent(d)
  BY <1>1 DEF Sent, Content
<1>7. ASSUME NEW d \in Conns
      PROVE  Received(d)' = Received(d)
  <2>1. /\ Received(d) \in Seq(Contents) /\ Len(Received(d)) = Len(delivered[d])
        /\ \A i \in 1 .. Len(delivered[d]) :
             Received(d)[i] = Content(accepted[d][i])
        /\ Len(delivered[d]) <= Len(accepted[d])
        /\ Len(accepted[d]) \in Nat /\ Len(delivered[d]) \in Nat
    <3>1. /\ accepted[d] \in Seq(Packets) /\ delivered[d] \in Seq(Seq(Bytes))
          /\ Len(accepted[d]) \in Nat /\ Len(delivered[d]) \in Nat
          /\ Received(d) = ReceivedOf(accepted[d], delivered[d])
          /\ InOrder(accepted[d], delivered[d])
      BY Histories
    <3>2. /\ Received(d) \in Seq(Contents)
          /\ Len(Received(d)) = Len(delivered[d])
          /\ \A i \in 1 .. Len(delivered[d]) :
               Received(d)[i] = Content(accepted[d][i])
      BY <3>1, ReceivedSeq
    <3> QED
      BY <3>1, <3>2 DEF InOrder
  <2>2. /\ Received(d)' \in Seq(Contents)
        /\ Len(Received(d)') = Len(delivered'[d])
        /\ \A i \in 1 .. Len(delivered'[d]) :
             Received(d)'[i] = Content(accepted'[d][i])
    BY HistoriesNext, ReceivedSeq
  <2>3. \A i \in 1 .. Len(accepted[d]) : accepted'[d][i] = accepted[d][i]
    BY <1>1 DEF Grows
  <2>4. \A i \in 1 .. Len(delivered[d]) : Received(d)'[i] = Received(d)[i]
    <3>1. \A i \in 1 .. Len(delivered[d]) : i \in 1 .. Len(accepted[d])
      BY <2>1
    <3> QED
      BY <1>2, <2>1, <2>2, <2>3, <3>1
  <2> QED
    BY <1>2, <2>1, <2>2, <2>4, SeqEqual
<1> DEFINE A == [d \in Conns |-> Sent(d)]
           D == [d \in Conns |-> Received(d)]
<1>8. A' = [A EXCEPT ![c] = Append(@, Content(p))]
  <2> HIDE DEF p
  <2> QED
    BY <1>5, <1>6
<1>9. D' = D
  BY <1>7
<1> QED
  BY <1>2, <1>4, <1>8, <1>9 DEF Channel!Next, Channel!Accept

(* read_packet that returns a packet delivers for the channel.              *)
LEMMA ReadCompleteDelivers ==
  ASSUME TypeOK, TypeOK', DeliveredInOrder, DeliveredInOrder',
         NEW c \in Conns, NEW t \in Readers, ReadComplete(t, c)
  PROVE  Channel!Next
<1> DEFINE n == Len(delivered[c])
           x == SubSeq(Rest(c), 1, Header(c))
<1>1. /\ UNCHANGED <<accepted, wopen, ropen>>
      /\ delivered'[c] = Append(delivered[c], x)
      /\ \A d \in Conns \ {c} : delivered'[d] = delivered[d]
  BY DEF ReadComplete, sendVars, TypeOK
<1>2. n \in Nat /\ Len(accepted[c]) \in Nat
  BY Histories
<1>3. Len(delivered'[c]) = n + 1
  <2>1. delivered[c] \in Seq(Seq(Bytes))
    BY DEF TypeOK
  <2> HIDE DEF x
  <2> QED
    BY <1>1, <2>1
<1>4. n + 1 <= Len(accepted[c])
  BY <1>1, <1>3 DEF DeliveredInOrder
<1>5. /\ Received(c) \in Seq(Contents) /\ Len(Received(c)) = n
      /\ \A i \in 1 .. n : Received(c)[i] = Content(accepted[c][i])
  BY Histories, ReceivedSeq
<1>6. /\ Received(c)' \in Seq(Contents) /\ Len(Received(c)') = n + 1
      /\ \A i \in 1 .. n + 1 : Received(c)'[i] = Content(accepted[c][i])
  <2>1. /\ Received(c)' \in Seq(Contents) /\ Len(Received(c)') = Len(delivered'[c])
        /\ \A i \in 1 .. Len(delivered'[c]) :
             Received(c)'[i] = Content(accepted'[c][i])
    BY HistoriesNext, ReceivedSeq
  <2> QED
    BY <1>1, <1>3, <2>1
<1>7. /\ Len(Sent(c)) = Len(accepted[c])
      /\ Sent(c)[n + 1] = Content(accepted[c][n + 1])
      /\ Sent(c)[n + 1] \in Contents
  <2>1. n + 1 \in 1 .. Len(accepted[c])
    BY <1>2, <1>4
  <2>2. /\ Sent(c) \in Seq(Contents) /\ Len(Sent(c)) = Len(accepted[c])
        /\ Sent(c)[n + 1] = Content(accepted[c][n + 1])
    BY <2>1, Histories, SentSeq
  <2> QED
    BY <2>1, <2>2, ElementOfSeq
<1>8. Received(c)' = Append(Received(c), Sent(c)[Len(Received(c)) + 1])
  <2>1. \A i \in 1 .. n : Received(c)'[i] = Received(c)[i]
    BY <1>2, <1>5, <1>6
  <2>2. Received(c)'[n + 1] = Sent(c)[n + 1]
    BY <1>2, <1>6, <1>7
  <2> QED
    BY <1>5, <1>6, <1>7, <2>1, <2>2, IsAppend
<1>9. /\ \A d \in Conns : Sent(d)' = Sent(d)
      /\ \A d \in Conns \ {c} : Received(d)' = Received(d)
  BY <1>1 DEF Sent, Received, Content, Payload
<1> DEFINE A == [d \in Conns |-> Sent(d)]
           D == [d \in Conns |-> Received(d)]
<1>10. A' = A /\ A[c] = Sent(c) /\ D[c] = Received(c)
  BY <1>9
<1>11. D' = [D EXCEPT ![c] = Append(@, A[c][Len(@) + 1])]
  BY <1>8, <1>9
<1>12. Len(D[c]) < Len(A[c])
  BY <1>2, <1>4, <1>5, <1>7
<1> QED
  BY <1>1, <1>10, <1>11, <1>12 DEF Channel!Next, Channel!Deliver

(* Every step is a step of the channel or changes nothing of it.            *)
LEMMA ChannelStep ==
  ASSUME TypeOK, TypeOK', DeliveredInOrder, DeliveredInOrder', [Next]_vars
  PROVE  [Channel!Next]_(Channel!vars)
<1>1. ASSUME NEW c \in Conns,
             UNCHANGED <<accepted, delivered>>,
             \/ UNCHANGED <<wopen, ropen>>
             \/ wopen' = [wopen EXCEPT ![c] = FALSE] /\ UNCHANGED ropen
             \/ ropen' = [ropen EXCEPT ![c] = FALSE] /\ UNCHANGED wopen
      PROVE  [Channel!Next]_(Channel!vars)
  BY <1>1, HistoriesKept
     DEF Channel!Next, Channel!vars, Channel!CloseWrite, Channel!CloseRead
<1>2. ASSUME NEW c \in Conns, NEW w \in Writers, Send(w, c)
      PROVE  [Channel!Next]_(Channel!vars)
  <2>1. CASE \E s \in Sizes : WritePacket(w, c, s)
    BY <2>1, WritePacketAccepts
  <2>2. CASE ~\E s \in Sizes : WritePacket(w, c, s)
    <3>1. \/ ProcessNothing(w, c)
          \/ \E n \in 0 .. Left(c) : Transmit(w, c, n)
          \/ \E n \in 0 .. Left(c) : TransmitFail(w, c, n)
      BY <1>2, <2>2 DEF Send
    <3>2. /\ UNCHANGED <<accepted, delivered, ropen>>
          /\ \/ UNCHANGED wopen
             \/ wopen' = [wopen EXCEPT ![c] = FALSE]
      BY <3>1 DEF ProcessNothing, Transmit, TransmitFail, recvVars
    <3> QED
      BY <1>1, <3>2
  <2> QED
    BY <2>1, <2>2
<1>3. ASSUME NEW c \in Conns, NEW t \in Readers, ReadPacket(t, c) \/ Read(t, c)
      PROVE  [Channel!Next]_(Channel!vars)
  <2>1. CASE ReadComplete(t, c)
    BY <2>1, ReadCompleteDelivers
  <2>2. CASE ~ReadComplete(t, c)
    <3>1. /\ UNCHANGED <<accepted, delivered, wopen>>
          /\ \/ UNCHANGED ropen
             \/ ropen' = [ropen EXCEPT ![c] = FALSE]
      BY <1>3, <2>2 DEF ReadPacket, Read, ReadMore, Recv, RecvNothing, RecvFail,
                        RecvEnd, GiveUp, Push, sendVars
    <3> QED
      BY <1>1, <3>1
  <2> QED
    BY <2>1, <2>2
<1>4. ASSUME NEW c \in Conns, CloseWriter(c) \/ CloseReader(c)
      PROVE  [Channel!Next]_(Channel!vars)
  BY <1>1, <1>4 DEF CloseWriter, CloseReader, sendVars, recvVars
<1>5. CASE UNCHANGED vars
  BY <1>5, HistoriesKept DEF vars, Channel!vars
<1> QED
  BY <1>2, <1>3, <1>4, <1>5 DEF Next

(* packet_proto, both ends together, is a channel of packets                *)
(* (packet_proto.cpp:27-159) if no two readers of different connections     *)
(* share the receive buffer.                                                *)
THEOREM Refinement ==
  ASSUME OneBuffer
  PROVE  Spec => ImplementsChannel
<1>1. Init => Channel!Init
  BY ChannelInit
<1>2. /\ TypeOK /\ TypeOK' /\ DeliveredInOrder /\ DeliveredInOrder'
      /\ [Next]_vars
      => [Channel!Next]_(Channel!vars)
  BY ChannelStep
<1>3. Spec => []TypeOK
  BY TypeCorrect
<1>4. Spec => []DeliveredInOrder
  BY DeliveryCorrect
<1> QED
  BY <1>1, <1>2, <1>3, <1>4, PTL DEF Spec, ImplementsChannel, Channel!Spec
=============================================================================
