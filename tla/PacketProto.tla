---------------------------- MODULE PacketProto ----------------------------
(* networkio::proto::packet_proto over stream sockets: write_packet and     *)
(* process on the sending end, read_packet on the receiving end, and the    *)
(* read_raw / write_raw of tcp_client they run on.                          *)
(*                                                                          *)
(* A byte is <<p, i>>, the i-th byte of the frame of packet p; bytes 1..H of *)
(* a frame are its pkt_header_t.  Contents and hash of the header are        *)
(* abstracted: H bytes pass is_valid_pkt_header exactly when they are the    *)
(* header bytes of one frame, in order.                                      *)
EXTENDS Integers, Sequences

CONSTANTS Conns,       \* connections; their receiving ends live in one process
          NoConn,      \* what a reader that is not in read_packet works on
          Writers,     \* threads that call write_packet and process
          Readers,     \* threads that call read_packet
          H,           \* sizeof(pkt_header_t)
          Sizes,       \* payload sizes in use
          NetMax,      \* NET_MAX_MESSAGE, the length of the receive buffer
          Faults,      \* whether connections may break by themselves
          MaxPackets   \* bound: packets accepted per connection

ASSUME NoConnAssumption == NoConn \notin Conns
ASSUME HeaderAssumption == H \in Nat \ {0}
ASSUME SizesAssumption == Sizes \subseteq Nat
ASSUME NetMaxAssumption == NetMax \in Nat \ {0}
ASSUME MaxPacketsAssumption == MaxPackets \in Nat

VARIABLES
  accepted,   \* every packet write_packet pushed, in order (history)
  queue,      \* m_out_pkt_data
  outBuf,     \* the bytes of m_out_buffer, <<>> for nullptr
  outSent,    \* m_out_data_sent
  wopen,      \* is_connected() of the sending end
  writing,    \* the connection a writer is about to process, after its push
  stream,     \* every byte the sending kernel took, in order (history)
  taken,      \* how many of them recv() has returned
  ropen,      \* is_connected() of the receiving end
  inBuf,      \* m_in_buffer
  inHdr,      \* m_in_pkt_header: the pkt_size it announces, NoHdr for magic 0
  buf,        \* the function-static receive buffer of read_packet
  pc, at, got,\* per reader: where it is, on which connection, bytes in buf
  delivered   \* the payloads read_packet has returned, in order (history)

sendVars == <<accepted, queue, outBuf, outSent, writing>>
recvVars == <<taken, inBuf, inHdr, buf, pc, at, got, delivered>>
vars == <<accepted, queue, outBuf, outSent, wopen, writing, stream, taken,
          ropen, inBuf, inHdr, buf, pc, at, got, delivered>>

NoHdr == -1

(* num and start number the packet and the first byte of its frame within   *)
(* the connection; they identify the packet, the program has neither.       *)
Packets == [conn : Conns, num : Nat \ {0}, size : Sizes, start : Nat \ {0}]

Bytes == Packets \X Nat

FrameLen(p) == H + p.size
Frame(p) == [i \in 1 .. FrameLen(p) |-> <<p, i>>]
Payload(p) == [i \in 1 .. p.size |-> <<p, H + i>>]

(* The number of stream bytes that the first n accepted packets occupy.     *)
EndOf(c, n) == IF n = 0 THEN 0
               ELSE accepted[c][n].start + FrameLen(accepted[c][n]) - 1

NewPacket(c, s) == LET n == Len(accepted[c])
                   IN [conn |-> c, num |-> n + 1, size |-> s,
                       start |-> EndOf(c, n) + 1]

Init ==
  /\ accepted = [c \in Conns |-> <<>>]
  /\ queue = [c \in Conns |-> <<>>]
  /\ outBuf = [c \in Conns |-> <<>>]
  /\ outSent = [c \in Conns |-> 0]
  /\ wopen = [c \in Conns |-> TRUE]
  /\ writing = [w \in Writers |-> NoConn]
  /\ stream = [c \in Conns |-> <<>>]
  /\ taken = [c \in Conns |-> 0]
  /\ ropen = [c \in Conns |-> TRUE]
  /\ inBuf = [c \in Conns |-> <<>>]
  /\ inHdr = [c \in Conns |-> NoHdr]
  /\ buf = [i \in 1 .. NetMax |-> <<>>]
  /\ pc = [t \in Readers |-> "idle"]
  /\ at = [t \in Readers |-> NoConn]
  /\ got = [t \in Readers |-> 0]
  /\ delivered = [c \in Conns |-> <<>>]

-----------------------------------------------------------------------------
(* The sending end.                                                         *)

(* write_packet up to its call of process().  The test of is_connected()    *)
(* and the push are one step: a close in between reads and writes nothing   *)
(* of the queue, so it may as well come after the push.                     *)
WritePacket(w, c, s) ==
  /\ writing[w] = NoConn
  /\ wopen[c]
  /\ Len(accepted[c]) < MaxPackets
  /\ accepted' = [accepted EXCEPT ![c] = Append(@, NewPacket(c, s))]
  /\ queue' = [queue EXCEPT ![c] = Append(@, NewPacket(c, s))]
  /\ writing' = [writing EXCEPT ![w] = c]
  /\ UNCHANGED <<outBuf, outSent, wopen, stream, ropen, recvVars>>

(* A writer that has pushed runs process() on that connection; one that has *)
(* not may run it on any connection, which is what the mux loops do.        *)
Calls(w, c) == /\ writing[w] \in {c, NoConn}
               /\ writing' = [writing EXCEPT ![w] = NoConn]

(* process() that finds the connection closed or nothing to send.           *)
ProcessNothing(w, c) ==
  /\ Calls(w, c)
  /\ ~wopen[c] \/ queue[c] = <<>>
  /\ UNCHANGED <<accepted, queue, outBuf, outSent, wopen, stream, ropen,
                 recvVars>>

(* The buffer process() sends from: the one at hand, or a new frame of the  *)
(* packet at the front, which stays queued until its frame has gone out.    *)
OutFrame(c) == IF outBuf[c] = <<>> THEN Frame(Head(queue[c])) ELSE outBuf[c]
OutFrom(c) == IF outBuf[c] = <<>> THEN 0 ELSE outSent[c]

(* What is left to send, and the next n bytes of it.                        *)
Left(c) == IF queue[c] = <<>> THEN 0 ELSE Len(OutFrame(c)) - OutFrom(c)
Written(c, n) == SubSeq(OutFrame(c), OutFrom(c) + 1, OutFrom(c) + n)

(* Mutant of Transmit: the reset for datagram sockets (lines 153-156) done  *)
(* on every socket.                                                         *)
TransmitRestarts(w, c, n) ==
  /\ Calls(w, c)
  /\ wopen[c] /\ queue[c] # <<>>
  /\ n \in 0 .. Left(c)
  /\ stream' = [stream EXCEPT ![c] = @ \o Written(c, n)]
  /\ outSent' = [outSent EXCEPT ![c] = 0]
  /\ outBuf' = [outBuf EXCEPT ![c] = IF n = Left(c) THEN <<>> ELSE OutFrame(c)]
  /\ queue' = [queue EXCEPT ![c] = IF n = Left(c) THEN Tail(@) ELSE @]
  /\ UNCHANGED <<accepted, wopen, ropen, recvVars>>

(* process() whose write_raw, after any number of send() calls, has given   *)
(* the next n bytes to the kernel.                                          *)
Transmit(w, c, n) ==
  /\ Calls(w, c)
  /\ wopen[c] /\ queue[c] # <<>>
  /\ n \in 0 .. Left(c)
  /\ stream' = [stream EXCEPT ![c] = @ \o Written(c, n)]
  /\ IF n = Left(c)
       THEN /\ queue' = [queue EXCEPT ![c] = Tail(@)]
            /\ outBuf' = [outBuf EXCEPT ![c] = <<>>]
            /\ outSent' = [outSent EXCEPT ![c] = 0]
       ELSE /\ outBuf' = [outBuf EXCEPT ![c] = OutFrame(c)]
            /\ outSent' = [outSent EXCEPT ![c] = OutFrom(c) + n]
            /\ UNCHANGED queue
  /\ UNCHANGED <<accepted, wopen, ropen, recvVars>>

(* process() whose write_raw reports an error, possibly after some bytes    *)
(* went out: the connection is closed.                                      *)
TransmitFail(w, c, n) ==
  /\ Calls(w, c)
  /\ Faults \/ ~ropen[c]
  /\ wopen[c] /\ queue[c] # <<>>
  /\ n \in 0 .. Left(c) - 1
  /\ stream' = [stream EXCEPT ![c] = @ \o Written(c, n)]
  /\ outBuf' = [outBuf EXCEPT ![c] = OutFrame(c)]
  /\ outSent' = [outSent EXCEPT ![c] = OutFrom(c)]
  /\ wopen' = [wopen EXCEPT ![c] = FALSE]
  /\ UNCHANGED <<accepted, queue, ropen, recvVars>>

(* The owner of the sending end closes it.                                  *)
CloseWriter(c) ==
  /\ wopen[c]
  /\ wopen' = [wopen EXCEPT ![c] = FALSE]
  /\ UNCHANGED <<sendVars, stream, ropen, recvVars>>

-----------------------------------------------------------------------------
(* The receiving end.                                                       *)

Drop(s, n) == SubSeq(s, n + 1, Len(s))

(* read_packet is entered: is_connected() is tested before the lock.        *)
ReadPacket(t, c) ==
  /\ pc[t] = "idle"
  /\ ropen[c]
  /\ pc' = [pc EXCEPT ![t] = "lock"]
  /\ at' = [at EXCEPT ![t] = c]
  /\ UNCHANGED <<sendVars, wopen, stream, ropen, taken, inBuf, inHdr, buf, got,
                 delivered>>

(* m_in_mutex of c is held from the parsing to the end of the call.         *)
Locked(c) == \E t \in Readers : at[t] = c /\ pc[t] \in {"recv", "push"}

(* is_valid_pkt_header on the H bytes of b that follow the first k.         *)
ValidHeader(b, k) == \A j \in 1 .. H : b[k + j] = <<b[k + 1][1], j>>

(* The header loop: it ends at a valid header or when too few bytes remain, *)
(* and skips a byte otherwise.                                              *)
LoopEnds(b, k) == Len(b) - k <= H \/ ValidHeader(b, k)
Skipped(b) == CHOOSE k \in 0 .. Len(b) :
                LoopEnds(b, k) /\ \A i \in 0 .. k - 1 : ~LoopEnds(b, i)

(* Mutant of HasHeader: room for one byte more is asked for.                *)
HasHeaderAndMore(b) == Len(b) - Skipped(b) > H + 1
HasHeader(b) == Len(b) - Skipped(b) > H

(* m_in_pkt_header and m_in_buffer after the header loop.                   *)
Header(c) == CASE inHdr[c] # NoHdr -> inHdr[c]
               [] inHdr[c] = NoHdr /\ HasHeader(inBuf[c]) ->
                    inBuf[c][Skipped(inBuf[c]) + 1][1].size
               [] OTHER -> NoHdr

(* Mutant of Rest: the header is parsed but not popped.                     *)
RestWithHeader(c) == IF inHdr[c] # NoHdr THEN inBuf[c]
                     ELSE Drop(inBuf[c], Skipped(inBuf[c]))
Rest(c) == CASE inHdr[c] # NoHdr -> inBuf[c]
             [] inHdr[c] = NoHdr /\ HasHeader(inBuf[c]) ->
                  Drop(inBuf[c], Skipped(inBuf[c]) + H)
             [] OTHER -> Drop(inBuf[c], Skipped(inBuf[c]))
Complete(c) == Header(c) # NoHdr /\ Len(Rest(c)) >= Header(c)

(* Mutant of ReadComplete: the header is not reset after its packet.        *)
ReadCompleteKeepsHeader(t, c) ==
  /\ pc[t] = "lock" /\ at[t] = c
  /\ ~Locked(c)
  /\ Complete(c)
  /\ delivered' = [delivered EXCEPT
                     ![c] = Append(@, SubSeq(Rest(c), 1, Header(c)))]
  /\ inBuf' = [inBuf EXCEPT ![c] = Drop(Rest(c), Header(c))]
  /\ inHdr' = [inHdr EXCEPT ![c] = Header(c)]
  /\ pc' = [pc EXCEPT ![t] = "idle"]
  /\ at' = [at EXCEPT ![t] = NoConn]
  /\ UNCHANGED <<sendVars, wopen, stream, ropen, taken, buf, got>>

(* Under the lock, a complete packet is cut off the buffer and returned.    *)
ReadComplete(t, c) ==
  /\ pc[t] = "lock" /\ at[t] = c
  /\ ~Locked(c)
  /\ Complete(c)
  /\ delivered' = [delivered EXCEPT
                     ![c] = Append(@, SubSeq(Rest(c), 1, Header(c)))]
  /\ inBuf' = [inBuf EXCEPT ![c] = Drop(Rest(c), Header(c))]
  /\ inHdr' = [inHdr EXCEPT ![c] = NoHdr]
  /\ pc' = [pc EXCEPT ![t] = "idle"]
  /\ at' = [at EXCEPT ![t] = NoConn]
  /\ UNCHANGED <<sendVars, wopen, stream, ropen, taken, buf, got>>

(* Otherwise the call goes on to read_raw, with the lock held.              *)
ReadMore(t, c) ==
  /\ pc[t] = "lock" /\ at[t] = c
  /\ ~Locked(c)
  /\ ~Complete(c)
  /\ inBuf' = [inBuf EXCEPT ![c] = Rest(c)]
  /\ inHdr' = [inHdr EXCEPT ![c] = Header(c)]
  /\ pc' = [pc EXCEPT ![t] = "recv"]
  /\ UNCHANGED <<sendVars, wopen, stream, ropen, taken, buf, at, got, delivered>>

(* Mutant of Recv: each recv() may fill the whole length again.             *)
RecvWholeLength(t, c, n) ==
  /\ pc[t] = "recv" /\ at[t] = c
  /\ ropen[c]
  /\ n \in 1 .. NetMax
  /\ taken[c] + n <= Len(stream[c])
  /\ buf' = [i \in 1 .. NetMax |->
               IF i \in got[t] + 1 .. got[t] + n
               THEN stream[c][taken[c] + i - got[t]] ELSE buf[i]]
  /\ taken' = [taken EXCEPT ![c] = @ + n]
  /\ got' = [got EXCEPT ![t] = @ + n]
  /\ pc' = [pc EXCEPT ![t] = IF got[t] + n = NetMax THEN "push" ELSE "recv"]
  /\ UNCHANGED <<sendVars, wopen, stream, ropen, inBuf, inHdr, at, delivered>>

(* One recv() of read_raw's loop copies n bytes into the static buffer; the *)
(* loop ends by itself when the buffer is full.                             *)
Recv(t, c, n) ==
  /\ pc[t] = "recv" /\ at[t] = c
  /\ ropen[c]
  /\ n \in 1 .. NetMax - got[t]
  /\ taken[c] + n <= Len(stream[c])
  /\ buf' = [i \in 1 .. NetMax |->
               IF i \in got[t] + 1 .. got[t] + n
               THEN stream[c][taken[c] + i - got[t]] ELSE buf[i]]
  /\ taken' = [taken EXCEPT ![c] = @ + n]
  /\ got' = [got EXCEPT ![t] = @ + n]
  /\ pc' = [pc EXCEPT ![t] = IF got[t] + n = NetMax THEN "push" ELSE "recv"]
  /\ UNCHANGED <<sendVars, wopen, stream, ropen, inBuf, inHdr, at, delivered>>

(* Nothing has arrived (yet): read_raw returns what its loop has so far.    *)
RecvNothing(t, c) ==
  /\ pc[t] = "recv" /\ at[t] = c
  /\ pc' = [pc EXCEPT ![t] = "push"]
  /\ UNCHANGED <<sendVars, wopen, stream, ropen, taken, inBuf, inHdr, buf, at,
                 got, delivered>>

(* read_raw returns -1 and read_packet closes the connection: what this     *)
(* call had copied into buf is dropped.                                     *)
GiveUp(t, c) ==
  /\ ropen' = [ropen EXCEPT ![c] = FALSE]
  /\ pc' = [pc EXCEPT ![t] = "idle"]
  /\ at' = [at EXCEPT ![t] = NoConn]
  /\ got' = [got EXCEPT ![t] = 0]
  /\ UNCHANGED <<sendVars, wopen, stream, taken, inBuf, inHdr, buf, delivered>>

(* recv() fails, or the connection was closed under the reader.             *)
RecvFail(t, c) ==
  /\ pc[t] = "recv" /\ at[t] = c
  /\ Faults \/ ~ropen[c]
  /\ GiveUp(t, c)

(* recv() returns 0 at the end of the stream.  It leaves errno as it was:   *)
(* with a stale error read_raw gives up, with 0 it returns what it has, the *)
(* step RecvNothing.                                                        *)
EndOfStream(c) == ropen[c] /\ ~wopen[c] /\ taken[c] = Len(stream[c])

RecvEnd(t, c) ==
  /\ pc[t] = "recv" /\ at[t] = c
  /\ EndOfStream(c)
  /\ GiveUp(t, c)

(* read_packet appends what was read, unlocks and returns nullptr.          *)
Push(t, c) ==
  /\ pc[t] = "push" /\ at[t] = c
  /\ inBuf' = [inBuf EXCEPT ![c] = @ \o SubSeq(buf, 1, got[t])]
  /\ pc' = [pc EXCEPT ![t] = "idle"]
  /\ at' = [at EXCEPT ![t] = NoConn]
  /\ got' = [got EXCEPT ![t] = 0]
  /\ UNCHANGED <<sendVars, wopen, stream, ropen, taken, inHdr, buf, delivered>>

(* The owner of the receiving end closes it.                                *)
CloseReader(c) ==
  /\ ropen[c]
  /\ ropen' = [ropen EXCEPT ![c] = FALSE]
  /\ UNCHANGED <<sendVars, wopen, stream, recvVars>>

-----------------------------------------------------------------------------
Send(w, c) == \/ \E s \in Sizes : WritePacket(w, c, s)
              \/ ProcessNothing(w, c)
              \/ \E n \in 0 .. Left(c) : Transmit(w, c, n)
              \/ \E n \in 0 .. Left(c) : TransmitFail(w, c, n)

(* A reader inside read_packet.                                             *)
Read(t, c) == \/ ReadComplete(t, c)
              \/ ReadMore(t, c)
              \/ \E n \in 1 .. NetMax : Recv(t, c, n)
              \/ RecvNothing(t, c)
              \/ RecvFail(t, c)
              \/ RecvEnd(t, c)
              \/ Push(t, c)

Next == \E c \in Conns :
          \/ \E w \in Writers : Send(w, c)
          \/ \E t \in Readers : ReadPacket(t, c) \/ Read(t, c)
          \/ CloseWriter(c)
          \/ CloseReader(c)

Spec == Init /\ [][Next]_vars

(* The loops of the two ends: a writer finishes its call; some thread keeps *)
(* calling process() on every connection and the kernel keeps making room   *)
(* (run() of the mux endpoints calls process() each round); a reader goes   *)
(* through its connections for ever (the worker loop of concurrent_server)  *)
(* and finishes each call; bytes given to the kernel arrive.  Nobody has to *)
(* close anything.                                                          *)
FinishWrite(w, c) ==
  writing[w] = c /\ (ProcessNothing(w, c)
                       \/ \E n \in 0 .. Left(c) : Transmit(w, c, n))

Progress(c) ==
  /\ \A w \in Writers : WF_vars(FinishWrite(w, c))
  /\ SF_vars(\E w \in Writers : \E n \in 1 .. Left(c) : Transmit(w, c, n))
  /\ \A t \in Readers :
       /\ SF_vars(ReadPacket(t, c))
       /\ WF_vars(Read(t, c))
       /\ SF_vars(\E n \in 1 .. NetMax : Recv(t, c, n))

FairSpec == Spec /\ \A c \in Conns : Progress(c)

-----------------------------------------------------------------------------
(* Properties.                                                              *)

(* The variables keep their types.                                          *)
TypeOK ==
  /\ accepted \in [Conns -> Seq(Packets)]
  /\ queue \in [Conns -> Seq(Packets)]
  /\ outBuf \in [Conns -> Seq(Bytes)]
  /\ outSent \in [Conns -> Nat]
  /\ wopen \in [Conns -> BOOLEAN]
  /\ writing \in [Writers -> Conns \cup {NoConn}]
  /\ stream \in [Conns -> Seq(Bytes)]
  /\ taken \in [Conns -> Nat]
  /\ ropen \in [Conns -> BOOLEAN]
  /\ inBuf \in [Conns -> Seq(Bytes)]
  /\ inHdr \in [Conns -> Sizes \cup {NoHdr}]
  /\ buf \in [1 .. NetMax -> Bytes \cup {<<>>}]
  /\ pc \in [Readers -> {"idle", "lock", "recv", "push"}]
  /\ at \in [Readers -> Conns \cup {NoConn}]
  /\ got \in [Readers -> 0 .. NetMax]
  /\ delivered \in [Conns -> Seq(Seq(Bytes))]

(* The static receive buffer is not shared: one reader, or one connection   *)
(* whose lock its readers respect.                                          *)
OneBuffer == \/ \A t, u \in Readers : t = u
             \/ \A c, d \in Conns : c = d

(* read_packet returns the packets that write_packet took, whole, unmixed,  *)
(* once and in order (packet_proto.cpp:27-61), however the stream was cut   *)
(* into pieces by write_raw and read_raw.                                   *)
DeliveredInOrder ==
  \A c \in Conns :
    /\ Len(delivered[c]) <= Len(accepted[c])
    /\ \A i \in 1 .. Len(delivered[c]) :
         delivered[c][i] = Payload(accepted[c][i])

(* The k-th byte that the accepted packets of c make, one frame after the   *)
(* other.                                                                   *)
ByteAt(c, k, x) ==
  \E i \in 1 .. Len(accepted[c]) :
    LET p == accepted[c][i]
    IN  /\ k - p.start + 1 \in 1 .. FrameLen(p)
        /\ x = <<p, k - p.start + 1>>

(* The stream is the frames of the accepted packets one after the other: no *)
(* partial write is repeated, skipped or interleaved with another packet    *)
(* (packet_proto.cpp:118-157), whoever calls process().                     *)
StreamIsFrames ==
  \A c \in Conns : \A k \in 1 .. Len(stream[c]) : ByteAt(c, k, stream[c][k])

(* For the channel a packet is its number and size.  A payload that is not  *)
(* the one of the packet whose turn it is maps to no packet.                *)
Content(p) == [num |-> p.num, size |-> p.size]
Sent(c) == [i \in 1 .. Len(accepted[c]) |-> Content(accepted[c][i])]
Received(c) == [i \in 1 .. Len(delivered[c]) |->
                  IF /\ i <= Len(accepted[c])
                     /\ delivered[c][i] = Payload(accepted[c][i])
                  THEN Content(accepted[c][i]) ELSE <<>>]

Channel == INSTANCE PacketChannel
             WITH Packets <- [num : 1 .. MaxPackets, size : Sizes],
                  accepted <- [c \in Conns |-> Sent(c)],
                  delivered <- [c \in Conns |-> Received(c)]

(* packet_proto implements the packet channel: every step of either end is  *)
(* a step of the channel or leaves it unchanged.                            *)
ImplementsChannel == Channel!Spec

(* A packet with a payload that was accepted is returned by read_packet     *)
(* unless one of the ends is closed, however the kernel cuts the stream     *)
(* (the follow-up of packet_proto.cpp:37, 53 and 146).  A packet without    *)
(* payload is delivered only once a byte follows it.                        *)
Wanted(c, i) == \E j \in i .. Len(accepted[c]) :
                  accepted[c][j].size > 0 \/ j > i
EventuallyDelivered ==
  \A c \in Conns : \A i \in 1 .. MaxPackets :
    (i <= Len(accepted[c]) /\ Wanted(c, i))
      ~> (i <= Len(delivered[c]) \/ ~wopen[c] \/ ~ropen[c])
=============================================================================
