------------------------------ MODULE TlsClient ------------------------------
(* Two networkio::tls::client objects, a connecting one and the one that    *)
(* tls::server::accept makes: what they keep between Botan, which makes and *)
(* understands records, and a tcp_client, which takes and gives any number  *)
(* of bytes.  Byte number i of an end is byte i of all that its Botan has   *)
(* emitted; every record has RecordLen bytes.                               *)
EXTENDS Integers, FiniteSets, SequencesExt

CONSTANTS
  Connecting, Accepted,   \* the two ends
  RecordLen,
  MaxData(_),             \* bound: records of user data an end writes
  MaxConnects             \* bound: calls of connect

ASSUME EndsAssumption == Connecting # Accepted
ASSUME RecordAssumption == RecordLen \in Nat \ {0}
ASSUME MaxDataAssumption == \A x \in {Connecting, Accepted} : MaxData(x) \in Nat

VARIABLES
  m_client,      \* the socket: "open", "closed", or "null" when it is let go
  m_tls_channel, \* "handshake", "active" or "closed"
  m_out_buffer,  \* bytes emitted by Botan and not given to the socket
  m_in_buffer,   \* user data that Botan has decrypted
  step,          \* what the thread of the end does next, see Steps
  call,          \* "finish" (finish_connection), "read", "write" or "close"
  returned,      \* user data that read_raw has returned
  emitted,       \* every record Botan has emitted, by its content
  received,      \* bytes of the record that Botan has not got completely
  wire,          \* bytes of the other end that the kernel holds for this one
  fin,           \* the end of the stream from the other end: "no", or
                 \* "reported" by the socket, or "silent"
  connects       \* calls of connect

channel == <<m_tls_channel, emitted, received>>
buffers == <<m_out_buffer, m_in_buffer, returned>>
network == <<wire, fin, connects>>
vars == <<m_client, channel, buffers, step, call, network>>

Ends == {Connecting, Accepted}
Other(x) == IF x = Connecting THEN Accepted ELSE Connecting

(* user: outside of all calls; send, recv: in _send and _recv of            *)
(* finish_connection or read_raw; botan: in received_data; emit: in the     *)
(* _send of tls_emit_data.                                                  *)
Steps == {"user", "send", "recv", "botan", "emit"}

Data(i) == <<"data", i>>
Flight(i) == <<"flight", i>>
CloseNotify == <<"close_notify", 0>>
FatalAlert == <<"fatal", 0>>

(* How many of the first n records that an end emits carry user data.       *)
DataAmong(x, n) == Cardinality({i \in 1 .. n : emitted[x][i][1] = "data"})

(* connect() has its tcp connection, the buffers are clear and Botan's      *)
(* client has emitted its hello; accept() has taken the connection.         *)
HelloOnly == [x \in Ends |-> IF x = Connecting THEN <<Flight(1)>> ELSE <<>>]
HelloBytes ==
  [x \in Ends |-> IF x = Connecting THEN [i \in 1 .. RecordLen |-> i] ELSE <<>>]
OfBoth(value) == [x \in Ends |-> value]

Init ==
  /\ m_client = OfBoth("open") /\ m_tls_channel = OfBoth("handshake")
  /\ emitted = HelloOnly /\ received = OfBoth(<<>>)
  /\ m_out_buffer = HelloBytes /\ m_in_buffer = OfBoth(<<>>) /\ returned = OfBoth(<<>>)
  /\ step = OfBoth("send") /\ call = OfBoth("finish")
  /\ wire = OfBoth(<<>>) /\ fin = OfBoth("no")
  /\ connects = 1

IsClosed(x) == m_client[x] # "open" \/ m_tls_channel[x] = "closed"
IsConnected(x) == m_client[x] = "open" /\ m_tls_channel[x] = "active"

Goto(x, s) == step' = [step EXCEPT ![x] = s]

-----------------------------------------------------------------------------
NewBytes(x) == [i \in 1 .. RecordLen |-> RecordLen * Len(emitted[x]) + i]

(* Botan emits a record: tls_emit_data pushes its bytes.                    *)
Emits(x, record) ==
  /\ emitted' = [emitted EXCEPT ![x] = Append(@, record)]
  /\ m_out_buffer' = [m_out_buffer EXCEPT ![x] = @ \o NewBytes(x)]

(* Botan closes the channel and says so, unless it is closed.               *)
ClosesChannel(x, alert) ==
  /\ m_tls_channel' = [m_tls_channel EXCEPT ![x] = "closed"]
  /\ IF m_tls_channel[x] = "closed" THEN UNCHANGED <<emitted, m_out_buffer>>
                                    ELSE Emits(x, alert)

(* Mutant of AfterSend: the handshake receives only when it cannot send.    *)
SendOnly(x) == CASE step[x] = "send" -> "botan"
                 [] step[x] = "emit" /\ call[x] \in {"write", "close"} -> "user"
                 [] OTHER -> "botan"

(* After _send: back into Botan, on to _recv, or out of the call.           *)
AfterSend(x) == CASE step[x] = "send" -> "recv"
                  [] step[x] = "emit" /\ call[x] \in {"write", "close"} -> "user"
                  [] OTHER -> "botan"

(* Mutant of Rest: all of it is pushed back.                                *)
RestIsAll(buf, sent) == IF sent = Len(buf) THEN <<>> ELSE buf

Rest(buf, sent) == SubSeq(buf, sent + 1, Len(buf))

(* _send: the socket takes a part of the buffer, the rest is pushed back.   *)
Send(x) ==
  /\ step[x] \in {"send", "emit"} /\ m_client[x] = "open"
  /\ \E sent \in 0 .. Len(m_out_buffer[x]) :
       /\ m_out_buffer' = [m_out_buffer EXCEPT ![x] = Rest(@, sent)]
       /\ wire' = [wire EXCEPT ![Other(x)] =
            IF fin[Other(x)] # "no" \/ m_client[Other(x)] # "open"
              THEN @ ELSE @ \o SubSeq(m_out_buffer[x], 1, sent)]
  /\ Goto(x, AfterSend(x))
  /\ UNCHANGED <<m_client, channel, m_in_buffer, returned, call, fin, connects>>

(* _send without a connected socket, after tls_alert: nothing happens.      *)
SendRefused(x) ==
  /\ step[x] = "emit" /\ m_client[x] # "open"
  /\ Goto(x, AfterSend(x))
  /\ UNCHANGED <<m_client, channel, buffers, call, network>>

(* A socket is closed: tcp_client::read_raw of the other end returns -1, or *)
(* 0 for ever when errno is 0 (tcp.cpp:221-228).                            *)
EndsStream(x) ==
  IF fin[x] # "no" THEN UNCHANGED fin
  ELSE \E end \in {"reported", "silent"} : fin' = [fin EXCEPT ![x] = end]

(* A socket that is to send bytes notices any end, one that receives a      *)
(* reported one.                                                            *)
Noticed(x) == \/ fin[x] = "reported"
              \/ fin[x] = "silent" /\ step[x] # "recv" /\ m_out_buffer[x] # <<>>

(* The socket reports an error: it is not connected any more.  What _send   *)
(* had popped is freed; close() pushes an alert that nobody will send;      *)
(* tls_emit_data does not look at the result.                               *)
SocketFails(x) ==
  LET left == IF step[x] = "recv" THEN m_out_buffer[x] ELSE <<>> IN
  /\ step[x] \in {"send", "emit", "recv"} /\ m_client[x] = "open" /\ Noticed(x)
  /\ m_client' = [m_client EXCEPT ![x] = "closed"]
  /\ wire' = [wire EXCEPT ![x] = <<>>]
  /\ EndsStream(Other(x))
  /\ m_tls_channel' = [m_tls_channel EXCEPT ![x] = "closed"]
  /\ IF m_tls_channel[x] = "closed"
       THEN /\ m_out_buffer' = [m_out_buffer EXCEPT ![x] = left]
            /\ UNCHANGED emitted
       ELSE /\ m_out_buffer' = [m_out_buffer EXCEPT ![x] = left \o NewBytes(x)]
            /\ emitted' = [emitted EXCEPT ![x] = Append(@, CloseNotify)]
  /\ Goto(x, IF step[x] = "emit" THEN AfterSend(x) ELSE "user")
  /\ UNCHANGED <<received, m_in_buffer, returned, call, connects>>

(* _recv: the socket has n bytes, which received_data gets.                 *)
Recv(x) ==
  /\ step[x] = "recv" /\ m_client[x] = "open"
  /\ \E n \in 0 .. Len(wire[x]) :
       /\ received' = [received EXCEPT ![x] = @ \o SubSeq(wire[x], 1, n)]
       /\ wire' = [wire EXCEPT ![x] = SubSeq(@, n + 1, Len(@))]
  /\ Goto(x, "botan")
  /\ UNCHANGED <<m_client, m_tls_channel, emitted, buffers, call, fin, connects>>

-----------------------------------------------------------------------------
(* Botan has a complete record; its bytes have to follow each other.        *)
HasRecord(x) == /\ step[x] = "botan" /\ m_tls_channel[x] # "closed"
                /\ Len(received[x]) >= RecordLen
InSequence(x) == \A i \in 1 .. RecordLen :
                   /\ received[x][i] = received[x][1] + i - 1
                   /\ i = 1 => received[x][i] % RecordLen = 1 % RecordLen
Record(x) == emitted[Other(x)][(received[x][1] - 1) \div RecordLen + 1]
Consumed(x) == [received EXCEPT ![x] = SubSeq(@, RecordLen + 1, Len(@))]

(* tls_record_received.                                                     *)
RecordReceived(x) ==
  /\ HasRecord(x) /\ InSequence(x) /\ Record(x)[1] = "data"
  /\ m_in_buffer' = [m_in_buffer EXCEPT ![x] = Append(@, Record(x))]
  /\ received' = Consumed(x)
  /\ UNCHANGED <<m_client, m_tls_channel, emitted, m_out_buffer, returned, step,
                 call, network>>

(* The handshake: flights 1 and 3 of the client, 2 and 4 of the server.     *)
HandshakeReceived(x) ==
  LET i == Record(x)[2] IN
  /\ HasRecord(x) /\ InSequence(x) /\ Record(x)[1] = "flight"
  /\ received' = Consumed(x)
  /\ m_tls_channel' = [m_tls_channel EXCEPT ![x] = IF i > 2 THEN "active" ELSE @]
  /\ IF i < 4 THEN Emits(x, Flight(i + 1)) /\ Goto(x, "emit")
              ELSE UNCHANGED <<emitted, m_out_buffer, step>>
  /\ UNCHANGED <<m_client, m_in_buffer, returned, call, network>>

(* tls_alert: the socket is closed and let go; then Botan answers in kind.  *)
CloseNotifyReceived(x) ==
  /\ HasRecord(x) /\ InSequence(x) /\ Record(x) = CloseNotify
  /\ received' = Consumed(x)
  /\ m_client' = [m_client EXCEPT ![x] = "null"]
  /\ EndsStream(Other(x))
  /\ wire' = [wire EXCEPT ![x] = <<>>]
  /\ ClosesChannel(x, CloseNotify)
  /\ Goto(x, "emit")
  /\ UNCHANGED <<m_in_buffer, returned, call, connects>>

(* tls_alert with another alert: only Botan closes the channel.             *)
FatalReceived(x) ==
  /\ HasRecord(x) /\ InSequence(x) /\ Record(x) = FatalAlert
  /\ received' = Consumed(x)
  /\ m_tls_channel' = [m_tls_channel EXCEPT ![x] = "closed"]
  /\ UNCHANGED <<m_client, emitted, buffers, step, call, network>>

(* received_data throws, because a record is bad or the policy forbids the  *)
(* handshake: Botan has emitted its alert, and the call fails.              *)
BotanThrows(x) ==
  /\ HasRecord(x) /\ (~InSequence(x) \/ m_tls_channel[x] = "handshake")
  /\ ClosesChannel(x, FatalAlert)
  /\ Goto(x, "emit") /\ call' = [call EXCEPT ![x] = "close"]
  /\ UNCHANGED <<m_client, received, m_in_buffer, returned, network>>

BotanDone(x) == step[x] = "botan" /\ ~HasRecord(x)

(* The loop of finish_connection; a channel that is closed ends it too.     *)
FinishConnection(x) ==
  /\ BotanDone(x) /\ call[x] = "finish"
  /\ Goto(x, IF m_tls_channel[x] = "handshake" /\ m_client[x] = "open"
               THEN "send" ELSE "user")
  /\ UNCHANGED <<m_client, channel, buffers, call, network>>

(* Mutant of PopFront: the last bytes go instead of the first.              *)
PopBack(s, n) == SubSeq(s, 1, Len(s) - n)

PopFront(s, n) == SubSeq(s, n + 1, Len(s))

(* The end of read_raw: n of the decrypted bytes are returned.              *)
ReadReturns(x) ==
  /\ BotanDone(x) /\ call[x] = "read"
  /\ \E n \in 0 .. Len(m_in_buffer[x]) :
       /\ n = 0 => m_in_buffer[x] = <<>>
       /\ returned' = [returned EXCEPT ![x] = @ \o SubSeq(m_in_buffer[x], 1, n)]
       /\ m_in_buffer' = [m_in_buffer EXCEPT ![x] = PopFront(@, n)]
  /\ Goto(x, "user")
  /\ UNCHANGED <<m_client, channel, m_out_buffer, call, network>>

-----------------------------------------------------------------------------
(* The user.  read_raw of a closed connection returns -1 at once, also when *)
(* m_in_buffer holds data.                                                  *)
ReadRaw(x) ==
  /\ step[x] = "user" /\ ~IsClosed(x)
  /\ Goto(x, "recv") /\ call' = [call EXCEPT ![x] = "read"]
  /\ UNCHANGED <<m_client, channel, buffers, network>>

Written(x) == DataAmong(x, Len(emitted[x]))

(* write_raw: Botan makes a record of it, and the length is returned.       *)
WriteRaw(x) ==
  /\ step[x] = "user" /\ IsConnected(x) /\ Written(x) < MaxData(x)
  /\ Emits(x, Data(Written(x) + 1))
  /\ Goto(x, "emit") /\ call' = [call EXCEPT ![x] = "write"]
  /\ UNCHANGED <<m_client, m_tls_channel, received, m_in_buffer, returned, network>>

Close(x) ==
  /\ step[x] = "user" /\ m_tls_channel[x] # "closed"
  /\ ClosesChannel(x, CloseNotify)
  /\ Goto(x, "emit") /\ call' = [call EXCEPT ![x] = "close"]
  /\ UNCHANGED <<m_client, received, m_in_buffer, returned, network>>

(* The destructor, after close(): the socket is closed too.                 *)
Destroy(x) ==
  /\ step[x] = "user" /\ m_client[x] = "open" /\ m_tls_channel[x] = "closed"
  /\ m_client' = [m_client EXCEPT ![x] = "closed"]
  /\ EndsStream(Other(x))
  /\ wire' = [wire EXCEPT ![x] = <<>>]
  /\ UNCHANGED <<channel, buffers, step, call, connects>>

(* connect() that gets no tcp connection: the old one has been closed, the  *)
(* old channel and the buffers stay.                                        *)
ConnectFails ==
  /\ step[Connecting] = "user" /\ connects < MaxConnects
  /\ m_client' = [m_client EXCEPT ![Connecting] = "null"]
  /\ EndsStream(Accepted)
  /\ wire' = [wire EXCEPT ![Connecting] = <<>>]
  /\ connects' = connects + 1
  /\ UNCHANGED <<channel, buffers, step, call>>

(* connect() again, and an accept() of the server, whose old object is gone *)
(* from the connection: by this object when its buffers are empty, for      *)
(* clear() leaves them broken otherwise (FifoBuffer), or by a new one.      *)
Connect ==
  /\ \A x \in Ends : step[x] = "user" /\ m_client[x] # "open"
  /\ connects < MaxConnects /\ connects' = connects + 1
  /\ m_client' = OfBoth("open") /\ m_tls_channel' = OfBoth("handshake")
  /\ emitted' = HelloOnly /\ received' = OfBoth(<<>>)
  /\ m_out_buffer' = HelloBytes /\ m_in_buffer' = OfBoth(<<>>)
  /\ returned' = OfBoth(<<>>)
  /\ step' = OfBoth("send") /\ call' = OfBoth("finish")
  /\ wire' = OfBoth(<<>>) /\ fin' = OfBoth("no")

(* The network: the connection is reset.                                    *)
Reset ==
  /\ fin' = OfBoth("reported") /\ fin' # fin
  /\ wire' = [x \in Ends |-> <<>>]
  /\ UNCHANGED <<m_client, channel, buffers, step, call, connects>>

Socket(x) == Send(x) \/ SendRefused(x) \/ SocketFails(x) \/ Recv(x)
Botan(x) == RecordReceived(x) \/ HandshakeReceived(x) \/ CloseNotifyReceived(x)
              \/ FatalReceived(x) \/ BotanThrows(x)
Returns(x) == FinishConnection(x) \/ ReadReturns(x)

Next ==
  \/ \E x \in Ends : \/ Socket(x) \/ Botan(x) \/ Returns(x)
                     \/ ReadRaw(x) \/ WriteRaw(x) \/ Close(x) \/ Destroy(x)
  \/ ConnectFails \/ Connect \/ Reset

(* A call goes on; the kernel moves bytes again and again, and reports the  *)
(* end of a stream one day; the user goes on reading.                       *)
Fairness ==
  \A x \in Ends :
    /\ WF_vars(Socket(x)) /\ WF_vars(Botan(x) \/ Returns(x)) /\ SF_vars(SocketFails(x))
    /\ SF_vars(Recv(x) /\ received' # received)
    /\ SF_vars(Send(x) /\ m_out_buffer'[x] = <<>> /\ m_out_buffer[x] # <<>>)
    /\ WF_vars(ReadRaw(x))

Spec == Init /\ [][Next]_vars /\ Fairness

-----------------------------------------------------------------------------
(* The variables keep their types.                                          *)
TypeOK ==
  \A x \in Ends :
    /\ m_client[x] \in {"open", "closed", "null"}
    /\ m_tls_channel[x] \in {"handshake", "active", "closed"}
    /\ step[x] \in Steps /\ call[x] \in {"finish", "read", "write", "close"}
    /\ Range(m_out_buffer[x]) \subseteq 1 .. RecordLen * Len(emitted[x])
    /\ Range(m_in_buffer[x]) \subseteq {Data(i) : i \in 1 .. MaxData(Other(x))}
    /\ fin[x] \in {"no", "reported", "silent"}

(* The bytes on their way, from Botan's incomplete record through the       *)
(* kernel to m_out_buffer, follow each other without a gap or a repetition: *)
(* Botan never sees a bad record (tls_client.cpp:217-237, 308-311).  The    *)
(* variables keep their types meanwhile.                                    *)
CipherInSequence ==
  /\ TypeOK
  /\ \A x \in Ends :
       LET s == received[Other(x)] \o wire[Other(x)] \o m_out_buffer[x] IN
       (m_client[x] = "open" /\ m_client[Other(x)] = "open" /\ fin[Other(x)] = "no") =>
         \A i \in 1 .. Len(s) : s[i] = RecordLen * Len(emitted[x]) - Len(s) + i

(* What read_raw returns is what the other end has written, from the first  *)
(* record on, without a gap or a repetition, and what it has not returned   *)
(* is still there (tls_client.cpp:160-166, 322-325).                        *)
PlainInOrder ==
  \A x \in Ends :
    LET s == returned[x] \o m_in_buffer[x] IN
    /\ Len(s) <= Written(Other(x))
    /\ \A i \in 1 .. Len(s) : s[i] = Data(i)

Waiting(x) == call[x] = "finish" /\ step[x] # "user"

(* finish_connection ends, unless the other end has left it already and     *)
(* holds back the last flight, for nothing sends what a partial write has   *)
(* left (tls_client.cpp:116-127, 233), or has closed a socket whose end     *)
(* nothing reports (tcp.cpp:224).                                           *)
HandshakeEnds ==
  \A x \in Ends :
    Waiting(x) ~> \/ ~Waiting(x)
                  \/ ~Waiting(Other(x)) /\ m_out_buffer[Other(x)] # <<>>
                  \/ fin[x] = "silent"
=============================================================================
