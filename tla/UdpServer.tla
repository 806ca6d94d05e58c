----------------------------- MODULE UdpServer -----------------------------
(* networkio::socket::udp_server: one socket for all peers.  Whichever      *)
(* thread receives a datagram files it in the byte queue of the udp_client  *)
(* object of its sender, from which packet_proto takes it later.  The       *)
(* network loses, duplicates and reorders datagrams.  A datagram is empty   *)
(* (the one of connect()) or the whole frame of one packet.                 *)
EXTENDS Integers, FiniteSets, Sequences, SequencesExt

CONSTANTS
  Peers,        \* the addresses of the connecting udp_clients
  Threads,      \* the threads that accept and serve
  Nobody,       \* no thread
  HeaderLen,    \* sizeof(pkt_header_t)
  Size(_),      \* payload bytes of packet i of a peer
  MaxSent(_),   \* bound: packets a peer writes
  NetMax,       \* NET_MAX_MESSAGE
  MaxArrivals   \* bound: datagrams the server receives

ASSUME SizesAssumption ==
  /\ HeaderLen \in Nat \ {0} /\ NetMax \in Nat
  /\ \A p \in Peers : MaxSent(p) \in Nat /\ \A i \in 0 .. MaxSent(p) : Size(i) \in Nat
ASSUME NobodyAssumption == Nobody \notin Threads

VARIABLES
  m_connected,    \* of the peer's udp_client
  sent,           \* packets the peer has written
  up, down,       \* datagrams sent to the server; those under way to a peer
  open,           \* the shared socket is open
  lock,           \* m_mutex: the thread that holds it, or Nobody
  buf,            \* the static receive buffer of udp_server::_recv
  m_clients,      \* the addresses of the accepted objects, in order
  m_new_clients,  \* objects not accepted yet; an object is its index
  connected,      \* m_connected of each object
  m_buffer,       \* the byte queue of each object
  owner,          \* the thread that accepted the object, or Nobody
  inbox,          \* m_in_buffer of the object's packet_proto: whole frames
  delivered,      \* packets its read_packet has returned
  arrived,        \* per peer: every datagram recvfrom returned, in order
  call            \* per thread: where it is in accept or read_packet

peer == <<m_connected, sent>>
object == <<m_clients, m_new_clients, connected, m_buffer, owner, inbox>>
vars == <<peer, up, down, open, lock, buf, object, delivered, arrived, call>>

Idle == [pc |-> "idle", object |-> 0, from |-> Nobody]

(* Byte k of packet i of peer p; the first HeaderLen of them are the header.*)
Frame(p, i) == [k \in 1 .. HeaderLen + Size(i) |-> <<p, i, k>>]

Objects == 1 .. Len(m_clients)
Owned(t) == {o \in Objects : owner[o] = t}

Init ==
  /\ m_connected = [p \in Peers |-> FALSE]
  /\ sent = [p \in Peers |-> 0]
  /\ up = {}
  /\ down = [p \in Peers |-> {}]
  /\ open = TRUE
  /\ lock = Nobody
  /\ buf = <<>>
  /\ m_clients = <<>> /\ m_new_clients = <<>> /\ connected = <<>>
  /\ m_buffer = <<>> /\ owner = <<>> /\ inbox = <<>> /\ delivered = <<>>
  /\ arrived = [p \in Peers |-> <<>>]
  /\ call = [t \in Threads |-> Idle]

-----------------------------------------------------------------------------
(* The peers.  connect() sends an empty datagram and believes itself        *)
(* connected whatever becomes of it; it may be called again on the socket.  *)
Connect(p) ==
  /\ m_connected' = [m_connected EXCEPT ![p] = TRUE]
  /\ up' = up \cup {[from |-> p, data |-> <<>>]}
  /\ UNCHANGED <<sent, down, open, lock, buf, object, delivered,
                 arrived, call>>

(* write_packet: process() hands the whole frame to sendto; EAGAIN and a    *)
(* full kernel buffer only postpone it.                                     *)
Write(p) ==
  /\ m_connected[p] /\ sent[p] < MaxSent(p)
  /\ sent' = [sent EXCEPT ![p] = @ + 1]
  /\ up' = up \cup {[from |-> p, data |-> Frame(p, sent[p] + 1)]}
  /\ UNCHANGED <<m_connected, down, open, lock, buf, object,
                 delivered, arrived, call>>

(* read_packet of the peer: recvfrom returns one datagram, which is a whole *)
(* frame and is returned at once (packet 0 of the peer is the answer).      *)
PeerReads(p) ==
  \E d \in down[p] :
    /\ m_connected[p]
    /\ down' = [down EXCEPT ![p] = @ \ {d}]
    /\ UNCHANGED <<peer, up, open, lock, buf, object, delivered,
                   arrived, call>>

-----------------------------------------------------------------------------
(* The server.  A thread calls accept(), or read_packet() on an object that *)
(* it accepted; both receive at most one datagram, whoever it is for.       *)
(* accept() is a call with object 0.                                        *)
(* A frame without payload is parsed only when more bytes follow it.        *)
Complete(frames) ==
  frames # <<>> /\ (Len(Head(frames)) > HeaderLen \/ Len(frames) > 1)

(* read_packet with a packet at hand: it is returned and nothing received.  *)
ReadComplete(t, o) ==
  /\ call[t] = Idle /\ o \in Owned(t) /\ connected[o] /\ Complete(inbox[o])
  /\ delivered' = [delivered EXCEPT ![o] = Append(@, Head(inbox[o]))]
  /\ inbox' = [inbox EXCEPT ![o] = Tail(@)]
  /\ UNCHANGED <<peer, up, down, open, lock, buf, m_clients, m_new_clients,
                 connected, m_buffer, owner, arrived, call>>

Reads(t, o) ==
  o \in Owned(t) /\ connected[o] /\ ~Complete(inbox[o])

(* Mutant of LockFree: the guard of _recv is missing.                       *)
LockIgnored == TRUE

LockFree == lock = Nobody

Arrivals == FoldFunction(LAMBDA s, n : n + Len(s), 0, arrived)

(* The calls begin with _recv, which receives a datagram: in any order, as  *)
(* often as the network delivers it, or never.                              *)
Receive(t, o) ==
  \E d \in up :
    /\ call[t] = Idle /\ (o = 0 \/ Reads(t, o))
    /\ LockFree /\ open /\ Arrivals < MaxArrivals
    /\ lock' = t
    /\ buf' = d.data
    /\ arrived' = [arrived EXCEPT ![d.from] = Append(@, d.data)]
    /\ call' = [call EXCEPT ![t] = [pc |-> "file", object |-> o, from |-> d.from]]
    /\ UNCHANGED <<peer, up, down, open, object, delivered>>

(* can_recv() <= 0: nothing has come, or the socket is closed.              *)
ReceiveNothing(t, o) ==
  /\ call[t] = Idle /\ (o = 0 \/ Reads(t, o))
  /\ LockFree
  /\ call' = [call EXCEPT ![t].pc = "take", ![t].object = o]
  /\ UNCHANGED <<peer, up, down, open, lock, buf, object, delivered, arrived>>

Known(p) == {o \in Objects : m_clients[o] = p}

Queued(o, b) == m_buffer[o] \o b

(* Mutant of NewClient: the object is not put into m_new_clients.           *)
NewClientUnannounced(p) ==
  /\ m_clients' = Append(m_clients, p)
  /\ connected' = Append(connected, TRUE)
  /\ m_buffer' = Append(m_buffer, <<>>)
  /\ owner' = Append(owner, Nobody)
  /\ inbox' = Append(inbox, <<>>)
  /\ delivered' = Append(delivered, <<>>)
  /\ UNCHANGED m_new_clients

(* The datagram that makes a peer known is not queued.                      *)
NewClient(p) ==
  /\ m_clients' = Append(m_clients, p)
  /\ m_new_clients' = Append(m_new_clients, Len(m_clients) + 1)
  /\ connected' = Append(connected, TRUE)
  /\ m_buffer' = Append(m_buffer, <<>>)
  /\ owner' = Append(owner, Nobody)
  /\ inbox' = Append(inbox, <<>>)
  /\ delivered' = Append(delivered, <<>>)

KnownClient(p) ==
  /\ m_buffer' = [o \in Objects |-> IF o \in Known(p) THEN Queued(o, buf)
                                                     ELSE m_buffer[o]]
  /\ UNCHANGED <<m_clients, m_new_clients, connected, owner, inbox>>

(* The end of _recv; what stays in the static buffer is not read any more.  *)
Received(t) ==
  /\ lock' = Nobody
  /\ buf' = <<>>
  /\ call' = [call EXCEPT ![t] = [@ EXCEPT !.pc = "take", !.from = Nobody]]

(* The rest of _recv, up to the end of the search: the bytes go to the known*)
(* sender's object, or the sender has to be added.                          *)
File(t) ==
  LET p == call[t].from IN
  /\ call[t].pc = "file"
  /\ IF Len(buf) < NetMax /\ Known(p) = {}
       THEN /\ call' = [call EXCEPT ![t].pc = "add"]
            /\ UNCHANGED <<object, lock, buf>>
       ELSE /\ Received(t)
            /\ IF Len(buf) < NetMax THEN KnownClient(p) ELSE UNCHANGED object
  /\ UNCHANGED <<peer, up, down, open, delivered, arrived>>

Add(t) ==
  /\ call[t].pc = "add"
  /\ NewClient(call[t].from)
  /\ Received(t)
  /\ UNCHANGED <<peer, up, down, open, arrived>>

(* accept() after _recv: the oldest new object goes to the caller.          *)
TakeNew(t) ==
  /\ call[t].pc = "take" /\ call[t].object = 0 /\ LockFree
  /\ m_new_clients # <<>>
  /\ owner' = [owner EXCEPT ![Head(m_new_clients)] = t]
  /\ m_new_clients' = Tail(m_new_clients)
  /\ call' = [call EXCEPT ![t] = Idle]
  /\ UNCHANGED <<peer, up, down, open, lock, buf, m_clients, connected,
                 m_buffer, inbox, delivered, arrived>>

TakeNone(t) ==
  /\ call[t].pc = "take" /\ call[t].object = 0 /\ LockFree
  /\ m_new_clients = <<>>
  /\ call' = [call EXCEPT ![t] = Idle]
  /\ UNCHANGED <<peer, up, down, open, lock, buf, object, delivered, arrived>>

(* Mutant of WholeFrame: the size in the header is not compared with what   *)
(* was read.                                                                *)
BeginsWithHeader(b) ==
  Len(b) >= HeaderLen /\ b[1][3] = 1

(* The datagram branch of read_packet: the bytes are kept only if they are  *)
(* one header and the payload it announces.                                 *)
WholeFrame(b) ==
  /\ Len(b) >= HeaderLen
  /\ b[1][3] = 1
  /\ Len(b) = HeaderLen + Size(b[1][2])

(* Mutant of TakeBytes: more than fits is left in the queue.                *)
TakeBytesThatFit(t) ==
  LET o == call[t].object
      n == IF Len(m_buffer[o]) <= NetMax THEN Len(m_buffer[o]) ELSE 0
      b == SubSeq(m_buffer[o], 1, n)
  IN /\ call[t].pc = "take" /\ o # 0
     /\ m_buffer' = [m_buffer EXCEPT ![o] = SubSeq(@, n + 1, Len(@))]
     /\ inbox' = [inbox EXCEPT ![o] = IF WholeFrame(b) THEN Append(@, b) ELSE @]
     /\ call' = [call EXCEPT ![t] = Idle]
     /\ UNCHANGED <<peer, up, down, open, lock, buf, m_clients, m_new_clients,
                    connected, owner, delivered, arrived>>

(* udp_client::read_raw after _recv, and the rest of read_packet: up to     *)
(* NetMax bytes leave the queue, however many datagrams they are.           *)
TakeBytes(t) ==
  LET o == call[t].object
      n == IF Len(m_buffer[o]) < NetMax THEN Len(m_buffer[o]) ELSE NetMax
      b == SubSeq(m_buffer[o], 1, n)
  IN /\ call[t].pc = "take" /\ o # 0
     /\ m_buffer' = [m_buffer EXCEPT ![o] = SubSeq(@, n + 1, Len(@))]
     /\ inbox' = [inbox EXCEPT ![o] = IF WholeFrame(b) THEN Append(@, b) ELSE @]
     /\ call' = [call EXCEPT ![t] = Idle]
     /\ UNCHANGED <<peer, up, down, open, lock, buf, m_clients, m_new_clients,
                    connected, owner, delivered, arrived>>

(* write_packet on an object: sendto on the shared socket.                  *)
Answer(t) ==
  \E o \in Owned(t) :
    /\ call[t] = Idle /\ connected[o] /\ open /\ delivered[o] # <<>>
    /\ down' = [down EXCEPT ![m_clients[o]] = @ \cup {Frame(m_clients[o], 0)}]
    /\ UNCHANGED <<peer, up, open, lock, buf, object, delivered, arrived, call>>

(* udp_client::close of an object: the descriptor it closes is the server's.*)
CloseObject(t) ==
  \E o \in Owned(t) :
    /\ call[t] = Idle /\ connected[o]
    /\ connected' = [connected EXCEPT ![o] = FALSE]
    /\ open' = FALSE
    /\ UNCHANGED <<peer, up, down, lock, buf, m_clients, m_new_clients,
                   m_buffer, owner, inbox, delivered, arrived, call>>

Calls(t, o) == Receive(t, o) \/ ReceiveNothing(t, o) \/ ReadComplete(t, o)
CallsOn(t, o) == o \in Objects \cup {0} /\ Calls(t, o)
Files(t) == File(t) \/ Add(t)
Accepts(t) == TakeNew(t) \/ TakeNone(t)

Next ==
  \/ \E p \in Peers : Connect(p) \/ Write(p) \/ PeerReads(p)
  \/ \E t \in Threads :
       \/ \E o \in Objects \cup {0} : Calls(t, o)
       \/ Files(t) \/ Accepts(t) \/ TakeBytes(t)
       \/ Answer(t) \/ CloseObject(t)

(* Every thread calls accept() and serves each of its objects again and     *)
(* again, and gets the mutex, which is held for one _recv.                  *)
Fairness ==
  \A t \in Threads :
    /\ WF_vars(Files(t)) /\ SF_vars(Accepts(t)) /\ WF_vars(TakeBytes(t))
    /\ \A o \in 0 .. Cardinality(Peers) : SF_vars(CallsOn(t, o))

SafetySpec == Init /\ [][Next]_vars
Spec == SafetySpec /\ Fairness

-----------------------------------------------------------------------------
(* The variables keep their types.                                          *)
TypeOK ==
  /\ m_connected \in [Peers -> BOOLEAN] /\ \A p \in Peers : sent[p] \in 0 .. MaxSent(p)
  /\ open \in BOOLEAN /\ lock \in Threads \cup {Nobody}
  /\ m_clients \in Seq(Peers)
  /\ connected \in [Objects -> BOOLEAN]
  /\ owner \in [Objects -> Threads \cup {Nobody}]
  /\ Len(m_buffer) = Len(m_clients) /\ Len(inbox) = Len(m_clients)
  /\ Range(m_new_clients) \subseteq Objects
  /\ \A o \in Objects :
       Range(m_buffer[o]) \subseteq
         UNION {Range(Frame(m_clients[o], i)) : i \in 0 .. MaxSent(m_clients[o])}
  /\ \A t \in Threads : /\ call[t].pc \in {"idle", "file", "add", "take"}
                        /\ call[t].object \in 0 .. Len(m_clients)

(* Every address has one udp_client, whichever threads receive its first    *)
(* datagrams (udp.cpp:133-149), and accept() hands it to one thread; its    *)
(* queue and the other variables keep their types.                          *)
OneObjectPerPeer ==
  /\ TypeOK
  /\ \A o, q \in Objects : m_clients[o] = m_clients[q] => o = q
  /\ \A o \in Objects : owner[o] # Nobody => o \notin Range(m_new_clients)

(* s is t with elements left out.                                           *)
LeavesOut(s, t) ==
  \E f \in [1 .. Len(s) -> 1 .. Len(t)] :
    /\ \A k \in 1 .. Len(s) : s[k] = t[f[k]]
    /\ \A j, k \in 1 .. Len(s) : j < k => f[j] < f[k]

(* read_packet returns whole packets of its own peer, each as often and in  *)
(* the order as its datagram arrived, whichever thread received it and with *)
(* whatever it was queued (packet_proto.cpp:74-90, udp.cpp:130-141).        *)
DeliveredAsArrived ==
  \A o \in Objects : LeavesOut(delivered[o] \o inbox[o], arrived[m_clients[o]])

(* A peer that the server has heard of is accepted (udp.cpp:83-95).         *)
PeerAccepted ==
  \A p \in Peers :
    Known(p) # {} ~> \E o \in Known(p) : owner[o] # Nobody

(* What is queued for a peer is taken off the queue, also when another      *)
(* thread received it (udp.cpp:249-252), unless the object is closed.       *)
QueueTaken ==
  \A o \in 1 .. Cardinality(Peers) :
    LET waits == o \in Objects /\ connected[o] /\ m_buffer[o] # <<>>
    IN waits ~> ~waits
=============================================================================
