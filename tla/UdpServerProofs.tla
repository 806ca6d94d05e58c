--------------------------- MODULE UdpServerProofs ---------------------------
(* Proofs about UdpServer, for any peers, threads, packet sizes and receive *)
(* buffer: one object per peer, and what read_packet returns on it.         *)
EXTENDS UdpServer, SequenceTheorems, TLAPS

Bytes == Peers \X Nat \X Nat

(* A datagram of peer p: empty, or the frame of a packet it may write.      *)
Datagram(p, d) == d = <<>> \/ \E i \in 0 .. MaxSent(p) : d = Frame(p, i)

-----------------------------------------------------------------------------
(* The inductive invariant.                                                 *)

Calling == [pc : {"idle", "file", "add", "take"}, object : Nat, from : Peers \cup {Nobody}]

PeersInv ==
  /\ m_connected \in [Peers -> BOOLEAN]
  /\ \A p \in Peers : sent[p] \in 0 .. MaxSent(p)
  /\ DOMAIN sent = Peers
  /\ \A d \in up : d.from \in Peers /\ Datagram(d.from, d.data)

(* Every list of the server has an entry per object.                        *)
ListsInv ==
  /\ open \in BOOLEAN /\ lock \in Threads \cup {Nobody}
  /\ m_clients \in Seq(Peers) /\ m_new_clients \in Seq(Nat)
  /\ connected \in Seq(BOOLEAN) /\ Len(connected) = Len(m_clients)
  /\ owner \in Seq(Threads \cup {Nobody}) /\ Len(owner) = Len(m_clients)
  /\ m_buffer \in Seq(Seq(Bytes)) /\ Len(m_buffer) = Len(m_clients)
  /\ inbox \in Seq(Seq(Seq(Bytes))) /\ Len(inbox) = Len(m_clients)
  /\ delivered \in Seq(Seq(Seq(Bytes))) /\ Len(delivered) = Len(m_clients)

ArrivedInv ==
  /\ arrived \in [Peers -> Seq(Seq(Bytes))]
  /\ \A p \in Peers : \A k \in 1 .. Len(arrived[p]) : Datagram(p, arrived[p][k])

(* The thread in _recv holds the mutex, and the receive buffer is the last  *)
(* datagram of the peer it came from.                                       *)
Holding(t) == call[t].pc \in {"file", "add"}
LockInv ==
  /\ call \in [Threads -> Calling]
  /\ \A t \in Threads :
       /\ call[t].object \in 0 .. Len(m_clients)
       /\ Holding(t) <=> lock = t
       /\ Holding(t) => /\ call[t].from \in Peers
                        /\ arrived[call[t].from] # <<>>
                        /\ buf = arrived[call[t].from][Len(arrived[call[t].from])]
       /\ call[t].pc = "add" => Known(call[t].from) = {}

(* Objects have addresses of their own, and those that wait to be accepted  *)
(* are distinct and have no owner.                                          *)
ObjectsInv ==
  /\ \A o, q \in Objects : m_clients[o] = m_clients[q] => o = q
  /\ \A k \in 1 .. Len(m_new_clients) :
       /\ m_new_clients[k] \in Objects
       /\ owner[m_new_clients[k]] = Nobody
  /\ \A j, k \in 1 .. Len(m_new_clients) :
       m_new_clients[j] = m_new_clients[k] => j = k

(* Datagrams of p that have been filed: all that arrived but the one at     *)
(* hand.                                                                    *)
Filed(p) == IF lock # Nobody /\ call[lock].from = p
              THEN Len(arrived[p]) - 1 ELSE Len(arrived[p])

(* Byte j of queue b belongs to arrival g[j] of a; it ends at LastOf.       *)
LastOf(b, a, g, j) == j + (Len(a[g[j]]) - b[j][3])

(* Packet k of s is arrival e[k] of a: packets in the order of arrival.     *)
Packets(s, a, e) ==
  /\ \A k \in 1 .. Len(s) : s[k] = a[e[k]]
  /\ \A j, k \in 1 .. Len(s) : j < k => e[j] < e[k]

(* Queue b holds bytes of the arrivals g: the rest of each, one after the   *)
(* other.                                                                   *)
Queueing(b, a, g) ==
  \A j \in 1 .. Len(b) :
    /\ b[j][3] \in 1 .. Len(a[g[j]]) /\ b[j] = a[g[j]][b[j][3]]
    /\ LastOf(b, a, g, j) <= Len(b)
    /\ \A k \in j .. Len(b) :
         IF k <= LastOf(b, a, g, j)
           THEN g[k] = g[j] /\ b[k][3] = b[j][3] + (k - j)
           ELSE g[j] < g[k]

(* Of the first m arrivals a, packets s have been read and bytes b are      *)
(* still queued.                                                            *)
InQueue(s, b, a, m) ==
  \E e \in [1 .. Len(s) -> 1 .. m] : \E g \in [1 .. Len(b) -> 1 .. m] :
    /\ Packets(s, a, e) /\ Queueing(b, a, g)
    /\ \A k \in 1 .. Len(s), j \in 1 .. Len(b) : e[k] < g[j]

Read(o) == delivered[o] \o inbox[o]
QueuesInv ==
  \A o \in Objects :
    InQueue(Read(o), m_buffer[o], arrived[m_clients[o]], Filed(m_clients[o]))

ServerInv == PeersInv /\ ListsInv /\ ArrivedInv /\ LockInv /\ ObjectsInv /\ QueuesInv

-----------------------------------------------------------------------------
(* What filing and taking do to a queue.                                    *)

(* The bytes of a datagram are numbered.                                    *)
LEMMA DatagramBytes ==
  ASSUME NEW p \in Peers, NEW d, Datagram(p, d)
  PROVE  /\ d \in Seq(Bytes)
         /\ \A k \in 1 .. Len(d) : d[k][3] = k
         /\ d # <<>> => \E i \in 0 .. MaxSent(p) :
                          Len(d) = HeaderLen + Size(i) /\ \A k \in 1 .. Len(d) : d[k] = <<p, i, k>>
<1>1. CASE d = <<>>
  BY <1>1
<1>2. CASE d # <<>>
  <2>1. PICK i \in 0 .. MaxSent(p) : d = Frame(p, i)
    BY <1>2 DEF Datagram
  <2>2. MaxSent(p) \in Nat /\ Size(i) \in Nat /\ HeaderLen \in Nat /\ i \in Nat
    BY SizesAssumption
  <2>3. HeaderLen + Size(i) \in Nat
    BY <2>2
  <2>4. \A k \in 1 .. HeaderLen + Size(i) : <<p, i, k>> \in Bytes
    BY <2>2 DEF Bytes
  <2>5. d \in Seq(Bytes) /\ Len(d) = HeaderLen + Size(i)
        /\ \A k \in 1 .. HeaderLen + Size(i) : d[k] = <<p, i, k>>
    BY <2>1, <2>3, <2>4 DEF Frame
  <2> QED
    BY <2>5
<1> QED
  BY <1>1, <1>2

(* Nothing has been read and nothing is queued.                             *)
LEMMA QueueEmpty == \A a, m : InQueue(<<>>, <<>>, a, m)
<1>1. TAKE a, m
<1> DEFINE e == [k \in {} |-> 0]
<1>2. e \in [{} -> 1 .. m] /\ 1 .. Len(<<>>) = {}
  OBVIOUS
<1>3. Packets(<<>>, a, e) /\ Queueing(<<>>, a, e)
  BY <1>2 DEF Packets, Queueing
<1> QED
  BY <1>2, <1>3 DEF InQueue

(* More datagrams may arrive and be filed elsewhere.                        *)
LEMMA QueueMore ==
  ASSUME NEW s \in Seq(Seq(Bytes)), NEW b \in Seq(Bytes), NEW a \in Seq(Seq(Bytes)),
         NEW u \in Seq(Seq(Bytes)), NEW m \in Nat, NEW n \in Nat,
         m <= n, m <= Len(a), \A k \in 1 .. Len(a) : u[k] = a[k],
         InQueue(s, b, a, m)
  PROVE  InQueue(s, b, u, n)
<1>1. PICK e \in [1 .. Len(s) -> 1 .. m], g \in [1 .. Len(b) -> 1 .. m] :
        /\ Packets(s, a, e) /\ Queueing(b, a, g)
        /\ \A k \in 1 .. Len(s), j \in 1 .. Len(b) : e[k] < g[j]
  BY DEF InQueue
<1>2. e \in [1 .. Len(s) -> 1 .. n] /\ g \in [1 .. Len(b) -> 1 .. n]
  BY <1>1
<1>3. /\ \A k \in 1 .. Len(s) : u[e[k]] = a[e[k]]
      /\ \A k \in 1 .. Len(b) : u[g[k]] = a[g[k]]
  <2>1. \A i \in 1 .. m : i \in 1 .. Len(a)
    OBVIOUS
  <2>2. \A i \in 1 .. m : u[i] = a[i]
    BY <2>1
  <2> QED
    BY <1>1, <2>2
<1>4. Packets(s, u, e)
  BY <1>1, <1>3 DEF Packets
<1>5. Queueing(b, u, g)
  BY <1>1, <1>3 DEF Queueing, LastOf
<1> QED
  BY <1>1, <1>2, <1>4, <1>5 DEF InQueue

(* The datagram at hand is queued.                                          *)
LEMMA QueueAppend ==
  ASSUME NEW p \in Peers, NEW s \in Seq(Seq(Bytes)), NEW b \in Seq(Bytes),
         NEW a \in Seq(Seq(Bytes)), NEW m \in Nat, m + 1 = Len(a),
         Datagram(p, a[m + 1]), InQueue(s, b, a, m)
  PROVE  InQueue(s, b \o a[m + 1], a, m + 1)
<1> DEFINE d == a[m + 1]
           u == b \o d
           n == Len(b)
<1>1. PICK e \in [1 .. Len(s) -> 1 .. m], g \in [1 .. Len(b) -> 1 .. m] :
        /\ Packets(s, a, e) /\ Queueing(b, a, g)
        /\ \A k \in 1 .. Len(s), j \in 1 .. Len(b) : e[k] < g[j]
  BY DEF InQueue
<1>2. d \in Seq(Bytes) /\ \A k \in 1 .. Len(d) : d[k][3] = k
  BY DatagramBytes
<1>3. n \in Nat /\ Len(d) \in Nat
  BY <1>2
<1>4. /\ Len(u) = n + Len(d)
      /\ \A j \in 1 .. n : u[j] = b[j]
      /\ \A j \in n + 1 .. n + Len(d) : u[j] = d[j - n]
  BY <1>2, ConcatProperties
<1> DEFINE h == [j \in 1 .. Len(u) |-> IF j <= n THEN g[j] ELSE m + 1]
<1>5. /\ h \in [1 .. Len(u) -> 1 .. m + 1]
      /\ \A j \in 1 .. n : h[j] = g[j] /\ h[j] \in 1 .. m
      /\ \A j \in n + 1 .. n + Len(d) : h[j] = m + 1
  <2>1. \A j \in 1 .. n : g[j] \in 1 .. m
    BY <1>1
  <2>2. 1 .. Len(u) = 1 .. n + Len(d)
    BY <1>4
  <2> HIDE DEF u, d, n
  <2>3. \A j \in 1 .. n + Len(d) : h[j] = IF j <= n THEN g[j] ELSE m + 1
    BY <2>2
  <2> HIDE DEF h
  <2>4. \A j \in 1 .. n : j <= n /\ j \in 1 .. n + Len(d)
    BY <1>3
  <2>5. \A j \in n + 1 .. n + Len(d) : ~(j <= n) /\ j \in 1 .. n + Len(d)
    BY <1>3
  <2>6. \A j \in 1 .. n : h[j] = g[j] /\ h[j] \in 1 .. m
    BY <2>1, <2>3, <2>4
  <2>7. \A j \in n + 1 .. n + Len(d) : h[j] = m + 1
    BY <2>3, <2>5
  <2>8. \A j \in 1 .. n + Len(d) : h[j] \in 1 .. m + 1
    <3>1. \A j \in 1 .. n + Len(d) : j \in 1 .. n \/ j \in n + 1 .. n + Len(d)
      BY <1>3
    <3>2. m + 1 \in 1 .. m + 1 /\ \A i \in 1 .. m : i \in 1 .. m + 1
      OBVIOUS
    <3> QED
      BY <2>6, <2>7, <3>1, <3>2
  <2>9. h \in [1 .. Len(u) -> 1 .. m + 1]
    BY <2>2, <2>8 DEF h
  <2> QED
    BY <2>6, <2>7, <2>9
<1> HIDE DEF u, h, d, n
<1>6. Queueing(u, a, h)
  <2>1. ASSUME NEW j \in 1 .. n
        PROVE  /\ u[j][3] \in 1 .. Len(a[h[j]]) /\ u[j] = a[h[j]][u[j][3]]
               /\ LastOf(u, a, h, j) <= n /\ LastOf(u, a, h, j) \in Int
               /\ \A k \in j .. n :
                    IF k <= LastOf(u, a, h, j)
                      THEN h[k] = h[j] /\ u[k][3] = u[j][3] + (k - j)
                      ELSE h[j] < h[k]
    <3>1. LastOf(u, a, h, j) = LastOf(b, a, g, j)
      BY <1>4, <1>5 DEF LastOf
    <3>2. /\ b[j][3] \in 1 .. Len(a[g[j]]) /\ b[j] = a[g[j]][b[j][3]]
          /\ LastOf(b, a, g, j) <= n
          /\ \A k \in j .. n :
                IF k <= LastOf(b, a, g, j)
                  THEN g[k] = g[j] /\ b[k][3] = b[j][3] + (k - j)
                  ELSE g[j] < g[k]
      BY <1>1 DEF Queueing, n
    <3>3. LastOf(b, a, g, j) \in Int
      <4>1. g[j] \in 1 .. Len(a)
        BY <1>1 DEF n
      <4>2. Len(a[g[j]]) \in Nat
        BY <4>1
      <4>3. b[j][3] \in Int
        BY <3>2, <4>2
      <4>4. j \in Int
        BY <1>3
      <4> DEFINE x == Len(a[g[j]])
                 y == b[j][3]
      <4>5. LastOf(b, a, g, j) = j + (x - y) /\ x \in Int /\ y \in Int
        BY <4>2, <4>3 DEF LastOf
      <4> HIDE DEF x, y
      <4> QED
        BY <4>4, <4>5
    <3>4. \A k \in j .. n : k \in 1 .. n
      BY <1>3
    <3> QED
      BY <3>1, <3>2, <3>3, <3>4, <1>4, <1>5
  <2>2. ASSUME NEW j \in n + 1 .. n + Len(d)
        PROVE  /\ h[j] = m + 1 /\ a[h[j]] = d
               /\ u[j][3] = j - n /\ j - n \in 1 .. Len(d) /\ u[j] = d[j - n]
               /\ LastOf(u, a, h, j) = n + Len(d)
    <3>1. h[j] = m + 1 /\ a[h[j]] = d
      BY <1>5 DEF d
    <3>2. j - n \in 1 .. Len(d) /\ u[j] = d[j - n] /\ u[j][3] = j - n
      BY <1>2, <1>3, <1>4
    <3>3. LastOf(u, a, h, j) = n + Len(d)
      BY <3>1, <3>2, <1>3 DEF LastOf
    <3> QED
      BY <3>1, <3>2, <3>3
  <2>3. ASSUME NEW j \in 1 .. n + Len(d)
        PROVE  /\ u[j][3] \in 1 .. Len(a[h[j]]) /\ u[j] = a[h[j]][u[j][3]]
               /\ LastOf(u, a, h, j) <= n + Len(d)
               /\ \A k \in j .. n + Len(d) :
                    IF k <= LastOf(u, a, h, j)
                      THEN h[k] = h[j] /\ u[k][3] = u[j][3] + (k - j)
                      ELSE h[j] < h[k]
    <3>1. CASE j \in 1 .. n
      <4>1. \A k \in j .. n + Len(d) : k \in j .. n \/ k \in n + 1 .. n + Len(d)
        BY <1>3
      <4> DEFINE x == LastOf(u, a, h, j)
                 y == h[j]
      <4>2. x <= n /\ x \in Int /\ y \in 1 .. m
        BY <1>5, <2>1, <3>1
      <4> HIDE DEF x, y
      <4>3. \A k \in n + 1 .. n + Len(d) : k > x /\ y < h[k]
        <5>1. \A k \in n + 1 .. n + Len(d) : k > n /\ k \in Int /\ h[k] = m + 1
          BY <1>3, <1>5
        <5>2. y < m + 1
          BY <4>2
        <5> QED
          BY <4>2, <5>1, <5>2, <1>3
      <4>4. x <= n + Len(d)
        BY <1>3, <4>2
      <4>5. u[j][3] \in 1 .. Len(a[h[j]]) /\ u[j] = a[h[j]][u[j][3]]
        BY <2>1, <3>1
      <4>6. ASSUME NEW k \in j .. n + Len(d)
            PROVE  IF k <= LastOf(u, a, h, j)
                     THEN h[k] = h[j] /\ u[k][3] = u[j][3] + (k - j)
                     ELSE h[j] < h[k]
        <5>1. CASE k \in j .. n
          BY <5>1, <2>1, <3>1
        <5>2. CASE k \in n + 1 .. n + Len(d)
          BY <5>2, <4>3, <4>2, <1>3 DEF x, y
        <5> QED
          BY <5>1, <5>2, <4>1
      <4> QED
        BY <4>4, <4>5, <4>6 DEF x
    <3>2. CASE j \in n + 1 .. n + Len(d)
      <4>1. \A k \in j .. n + Len(d) : k \in n + 1 .. n + Len(d)
        BY <1>3, <3>2
      <4>2. \A k \in j .. n + Len(d) :
              h[k] = h[j] /\ u[k][3] = u[j][3] + (k - j) /\ k <= LastOf(u, a, h, j)
        BY <1>3, <2>2, <3>2, <4>1
      <4>3. LastOf(u, a, h, j) <= n + Len(d)
        BY <2>2, <3>2, <1>3
      <4>4. u[j][3] \in 1 .. Len(a[h[j]]) /\ u[j] = a[h[j]][u[j][3]]
        BY <2>2, <3>2
      <4> QED
        BY <4>2, <4>3, <4>4
    <3> QED
      BY <3>1, <3>2, <1>3
  <2> QED
    BY <2>3, <1>4 DEF Queueing
<1>7. Packets(s, a, e) /\ e \in [1 .. Len(s) -> 1 .. m + 1]
  BY <1>1
<1>8. \A k \in 1 .. Len(s), j \in 1 .. Len(u) : e[k] < h[j]
  <2>1. ASSUME NEW k \in 1 .. Len(s), NEW j \in 1 .. Len(u)
        PROVE  e[k] < h[j]
    <3>1. CASE j \in 1 .. n
      BY <3>1, <1>1, <1>5 DEF n
    <3>2. CASE j \in n + 1 .. n + Len(d)
      <4>1. e[k] \in 1 .. m /\ h[j] = m + 1
        BY <3>2, <1>1, <1>5
      <4> QED
        BY <4>1
    <3> QED
      BY <3>1, <3>2, <1>3, <1>4
  <2> QED
    BY <2>1
<1> QED
  BY <1>5, <1>6, <1>7, <1>8 DEF InQueue, u, d

(* The bytes after the first n of a queue.                                  *)
Later(b, n) == SubSeq(b, n + 1, Len(b))

LEMMA LaterBytes ==
  ASSUME NEW S, NEW b \in Seq(S), NEW n \in 0 .. Len(b)
  PROVE  /\ Later(b, n) \in Seq(S) /\ Len(Later(b, n)) = Len(b) - n
         /\ \A j \in 1 .. Len(b) - n : Later(b, n)[j] = b[j + n]
<1>1. Len(b) \in Nat /\ n + 1 \in Int /\ n + 1 >= 1
  OBVIOUS
<1>2. \A i \in n + 1 .. Len(b) : b[i] \in S
  BY ElementOfSeq
<1>3. /\ Later(b, n) \in Seq(S)
      /\ Len(Later(b, n)) = IF n + 1 <= Len(b) THEN Len(b) - (n + 1) + 1 ELSE 0
      /\ \A i \in 1 .. Len(b) - (n + 1) + 1 : Later(b, n)[i] = b[n + 1 + i - 1]
  BY <1>1, <1>2, SubSeqProperties DEF Later
<1> QED
  BY <1>1, <1>3

(* Their arrivals, of the arrivals g of the whole queue of r bytes.         *)
Shifted(g, n, r) == [j \in 1 .. r - n |-> g[j + n]]

LEMMA QueueingLater ==
  ASSUME NEW b \in Seq(Bytes), NEW a \in Seq(Seq(Bytes)), NEW m \in 0 .. Len(a),
         NEW g \in [1 .. Len(b) -> 1 .. m], NEW n \in 0 .. Len(b), Queueing(b, a, g)
  PROVE  /\ Queueing(Later(b, n), a, Shifted(g, n, Len(b)))
         /\ Shifted(g, n, Len(b)) \in [1 .. Len(Later(b, n)) -> 1 .. m]
<1> DEFINE u == Later(b, n)
           r == Len(b)
           h == Shifted(g, n, r)
<1>1. r \in Nat /\ n \in 0 .. r /\ n \in Int /\ g \in [1 .. r -> 1 .. m] /\ m \in 0 .. Len(a)
  OBVIOUS
<1>2. Len(u) = r - n /\ \A j \in 1 .. r - n : u[j] = b[j + n]
  BY LaterBytes
<1>3. \A j \in 1 .. r - n : j + n \in 1 .. r /\ h[j] = g[j + n] /\ h[j] \in 1 .. m
  <2> HIDE DEF r
  <2>1. \A j \in 1 .. r - n : j + n \in 1 .. r
    BY <1>1
  <2> QED
    BY <1>1, <2>1 DEF Shifted
<1>4. h \in [1 .. Len(u) -> 1 .. m]
  <2> HIDE DEF r, u
  <2> QED
    BY <1>2, <1>3 DEF Shifted
<1>5. \A j \in 1 .. r :
        /\ b[j][3] \in 1 .. Len(a[g[j]]) /\ b[j] = a[g[j]][b[j][3]]
        /\ LastOf(b, a, g, j) <= r
        /\ \A k \in j .. r :
             IF k <= LastOf(b, a, g, j)
               THEN g[k] = g[j] /\ b[k][3] = b[j][3] + (k - j)
               ELSE g[j] < g[k]
  BY DEF Queueing
<1> HIDE DEF u, r, h
<1>6. ASSUME NEW j \in 1 .. r - n
      PROVE  /\ u[j][3] \in 1 .. Len(a[h[j]]) /\ u[j] = a[h[j]][u[j][3]]
             /\ LastOf(u, a, h, j) <= r - n
             /\ \A k \in j .. r - n :
                  IF k <= LastOf(u, a, h, j)
                    THEN h[k] = h[j] /\ u[k][3] = u[j][3] + (k - j)
                    ELSE h[j] < h[k]
  <2>1. /\ j \in Int /\ j + n \in 1 .. r /\ u[j] = b[j + n] /\ h[j] = g[j + n]
        /\ h[j] \in 1 .. Len(a)
    <3>1. j + n \in 1 .. r /\ u[j] = b[j + n] /\ h[j] = g[j + n] /\ h[j] \in 1 .. m
      BY <1>2, <1>3
    <3>2. j \in Int /\ \A i \in 1 .. m : i \in 1 .. Len(a)
      BY <1>1
    <3> QED
      BY <3>1, <3>2
  <2>2. u[j][3] \in 1 .. Len(a[h[j]]) /\ u[j] = a[h[j]][u[j][3]]
    BY <2>1, <1>5
  <2>3. Len(a[h[j]]) \in Int /\ u[j][3] \in Int
    BY <2>1, <2>2
  <2>4. /\ LastOf(u, a, h, j) = LastOf(b, a, g, j + n) - n
        /\ LastOf(b, a, g, j + n) \in Int
    <3> DEFINE x == Len(a[h[j]]) - u[j][3]
    <3>1. LastOf(u, a, h, j) = j + x /\ LastOf(b, a, g, j + n) = (j + n) + x
      BY <2>1 DEF LastOf
    <3>2. x \in Int
      BY <2>3
    <3> HIDE DEF x
    <3>3. (j + n) + x = (j + x) + n /\ (j + x) + n \in Int /\ ((j + x) + n) - n = j + x
      BY <3>2, <1>1, <2>1
    <3> QED
      BY <3>1, <3>3
  <2>5. LastOf(b, a, g, j + n) <= r
    BY <1>5, <2>1
  <2>6. ASSUME NEW k \in j .. r - n
        PROVE  IF k <= LastOf(u, a, h, j)
                 THEN h[k] = h[j] /\ u[k][3] = u[j][3] + (k - j)
                 ELSE h[j] < h[k]
    <3>1. k \in 1 .. r - n /\ k + n \in j + n .. r /\ k \in Int
      <4>1. n \in Int /\ r \in Int /\ j \in Int /\ j >= 1
        BY <1>1
      <4>2. k \in Int /\ j <= k /\ k <= r - n
        BY <4>1
      <4> QED
        BY <4>1, <4>2
    <3>2. u[k] = b[k + n] /\ h[k] = g[k + n]
      BY <3>1, <1>2, <1>3
    <3>3. IF k + n <= LastOf(b, a, g, j + n)
            THEN g[k + n] = g[j + n] /\ b[k + n][3] = b[j + n][3] + ((k + n) - (j + n))
            ELSE g[j + n] < g[k + n]
      BY <3>1, <1>5, <2>1
    <3>4. /\ (k + n) - (j + n) = k - j
          /\ k + n <= LastOf(b, a, g, j + n) <=> k <= LastOf(u, a, h, j)
      <4> DEFINE x == LastOf(b, a, g, j + n)
      <4>1. x \in Int /\ LastOf(u, a, h, j) = x - n /\ k \in Int /\ j \in Int /\ n \in Int
        BY <1>1, <2>1, <2>4, <3>1
      <4> HIDE DEF x
      <4>2. (k + n) - (j + n) = k - j /\ (k + n <= x <=> k <= x - n)
        BY <4>1
      <4> QED
        BY <4>1, <4>2 DEF x
    <3> QED
      BY <2>1, <3>2, <3>3, <3>4
  <2>7. LastOf(u, a, h, j) <= r - n
    BY <1>1, <2>4, <2>5
  <2> QED
    BY <2>2, <2>6, <2>7
<1>7. Queueing(u, a, h)
  BY <1>2, <1>6 DEF Queueing
<1> QED
  BY <1>4, <1>7 DEF u, h, r

(* The first n bytes are dropped.                                           *)
LEMMA QueueDrop ==
  ASSUME NEW s \in Seq(Seq(Bytes)), NEW b \in Seq(Bytes), NEW a \in Seq(Seq(Bytes)),
         NEW m \in 0 .. Len(a), NEW n \in 0 .. Len(b), InQueue(s, b, a, m)
  PROVE  InQueue(s, Later(b, n), a, m)
<1>1. PICK e \in [1 .. Len(s) -> 1 .. m], g \in [1 .. Len(b) -> 1 .. m] :
        /\ Packets(s, a, e) /\ Queueing(b, a, g)
        /\ \A k \in 1 .. Len(s), j \in 1 .. Len(b) : e[k] < g[j]
  BY DEF InQueue
<1> DEFINE h == Shifted(g, n, Len(b))
           u == Later(b, n)
<1>2. \A k \in 1 .. Len(b) - n : h[k] = g[k + n] /\ k + n \in 1 .. Len(b)
  BY DEF Shifted
<1>3. Len(u) = Len(b) - n
  BY LaterBytes
<1> HIDE DEF u
<1>4. Queueing(u, a, h) /\ h \in [1 .. Len(u) -> 1 .. m]
  BY <1>1, QueueingLater DEF u
<1> HIDE DEF h
<1>5. \A k \in 1 .. Len(s), j \in 1 .. Len(u) : e[k] < h[j]
  BY <1>1, <1>2, <1>3
<1> QED
  BY <1>1, <1>4, <1>5 DEF InQueue, u

(* The first n bytes are a whole frame: they are the next packet.           *)
LEMMA QueueTake ==
  ASSUME NEW p \in Peers, NEW s \in Seq(Seq(Bytes)), NEW b \in Seq(Bytes),
         NEW a \in Seq(Seq(Bytes)), NEW m \in 0 .. Len(a), NEW n \in 0 .. Len(b),
         \A k \in 1 .. Len(a) : Datagram(p, a[k]), InQueue(s, b, a, m),
         WholeFrame(SubSeq(b, 1, n))
  PROVE  InQueue(Append(s, SubSeq(b, 1, n)), Later(b, n), a, m)
<1>1. PICK e \in [1 .. Len(s) -> 1 .. m], g \in [1 .. Len(b) -> 1 .. m] :
        /\ Packets(s, a, e) /\ Queueing(b, a, g)
        /\ \A k \in 1 .. Len(s), j \in 1 .. Len(b) : e[k] < g[j]
  BY DEF InQueue
<1> DEFINE h == Shifted(g, n, Len(b))
           u == Later(b, n)
           c == SubSeq(b, 1, n)
           r == Len(b)
           l == Len(s)
           F == a[g[1]]
<1>2. \A k \in 1 .. r - n : h[k] = g[k + n] /\ k + n \in 1 .. r
  BY DEF Shifted
<1>3. Len(u) = r - n
  BY LaterBytes
<1>4. Queueing(u, a, h) /\ h \in [1 .. Len(u) -> 1 .. m]
  BY <1>1, QueueingLater
<1>5. c \in Seq(Bytes) /\ Len(c) = n /\ \A k \in 1 .. n : c[k] = b[k]
  <2>1. \A i \in 1 .. n : b[i] \in Bytes
    BY ElementOfSeq
  <2>2. /\ c \in Seq(Bytes) /\ Len(c) = IF 1 <= n THEN n - 1 + 1 ELSE 0
        /\ \A i \in 1 .. n - 1 + 1 : c[i] = b[1 + i - 1]
    BY <2>1, SubSeqProperties
  <2> QED
    BY <2>2
<1>6. r \in Nat /\ n \in 1 .. r /\ c[1][3] = 1 /\ n = HeaderLen + Size(c[1][2])
  <2>1. Len(c) >= HeaderLen /\ HeaderLen \in Nat \ {0} /\ Len(c) \in Nat
    BY <1>5, SizesAssumption DEF WholeFrame
  <2> HIDE DEF c
  <2>2. n >= 1
    BY <1>5, <2>1
  <2>3. c[1][3] = 1 /\ Len(c) = HeaderLen + Size(c[1][2])
    BY DEF WholeFrame, c
  <2> QED
    BY <1>5, <2>2, <2>3
<1>7. g[1] \in 1 .. m /\ g[1] \in 1 .. Len(a)
  <2>1. 1 \in 1 .. Len(b)
    BY <1>6
  <2>2. g[1] \in 1 .. m
    BY <1>1, <2>1
  <2> QED
    BY <2>2
<1>8. \A j \in 1 .. r :
        /\ b[j][3] \in 1 .. Len(a[g[j]]) /\ b[j] = a[g[j]][b[j][3]]
        /\ \A k \in j .. r :
             IF k <= LastOf(b, a, g, j)
               THEN g[k] = g[j] /\ b[k][3] = b[j][3] + (k - j)
               ELSE g[j] < g[k]
  BY <1>1 DEF Queueing
<1>9. Datagram(p, F) /\ F \in Seq(Bytes) /\ Len(F) \in Nat
  <2>1. \A i \in 1 .. Len(a) : Datagram(p, a[i]) /\ a[i] \in Seq(Bytes) /\ Len(a[i]) \in Nat
    OBVIOUS
  <2> QED
    BY <1>7, <2>1
<1>10. l \in Nat /\ \A k \in 1 .. l : e[k] \in 1 .. m
  <2>1. e \in [1 .. l -> 1 .. m]
    BY <1>1
  <2>2. l \in Nat
    OBVIOUS
  <2> HIDE DEF l
  <2> QED
    BY <2>1, <2>2
<1> HIDE DEF F, r, c, h, u, l
<1>11. /\ 1 \in 1 .. n /\ 1 \in 1 .. r /\ c[1] = b[1] /\ b[1][3] = 1
       /\ 1 \in 1 .. Len(F) /\ b[1] = F[1]
  <2>1. 1 \in 1 .. n /\ 1 \in 1 .. r
    BY <1>6
  <2>2. c[1] = b[1]
    BY <2>1, <1>5
  <2>3. b[1][3] \in 1 .. Len(F) /\ b[1] = F[b[1][3]]
    BY <2>1, <1>8 DEF F
  <2> QED
    BY <2>1, <2>2, <2>3, <1>6
<1>12. Len(F) = n
  <2>1. F # <<>>
    BY <1>11
  <2>2. PICK i \in 0 .. MaxSent(p) :
          Len(F) = HeaderLen + Size(i) /\ \A k \in 1 .. Len(F) : F[k] = <<p, i, k>>
    BY <2>1, <1>9, DatagramBytes
  <2>3. F[1] = <<p, i, 1>>
    BY <2>2, <1>11
  <2>4. c[1][2] = i
    BY <2>3, <1>11
  <2> QED
    BY <1>6, <2>2, <2>4
<1>13. LastOf(b, a, g, 1) = n
  <2>1. LastOf(b, a, g, 1) = 1 + (n - 1)
    BY <1>11, <1>12 DEF LastOf, F
  <2> QED
    BY <2>1, <1>6
<1>14. \A k \in 1 .. r : IF k <= n THEN g[k] = g[1] /\ b[k][3] = 1 + (k - 1)
                                   ELSE g[1] < g[k]
  BY <1>8, <1>11, <1>13
<1>15. c = F
  <2>1. ASSUME NEW k \in 1 .. n
        PROVE  c[k] = F[k]
    <3>1. k \in 1 .. r /\ k <= n /\ 1 + (k - 1) = k
      BY <1>6
    <3>2. g[k] = g[1] /\ b[k][3] = k
      BY <3>1, <1>14
    <3>3. b[k] = a[g[k]][b[k][3]]
      BY <3>1, <1>8
    <3> QED
      BY <3>2, <3>3, <1>5 DEF F
  <2> QED
    BY <2>1, <1>5, <1>9, <1>12, SeqEqual
<1> DEFINE e2 == [k \in 1 .. l + 1 |-> IF k <= l THEN e[k] ELSE g[1]]
           s2 == Append(s, c)
<1>16. /\ Len(s2) = l + 1 /\ s2[l + 1] = c /\ \A k \in 1 .. l : s2[k] = s[k]
  BY <1>5, AppendProperties DEF l
<1> HIDE DEF s2
<1>17. /\ e2 \in [1 .. l + 1 -> 1 .. m] /\ e2[l + 1] = g[1]
       /\ \A k \in 1 .. l : e2[k] = e[k]
  BY <1>7, <1>10
<1> HIDE DEF e2
<1>18. \A k \in 1 .. l + 1 : k \in 1 .. l \/ k = l + 1
  BY <1>10
<1>19. Packets(s2, a, e2)
  <2>1. /\ \A k \in 1 .. l : s[k] = a[e[k]]
        /\ \A j, k \in 1 .. l : j < k => e[j] < e[k]
        /\ \A k \in 1 .. l : e[k] < g[1]
    BY <1>1, <1>11 DEF Packets, l, r
  <2>2. \A k \in 1 .. l + 1 : s2[k] = a[e2[k]]
    BY <2>1, <1>15, <1>16, <1>17, <1>18 DEF F
  <2>3. ASSUME NEW j \in 1 .. l + 1, NEW k \in 1 .. l + 1, j < k
        PROVE  e2[j] < e2[k]
    <3>1. j \in 1 .. l
      BY <2>3, <1>10
    <3> QED
      BY <3>1, <2>1, <2>3, <1>17, <1>18
  <2> QED
    BY <2>2, <2>3, <1>16 DEF Packets
<1>20. \A k \in 1 .. l + 1, j \in 1 .. Len(u) : e2[k] < h[j]
  <2>1. ASSUME NEW k \in 1 .. l + 1, NEW j \in 1 .. Len(u)
        PROVE  e2[k] < h[j]
    <3>1. /\ j \in 1 .. r - n /\ j + n \in 1 .. r /\ h[j] = g[j + n]
          /\ j + n > n /\ n \in Int /\ j \in Int
      <4>1. j \in 1 .. r - n
        BY <1>3
      <4>2. j + n \in 1 .. r /\ h[j] = g[j + n]
        BY <4>1, <1>2
      <4>3. n \in Int /\ r \in Int /\ j \in Int /\ j >= 1
        BY <4>1, <1>6
      <4> QED
        BY <4>1, <4>2, <4>3
    <3>2. g[1] < g[j + n]
      <4>1. ~(j + n <= n)
        BY <3>1
      <4> QED
        BY <4>1, <3>1, <1>14
    <3>3. \A i \in 1 .. l : e[i] < g[j + n]
      BY <3>1, <1>1 DEF l, r
    <3> QED
      BY <3>1, <3>2, <3>3, <1>17, <1>18
  <2> QED
    BY <2>1
<1>21. e2 \in [1 .. Len(s2) -> 1 .. m]
  BY <1>16, <1>17
<1>22. InQueue(s2, u, a, m)
  <2>1. \A k \in 1 .. Len(s2), j \in 1 .. Len(u) : e2[k] < h[j]
    BY <1>16, <1>20
  <2> QED
    BY <2>1, <1>4, <1>19, <1>21 DEF InQueue
<1> QED
  BY <1>22 DEF s2, c, u

(* What was read is what arrived with elements left out.                    *)
LEMMA QueueOrder ==
  ASSUME NEW s \in Seq(Seq(Bytes)), NEW b \in Seq(Bytes), NEW a \in Seq(Seq(Bytes)),
         NEW m \in 0 .. Len(a), InQueue(s, b, a, m)
  PROVE  LeavesOut(s, a)
<1>1. PICK e \in [1 .. Len(s) -> 1 .. m] : Packets(s, a, e)
  BY DEF InQueue
<1>2. e \in [1 .. Len(s) -> 1 .. Len(a)]
  BY <1>1
<1> QED
  BY <1>1, <1>2 DEF LeavesOut, Packets

-----------------------------------------------------------------------------
(* The steps of the peers, which only the kernel sees.                      *)

ServerUnchanged == UNCHANGED <<open, lock, buf, object, delivered, arrived, call>>

LEMMA PeerStep == ServerInv /\ PeersInv' /\ ServerUnchanged => ServerInv'
<1>1. SUFFICES ASSUME ServerInv, PeersInv', ServerUnchanged
               PROVE  ServerInv'
  OBVIOUS
<1>2. UNCHANGED <<open, lock, buf, m_clients, m_new_clients, connected, m_buffer, owner,
                  inbox, delivered, arrived, call>>
  BY <1>1 DEF ServerUnchanged, object
<1>3. ListsInv' /\ ArrivedInv'
  BY <1>1, <1>2 DEF ServerInv, ListsInv, ArrivedInv
<1>4. LockInv'
  BY <1>1, <1>2 DEF ServerInv, LockInv, Holding, Known, Objects
<1>5. ObjectsInv'
  BY <1>1, <1>2 DEF ServerInv, ObjectsInv, Objects
<1>6. QueuesInv'
  BY <1>1, <1>2 DEF ServerInv, QueuesInv, Objects, Read, Filed
<1> QED
  BY <1>1, <1>3, <1>4, <1>5, <1>6 DEF ServerInv

LEMMA PeersStep ==
  ASSUME ServerInv, NEW p \in Peers, Connect(p) \/ Write(p) \/ PeerReads(p)
  PROVE  ServerInv'
<1>1. PeersInv
  BY DEF ServerInv
<1>2. CASE Connect(p)
  <2>1. /\ m_connected' \in [Peers -> BOOLEAN] /\ UNCHANGED sent
        /\ up' = up \cup {[from |-> p, data |-> <<>>]} /\ ServerUnchanged
    BY <1>1, <1>2 DEF Connect, PeersInv, ServerUnchanged
  <2>2. \A d \in up' : d.from \in Peers /\ Datagram(d.from, d.data)
    BY <1>1, <2>1 DEF PeersInv, Datagram
  <2>3. PeersInv'
    BY <1>1, <2>1, <2>2 DEF PeersInv
  <2> QED
    BY <2>1, <2>3, PeerStep
<1>3. CASE Write(p)
  <2> DEFINE i == sent[p] + 1
  <2>1. /\ sent[p] < MaxSent(p) /\ sent' = [sent EXCEPT ![p] = @ + 1] /\ UNCHANGED m_connected
        /\ up' = up \cup {[from |-> p, data |-> Frame(p, i)]} /\ ServerUnchanged
    BY <1>3 DEF Write, ServerUnchanged
  <2>2. i \in 0 .. MaxSent(p)
    BY <1>1, <2>1, SizesAssumption DEF PeersInv
  <2>3. Datagram(p, Frame(p, i))
    BY <2>2 DEF Datagram
  <2>4. \A d \in up' : d.from \in Peers /\ Datagram(d.from, d.data)
    BY <1>1, <2>1, <2>3 DEF PeersInv
  <2>5. DOMAIN sent' = Peers /\ \A q \in Peers : sent'[q] \in 0 .. MaxSent(q)
    BY <1>1, <2>1, <2>2 DEF PeersInv
  <2>6. PeersInv'
    BY <1>1, <2>1, <2>4, <2>5 DEF PeersInv
  <2> QED
    BY <2>1, <2>6, PeerStep
<1>4. CASE PeerReads(p)
  <2>1. UNCHANGED <<m_connected, sent, up>> /\ ServerUnchanged
    BY <1>4 DEF PeerReads, peer, ServerUnchanged
  <2>2. PeersInv'
    BY <1>1, <2>1 DEF PeersInv
  <2> QED
    BY <2>1, <2>2, PeerStep
<1> QED
  BY <1>2, <1>3, <1>4

-----------------------------------------------------------------------------
(* The steps of the server.                                                 *)

PeersUnchanged == UNCHANGED <<m_connected, sent, up>>

LEMMA PeersKept == PeersInv /\ PeersUnchanged => PeersInv'
  BY DEF PeersInv, PeersUnchanged

(* Thread t goes on to c, the others stay where they are.                   *)
Moves(t, c) == call' = [call EXCEPT ![t] = c]

(* A call moves on outside of _recv: the mutex and what is filed stay.      *)
LEMMA CallKept ==
  ASSUME LockInv, ListsInv, NEW t \in Threads, NEW c \in Calling, Moves(t, c),
         ~Holding(t), c.pc \notin {"file", "add"}, c.object \in 0 .. Len(m_clients),
         UNCHANGED <<lock, buf, m_clients, arrived>>
  PROVE  LockInv' /\ \A p \in Peers : Filed(p)' = Filed(p)
<1>1. /\ call' \in [Threads -> Calling] /\ call'[t] = c
      /\ \A u \in Threads \ {t} : call'[u] = call[u]
  BY DEF LockInv, Moves
<1>2. lock # t
  BY DEF LockInv
<1>3. \A p : Known(p)' = Known(p)
  BY DEF Known, Objects
<1>4. LockInv'
  BY <1>1, <1>2, <1>3 DEF LockInv, Holding
<1>5. lock \in Threads \cup {Nobody}
  BY DEF ListsInv
<1>6. \A p \in Peers : Filed(p)' = Filed(p)
  BY <1>1, <1>2, <1>5 DEF Filed
<1> QED
  BY <1>4, <1>6

LEMMA IdleCall == Idle \in Calling /\ Idle.pc = "idle" /\ Idle.object = 0
  BY DEF Idle, Calling

(* The calls that the steps make of a call.                                 *)
Takes(c, o) == [c EXCEPT !.pc = "take", !.object = o]
Adds(c) == [c EXCEPT !.pc = "add"]
Leaves(c) == [c EXCEPT !.pc = "take", !.from = Nobody]

LEMMA Fields ==
  ASSUME NEW c \in Calling, NEW o \in Nat
  PROVE  /\ Takes(c, o) \in Calling /\ Takes(c, o).pc = "take" /\ Takes(c, o).object = o
         /\ Adds(c) \in Calling /\ Adds(c).pc = "add" /\ Adds(c).object = c.object
         /\ Adds(c).from = c.from
         /\ Leaves(c) \in Calling /\ Leaves(c).pc = "take" /\ Leaves(c).object = c.object
  BY DEF Calling, Takes, Adds, Leaves

(* The queues when the objects keep what was read and what is queued.       *)
LEMMA QueuesKept ==
  ASSUME QueuesInv, ListsInv, UNCHANGED <<m_clients, m_buffer, arrived>>,
         \A o \in Objects : Read(o)' = Read(o),
         \A p \in Peers : Filed(p)' = Filed(p)
  PROVE  QueuesInv'
<1>1. \A o \in Objects : m_clients[o] \in Peers
  BY DEF ListsInv, Objects
<1>2. Objects' = Objects
  BY DEF Objects
<1>3. \A o \in Objects : InQueue(Read(o)', m_buffer[o], arrived[m_clients[o]], Filed(m_clients[o])')
  BY <1>1 DEF QueuesInv
<1> QED
  BY <1>2, <1>3 DEF QueuesInv, Filed

(* What the queue lemmas ask of an object.                                  *)
LEMMA QueueTypes ==
  ASSUME ListsInv, ArrivedInv, LockInv, NEW o \in Objects
  PROVE  LET p == m_clients[o]
         IN /\ p \in Peers /\ arrived[p] \in Seq(Seq(Bytes)) /\ m_buffer[o] \in Seq(Bytes)
            /\ inbox[o] \in Seq(Seq(Bytes)) /\ delivered[o] \in Seq(Seq(Bytes))
            /\ Read(o) \in Seq(Seq(Bytes)) /\ Filed(p) \in 0 .. Len(arrived[p])
            /\ \A k \in 1 .. Len(arrived[p]) : Datagram(p, arrived[p][k])
<1> DEFINE p == m_clients[o]
<1>1. p \in Peers
  BY DEF ListsInv, Objects
<1>2. /\ arrived[p] \in Seq(Seq(Bytes))
      /\ \A k \in 1 .. Len(arrived[p]) : Datagram(p, arrived[p][k])
  BY <1>1 DEF ArrivedInv
<1>3. m_buffer[o] \in Seq(Bytes) /\ inbox[o] \in Seq(Seq(Bytes)) /\ delivered[o] \in Seq(Seq(Bytes))
  BY DEF ListsInv, Objects
<1>4. Read(o) \in Seq(Seq(Bytes))
  BY <1>3, ConcatProperties DEF Read
<1>5. lock # Nobody /\ call[lock].from = p => Len(arrived[p]) > 0
  <2>1. SUFFICES ASSUME lock # Nobody, call[lock].from = p
                 PROVE  Len(arrived[p]) > 0
    OBVIOUS
  <2>2. lock \in Threads
    BY <2>1 DEF ListsInv
  <2>3. arrived[p] # <<>>
    BY <2>1, <2>2 DEF LockInv
  <2> QED
    BY <2>3, <1>2
<1>6. Filed(p) \in 0 .. Len(arrived[p])
  <2>1. Len(arrived[p]) \in Nat
    BY <1>2
  <2> QED
    BY <2>1, <1>5 DEF Filed
<1> QED
  BY <1>1, <1>2, <1>3, <1>4, <1>6

(* A packet goes from the buffer of packet_proto to its caller.             *)
LEMMA Handed ==
  ASSUME NEW S, NEW d \in Seq(S), NEW b \in Seq(S), b # <<>>
  PROVE  /\ Append(d, Head(b)) \in Seq(S) /\ Tail(b) \in Seq(S)
         /\ Append(d, Head(b)) \o Tail(b) = d \o b
<1>1. Head(b) \in S /\ Tail(b) \in Seq(S) /\ <<Head(b)>> \in Seq(S) /\ b = <<Head(b)>> \o Tail(b)
  <2>1. /\ Head(b) \in S /\ Tail(b) \in Seq(S) /\ Len(Tail(b)) = Len(b) - 1
        /\ \A i \in 1 .. Len(Tail(b)) : Tail(b)[i] = b[i + 1]
    BY HeadTailProperties
  <2> DEFINE u == <<Head(b)>> \o Tail(b)
  <2>2. /\ <<Head(b)>> \in Seq(S) /\ Len(<<Head(b)>>) = 1 /\ <<Head(b)>>[1] = b[1]
        /\ Len(b) \in Nat \ {0}
    BY <2>1
  <2>3. /\ u \in Seq(S) /\ Len(u) = 1 + Len(Tail(b))
        /\ \A i \in 1 .. 1 + Len(Tail(b)) : u[i] = IF i <= 1 THEN <<Head(b)>>[i] ELSE Tail(b)[i - 1]
    BY <2>1, <2>2, ConcatProperties
  <2> HIDE DEF u
  <2>4. Len(u) = Len(b)
    BY <2>1, <2>2, <2>3
  <2>5. ASSUME NEW i \in 1 .. Len(b)
        PROVE  u[i] = b[i]
    <3>1. CASE i = 1
      BY <3>1, <2>2, <2>3, <2>4
    <3>2. CASE i # 1
      <4>1. i - 1 \in 1 .. Len(Tail(b)) /\ (i - 1) + 1 = i /\ ~(i <= 1)
        BY <3>2, <2>1, <2>2
      <4> QED
        BY <4>1, <2>1, <2>3, <2>4
    <3> QED
      BY <3>1, <3>2
  <2>6. u = b
    BY <2>3, <2>4, <2>5, SeqEqual
  <2> QED
    BY <2>1, <2>2, <2>6 DEF u
<1>2. Append(d, Head(b)) = d \o <<Head(b)>>
  BY <1>1, AppendIsConcat
<1>3. (d \o <<Head(b)>>) \o Tail(b) = d \o (<<Head(b)>> \o Tail(b))
  BY <1>1, ConcatAssociative
<1> QED
  BY <1>1, <1>2, <1>3, AppendProperties

LEMMA AppendLast ==
  ASSUME NEW S, NEW d \in Seq(S), NEW b \in Seq(S), NEW x \in S
  PROVE  d \o Append(b, x) = Append(d \o b, x)
<1>1. <<x>> \in Seq(S) /\ d \o b \in Seq(S)
  BY ConcatProperties
<1>2. Append(b, x) = b \o <<x>> /\ Append(d \o b, x) = (d \o b) \o <<x>>
  BY <1>1, AppendIsConcat
<1>3. (d \o b) \o <<x>> = d \o (b \o <<x>>)
  BY <1>1, ConcatAssociative
<1> QED
  BY <1>2, <1>3

LEMMA ReadCompleteStep ==
  ASSUME ServerInv, NEW t \in Threads, NEW o, ReadComplete(t, o)
  PROVE  ServerInv'
<1>1. /\ PeersInv /\ ListsInv /\ ArrivedInv /\ LockInv /\ ObjectsInv /\ QueuesInv
      /\ o \in Objects /\ inbox[o] # <<>>
      /\ delivered' = [delivered EXCEPT ![o] = Append(@, Head(inbox[o]))]
      /\ inbox' = [inbox EXCEPT ![o] = Tail(@)]
      /\ UNCHANGED <<m_connected, sent, up, open, lock, buf, m_clients, m_new_clients,
                     connected, m_buffer, owner, arrived, call>>
  BY DEF ServerInv, ReadComplete, Owned, Complete, peer
<1>2. /\ inbox[o] \in Seq(Seq(Bytes)) /\ delivered[o] \in Seq(Seq(Bytes))
  BY <1>1, QueueTypes
<1>3. /\ Append(delivered[o], Head(inbox[o])) \in Seq(Seq(Bytes)) /\ Tail(inbox[o]) \in Seq(Seq(Bytes))
      /\ Append(delivered[o], Head(inbox[o])) \o Tail(inbox[o]) = delivered[o] \o inbox[o]
  BY <1>1, <1>2, Handed
<1>4. /\ delivered' \in Seq(Seq(Seq(Bytes))) /\ Len(delivered') = Len(delivered)
      /\ \A q \in Objects \ {o} : delivered'[q] = delivered[q]
      /\ delivered'[o] = Append(delivered[o], Head(inbox[o]))
  <2> DEFINE x == Append(delivered[o], Head(inbox[o]))
  <2>1. delivered' = [delivered EXCEPT ![o] = x] /\ x \in Seq(Seq(Bytes))
    BY <1>1, <1>3
  <2> HIDE DEF x
  <2>2. delivered \in Seq(Seq(Seq(Bytes))) /\ o \in 1 .. Len(delivered) /\ Objects = 1 .. Len(delivered)
    BY <1>1 DEF ListsInv, Objects
  <2>3. /\ delivered' \in Seq(Seq(Seq(Bytes))) /\ Len(delivered') = Len(delivered)
        /\ \A q \in 1 .. Len(delivered) : delivered'[q] = IF q = o THEN x ELSE delivered[q]
    BY <2>1, <2>2, ExceptSeq
  <2> QED
    BY <2>2, <2>3 DEF x
<1>5. /\ inbox' \in Seq(Seq(Seq(Bytes))) /\ Len(inbox') = Len(inbox)
      /\ \A q \in Objects \ {o} : inbox'[q] = inbox[q]
      /\ inbox'[o] = Tail(inbox[o])
  BY <1>1, <1>3, ExceptSeq DEF ListsInv, Objects
<1>6. PeersInv'
  BY <1>1, PeersKept DEF PeersUnchanged
<1>7. ListsInv' /\ ArrivedInv'
  BY <1>1, <1>4, <1>5 DEF ListsInv, ArrivedInv
<1>8. LockInv'
  BY <1>1 DEF LockInv, Holding, Known, Objects
<1>9. ObjectsInv'
  BY <1>1 DEF ObjectsInv, Objects
<1>10. QueuesInv'
  <2>1. \A q \in Objects : Read(q)' = Read(q)
    BY <1>3, <1>4, <1>5 DEF Read
  <2>2. \A p \in Peers : Filed(p)' = Filed(p)
    BY <1>1 DEF Filed
  <2> QED
    BY <1>1, <2>1, <2>2, QueuesKept
<1> QED
  BY <1>6, <1>7, <1>8, <1>9, <1>10 DEF ServerInv

LEMMA ReceiveStep ==
  ASSUME ServerInv, NEW t \in Threads, NEW o \in Objects \cup {0}, Receive(t, o)
  PROVE  ServerInv'
<1>1. PICK d \in up :
        /\ call[t] = Idle /\ lock = Nobody /\ lock' = t /\ buf' = d.data
        /\ arrived' = [arrived EXCEPT ![d.from] = Append(@, d.data)]
        /\ call' = [call EXCEPT ![t] = [pc |-> "file", object |-> o, from |-> d.from]]
        /\ UNCHANGED <<m_connected, sent, up, open, m_clients, m_new_clients, connected,
                       m_buffer, owner, inbox, delivered>>
  BY DEF Receive, LockFree, peer, object
<1>2. PeersInv /\ ListsInv /\ ArrivedInv /\ LockInv /\ ObjectsInv /\ QueuesInv
  BY DEF ServerInv
<1> DEFINE p == d.from
           c == [pc |-> "file", object |-> o, from |-> p]
<1>3. p \in Peers /\ Datagram(p, d.data) /\ d.data \in Seq(Bytes)
  BY <1>2, DatagramBytes DEF PeersInv
<1>4. o \in 0 .. Len(m_clients) /\ o \in Nat
  BY <1>2 DEF ListsInv, Objects
<1>5. c \in Calling /\ c.pc = "file" /\ c.object = o /\ c.from = p
  BY <1>3, <1>4 DEF Calling
<1> HIDE DEF c
<1>6. /\ call' \in [Threads -> Calling] /\ call'[t] = c
      /\ \A u \in Threads \ {t} : call'[u] = call[u]
  BY <1>1, <1>2, <1>5 DEF LockInv, c
<1>7. /\ arrived' \in [Peers -> Seq(Seq(Bytes))]
      /\ \A q \in Peers \ {p} : arrived'[q] = arrived[q]
      /\ arrived'[p] = Append(arrived[p], d.data)
  BY <1>1, <1>2, <1>3 DEF ArrivedInv
<1>8. /\ arrived[p] \in Seq(Seq(Bytes)) /\ Len(arrived[p]) \in Nat
      /\ Len(arrived'[p]) = Len(arrived[p]) + 1 /\ arrived'[p][Len(arrived[p]) + 1] = d.data
      /\ \A k \in 1 .. Len(arrived[p]) : arrived'[p][k] = arrived[p][k]
  BY <1>2, <1>3, <1>7, AppendProperties DEF ArrivedInv
<1>9. PeersInv'
  BY <1>1, <1>2, PeersKept DEF PeersUnchanged
<1>10. ListsInv'
  BY <1>1, <1>2 DEF ListsInv
<1>11. ArrivedInv'
  <2>1. ASSUME NEW q \in Peers, NEW k \in 1 .. Len(arrived'[q])
        PROVE  Datagram(q, arrived'[q][k])
    <3>1. CASE q # p
      BY <3>1, <1>2, <1>7 DEF ArrivedInv
    <3>2. CASE q = p /\ k \in 1 .. Len(arrived[p])
      BY <3>2, <1>2, <1>3, <1>8 DEF ArrivedInv
    <3>3. CASE q = p /\ k \notin 1 .. Len(arrived[p])
      <4>1. k = Len(arrived[p]) + 1
        BY <3>3, <1>8
      <4> QED
        BY <3>3, <4>1, <1>3, <1>8
    <3> QED
      BY <3>1, <3>2, <3>3
  <2> QED
    BY <2>1, <1>7 DEF ArrivedInv
<1>12. LockInv'
  <2>1. \A u \in Threads : ~Holding(u)
    BY <1>1, <1>2, NobodyAssumption DEF LockInv
  <2>2. arrived'[p] # <<>> /\ buf' = arrived'[p][Len(arrived'[p])]
    BY <1>1, <1>8
  <2>3. ASSUME NEW u \in Threads
        PROVE  /\ call'[u].object \in 0 .. Len(m_clients)
               /\ call'[u].pc \in {"file", "add"} <=> lock' = u
               /\ call'[u].pc \in {"file", "add"} =>
                    /\ call'[u].from \in Peers /\ arrived'[call'[u].from] # <<>>
                    /\ buf' = arrived'[call'[u].from][Len(arrived'[call'[u].from])]
               /\ call'[u].pc # "add"
    <3>1. CASE u = t
      BY <3>1, <1>1, <1>3, <1>4, <1>5, <1>6, <2>2
    <3>2. CASE u # t
      BY <3>2, <1>1, <1>2, <1>6, <2>1 DEF LockInv, Holding
    <3> QED
      BY <3>1, <3>2
  <2> QED
    BY <2>3, <1>1, <1>6 DEF LockInv, Holding
<1>13. ObjectsInv'
  BY <1>1, <1>2 DEF ObjectsInv, Objects
<1>14. QueuesInv'
  <2>1. ASSUME NEW q \in Objects
        PROVE  InQueue(Read(q), m_buffer[q], arrived'[m_clients[q]], Filed(m_clients[q])')
    <3> DEFINE r == m_clients[q]
    <3>1. InQueue(Read(q), m_buffer[q], arrived[r], Filed(r))
      BY <1>2 DEF QueuesInv
    <3>2. r \in Peers /\ Filed(r) = Len(arrived[r])
      BY <1>1, <1>2, QueueTypes DEF Filed
    <3>3. CASE r # p
      <4>1. arrived'[r] = arrived[r]
        BY <3>2, <3>3, <1>7
      <4>2. Filed(r)' = Len(arrived'[r])
        BY <3>3, <1>1, <1>5, <1>6 DEF Filed
      <4> QED
        BY <4>1, <4>2, <3>1, <3>2
    <3>4. CASE r = p
      <4>1. Filed(r)' = Len(arrived[r])
        BY <3>4, <1>1, <1>5, <1>6, <1>8, NobodyAssumption DEF Filed
      <4>2. /\ Read(q) \in Seq(Seq(Bytes)) /\ m_buffer[q] \in Seq(Bytes)
            /\ arrived[r] \in Seq(Seq(Bytes)) /\ arrived'[r] \in Seq(Seq(Bytes))
            /\ Len(arrived[r]) \in Nat
            /\ \A k \in 1 .. Len(arrived[r]) : arrived'[r][k] = arrived[r][k]
        BY <3>4, <1>2, <1>3, <1>7, <1>8, QueueTypes
      <4>3. InQueue(Read(q), m_buffer[q], arrived'[r], Len(arrived[r]))
        <5>1. /\ InQueue(Read(q), m_buffer[q], arrived[r], Len(arrived[r]))
              /\ Len(arrived[r]) <= Len(arrived[r])
          BY <3>1, <3>2, <4>2
        <5> HIDE DEF r
        <5> QED
          BY <5>1, <4>2, QueueMore
      <4> QED
        BY <4>1, <4>3
    <3> QED
      BY <3>3, <3>4
  <2>2. Objects' = Objects /\ \A q : Read(q)' = Read(q)
    BY <1>1 DEF Objects, Read
  <2> QED
    BY <1>1, <2>1, <2>2 DEF QueuesInv, Filed
<1> QED
  BY <1>9, <1>10, <1>11, <1>12, <1>13, <1>14 DEF ServerInv

(* A step that moves only the call of t outside of _recv.                   *)
LEMMA CallOnly ==
  ASSUME ServerInv, NEW t \in Threads, NEW c \in Calling, Moves(t, c),
         ~Holding(t), c.pc \notin {"file", "add"}, c.object \in 0 .. Len(m_clients),
         PeersUnchanged, UNCHANGED <<open, lock, buf, object, delivered, arrived>>
  PROVE  ServerInv'
<1>1. /\ PeersInv /\ ListsInv /\ ArrivedInv /\ LockInv /\ ObjectsInv /\ QueuesInv
      /\ UNCHANGED <<m_clients, m_new_clients, connected, m_buffer, owner, inbox>>
  BY DEF ServerInv, object
<1>2. LockInv' /\ \A p \in Peers : Filed(p)' = Filed(p)
  BY <1>1, CallKept
<1>3. PeersInv'
  BY <1>1, PeersKept
<1>4. ListsInv' /\ ArrivedInv'
  BY <1>1 DEF ListsInv, ArrivedInv
<1>5. ObjectsInv'
  BY <1>1 DEF ObjectsInv, Objects
<1>6. QueuesInv'
  <2>1. \A o \in Objects : Read(o)' = Read(o)
    BY <1>1 DEF Read
  <2> QED
    BY <1>1, <1>2, <2>1, QueuesKept
<1> QED
  BY <1>2, <1>3, <1>4, <1>5, <1>6 DEF ServerInv

LEMMA ReceiveNothingStep ==
  ASSUME ServerInv, NEW t \in Threads, NEW o \in Objects \cup {0}, ReceiveNothing(t, o)
  PROVE  ServerInv'
<1> DEFINE c == Takes(call[t], o)
<1>1. /\ call[t] = Idle /\ PeersUnchanged
      /\ UNCHANGED <<open, lock, buf, object, delivered, arrived>>
  BY DEF ReceiveNothing, PeersUnchanged, peer
<1>2. call \in [Threads -> Calling] /\ o \in 0 .. Len(m_clients) /\ o \in Nat
  BY DEF ServerInv, LockInv, ListsInv, Objects
<1>3. c \in Calling /\ c.pc = "take" /\ c.object = o
  BY <1>2, Fields
<1>4. Moves(t, c)
  BY DEF ReceiveNothing, Moves, Takes
<1>5. ~Holding(t)
  BY <1>1, IdleCall DEF Holding
<1> HIDE DEF c
<1> QED
  BY <1>1, <1>2, <1>3, <1>4, <1>5, CallOnly

LEMMA TakeNoneStep ==
  ASSUME ServerInv, NEW t \in Threads, TakeNone(t)
  PROVE  ServerInv'
<1>1. /\ call[t].pc = "take" /\ Moves(t, Idle) /\ PeersUnchanged
      /\ UNCHANGED <<open, lock, buf, object, delivered, arrived>>
  BY DEF TakeNone, PeersUnchanged, peer, Moves
<1>2. 0 \in 0 .. Len(m_clients)
  BY DEF ServerInv, ListsInv
<1>3. ~Holding(t)
  BY <1>1 DEF Holding
<1> QED
  BY <1>1, <1>2, <1>3, CallOnly, IdleCall

(* accept() hands out the oldest new object, which is then no longer new.   *)
LEMMA TakeNewStep ==
  ASSUME ServerInv, NEW t \in Threads, TakeNew(t)
  PROVE  ServerInv'
<1> DEFINE o == Head(m_new_clients)
<1>1. /\ PeersInv /\ ListsInv /\ ArrivedInv /\ LockInv /\ ObjectsInv /\ QueuesInv
      /\ call[t].pc = "take" /\ m_new_clients # <<>> /\ Moves(t, Idle)
      /\ owner' = [owner EXCEPT ![o] = t] /\ m_new_clients' = Tail(m_new_clients)
      /\ PeersUnchanged
      /\ UNCHANGED <<open, lock, buf, m_clients, connected, m_buffer, inbox, delivered, arrived>>
  BY DEF ServerInv, TakeNew, PeersUnchanged, peer, Moves
<1>2. /\ Len(m_new_clients) \in Nat \ {0} /\ o = m_new_clients[1]
      /\ m_new_clients' \in Seq(Nat) /\ Len(m_new_clients') = Len(m_new_clients) - 1
      /\ \A k \in 1 .. Len(m_new_clients') : m_new_clients'[k] = m_new_clients[k + 1]
  BY <1>1, HeadTailProperties DEF ListsInv
<1>3. o \in Objects
  BY <1>1, <1>2 DEF ObjectsInv
<1> HIDE DEF o
<1>4. /\ owner' \in Seq(Threads \cup {Nobody}) /\ Len(owner') = Len(owner)
      /\ \A q \in Objects \ {o} : owner'[q] = owner[q]
  BY <1>1, <1>3, ExceptSeq DEF ListsInv, Objects
<1>5. LockInv' /\ \A p \in Peers : Filed(p)' = Filed(p)
  <2>1. ~Holding(t) /\ 0 \in 0 .. Len(m_clients)
    BY <1>1 DEF Holding, ListsInv
  <2> QED
    BY <1>1, <2>1, CallKept, IdleCall
<1>6. PeersInv'
  BY <1>1, PeersKept
<1>7. ListsInv' /\ ArrivedInv'
  BY <1>1, <1>2, <1>4 DEF ListsInv, ArrivedInv
<1>8. ObjectsInv'
  <2>1. Objects' = Objects
    BY <1>1 DEF Objects
  <2>2. \A k \in 1 .. Len(m_new_clients') :
          /\ k + 1 \in 1 .. Len(m_new_clients) /\ k + 1 # 1
          /\ m_new_clients'[k] = m_new_clients[k + 1]
    BY <1>2
  <2>3. \A k \in 1 .. Len(m_new_clients') :
          m_new_clients'[k] \in Objects \ {o} /\ owner'[m_new_clients'[k]] = Nobody
    <3>1. 1 \in 1 .. Len(m_new_clients)
      BY <1>2
    <3>2. ASSUME NEW k \in 1 .. Len(m_new_clients')
          PROVE  m_new_clients'[k] \in Objects \ {o} /\ owner[m_new_clients'[k]] = Nobody
      BY <1>1, <1>2, <2>2, <3>1 DEF ObjectsInv
    <3> QED
      BY <3>2, <1>4
  <2>4. \A j, k \in 1 .. Len(m_new_clients') :
          m_new_clients'[j] = m_new_clients'[k] => j = k
    <3>1. ASSUME NEW j \in 1 .. Len(m_new_clients'), NEW k \in 1 .. Len(m_new_clients'),
                 m_new_clients'[j] = m_new_clients'[k]
          PROVE  j = k
      <4>1. j + 1 = k + 1
        BY <3>1, <2>2, <1>1 DEF ObjectsInv
      <4> QED
        BY <4>1
    <3> QED
      BY <3>1
  <2>5. \A q, r \in Objects : m_clients'[q] = m_clients'[r] => q = r
    BY <1>1 DEF ObjectsInv
  <2> QED
    BY <2>1, <2>3, <2>4, <2>5 DEF ObjectsInv
<1>9. QueuesInv'
  <2>1. \A q \in Objects : Read(q)' = Read(q)
    BY <1>1 DEF Read
  <2> QED
    BY <1>1, <1>5, <2>1, QueuesKept
<1> QED
  BY <1>5, <1>6, <1>7, <1>8, <1>9 DEF ServerInv

(* Answers and closes change nothing the invariant speaks of but the flag   *)
(* of an object.                                                            *)
LEMMA OwnerStep ==
  ASSUME ServerInv, NEW t \in Threads, Answer(t) \/ CloseObject(t)
  PROVE  ServerInv'
<1>1. PICK o \in Objects :
        /\ \/ UNCHANGED <<open, connected>>
           \/ open' = FALSE /\ connected' = [connected EXCEPT ![o] = FALSE]
        /\ UNCHANGED <<m_connected, sent, up, lock, buf, m_clients, m_new_clients,
                       m_buffer, owner, inbox, delivered, arrived, call>>
  BY DEF Answer, CloseObject, Owned, peer, object
<1>2. PeersInv /\ ListsInv /\ ArrivedInv /\ LockInv /\ ObjectsInv /\ QueuesInv
  BY DEF ServerInv
<1>3. PeersInv'
  BY <1>1, <1>2, PeersKept DEF PeersUnchanged
<1>4. ListsInv'
  <2>1. connected' \in Seq(BOOLEAN) /\ Len(connected') = Len(connected)
    <3>1. CASE UNCHANGED <<open, connected>>
      BY <3>1, <1>2 DEF ListsInv
    <3>2. CASE connected' = [connected EXCEPT ![o] = FALSE]
      BY <3>2, <1>2, ExceptSeq DEF ListsInv, Objects
    <3> QED
      BY <3>1, <3>2, <1>1
  <2>2. open' \in BOOLEAN
    BY <1>1, <1>2 DEF ListsInv
  <2> QED
    BY <1>1, <1>2, <2>1, <2>2 DEF ListsInv
<1>5. ArrivedInv'
  BY <1>1, <1>2 DEF ArrivedInv
<1>6. LockInv'
  BY <1>1, <1>2 DEF LockInv, Holding, Known, Objects
<1>7. ObjectsInv'
  BY <1>1, <1>2 DEF ObjectsInv, Objects
<1>8. QueuesInv'
  BY <1>1, <1>2 DEF QueuesInv, Objects, Read, Filed
<1> QED
  BY <1>3, <1>4, <1>5, <1>6, <1>7, <1>8 DEF ServerInv

(* The end of _recv: nobody holds the mutex, everything that arrived is     *)
(* filed.                                                                   *)
LEMMA Released ==
  ASSUME LockInv, ArrivedInv, NEW t \in Threads, Holding(t), Received(t), UNCHANGED arrived,
         Len(m_clients) \in Nat, Len(m_clients') \in Nat, Len(m_clients) <= Len(m_clients')
  PROVE  /\ LockInv' /\ lock' = Nobody
         /\ \A p \in Peers : Filed(p)' = Len(arrived[p])
<1> DEFINE c == Leaves(call[t])
<1>1. lock' = Nobody /\ call' = [call EXCEPT ![t] = c]
  BY DEF Received, Leaves
<1>2. call \in [Threads -> Calling] /\ lock = t
  BY DEF LockInv
<1>3. c \in Calling /\ c.pc = "take" /\ c.object = call[t].object
  BY <1>2, Fields
<1> HIDE DEF c
<1>4. /\ call' \in [Threads -> Calling] /\ call'[t] = c
      /\ \A u \in Threads \ {t} : call'[u] = call[u]
  BY <1>1, <1>2, <1>3
<1>5. \A u \in Threads : /\ call'[u].object \in 0 .. Len(m_clients')
                         /\ call'[u].pc \notin {"file", "add"}
  <2>1. \A k \in 0 .. Len(m_clients) : k \in 0 .. Len(m_clients')
    OBVIOUS
  <2>2. \A u \in Threads \ {t} : call[u].pc \notin {"file", "add"}
    BY <1>2 DEF LockInv, Holding
  <2>3. \A u \in Threads : call[u].object \in 0 .. Len(m_clients)
    BY DEF LockInv
  <2> QED
    BY <1>3, <1>4, <2>1, <2>2, <2>3
<1>6. LockInv'
  BY <1>1, <1>4, <1>5, NobodyAssumption DEF LockInv, Holding
<1>7. \A p \in Peers : Filed(p)' = Len(arrived[p])
  BY <1>1 DEF Filed
<1> QED
  BY <1>1, <1>6, <1>7

(* The queues while _recv is at work.                                       *)
LEMMA AtHand ==
  ASSUME ListsInv, ArrivedInv, LockInv, QueuesInv, NEW t \in Threads, Holding(t),
         NEW o \in Objects
  PROVE  LET p == m_clients[o]
             m == Len(arrived[p]) - 1
         IN /\ InQueue(Read(o), m_buffer[o], arrived[p], Len(arrived[p]))
            /\ p = call[t].from => /\ InQueue(Read(o), m_buffer[o], arrived[p], m)
                                   /\ m \in Nat /\ m + 1 = Len(arrived[p])
                                   /\ buf = arrived[p][m + 1] /\ Datagram(p, buf)
<1> DEFINE p == m_clients[o]
           a == arrived[p]
           m == Filed(p)
           s == Read(o)
           b == m_buffer[o]
<1>1. /\ p \in Peers /\ a \in Seq(Seq(Bytes)) /\ b \in Seq(Bytes) /\ s \in Seq(Seq(Bytes))
      /\ m \in 0 .. Len(a) /\ \A k \in 1 .. Len(a) : Datagram(p, a[k])
      /\ InQueue(s, b, a, m)
  BY QueueTypes DEF QueuesInv
<1>2. p = call[t].from => /\ m = Len(a) - 1 /\ a # <<>> /\ buf = a[Len(a)]
  BY NobodyAssumption DEF LockInv, Filed
<1> HIDE DEF a, m, s, b
<1>3. /\ m \in Nat /\ Len(a) \in Nat /\ m <= Len(a) /\ \A k \in 1 .. Len(a) : a[k] = a[k]
  BY <1>1
<1>4. InQueue(s, b, a, Len(a))
  BY <1>1, <1>3, QueueMore
<1>5. p = call[t].from => /\ InQueue(s, b, a, Len(a) - 1)
                         /\ Len(a) - 1 \in Nat /\ (Len(a) - 1) + 1 = Len(a)
                         /\ buf = a[(Len(a) - 1) + 1] /\ Datagram(p, buf)
  <2>1. SUFFICES ASSUME p = call[t].from
                 PROVE  /\ InQueue(s, b, a, Len(a) - 1)
                        /\ Len(a) - 1 \in Nat /\ (Len(a) - 1) + 1 = Len(a)
                        /\ buf = a[(Len(a) - 1) + 1] /\ Datagram(p, buf)
    OBVIOUS
  <2>2. m = Len(a) - 1 /\ buf = a[Len(a)]
    BY <2>1, <1>2
  <2>3. Len(a) - 1 \in Nat /\ (Len(a) - 1) + 1 = Len(a) /\ Len(a) \in 1 .. Len(a)
    BY <2>2, <1>3
  <2> QED
    BY <2>2, <2>3, <1>1
<1> QED
  BY <1>4, <1>5 DEF a, s, b

(* The sender has to be added: the mutex is kept.                           *)
LEMMA FileNew ==
  ASSUME ServerInv, NEW t \in Threads, call[t].pc = "file", Known(call[t].from) = {},
         call' = [call EXCEPT ![t].pc = "add"],
         PeersUnchanged, UNCHANGED <<open, lock, buf, object, delivered, arrived>>
  PROVE  ServerInv'
<1>1. /\ PeersInv /\ ListsInv /\ ArrivedInv /\ LockInv /\ ObjectsInv /\ QueuesInv
      /\ UNCHANGED <<m_clients, m_new_clients, connected, m_buffer, owner, inbox>>
  BY DEF ServerInv, object
<1> DEFINE c == Adds(call[t])
<1>2. call \in [Threads -> Calling] /\ lock = t /\ call' = [call EXCEPT ![t] = c]
  BY <1>1 DEF LockInv, Holding, Adds
<1>3. c \in Calling /\ c.pc = "add" /\ c.object = call[t].object /\ c.from = call[t].from
  BY <1>2, Fields
<1> HIDE DEF c
<1>4. /\ call' \in [Threads -> Calling] /\ call'[t] = c
      /\ \A u \in Threads \ {t} : call'[u] = call[u]
  BY <1>2, <1>3
<1>5. \A q : Known(q)' = Known(q)
  BY <1>1 DEF Known, Objects
<1>6. LockInv'
  BY <1>1, <1>2, <1>3, <1>4, <1>5 DEF LockInv, Holding
<1>7. \A p \in Peers : Filed(p)' = Filed(p)
  BY <1>2, <1>3, <1>4 DEF Filed
<1>8. PeersInv'
  BY <1>1, PeersKept
<1>9. ListsInv' /\ ArrivedInv'
  BY <1>1 DEF ListsInv, ArrivedInv
<1>10. ObjectsInv'
  BY <1>1 DEF ObjectsInv, Objects
<1>11. QueuesInv'
  <2>1. \A o \in Objects : Read(o)' = Read(o)
    BY <1>1 DEF Read
  <2> QED
    BY <1>1, <1>7, <2>1, QueuesKept
<1> QED
  BY <1>6, <1>8, <1>9, <1>10, <1>11 DEF ServerInv

(* The bytes are queued, or the datagram was too long.                      *)
LEMMA FileKnown ==
  ASSUME ServerInv, NEW t \in Threads, Holding(t), Received(t),
         KnownClient(call[t].from) \/ UNCHANGED object,
         PeersUnchanged, UNCHANGED <<open, delivered, arrived>>
  PROVE  ServerInv'
<1> DEFINE p == call[t].from
<1>1. /\ PeersInv /\ ListsInv /\ ArrivedInv /\ LockInv /\ ObjectsInv /\ QueuesInv
      /\ UNCHANGED <<m_clients, m_new_clients, connected, owner, inbox>>
      /\ \/ m_buffer' = [o \in Objects |-> IF o \in Known(p) THEN m_buffer[o] \o buf
                                                              ELSE m_buffer[o]]
         \/ UNCHANGED m_buffer
  BY DEF ServerInv, KnownClient, Queued, object
<1>2. /\ LockInv' /\ lock' = Nobody /\ \A q \in Peers : Filed(q)' = Len(arrived[q])
  <2>1. Len(m_clients) \in Nat
    BY <1>1 DEF ListsInv
  <2> QED
    BY <1>1, <2>1, Released
<1>3. buf \in Seq(Bytes) /\ p \in Peers
  <2>1. /\ p \in Peers /\ arrived[p] \in Seq(Seq(Bytes)) /\ arrived[p] # <<>>
        /\ buf = arrived[p][Len(arrived[p])]
    BY <1>1 DEF LockInv, ArrivedInv
  <2>2. Len(arrived[p]) \in 1 .. Len(arrived[p])
    BY <2>1
  <2> QED
    BY <2>1, <2>2
<1>4. \A o \in Objects : /\ m_buffer[o] \in Seq(Bytes) /\ m_buffer[o] \o buf \in Seq(Bytes)
                         /\ o \in Known(p) <=> m_clients[o] = p
  BY <1>1, <1>3, QueueTypes DEF Known
<1>5. /\ m_buffer' \in Seq(Seq(Bytes)) /\ Len(m_buffer') = Len(m_buffer)
      /\ \A o \in Objects : \/ m_clients[o] = p /\ m_buffer'[o] = m_buffer[o] \o buf
                            \/ m_buffer'[o] = m_buffer[o]
  <2>1. CASE UNCHANGED m_buffer
    BY <2>1, <1>1 DEF ListsInv
  <2>2. CASE m_buffer' = [o \in Objects |-> IF o \in Known(p) THEN m_buffer[o] \o buf
                                                              ELSE m_buffer[o]]
    <3>1. Objects = 1 .. Len(m_buffer) /\ Len(m_buffer) \in Nat
      BY <1>1 DEF Objects, ListsInv
    <3>2. \A o \in Objects : /\ m_buffer'[o] \in Seq(Bytes)
                             /\ m_buffer'[o] = IF o \in Known(p) THEN m_buffer[o] \o buf
                                                                 ELSE m_buffer[o]
      BY <2>2, <1>4
    <3>3. m_buffer' = [o \in 1 .. Len(m_buffer) |-> m_buffer'[o]]
      BY <2>2, <3>1
    <3>4. m_buffer' \in Seq(Seq(Bytes)) /\ Len(m_buffer') = Len(m_buffer)
      BY <3>1, <3>2, <3>3
    <3> QED
      BY <1>4, <3>2, <3>4
  <2> QED
    BY <2>1, <2>2, <1>1
<1>6. PeersInv'
  BY <1>1, PeersKept
<1>7. ListsInv' /\ ArrivedInv'
  BY <1>1, <1>2, <1>5 DEF ListsInv, ArrivedInv
<1>8. ObjectsInv'
  BY <1>1 DEF ObjectsInv, Objects
<1>9. QueuesInv'
  <2>1. ASSUME NEW o \in Objects
        PROVE  InQueue(Read(o), m_buffer'[o], arrived[m_clients[o]], Len(arrived[m_clients[o]]))
    <3> DEFINE a == arrived[m_clients[o]]
               m == Len(a) - 1
    <3>1. CASE m_buffer'[o] = m_buffer[o]
      BY <3>1, <1>1, AtHand
    <3>2. CASE m_clients[o] = p /\ m_buffer'[o] = m_buffer[o] \o buf
      <4>1. /\ InQueue(Read(o), m_buffer[o], a, m) /\ m \in Nat /\ m + 1 = Len(a)
            /\ buf = a[m + 1] /\ Datagram(p, a[m + 1])
        BY <3>2, <1>1, AtHand
      <4>2. Read(o) \in Seq(Seq(Bytes)) /\ m_buffer[o] \in Seq(Bytes) /\ a \in Seq(Seq(Bytes))
        BY <1>1, QueueTypes
      <4> HIDE DEF a, m
      <4>3. InQueue(Read(o), m_buffer[o] \o a[m + 1], a, m + 1)
        BY <4>1, <4>2, <1>3, QueueAppend
      <4> QED
        BY <4>1, <4>3, <3>2 DEF a
    <3> QED
      BY <3>1, <3>2, <1>5
  <2>2. Objects' = Objects /\ \A o : Read(o)' = Read(o)
    BY <1>1 DEF Objects, Read
  <2>3. \A o \in Objects : m_clients[o] \in Peers
    BY <1>1, QueueTypes
  <2> QED
    BY <2>1, <2>2, <2>3, <1>1, <1>2 DEF QueuesInv
<1> QED
  BY <1>2, <1>6, <1>7, <1>8, <1>9 DEF ServerInv

LEMMA FileStep ==
  ASSUME ServerInv, NEW t \in Threads, File(t)
  PROVE  ServerInv'
<1>1. /\ call[t].pc = "file" /\ PeersUnchanged /\ UNCHANGED <<open, delivered, arrived>>
      /\ \/ /\ Known(call[t].from) = {} /\ call' = [call EXCEPT ![t].pc = "add"]
            /\ UNCHANGED <<object, lock, buf>>
         \/ Received(t) /\ (KnownClient(call[t].from) \/ UNCHANGED object)
  BY DEF File, PeersUnchanged, peer
<1>2. CASE Received(t) /\ (KnownClient(call[t].from) \/ UNCHANGED object)
  BY <1>1, <1>2, FileKnown DEF Holding
<1>3. CASE /\ Known(call[t].from) = {} /\ call' = [call EXCEPT ![t].pc = "add"]
           /\ UNCHANGED <<object, lock, buf>>
  BY <1>1, <1>3, FileNew
<1> QED
  BY <1>1, <1>2, <1>3

(* A peer that was not known gets an object, whose queue is empty.          *)
LEMMA AddStep ==
  ASSUME ServerInv, NEW t \in Threads, Add(t)
  PROVE  ServerInv'
<1> DEFINE p == call[t].from
           n == Len(m_clients)
<1>1. /\ PeersInv /\ ListsInv /\ ArrivedInv /\ LockInv /\ ObjectsInv /\ QueuesInv
      /\ Holding(t) /\ Received(t) /\ p \in Peers /\ Known(p) = {}
      /\ PeersUnchanged /\ UNCHANGED <<open, arrived>>
  BY DEF ServerInv, Add, PeersUnchanged, peer, Holding, LockInv
<1>2. /\ m_clients' = Append(m_clients, p) /\ m_new_clients' = Append(m_new_clients, n + 1)
      /\ connected' = Append(connected, TRUE) /\ m_buffer' = Append(m_buffer, <<>>)
      /\ owner' = Append(owner, Nobody) /\ inbox' = Append(inbox, <<>>)
      /\ delivered' = Append(delivered, <<>>)
  BY DEF Add, NewClient
<1>3. n \in Nat /\ n + 1 \in Nat
  BY <1>1 DEF ListsInv
<1>4. /\ m_clients' \in Seq(Peers) /\ Len(m_clients') = n + 1 /\ m_clients'[n + 1] = p
      /\ \A o \in 1 .. n : m_clients'[o] = m_clients[o]
  BY <1>1, <1>2, AppendProperties DEF ListsInv
<1>5. /\ connected' \in Seq(BOOLEAN) /\ Len(connected') = n + 1
  <2>1. connected \in Seq(BOOLEAN) /\ Len(connected) = n /\ TRUE \in BOOLEAN
    BY <1>1 DEF ListsInv
  <2> QED
    BY <1>2, <2>1, AppendProperties
<1>6. /\ owner' \in Seq(Threads \cup {Nobody}) /\ Len(owner') = n + 1 /\ owner'[n + 1] = Nobody
      /\ \A o \in 1 .. n : owner'[o] = owner[o]
  BY <1>1, <1>2, AppendProperties DEF ListsInv
<1>7. /\ m_buffer' \in Seq(Seq(Bytes)) /\ Len(m_buffer') = n + 1 /\ m_buffer'[n + 1] = <<>>
      /\ \A o \in 1 .. n : m_buffer'[o] = m_buffer[o]
  <2> DEFINE e == <<>>
  <2>1. m_buffer \in Seq(Seq(Bytes)) /\ Len(m_buffer) = n /\ e \in Seq(Bytes)
    BY <1>1 DEF ListsInv
  <2>2. m_buffer' = Append(m_buffer, e)
    BY <1>2
  <2> HIDE DEF e, n
  <2>3. /\ m_buffer' \in Seq(Seq(Bytes)) /\ Len(m_buffer') = n + 1 /\ m_buffer'[n + 1] = e
        /\ \A o \in 1 .. n : m_buffer'[o] = m_buffer[o]
    BY <2>1, <2>2, AppendProperties
  <2> QED
    BY <2>3 DEF e
<1>8. /\ inbox' \in Seq(Seq(Seq(Bytes))) /\ Len(inbox') = n + 1 /\ inbox'[n + 1] = <<>>
      /\ \A o \in 1 .. n : inbox'[o] = inbox[o]
  <2> DEFINE e == <<>>
  <2>1. inbox \in Seq(Seq(Seq(Bytes))) /\ Len(inbox) = n /\ e \in Seq(Seq(Bytes))
    BY <1>1 DEF ListsInv
  <2>2. inbox' = Append(inbox, e)
    BY <1>2
  <2> HIDE DEF e, n
  <2>3. /\ inbox' \in Seq(Seq(Seq(Bytes))) /\ Len(inbox') = n + 1 /\ inbox'[n + 1] = e
        /\ \A o \in 1 .. n : inbox'[o] = inbox[o]
    BY <2>1, <2>2, AppendProperties
  <2> QED
    BY <2>3 DEF e
<1>9. /\ delivered' \in Seq(Seq(Seq(Bytes))) /\ Len(delivered') = n + 1 /\ delivered'[n + 1] = <<>>
      /\ \A o \in 1 .. n : delivered'[o] = delivered[o]
  <2> DEFINE e == <<>>
  <2>1. delivered \in Seq(Seq(Seq(Bytes))) /\ Len(delivered) = n /\ e \in Seq(Seq(Bytes))
    BY <1>1 DEF ListsInv
  <2>2. delivered' = Append(delivered, e)
    BY <1>2
  <2> HIDE DEF e, n
  <2>3. /\ delivered' \in Seq(Seq(Seq(Bytes))) /\ Len(delivered') = n + 1 /\ delivered'[n + 1] = e
        /\ \A o \in 1 .. n : delivered'[o] = delivered[o]
    BY <2>1, <2>2, AppendProperties
  <2> QED
    BY <2>3 DEF e
<1>10. /\ m_new_clients' \in Seq(Nat) /\ Len(m_new_clients') = Len(m_new_clients) + 1
       /\ Len(m_new_clients) \in Nat /\ m_new_clients'[Len(m_new_clients) + 1] = n + 1
       /\ \A k \in 1 .. Len(m_new_clients) : m_new_clients'[k] = m_new_clients[k]
  BY <1>1, <1>2, <1>3, AppendProperties DEF ListsInv
<1>11. /\ Objects = 1 .. n /\ Objects' = 1 .. n + 1
       /\ \A o \in 1 .. n + 1 : o \in 1 .. n \/ o = n + 1
  BY <1>3, <1>4 DEF Objects
<1>12. /\ LockInv' /\ lock' = Nobody /\ \A q \in Peers : Filed(q)' = Len(arrived[q])
  BY <1>1, <1>3, <1>4, Released
<1>13. PeersInv'
  BY <1>1, PeersKept
<1>14. ListsInv' /\ ArrivedInv'
  BY <1>1, <1>4, <1>5, <1>6, <1>7, <1>8, <1>9, <1>10, <1>12 DEF ListsInv, ArrivedInv
<1>15. ObjectsInv'
  <2>1. \A o \in 1 .. n : m_clients[o] # p
    BY <1>1, <1>11 DEF Known
  <2>2. \A o, q \in 1 .. n + 1 : m_clients'[o] = m_clients'[q] => o = q
    BY <2>1, <1>1, <1>4, <1>11 DEF ObjectsInv
  <2>3. \A k \in 1 .. Len(m_new_clients) :
          /\ m_new_clients'[k] \in 1 .. n /\ m_new_clients'[k] # n + 1
          /\ owner'[m_new_clients'[k]] = Nobody
    <3>1. \A k \in 1 .. Len(m_new_clients) :
            m_new_clients[k] \in 1 .. n /\ owner[m_new_clients[k]] = Nobody
      BY <1>1, <1>11 DEF ObjectsInv
    <3>2. \A o \in 1 .. n : o # n + 1
      BY <1>3
    <3> QED
      BY <3>1, <3>2, <1>6, <1>10
  <2>4. \A k \in 1 .. Len(m_new_clients') :
          k \in 1 .. Len(m_new_clients) \/ k = Len(m_new_clients) + 1
    BY <1>10
  <2>5. \A k \in 1 .. Len(m_new_clients') :
          m_new_clients'[k] \in 1 .. n + 1 /\ owner'[m_new_clients'[k]] = Nobody
    <3>1. n + 1 \in 1 .. n + 1 /\ \A o \in 1 .. n : o \in 1 .. n + 1
      BY <1>3
    <3> QED
      BY <3>1, <2>3, <2>4, <1>6, <1>10
  <2>6. \A j, k \in 1 .. Len(m_new_clients') : m_new_clients'[j] = m_new_clients'[k] => j = k
    <3>1. \A j, k \in 1 .. Len(m_new_clients) : m_new_clients'[j] = m_new_clients'[k] => j = k
      BY <1>1, <1>10 DEF ObjectsInv
    <3> QED
      BY <3>1, <2>3, <2>4, <1>10
  <2> QED
    BY <2>2, <2>5, <2>6, <1>11 DEF ObjectsInv
<1>16. QueuesInv'
  <2>1. ASSUME NEW o \in 1 .. n + 1
        PROVE  InQueue(Read(o)', m_buffer'[o], arrived[m_clients'[o]], Len(arrived[m_clients'[o]]))
    <3>1. CASE o \in 1 .. n
      <4>1. Read(o)' = Read(o) /\ m_buffer'[o] = m_buffer[o] /\ m_clients'[o] = m_clients[o]
        BY <3>1, <1>4, <1>7, <1>8, <1>9 DEF Read
      <4>2. o \in Objects
        BY <3>1, <1>11
      <4> QED
        BY <4>1, <4>2, <1>1, AtHand
    <3>2. CASE o = n + 1
      <4>1. Read(o)' = <<>> /\ m_buffer'[o] = <<>>
        <5>1. <<>> \o <<>> = <<>>
          OBVIOUS
        <5> QED
          BY <5>1, <3>2, <1>7, <1>8, <1>9 DEF Read
      <4> QED
        BY <4>1, QueueEmpty
    <3> QED
      BY <3>1, <3>2, <1>11
  <2>2. \A o \in 1 .. n + 1 : m_clients'[o] \in Peers
    BY <1>4
  <2> QED
    BY <2>1, <2>2, <1>1, <1>11, <1>12 DEF QueuesInv
<1> QED
  BY <1>12, <1>13, <1>14, <1>15, <1>16 DEF ServerInv

(* What read_packet takes off the queue is the next packet or is dropped.   *)
LEMMA TakeBytesStep ==
  ASSUME ServerInv, NEW t \in Threads, TakeBytes(t)
  PROVE  ServerInv'
<1> DEFINE o == call[t].object
           p == m_clients[o]
           n == IF Len(m_buffer[o]) < NetMax THEN Len(m_buffer[o]) ELSE NetMax
           b == SubSeq(m_buffer[o], 1, n)
           a == arrived[p]
<1>1. /\ PeersInv /\ ListsInv /\ ArrivedInv /\ LockInv /\ ObjectsInv /\ QueuesInv
      /\ call[t].pc = "take" /\ o # 0 /\ Moves(t, Idle)
      /\ m_buffer' = [m_buffer EXCEPT ![o] = SubSeq(@, n + 1, Len(@))]
      /\ inbox' = [inbox EXCEPT ![o] = IF WholeFrame(b) THEN Append(@, b) ELSE @]
      /\ PeersUnchanged
      /\ UNCHANGED <<open, lock, buf, m_clients, m_new_clients, connected, owner, delivered, arrived>>
  BY DEF ServerInv, TakeBytes, PeersUnchanged, peer, Moves
<1>2. o \in Objects
  <2>1. o \in 0 .. Len(m_clients) /\ Len(m_clients) \in Nat
    BY <1>1 DEF LockInv, ListsInv
  <2> QED
    BY <2>1, <1>1 DEF Objects
<1>3. /\ p \in Peers /\ a \in Seq(Seq(Bytes)) /\ m_buffer[o] \in Seq(Bytes)
      /\ inbox[o] \in Seq(Seq(Bytes)) /\ delivered[o] \in Seq(Seq(Bytes))
      /\ Read(o) \in Seq(Seq(Bytes)) /\ Filed(p) \in 0 .. Len(a)
      /\ \A k \in 1 .. Len(a) : Datagram(p, a[k])
      /\ InQueue(Read(o), m_buffer[o], a, Filed(p))
  BY <1>1, <1>2, QueueTypes DEF QueuesInv
<1>4. n \in 0 .. Len(m_buffer[o])
  <2>1. Len(m_buffer[o]) \in Nat /\ NetMax \in Nat
    BY <1>3, SizesAssumption
  <2> QED
    BY <2>1
<1> DEFINE l == Later(m_buffer[o], n)
           i == IF WholeFrame(b) THEN Append(inbox[o], b) ELSE inbox[o]
<1>5. m_buffer' = [m_buffer EXCEPT ![o] = l] /\ inbox' = [inbox EXCEPT ![o] = i]
  BY <1>1 DEF Later
<1> HIDE DEF o, n
<1>6. l \in Seq(Bytes)
  BY <1>3, <1>4, LaterBytes
<1>7. b \in Seq(Bytes)
  <2>1. \A k \in 1 .. n : m_buffer[o][k] \in Bytes
    BY <1>3, <1>4
  <2> QED
    BY <1>4, <2>1, SubSeqProperties
<1> HIDE DEF b, l, a, p
<1>8. i \in Seq(Seq(Bytes)) /\ InQueue(delivered[o] \o i, l, a, Filed(p))
  <2>1. CASE WholeFrame(b)
    <3>1. i = Append(inbox[o], b) /\ i \in Seq(Seq(Bytes))
      BY <2>1, <1>3, <1>7, AppendProperties
    <3>2. delivered[o] \o Append(inbox[o], b) = Append(Read(o), b)
      <4> DEFINE d == delivered[o]
                 x == inbox[o]
      <4>1. d \in Seq(Seq(Bytes)) /\ x \in Seq(Seq(Bytes)) /\ b \in Seq(Bytes)
        BY <1>3, <1>7
      <4> HIDE DEF d, x
      <4>2. d \o Append(x, b) = Append(d \o x, b)
        BY <4>1, AppendLast
      <4> QED
        BY <4>2 DEF d, x, Read
    <3>3. InQueue(Append(Read(o), b), l, a, Filed(p))
      BY <2>1, <1>3, <1>4, QueueTake DEF b, l
    <3> QED
      BY <3>1, <3>2, <3>3
  <2>2. CASE ~WholeFrame(b)
    <3>1. i = inbox[o]
      BY <2>2
    <3>2. InQueue(Read(o), l, a, Filed(p))
      BY <1>3, <1>4, QueueDrop DEF l
    <3> QED
      BY <3>1, <3>2, <1>3 DEF Read
  <2> QED
    BY <2>1, <2>2
<1> HIDE DEF i
<1>9. /\ m_buffer' \in Seq(Seq(Bytes)) /\ Len(m_buffer') = Len(m_buffer)
      /\ \A q \in Objects : m_buffer'[q] = IF q = o THEN l ELSE m_buffer[q]
  <2>1. m_buffer \in Seq(Seq(Bytes)) /\ o \in 1 .. Len(m_buffer) /\ Objects = 1 .. Len(m_buffer)
    BY <1>1, <1>2 DEF ListsInv, Objects
  <2> QED
    BY <2>1, <1>5, <1>6, ExceptSeq
<1>10. /\ inbox' \in Seq(Seq(Seq(Bytes))) /\ Len(inbox') = Len(inbox)
       /\ \A q \in Objects : inbox'[q] = IF q = o THEN i ELSE inbox[q]
  <2>1. inbox \in Seq(Seq(Seq(Bytes))) /\ o \in 1 .. Len(inbox) /\ Objects = 1 .. Len(inbox)
    BY <1>1, <1>2 DEF ListsInv, Objects
  <2> QED
    BY <2>1, <1>5, <1>8, ExceptSeq
<1>11. LockInv' /\ \A q \in Peers : Filed(q)' = Filed(q)
  <2>1. ~Holding(t) /\ 0 \in 0 .. Len(m_clients)
    BY <1>1 DEF Holding, ListsInv
  <2> QED
    BY <1>1, <2>1, CallKept, IdleCall
<1>12. PeersInv'
  BY <1>1, PeersKept
<1>13. ListsInv' /\ ArrivedInv'
  BY <1>1, <1>9, <1>10 DEF ListsInv, ArrivedInv
<1>14. ObjectsInv'
  BY <1>1 DEF ObjectsInv, Objects
<1>15. QueuesInv'
  <2>1. ASSUME NEW q \in Objects
        PROVE  InQueue(Read(q)', m_buffer'[q], arrived[m_clients[q]], Filed(m_clients[q]))
    <3>1. CASE q = o
      <4>1. Read(q)' = delivered[o] \o i /\ m_buffer'[q] = l
        BY <3>1, <1>1, <1>9, <1>10 DEF Read
      <4> QED
        BY <4>1, <3>1, <1>8 DEF a, p
    <3>2. CASE q # o
      <4>1. Read(q)' = Read(q) /\ m_buffer'[q] = m_buffer[q]
        BY <3>2, <1>1, <1>9, <1>10 DEF Read
      <4> QED
        BY <4>1, <1>1 DEF QueuesInv
    <3> QED
      BY <3>1, <3>2
  <2>2. Objects' = Objects /\ \A q \in Objects : m_clients[q] \in Peers
    BY <1>1 DEF Objects, ListsInv
  <2> QED
    BY <2>1, <2>2, <1>1, <1>11 DEF QueuesInv
<1> QED
  BY <1>11, <1>12, <1>13, <1>14, <1>15 DEF ServerInv

-----------------------------------------------------------------------------
LEMMA ServerInvInit == Init => ServerInv
<1>1. SUFFICES ASSUME Init
               PROVE  ServerInv
  OBVIOUS
<1>2. PeersInv
  BY <1>1, SizesAssumption DEF Init, PeersInv
<1>3. ListsInv
  BY <1>1 DEF Init, ListsInv
<1>4. ArrivedInv
  BY <1>1 DEF Init, ArrivedInv
<1>5. LockInv
  <2>1. \A t \in Threads : call[t] = Idle /\ lock # t
    BY <1>1, NobodyAssumption DEF Init
  <2>2. call \in [Threads -> Calling] /\ 0 \in 0 .. Len(m_clients)
    BY <1>1, IdleCall DEF Init
  <2> QED
    BY <2>1, <2>2, IdleCall DEF LockInv, Holding
<1>6. ObjectsInv /\ QueuesInv
  BY <1>1 DEF Init, ObjectsInv, QueuesInv, Objects
<1> QED
  BY <1>2, <1>3, <1>4, <1>5, <1>6 DEF ServerInv

LEMMA ServerInvStep == ServerInv /\ [Next]_vars => ServerInv'
<1>1. SUFFICES ASSUME ServerInv, [Next]_vars
               PROVE  ServerInv'
  OBVIOUS
<1>2. ASSUME NEW p \in Peers, Connect(p) \/ Write(p) \/ PeerReads(p)
      PROVE  ServerInv'
  BY <1>1, <1>2, PeersStep
<1>3. ASSUME NEW t \in Threads, NEW o \in Objects \cup {0}, Calls(t, o)
      PROVE  ServerInv'
  BY <1>1, <1>3, ReceiveStep, ReceiveNothingStep, ReadCompleteStep DEF Calls
<1>4. ASSUME NEW t \in Threads, Files(t) \/ Accepts(t) \/ TakeBytes(t)
      PROVE  ServerInv'
  BY <1>1, <1>4, FileStep, AddStep, TakeNewStep, TakeNoneStep, TakeBytesStep DEF Files, Accepts
<1>5. ASSUME NEW t \in Threads, Answer(t) \/ CloseObject(t)
      PROVE  ServerInv'
  BY <1>1, <1>5, OwnerStep
<1>6. CASE UNCHANGED vars
  <2>1. PeersUnchanged /\ ServerUnchanged
    BY <1>6 DEF vars, peer, PeersUnchanged, ServerUnchanged
  <2>2. PeersInv'
    BY <1>1, <2>1, PeersKept DEF ServerInv
  <2> QED
    BY <1>1, <2>1, <2>2, PeerStep
<1> QED
  BY <1>1, <1>2, <1>3, <1>4, <1>5, <1>6 DEF Next

LEMMA ServerInvAlways == Spec => []ServerInv
<1>1. SafetySpec => []ServerInv
  BY ServerInvInit, ServerInvStep, PTL DEF SafetySpec
<1> QED
  BY <1>1, PTL DEF Spec

(* Every address has one udp_client, whichever threads receive its first    *)
(* datagrams, accept() hands it to one thread, and the variables keep their *)
(* types.                                                                   *)
THEOREM ObjectsCorrect == Spec => []OneObjectPerPeer
<1>1. ServerInv => TypeOK
  <2>1. SUFFICES ASSUME ServerInv
                 PROVE  TypeOK
    OBVIOUS
  <2>2. /\ PeersInv /\ ListsInv /\ ArrivedInv /\ LockInv /\ ObjectsInv /\ QueuesInv
    BY <2>1 DEF ServerInv
  <2>3. /\ connected \in [Objects -> BOOLEAN] /\ owner \in [Objects -> Threads \cup {Nobody}]
    BY <2>2 DEF ListsInv, Objects
  <2>4. Range(m_new_clients) \subseteq Objects
    BY <2>2 DEF ObjectsInv, ListsInv, Range
  <2>5. ASSUME NEW o \in Objects, NEW j \in DOMAIN m_buffer[o]
        PROVE  \E i \in 0 .. MaxSent(m_clients[o]) :
                 m_buffer[o][j] \in Range(Frame(m_clients[o], i))
    <3> DEFINE p == m_clients[o]
               a == arrived[p]
               b == m_buffer[o]
               s == Read(o)
               m == Filed(p)
    <3>1. /\ p \in Peers /\ a \in Seq(Seq(Bytes)) /\ b \in Seq(Bytes)
          /\ m \in 0 .. Len(a) /\ \A k \in 1 .. Len(a) : Datagram(p, a[k])
      BY <2>2, QueueTypes
    <3>2. InQueue(s, b, a, m)
      BY <2>2 DEF QueuesInv
    <3>3. j \in 1 .. Len(b)
      BY <3>1, <2>5
    <3> HIDE DEF a, b, s, m
    <3>4. PICK g \in [1 .. Len(b) -> 1 .. m] : Queueing(b, a, g)
      BY <3>2 DEF InQueue
    <3>5. g[j] \in 1 .. Len(a) /\ b[j][3] \in 1 .. Len(a[g[j]]) /\ b[j] = a[g[j]][b[j][3]]
      <4>1. b[j][3] \in 1 .. Len(a[g[j]]) /\ b[j] = a[g[j]][b[j][3]]
        BY <3>3, <3>4 DEF Queueing
      <4>2. g[j] \in 1 .. m
        BY <3>3, <3>4
      <4>3. g[j] \in 1 .. Len(a)
        BY <4>2, <3>1
      <4> QED
        BY <4>1, <4>3
    <3>6. Datagram(p, a[g[j]]) /\ a[g[j]] \in Seq(Bytes) /\ a[g[j]] # <<>>
      <4>1. Datagram(p, a[g[j]]) /\ a[g[j]] \in Seq(Bytes)
        BY <3>1, <3>5
      <4>2. Len(a[g[j]]) # 0
        BY <3>5, <4>1
      <4> QED
        BY <4>1, <4>2
    <3>7. PICK i \in 0 .. MaxSent(p) : a[g[j]] = Frame(p, i)
      BY <3>6 DEF Datagram
    <3>8. b[j] \in Range(a[g[j]])
      BY <3>5, <3>6 DEF Range
    <3> QED
      BY <3>7, <3>8 DEF b
  <2>6. \A o \in Objects :
          Range(m_buffer[o]) \subseteq
            UNION {Range(Frame(m_clients[o], i)) : i \in 0 .. MaxSent(m_clients[o])}
    BY <2>5 DEF Range
  <2>7. \A t \in Threads : /\ call[t].pc \in {"idle", "file", "add", "take"}
                           /\ call[t].object \in 0 .. Len(m_clients)
    BY <2>2 DEF LockInv, Calling
  <2> QED
    BY <2>2, <2>3, <2>4, <2>6, <2>7 DEF TypeOK, PeersInv, ListsInv
<1>2. ServerInv => OneObjectPerPeer
  <2>1. SUFFICES ASSUME ServerInv
                 PROVE  OneObjectPerPeer
    OBVIOUS
  <2>2. TypeOK /\ ListsInv /\ ObjectsInv
    BY <1>1, <2>1 DEF ServerInv
  <2>3. \A o \in Objects : owner[o] # Nobody => o \notin Range(m_new_clients)
    <3>1. \A k \in 1 .. Len(m_new_clients) : owner[m_new_clients[k]] = Nobody
      BY <2>2 DEF ObjectsInv
    <3>2. DOMAIN m_new_clients = 1 .. Len(m_new_clients)
      BY <2>2 DEF ListsInv
    <3> QED
      BY <3>1, <3>2 DEF Range
  <2> QED
    BY <2>2, <2>3 DEF OneObjectPerPeer, ObjectsInv
<1> QED
  BY <1>2, ServerInvAlways, PTL

(* read_packet returns whole packets of its own peer, each as often and in  *)
(* the order as its datagram arrived, whichever thread received it and      *)
(* whatever it was queued with.                                             *)
THEOREM DatagramsCorrect == Spec => []DeliveredAsArrived
<1>1. ServerInv => DeliveredAsArrived
  <2>1. SUFFICES ASSUME ServerInv, NEW o \in Objects
                 PROVE  LeavesOut(delivered[o] \o inbox[o], arrived[m_clients[o]])
    BY DEF DeliveredAsArrived
  <2>2. ListsInv /\ ArrivedInv /\ LockInv /\ QueuesInv
    BY <2>1 DEF ServerInv
  <2>3. LeavesOut(Read(o), arrived[m_clients[o]])
    BY <2>2, QueueTypes, QueueOrder DEF QueuesInv
  <2> QED
    BY <2>3 DEF Read
<1> QED
  BY <1>1, ServerInvAlways, PTL
=============================================================================
