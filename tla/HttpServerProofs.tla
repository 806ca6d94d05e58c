--------------------------- MODULE HttpServerProofs ---------------------------
(* Proofs about the handlers of the http server: for any clients, requests, *)
(* lengths and limits, and one worker thread.  With several workers the     *)
(* static receive buffer of process() mixes the requests of their clients.  *)
EXTENDS HttpServer, SequenceTheorems, WellFoundedInduction, TLAPS

OneWorker == \A v, w \in Workers : v = w

(* What a response names: its client and the number of the request.         *)
Ids == Clients \cup {NoClient} \cup Nat

TypeInv ==
  /\ patient \in [Clients -> BOOLEAN]
  /\ asked \in [Clients -> Seq(Kinds)]
  /\ \A c \in Clients : Len(asked[c]) <= MaxRequests
  /\ wire \in [Clients -> Seq(Bytes)]
  /\ peer \in [Clients -> {"there", "gone"}]
  /\ out \in [Clients -> Seq(Seq(Ids))]
  /\ conn \in [Clients -> {"pending", "open", "closed"}]
  /\ owner \in [Clients -> Workers \cup {NoClient}]
  /\ request \in [Clients -> Seq(Bytes)]
  /\ response \in [Clients -> [to : Seq(Ids), sent : Nat]]
  /\ keep \in [Clients -> BOOLEAN] /\ late \in [Clients -> BOOLEAN]
  /\ count \in [Clients -> 0 .. MaxRequests]
  /\ buf \in Seq(Bytes) /\ Len(buf) <= BufLen
  /\ pc \in [Workers -> {"list", "read", "append", "write"}]
  /\ at \in [Workers -> Clients]
  /\ rcvd \in [Workers -> 0 .. BufLen]

(* A response answers a request of its own client, and one that was sent    *)
(* completely is left only on a connection that was closed with it.         *)
ResponseInv(c) ==
  \/ response[c] = NoResponse
  \/ /\ response[c].to[1] = c /\ Len(response[c].to) = 2
     /\ response[c].to[2] \in 1 .. Len(asked[c])
     /\ response[c].sent \in 0 .. ResponseLen
     /\ response[c].sent = ResponseLen => conn[c] = "closed"

(* A worker is at a handler of its own whose connection is open; one that   *)
(* reads has no response yet, and one that has read has it in the buffer.   *)
WorkerInv(w) ==
  /\ pc[w] # "list" => owner[at[w]] = w /\ conn[at[w]] = "open"
  /\ pc[w] \in {"read", "append"} => response[at[w]] = NoResponse
  /\ pc[w] = "write" => response[at[w]] # NoResponse
  /\ pc[w] = "append" => rcvd[w] <= Len(buf)

(* What the worker has read for c and not appended yet.                     *)
Pending(w, c) ==
  IF pc[w] = "append" /\ at[w] = c THEN SubSeq(buf, 1, rcvd[w]) ELSE <<>>

(* The bytes the handler has of the requests, and those it will get.        *)
Line(w, c) == (request[c] \o Pending(w, c)) \o wire[c]

(* Bytes of requests that c has sent, in the order in which it sent them,   *)
(* those of one request without a gap; and all of requests after i.         *)
OfClient(c, a, s) ==
  \A j \in 1 .. Len(s) :
    s[j][1] = c /\ s[j][2] \in 1 .. Len(a) /\ s[j][3] \in 1 .. LenOf(a[s[j][2]])
Ordered(s) ==
  \A j, l \in 1 .. Len(s) : j < l =>
    \/ s[j][2] < s[l][2]
    \/ s[j][2] = s[l][2] /\ s[l][3] = s[j][3] + (l - j)
After(s, i) == \A j \in 1 .. Len(s) : s[j][2] > i

(* The last request that was answered completely, while c is served.        *)
LastAnswered(c) == IF count[c] = 0 THEN 0 ELSE out[c][ResponseLen * count[c]][2]

(* What is left to read comes after the request that is answered, or was    *)
(* answered last.                                                           *)
LineInv(w, c) ==
  /\ OfClient(c, asked[c], Line(w, c)) /\ Ordered(Line(w, c))
  /\ IF response[c] = NoResponse THEN After(Line(w, c), LastAnswered(c))
     ELSE After(wire[c], response[c].to[2])

(* A connection that is served has been sent count responses and a part of  *)
(* the next, to a later request.                                            *)
ServedInv(c) ==
  /\ Len(out[c]) = ResponseLen * count[c] + response[c].sent
  /\ LastAnswered(c) \in count[c] .. Len(asked[c])
  /\ response[c] # NoResponse =>
       LET i == response[c].to[2] IN
       /\ LastAnswered(c) < i
       /\ keep[c] = KeptAlive(asked[c][i])
       /\ \A j \in ResponseLen * count[c] + 1 .. Len(out[c]) : out[c][j][2] = i

(* A connection nobody has accepted yet.                                    *)
PendingInv(c) ==
  owner[c] = NoClient /\ request[c] = <<>> /\ response[c] = NoResponse

(* The bytes o that c has been sent of the responses to the requests a.     *)
AnswerInv(c, a, o, one, shut, j) ==
  LET b == o[j]
  IN /\ b[1] = c /\ b[2] \in 1 .. Len(a)
     /\ b[3] = ((j - 1) % ResponseLen) + 1
     /\ b[3] > 1 => b[2] = o[j - 1][2]
     /\ b[3] = 1 /\ j > 1 => b[2] > o[j - 1][2]
     /\ one => b[2] = ((j - 1) \div ResponseLen) + 1
     /\ b[3] = ResponseLen /\ a[b[2]] = "last" => j = Len(o) /\ shut
     /\ b[3] = ResponseLen /\ KeepAliveMax > 0 /\ j \div ResponseLen >= KeepAliveMax
          => j = Len(o) /\ shut

(* What was sent stays right, and a patient client has one request open.    *)
OutInv(c) ==
  /\ \A j \in 1 .. Len(out[c]) :
       AnswerInv(c, asked[c], out[c], patient[c], conn[c] = "closed", j)
  /\ patient[c] => ResponseLen * Len(asked[c]) <= Len(out[c]) + ResponseLen

ClientInv(c) ==
  /\ ResponseInv(c) /\ OutInv(c)
  /\ conn[c] = "pending" => PendingInv(c)
  /\ conn[c] # "pending" => owner[c] \in Workers
  /\ conn[c] # "closed" => ServedInv(c)

HandlerInv ==
  /\ TypeInv
  /\ \A w \in Workers : WorkerInv(w)
  /\ \A c \in Clients : ClientInv(c)
  /\ \A w \in Workers, c \in Clients : conn[c] # "closed" => LineInv(w, c)

-----------------------------------------------------------------------------
(* Bytes of requests.                                                       *)

(* A byte of a request is its client, the number of the request and its     *)
(* place in it.                                                             *)
LEMMA ByteParts ==
  ASSUME NEW b \in Bytes
  PROVE  /\ b[1] \in Clients /\ b[2] \in 1 .. MaxRequests /\ b[2] \in Nat
         /\ b[3] \in 1 .. HeadLen + BodyLen /\ b[3] \in Nat
BY LensAssumption DEF Bytes

LEMMA LenOfNat ==
  ASSUME NEW kind
  PROVE  /\ BodyOf(kind) \in Nat /\ LenOf(kind) \in Nat
         /\ LenOf(kind) = HeadLen + BodyOf(kind) /\ LenOf(kind) <= HeadLen + BodyLen
BY LensAssumption DEF LenOf, BodyOf

(* A piece of the bytes is as well ordered as all of them.                  *)
LEMMA Piece ==
  ASSUME NEW c, NEW a, NEW s \in Seq(Bytes), NEW t \in Seq(Bytes), NEW k \in Nat,
         Len(t) + k <= Len(s), \A j \in 1 .. Len(t) : t[j] = s[j + k]
  PROVE  /\ OfClient(c, a, s) => OfClient(c, a, t)
         /\ Ordered(s) => Ordered(t)
         /\ \A i \in Nat : After(s, i) => After(t, i)
<1>1. \A j \in 1 .. Len(t) : j + k \in 1 .. Len(s)
  OBVIOUS
<1>2. OfClient(c, a, s) => OfClient(c, a, t)
  BY <1>1 DEF OfClient
<1>3. ASSUME Ordered(s)
      PROVE  Ordered(t)
  <2>1. SUFFICES ASSUME NEW j \in 1 .. Len(t), NEW l \in 1 .. Len(t), j < l
                 PROVE  \/ t[j][2] < t[l][2]
                        \/ t[j][2] = t[l][2] /\ t[l][3] = t[j][3] + (l - j)
    BY DEF Ordered
  <2>2. j + k \in 1 .. Len(s) /\ l + k \in 1 .. Len(s) /\ j + k < l + k
    BY <1>1, <2>1
  <2>3. \/ s[j + k][2] < s[l + k][2]
        \/ s[j + k][2] = s[l + k][2] /\ s[l + k][3] = s[j + k][3] + ((l + k) - (j + k))
    BY <2>2, <1>3 DEF Ordered
  <2>4. (l + k) - (j + k) = l - j
    OBVIOUS
  <2> QED
    BY <2>3, <2>4
<1>4. \A i \in Nat : After(s, i) => After(t, i)
  BY <1>1 DEF After
<1> QED
  BY <1>2, <1>3, <1>4

(* The next request follows the bytes of those before it.                   *)
LEMMA NextRequest ==
  ASSUME NEW c \in Clients, NEW a \in Seq(Kinds), NEW kind \in Kinds,
         Len(a) < MaxRequests, NEW s \in Seq(Bytes),
         OfClient(c, a, s), Ordered(s),
         NEW t, t = [k \in 1 .. LenOf(kind) |-> <<c, Len(a) + 1, k>>]
  PROVE  /\ t \in Seq(Bytes) /\ s \o t \in Seq(Bytes)
         /\ OfClient(c, Append(a, kind), s \o t) /\ Ordered(s \o t)
         /\ \A i \in 0 .. Len(a) : After(t, i)
<1> DEFINE m == LenOf(kind)
           n == Len(a) + 1
<1>1. m \in Nat /\ m <= HeadLen + BodyLen /\ n \in 1 .. MaxRequests /\ n \in Nat
  BY LenOfNat, LensAssumption
<1>2. t \in Seq(Bytes) /\ Len(t) = m /\ \A k \in 1 .. m : t[k] = <<c, n, k>>
  <2>1. \A k \in 1 .. m : <<c, n, k>> \in Bytes
    BY <1>1, LensAssumption DEF Bytes
  <2> HIDE DEF n
  <2>2. t = [k \in 1 .. m |-> <<c, n, k>>]
    BY DEF n
  <2> QED
    BY <2>1, <2>2, <1>1
<1> DEFINE u == s \o t
<1>3. /\ u \in Seq(Bytes) /\ Len(u) = Len(s) + m
      /\ \A j \in 1 .. Len(s) : u[j] = s[j]
      /\ \A j \in Len(s) + 1 .. Len(u) :
           u[j][1] = c /\ u[j][2] = n /\ u[j][3] = j - Len(s)
  <2>1. u \in Seq(Bytes) /\ Len(u) = Len(s) + m /\ \A j \in 1 .. Len(s) : u[j] = s[j]
    BY <1>2, <1>1
  <2>2. ASSUME NEW j \in Len(s) + 1 .. Len(u)
        PROVE  u[j][1] = c /\ u[j][2] = n /\ u[j][3] = j - Len(s)
    <3> DEFINE k == j - Len(s)
    <3>1. k \in 1 .. m /\ u[j] = t[k]
      BY <2>1, <1>2, <1>1
    <3> HIDE DEF k, u, m, n
    <3>2. u[j] = <<c, n, k>>
      BY <3>1, <1>2
    <3> QED
      BY <3>2 DEF k
  <2> QED
    BY <2>1, <2>2
<1>4. \A j \in 1 .. Len(s) : u[j][2] \in 1 .. Len(a) /\ s[j][2] \in Nat /\ s[j][3] \in Nat
  BY <1>3, ByteParts DEF OfClient
<1> DEFINE b == Append(a, kind)
<1>5. Len(b) = n /\ b[n] = kind /\ \A i \in 1 .. Len(a) : b[i] = a[i]
  OBVIOUS
<1> HIDE DEF n, m, u, b
<1>6. OfClient(c, b, u)
  <2>1. SUFFICES ASSUME NEW j \in 1 .. Len(u)
                 PROVE  u[j][1] = c /\ u[j][2] \in 1 .. Len(b) /\ u[j][3] \in 1 .. LenOf(b[u[j][2]])
    BY DEF OfClient
  <2>2. CASE j \in 1 .. Len(s)
    <3>1. u[j] = s[j] /\ s[j][1] = c /\ s[j][2] \in 1 .. Len(a) /\ s[j][3] \in 1 .. LenOf(a[s[j][2]])
      BY <2>2, <1>3 DEF OfClient
    <3>2. b[s[j][2]] = a[s[j][2]] /\ Len(b) = Len(a) + 1
      BY <3>1, <1>5 DEF n
    <3> QED
      BY <3>1, <3>2
  <2>3. CASE j \in Len(s) + 1 .. Len(u)
    BY <2>3, <1>3, <1>5, <1>1 DEF m
  <2> QED
    BY <2>1, <2>2, <2>3, <1>3
<1>7. Ordered(u)
  <2>1. SUFFICES ASSUME NEW j \in 1 .. Len(u), NEW l \in 1 .. Len(u), j < l
                 PROVE  \/ u[j][2] < u[l][2]
                        \/ u[j][2] = u[l][2] /\ u[l][3] = u[j][3] + (l - j)
    BY DEF Ordered
  <2>2. CASE l \in 1 .. Len(s)
    <3>1. j \in 1 .. Len(s) /\ u[j] = s[j] /\ u[l] = s[l]
      BY <2>1, <2>2, <1>3
    <3> QED
      BY <2>1, <2>2, <3>1 DEF Ordered
  <2>3. CASE l \notin 1 .. Len(s) /\ j \in 1 .. Len(s)
    <3>1. l \in Len(s) + 1 .. Len(u)
      BY <2>3, <1>3, <1>1
    <3>2. u[l][2] = n /\ u[j][2] \in 1 .. Len(a)
      BY <3>1, <2>3, <1>3, <1>4
    <3> QED
      BY <3>2 DEF n
  <2>4. CASE l \notin 1 .. Len(s) /\ j \notin 1 .. Len(s)
    <3>1. j \in Len(s) + 1 .. Len(u) /\ l \in Len(s) + 1 .. Len(u)
      BY <2>4, <1>3, <1>1
    <3>2. u[j][2] = n /\ u[l][2] = n /\ u[j][3] = j - Len(s) /\ u[l][3] = l - Len(s)
      BY <3>1, <1>3
    <3>3. l - Len(s) = (j - Len(s)) + (l - j)
      BY <2>4, <1>3
    <3> QED
      BY <3>2, <3>3
  <2> QED
    BY <2>2, <2>3, <2>4
<1>8. \A i \in 0 .. Len(a) : After(t, i)
  <2>1. ASSUME NEW j \in 1 .. m
        PROVE  t[j][2] = n
    <3>1. t[j] = <<c, n, j>>
      BY <1>2
    <3> QED
      BY <3>1
  <2>2. \A i \in 0 .. Len(a) : n > i
    BY DEF n
  <2> QED
    BY <2>1, <2>2, <1>2 DEF After
<1> QED
  BY <1>2, <1>3, <1>6, <1>7, <1>8 DEF u, b

-----------------------------------------------------------------------------
(* The parser.                                                              *)

(* A set of positions that is not empty has a first.                        *)
LEMMA FirstOf ==
  ASSUME NEW E \in SUBSET Nat, E # {}
  PROVE  \E j \in E : \A i \in E : j <= i
<1> DEFINE R == {ss \in Nat \X Nat : ss[1] < ss[2]}
<1>1. IsWellFoundedOn(R, Nat)
  BY NatLessThanWellFounded DEF OpToRel
<1>2. PICK j \in E : \A i \in E : ~(<<i, j>> \in R)
  BY <1>1, WFMin, Zenon
<1>3. \A i \in E : ~(i < j)
  BY <1>2
<1> QED
  BY <1>3

(* What is parsed successfully begins with a request of the client, and     *)
(* what follows it belongs to later ones.                                   *)
LEMMA Complete ==
  ASSUME NEW c \in Clients, NEW s \in Seq(Bytes), NEW t \in Seq(Bytes),
         asked[c] \in Seq(Kinds),
         OfClient(c, asked[c], s \o t), Ordered(s \o t), Parse(s) = "success"
  PROVE  /\ s # <<>> /\ s[1][1] = c /\ s[1][2] \in 1 .. Len(asked[c])
         /\ s[1][2] \in Nat /\ KindOf(s[1]) = asked[c][s[1][2]]
         /\ After(t, s[1][2])
<1> DEFINE h == HeaderEnd(s)
           i == s[1][2]
<1>1. Ends(s) # {} /\ IsHeader(SubSeq(s, 1, h)) /\ BodyComplete(s)
  BY DEF Parse
<1>2. h \in Ends(s)
  <2>1. Ends(s) \in SUBSET Nat
    BY DEF Ends
  <2>2. \E j \in Ends(s) : \A l \in Ends(s) : j <= l
    BY <2>1, <1>1, FirstOf
  <2> QED
    BY <2>2 DEF HeaderEnd
<1>3. h \in 1 .. Len(s)
  BY <1>2 DEF Ends
<1> HIDE DEF h
<1>4. h = HeadLen /\ s[1][3] = 1
  <2> DEFINE q == SubSeq(s, 1, h)
  <2>1. Len(q) = h /\ q[1] = s[1] /\ q \in Seq(Bytes)
    BY <1>3
  <2>2. q = [k \in 1 .. HeadLen |-> <<q[1][1], q[1][2], k>>]
    BY <1>1 DEF IsHeader
  <2> HIDE DEF q
  <2>3. DOMAIN q = 1 .. HeadLen /\ DOMAIN q = 1 .. Len(q)
    <3>1. DOMAIN q = 1 .. HeadLen
      BY <2>2
    <3> QED
      BY <3>1, <2>1
  <2>4. h = HeadLen
    BY <2>1, <2>3, <1>3, LensAssumption
  <2>5. 1 \in 1 .. HeadLen
    BY LensAssumption
  <2>6. q[1] = <<q[1][1], q[1][2], 1>>
    BY <2>2, <2>5
  <2> QED
    BY <2>1, <2>4, <2>6
<1> DEFINE u == s \o t
<1>5. /\ u \in Seq(Bytes) /\ Len(u) = Len(s) + Len(t) /\ u[1] = s[1]
      /\ \A j \in 1 .. Len(t) : u[j + Len(s)] = t[j]
  BY <1>3
<1> HIDE DEF u
<1>6. s[1][1] = c /\ i \in 1 .. Len(asked[c])
  BY <1>5, <1>3 DEF OfClient, u
<1>7. KindOf(s[1]) = asked[c][i]
  BY <1>6 DEF KindOf
<1>8. Len(s) >= LenOf(asked[c][i])
  <2>1. Len(s) - h >= BodyOf(asked[c][i])
    BY <1>1, <1>7 DEF BodyComplete, h
  <2> QED
    BY <2>1, <1>4, LenOfNat, LensAssumption
<1>9. ASSUME NEW j \in 1 .. Len(t)
      PROVE  t[j][2] > i
  <2> DEFINE l == j + Len(s)
  <2>1. l \in 1 .. Len(u) /\ 1 < l /\ 1 \in 1 .. Len(u) /\ u[l] = t[j] /\ l \in Nat
    BY <1>5, <1>3
  <2> HIDE DEF l
  <2>2. \/ u[1][2] < u[l][2]
        \/ u[1][2] = u[l][2] /\ u[l][3] = u[1][3] + (l - 1)
    BY <2>1 DEF Ordered, u
  <2>3. CASE u[1][2] < u[l][2]
    BY <2>3, <2>1, <1>5
  <2>4. CASE u[1][2] = u[l][2] /\ u[l][3] = u[1][3] + (l - 1)
    <3>0. u[1][3] = 1
      BY <1>4, <1>5
    <3>1. u[l][3] = l
      BY <2>4, <3>0, <2>1
    <3>2. u[l][3] \in 1 .. LenOf(asked[c][i])
      BY <2>4, <2>1, <1>5 DEF OfClient, u
    <3>3. l > Len(s) /\ LenOf(asked[c][i]) \in Nat
      BY <1>3, LenOfNat DEF l
    <3> QED
      BY <3>1, <3>2, <3>3, <1>8, <2>1
  <2> QED
    BY <2>2, <2>3, <2>4
<1> QED
  BY <1>3, <1>6, <1>7, <1>9 DEF After

-----------------------------------------------------------------------------
(* The bytes of responses.                                                  *)

(* k0 whole responses are q bytes.                                          *)
Place(q, k0) ==
  /\ \A r \in 0 .. ResponseLen - 1 :
       (q + r) % ResponseLen = r /\ (q + r) \div ResponseLen = k0
  /\ (q + ResponseLen) \div ResponseLen = k0 + 1

(* The bytes o are right, and those after q of the response to request i.   *)
SoFar(c, a, o, one, q, i) ==
  /\ \A j \in 1 .. Len(o) : AnswerInv(c, a, o, one, FALSE, j)
  /\ q > 0 => o[q][2] < i
  /\ \A j \in q + 1 .. Len(o) : o[j][2] = i

(* o2 is o and n bytes more of the response to request i.                   *)
Longer(o, o2, c, q, i, sent, n) ==
  /\ Len(o2) = (q + sent) + n
  /\ \A j \in 1 .. q + sent : o2[j] = o[j]
  /\ \A k \in 1 .. n : LET b == o2[(q + sent) + k]
                     IN b[1] = c /\ b[2] = i /\ b[3] = sent + k

(* The last byte closes a connection that is not kept alive.                *)
Shuts(a, k0, i, sent, n, shut) ==
  /\ sent + n = ResponseLen /\ a[i] = "last" => shut
  /\ sent + n = ResponseLen /\ KeepAliveMax > 0 /\ k0 + 1 >= KeepAliveMax => shut

Block(to, sent, n) == [k \in 1 .. n |-> to \o <<sent + k>>]

LEMMA Cancel ==
  ASSUME NEW m \in Nat \ {0}, NEW x \in Nat, NEW y \in Nat, m * x < m * y
  PROVE  x < y
OBVIOUS

LEMMA Places ==
  ASSUME NEW m \in Nat \ {0}, NEW q \in Nat, NEW r \in 0 .. m - 1
  PROVE  (m * q + r) % m = r /\ (m * q + r) \div m = q
OBVIOUS

(* b is a byte of a response: what the response names, and its place.       *)
ByteOf(b, to, k) == b \in Seq(Ids) /\ b[1] = to[1] /\ b[2] = to[2] /\ b[3] = k

LEMMA Third ==
  ASSUME NEW to \in Seq(Ids), Len(to) = 2, NEW e \in Ids
  PROVE  ByteOf(to \o <<e>>, to, e)
<1> DEFINE u == <<e>>
<1>1. u \in Seq(Ids) /\ Len(u) = 1 /\ u[1] = e
  OBVIOUS
<1> HIDE DEF u
<1> DEFINE v == to \o u
<1>2. v \in Seq(Ids) /\ \A j \in 1 .. Len(to) + Len(u) :
         v[j] = IF j <= Len(to) THEN to[j] ELSE u[j - Len(to)]
  BY <1>1, ConcatProperties
<1> HIDE DEF v
<1>3. Len(to) + Len(u) = 3
  BY <1>1
<1>4. v[1] = to[1] /\ v[2] = to[2]
  BY <1>2, <1>3
<1>5. v[3] = u[1]
  <2>1. v[3] = u[3 - Len(to)]
    BY <1>2, <1>3
  <2> QED
    BY <2>1
<1>6. ByteOf(v, to, e)
  BY <1>1, <1>2, <1>4, <1>5 DEF ByteOf
<1> QED
  BY <1>6 DEF u, v

(* u is o and the next n bytes of a response of which sent bytes were sent. *)
Appended(o, u, to, sent, n) ==
  /\ u \in Seq(Seq(Ids)) /\ Len(u) = Len(o) + n
  /\ \A j \in 1 .. Len(o) : u[j] = o[j]
  /\ \A k \in 1 .. n : ByteOf(u[Len(o) + k], to, sent + k)

LEMMA SentBytes ==
  ASSUME NEW o \in Seq(Seq(Ids)), NEW to \in Seq(Ids), Len(to) = 2,
         NEW sent \in Nat, NEW n \in Nat
  PROVE  Appended(o, o \o Block(to, sent, n), to, sent, n)
<1> DEFINE t == Block(to, sent, n)
<1>1. ASSUME NEW k \in 1 .. n
      PROVE  t[k] \in Seq(Ids) /\ ByteOf(t[k], to, sent + k)
  <2> DEFINE e == sent + k
  <2>1. e \in Ids
    BY DEF Ids
  <2>2. t[k] = to \o <<e>>
    BY DEF Block
  <2> HIDE DEF e, t
  <2>3. ByteOf(to \o <<e>>, to, e)
    BY <2>1, Third
  <2>4. ByteOf(t[k], to, e)
    BY <2>2, <2>3
  <2> QED
    BY <2>4 DEF ByteOf, e
<1>2. t \in Seq(Seq(Ids)) /\ Len(t) = n
  <2>1. t = [k \in 1 .. n |-> t[k]]
    BY DEF Block
  <2> HIDE DEF t
  <2>2. \A k \in 1 .. n : t[k] \in Seq(Ids)
    BY <1>1
  <2>3. t \in [1 .. n -> Seq(Ids)]
    BY <2>1, <2>2
  <2> QED
    BY <2>3
<1> HIDE DEF t
<1> DEFINE u == o \o t
<1>3. /\ u \in Seq(Seq(Ids)) /\ Len(u) = Len(o) + Len(t)
      /\ \A j \in 1 .. Len(o) + Len(t) : u[j] = IF j <= Len(o) THEN o[j] ELSE t[j - Len(o)]
  BY <1>2, ConcatProperties
<1> HIDE DEF u
<1>4. ASSUME NEW j \in 1 .. Len(o)
      PROVE  u[j] = o[j]
  <2>1. j \in 1 .. Len(o) + Len(t) /\ j <= Len(o)
    BY <1>2
  <2> QED
    BY <2>1, <1>3
<1>5. ASSUME NEW k \in 1 .. n
      PROVE  ByteOf(u[Len(o) + k], to, sent + k)
  <2>1. Len(o) + k \in 1 .. Len(o) + Len(t) /\ ~(Len(o) + k <= Len(o)) /\ (Len(o) + k) - Len(o) = k
    BY <1>2
  <2>2. u[Len(o) + k] = t[k]
    BY <2>1, <1>3
  <2> QED
    BY <2>2, <1>1
<1>6. Appended(o, u, to, sent, n)
  BY <1>2, <1>3, <1>4, <1>5 DEF Appended
<1> QED
  BY <1>6 DEF u, t

(* All bytes so far are right, and those after q of the response to i.      *)
AllRight(c, a, o, one, shut, q, i) ==
  /\ \A j \in 1 .. Len(o) : AnswerInv(c, a, o, one, shut, j)
  /\ \A j \in q + 1 .. Len(o) : o[j][2] = i

(* A part of the response to request i is appended to k0 responses and the  *)
(* beginning of this one.                                                   *)
LEMMA Sent ==
  ASSUME NEW c, NEW a, NEW o, NEW one \in BOOLEAN, NEW shut \in BOOLEAN,
         NEW k0 \in Nat, NEW q \in Nat, NEW sent \in Nat, NEW i \in Nat, NEW n \in Nat,
         sent < ResponseLen, sent + n <= ResponseLen, i \in 1 .. Len(a),
         Place(q, k0), Len(o) = q + sent, SoFar(c, a, o, one, q, i),
         one => i = k0 + 1,
         Shuts(a, k0, i, sent, n, shut), NEW o2, Longer(o, o2, c, q, i, sent, n)
  PROVE  AllRight(c, a, o2, one, shut, q, i)
<1> DEFINE R == ResponseLen
<1>1. R \in Nat \ {0} /\ KeepAliveMax \in Nat /\ sent < R /\ sent + n <= R
  BY LensAssumption
<1> DEFINE l == q + sent
<1>2. l \in Nat /\ Len(o) = l /\ Len(o2) = l + n /\ \A j \in 1 .. l : o2[j] = o[j]
  BY DEF Longer
<1>3. ASSUME NEW r \in sent + 1 .. sent + n
      PROVE  o2[q + r][1] = c /\ o2[q + r][2] = i /\ o2[q + r][3] = r
  <2> DEFINE k == r - sent
  <2>1. k \in 1 .. n /\ q + r = (q + sent) + k /\ r = sent + k
    OBVIOUS
  <2> HIDE DEF k
  <2> QED
    BY <2>1 DEF Longer
<1> HIDE DEF R
<1>4. ASSUME NEW j \in q + 1 .. l + n
      PROVE  o2[j][2] = i
  <2>1. CASE j <= l
    <3>1. j \in 1 .. l /\ j \in q + 1 .. l
      BY <2>1
    <3> QED
      BY <3>1, <1>2 DEF SoFar
  <2>2. CASE j > l
    <3> DEFINE r == j - q
    <3>1. r \in sent + 1 .. sent + n /\ q + r = j
      BY <2>2
    <3> HIDE DEF r
    <3> QED
      BY <3>1, <1>3
  <2> QED
    BY <2>1, <2>2
<1>5. ASSUME NEW j \in 1 .. l
      PROVE  AnswerInv(c, a, o2, one, shut, j)
  <2>1. o2[j] = o[j] /\ AnswerInv(c, a, o, one, FALSE, j)
    BY <1>2 DEF SoFar
  <2>2. o2[j][3] > 1 => j > 1
    <3>1. o[j][3] = ((j - 1) % R) + 1
      BY <2>1 DEF AnswerInv, R
    <3>2. 0 % R = 0
      BY <1>1
    <3>3. j = 1 => o[j][3] = 1
      BY <3>1, <3>2
    <3> QED
      BY <3>3, <2>1
  <2>3. ASSUME j > 1
        PROVE  o2[j - 1] = o[j - 1]
    <3>1. j - 1 \in 1 .. l
      BY <2>3
    <3> QED
      BY <3>1, <1>2
  <2> QED
    BY <2>1, <2>2, <2>3 DEF AnswerInv
<1>6. ASSUME NEW r \in sent + 1 .. sent + n, NEW j, j = q + r
      PROVE  AnswerInv(c, a, o2, one, shut, j)
  <2>1. r \in 1 .. R /\ r \in Nat /\ j \in Nat /\ r - 1 \in 0 .. R - 1 /\ j - 1 = q + (r - 1)
    <3>1. r \in Nat /\ r >= 1 /\ r <= sent + n
      OBVIOUS
    <3>2. r <= R /\ R \in Nat
      BY <3>1, <1>1
    <3> QED
      BY <3>1, <3>2, <1>6
  <2>2. ((j - 1) % R) + 1 = r /\ (j - 1) \div R = k0
    <3>1. (q + (r - 1)) % R = r - 1 /\ (q + (r - 1)) \div R = k0
      BY <2>1 DEF R, Place
    <3> QED
      BY <3>1, <2>1
  <2>3. ASSUME r > 1
        PROVE  o2[j - 1][2] = i
    <3>1. j - 1 \in q + 1 .. l + n
      BY <2>1, <2>3, <1>6
    <3> QED
      BY <3>1, <1>4
  <2>4. ASSUME r = 1, j > 1
        PROVE  i > o2[j - 1][2]
    <3>1. j - 1 = q /\ q > 0 /\ sent = 0
      BY <2>1, <2>4, <1>6
    <3>2. q \in 1 .. q + sent
      BY <3>1
    <3>3. o2[q] = o[q] /\ o[q][2] < i
      BY <3>1, <3>2, <1>2 DEF SoFar
    <3>4. AnswerInv(c, a, o, one, FALSE, q)
      BY <3>2, <1>2 DEF SoFar
    <3>5. o[q][2] \in 1 .. Len(a)
      BY <3>4 DEF AnswerInv
    <3> QED
      BY <3>1, <3>3, <3>5
  <2>5. ASSUME r = R
        PROVE  /\ a[i] = "last" => j = Len(o2) /\ shut
               /\ KeepAliveMax > 0 /\ j \div R >= KeepAliveMax => j = Len(o2) /\ shut
    <3>1. sent + n = R /\ j = l + n /\ j = q + R
      BY <2>5, <1>1, <1>6
    <3>2. j \div R = k0 + 1
      BY <3>1 DEF R, Place
    <3> QED
      BY <3>1, <3>2, <1>2 DEF R, Shuts
  <2>6. o2[j][1] = c /\ o2[j][2] = i /\ o2[j][3] = r
    BY <1>3, <1>6
  <2> QED
    BY <2>1, <2>2, <2>3, <2>4, <2>5, <2>6 DEF AnswerInv, R
<1>7. ASSUME NEW j \in 1 .. l + n
      PROVE  AnswerInv(c, a, o2, one, shut, j)
  <2>1. CASE j <= l
    BY <2>1, <1>5
  <2>2. CASE j > l
    <3> DEFINE r == j - q
    <3>1. r \in sent + 1 .. sent + n /\ j = q + r
      BY <2>2
    <3> HIDE DEF r
    <3> QED
      BY <3>1, <1>6
  <2> QED
    BY <2>1, <2>2
<1> QED
  BY <1>2, <1>4, <1>7 DEF AllRight

-----------------------------------------------------------------------------
(* What a step leaves alone.                                                *)

SameClient(d) ==
  /\ patient'[d] = patient[d] /\ asked'[d] = asked[d] /\ out'[d] = out[d]
  /\ conn'[d] = conn[d] /\ owner'[d] = owner[d] /\ request'[d] = request[d]
  /\ response'[d] = response[d] /\ keep'[d] = keep[d] /\ count'[d] = count[d]
SameLine(w, d) == wire'[d] = wire[d] /\ Line(w, d)' = Line(w, d)

LEMMA ClientFrame ==
  ASSUME NEW d \in Clients, SameClient(d), ClientInv(d)
  PROVE  ClientInv(d)'
<1>1. ResponseInv(d)'
  BY DEF SameClient, ClientInv, ResponseInv
<1>2. OutInv(d)'
  <2>1. OutInv(d)
    BY DEF ClientInv
  <2> DEFINE a == asked[d]
             o == out[d]
             one == patient[d]
             shut == conn[d] = "closed"
  <2>2. \A j \in 1 .. Len(o) : AnswerInv(d, a, o, one, shut, j)
    BY <2>1 DEF OutInv
  <2>3. asked'[d] = a /\ out'[d] = o /\ patient'[d] = one /\ (conn'[d] = "closed" <=> shut)
    BY DEF SameClient
  <2>4. one => ResponseLen * Len(a) <= Len(o) + ResponseLen
    BY <2>1 DEF OutInv
  <2> HIDE DEF a, o, one, shut
  <2>5. \A j \in 1 .. Len(o) :
          AnswerInv(d, asked'[d], out'[d], patient'[d], conn'[d] = "closed", j)
    BY <2>2, <2>3 DEF AnswerInv
  <2> QED
    BY <2>3, <2>4, <2>5 DEF OutInv, AnswerInv
<1>3. PendingInv(d) => PendingInv(d)'
  BY DEF SameClient, PendingInv
<1>4. ServedInv(d) => ServedInv(d)'
  BY DEF SameClient, ServedInv, LastAnswered
<1> QED
  BY <1>1, <1>2, <1>3, <1>4 DEF ClientInv, SameClient

LEMMA LineFrame ==
  ASSUME NEW w \in Workers, NEW d \in Clients, SameLine(w, d), LineInv(w, d),
         asked'[d] = asked[d], out'[d] = out[d], response'[d] = response[d],
         count'[d] = count[d]
  PROVE  LineInv(w, d)'
<1>1. LastAnswered(d)' = LastAnswered(d)
  BY DEF LastAnswered
<1>2. OfClient(d, asked[d], Line(w, d))' /\ Ordered(Line(w, d))'
  BY DEF SameLine, LineInv, OfClient, Ordered
<1>3. response[d] = NoResponse => After(Line(w, d), LastAnswered(d))'
  BY <1>1 DEF SameLine, LineInv, After
<1>4. response[d] # NoResponse => After(wire[d], response[d].to[2])'
  BY DEF SameLine, LineInv, After
<1> QED
  BY <1>2, <1>3, <1>4 DEF LineInv

(* A step of one client or of the worker at its handler.                    *)
LEMMA OneClient ==
  ASSUME NEW c \in Clients, HandlerInv, TypeInv', \A v \in Workers : WorkerInv(v)',
         \A d \in Clients \ {c} : SameClient(d),
         \A v \in Workers, d \in Clients \ {c} : SameLine(v, d),
         ClientInv(c)',
         \A v \in Workers : conn'[c] # "closed" => LineInv(v, c)'
  PROVE  HandlerInv'
<1>1. \A d \in Clients : ClientInv(d)'
  BY ClientFrame DEF HandlerInv
<1>2. ASSUME NEW v \in Workers, NEW d \in Clients, conn'[d] # "closed"
      PROVE  LineInv(v, d)'
  <2>1. CASE d = c
    BY <2>1, <1>2
  <2>2. CASE d # c
    <3>1. SameClient(d) /\ SameLine(v, d)
      BY <2>2
    <3>2. conn[d] # "closed" /\ LineInv(v, d)
      BY <3>1, <1>2 DEF SameClient, HandlerInv
    <3> QED
      BY <3>1, <3>2, LineFrame DEF SameClient
  <2> QED
    BY <2>1, <2>2
<1> QED
  BY <1>1, <1>2 DEF HandlerInv

(* The bytes of the line are bytes.                                         *)
LEMMA LineType ==
  ASSUME TypeInv, NEW w \in Workers, NEW c \in Clients, WorkerInv(w)
  PROVE  /\ Pending(w, c) \in Seq(Bytes) /\ request[c] \in Seq(Bytes)
         /\ wire[c] \in Seq(Bytes) /\ request[c] \o Pending(w, c) \in Seq(Bytes)
         /\ Line(w, c) \in Seq(Bytes)
<1>1. request[c] \in Seq(Bytes) /\ wire[c] \in Seq(Bytes) /\ buf \in Seq(Bytes) /\ rcvd[w] \in Nat
  BY LensAssumption DEF TypeInv
<1>2. Pending(w, c) \in Seq(Bytes)
  BY <1>1 DEF Pending, WorkerInv
<1>3. request[c] \o Pending(w, c) \in Seq(Bytes)
  BY <1>1, <1>2
<1> QED
  BY <1>1, <1>2, <1>3 DEF Line

LEMMA AfterBoth ==
  ASSUME NEW s \in Seq(Bytes), NEW t \in Seq(Bytes), NEW i \in Nat
  PROVE  After(s \o t, i) <=> After(s, i) /\ After(t, i)
<1> DEFINE u == s \o t
<1>1. /\ u \in Seq(Bytes) /\ Len(u) = Len(s) + Len(t)
      /\ \A j \in 1 .. Len(s) : u[j] = s[j]
      /\ \A j \in 1 .. Len(t) : u[Len(s) + j] = t[j]
  OBVIOUS
<1>2. \A j \in 1 .. Len(s) : j \in 1 .. Len(u)
  BY <1>1
<1>3. \A j \in 1 .. Len(t) : Len(s) + j \in 1 .. Len(u)
  BY <1>1
<1>4. ASSUME NEW j \in 1 .. Len(u)
      PROVE  j \in 1 .. Len(s) \/ (j - Len(s) \in 1 .. Len(t) /\ u[j] = t[j - Len(s)])
  BY <1>1
<1> HIDE DEF u
<1>5. After(u, i) => After(s, i) /\ After(t, i)
  BY <1>1, <1>2, <1>3 DEF After
<1>6. After(s, i) /\ After(t, i) => After(u, i)
  BY <1>1, <1>4 DEF After
<1> QED
  BY <1>5, <1>6 DEF u

-----------------------------------------------------------------------------
(* The steps of the clients.                                                *)

LEMMA AskStep ==
  ASSUME HandlerInv, NEW c \in Clients, NEW kind \in Kinds, Ask(c, kind)
  PROVE  HandlerInv'
<1> DEFINE a == asked[c]
           t == [k \in 1 .. LenOf(kind) |-> <<c, Len(a) + 1, k>>]
<1>1. /\ TypeInv /\ a \in Seq(Kinds) /\ Len(a) < MaxRequests
      /\ asked'[c] = Append(a, kind) /\ wire'[c] = wire[c] \o t
      /\ \A d \in Clients \ {c} : asked'[d] = asked[d] /\ wire'[d] = wire[d]
      /\ patient[c] => Answered(c)
      /\ UNCHANGED <<patient, peer, out, conn, owner, request, response, keep, late, count,
                     buf, pc, at, rcvd>>
  BY DEF HandlerInv, TypeInv, Ask, handlerVars, threadVars
<1>2. t \in Seq(Bytes)
  <2>1. /\ <<>> \in Seq(Bytes) /\ OfClient(c, a, <<>>) /\ Ordered(<<>>)
    BY DEF OfClient, Ordered
  <2> QED
    BY <2>1, <1>1, NextRequest
<1> DEFINE b == Append(a, kind)
<1>3. /\ b \in Seq(Kinds) /\ Len(b) = Len(a) + 1 /\ Len(b) <= MaxRequests
      /\ \A i \in 1 .. Len(a) : b[i] = a[i] /\ i \in 1 .. Len(b)
  BY <1>1, LensAssumption
<1> HIDE DEF t, b
<1>4. TypeInv'
  <2>1. asked' \in [Clients -> Seq(Kinds)]
    BY <1>1, <1>3 DEF TypeInv, Ask, b
  <2>2. wire[c] \o t \in Seq(Bytes)
    BY <1>1, <1>2 DEF TypeInv
  <2>3. wire' = [wire EXCEPT ![c] = wire[c] \o t]
    BY <1>1 DEF TypeInv, Ask, t
  <2>4. wire' \in [Clients -> Seq(Bytes)]
    BY <1>1, <2>2, <2>3 DEF TypeInv
  <2>5. \A d \in Clients : Len(asked'[d]) <= MaxRequests
    BY <1>1, <1>3 DEF TypeInv, b
  <2> QED
    BY <1>1, <2>1, <2>4, <2>5 DEF TypeInv
<1>5. \A v \in Workers : WorkerInv(v)'
  BY <1>1 DEF HandlerInv, WorkerInv
<1>6. \A d \in Clients \ {c} : SameClient(d)
  BY <1>1 DEF SameClient
<1>7. \A v \in Workers, d \in Clients : Pending(v, d)' = Pending(v, d)
  BY <1>1 DEF Pending
<1>8. \A v \in Workers, d \in Clients \ {c} : SameLine(v, d)
  BY <1>1, <1>7 DEF SameLine, Line
<1>9. ClientInv(c)'
  <2>1. ClientInv(c)
    BY DEF HandlerInv
  <2>2. ResponseInv(c)'
    BY <2>1, <1>1, <1>3 DEF ClientInv, ResponseInv, b
  <2>3. OutInv(c)'
    <3>1. \A j \in 1 .. Len(out[c]) :
            AnswerInv(c, a, out[c], patient[c], conn[c] = "closed", j)
      BY <2>1 DEF ClientInv, OutInv
    <3>2. \A j \in 1 .. Len(out[c]) :
            AnswerInv(c, b, out[c], patient[c], conn[c] = "closed", j)
      BY <3>1, <1>3 DEF AnswerInv
    <3>3. patient[c] => ResponseLen * Len(b) <= Len(out[c]) + ResponseLen
      <4>1. Len(b) = Len(a) + 1 /\ Len(a) \in Nat /\ ResponseLen \in Nat
        BY <1>1, <1>3, LensAssumption
      <4>2. ResponseLen * Len(b) = ResponseLen * Len(a) + ResponseLen
        BY <4>1
      <4>3. patient[c] => Len(out[c]) = ResponseLen * Len(a)
        BY <1>1 DEF Answered
      <4>4. ResponseLen * Len(a) \in Nat
        BY <4>1
      <4> QED
        BY <4>2, <4>3, <4>4, <4>1
    <3> QED
      BY <3>2, <3>3, <1>1 DEF OutInv, AnswerInv, b
  <2>4. PendingInv(c) => PendingInv(c)'
    BY <1>1 DEF PendingInv
  <2>5. ServedInv(c) => ServedInv(c)'
    <3>1. LastAnswered(c)' = LastAnswered(c)
      BY <1>1 DEF LastAnswered
    <3>2. response[c] # NoResponse =>
            b[response[c].to[2]] = a[response[c].to[2]]
      BY <2>1, <1>3 DEF ClientInv, ResponseInv
    <3>3. Len(asked'[c]) = Len(a) + 1 /\ Len(a) \in Nat /\ count[c] \in Nat
      BY <1>1, <1>3 DEF TypeInv, b
    <3>4. asked'[c] = b
      BY <1>1 DEF b
    <3>5. ASSUME ServedInv(c), response[c] # NoResponse
          PROVE  /\ LastAnswered(c) < response[c].to[2]
                 /\ keep[c] = KeptAlive(b[response[c].to[2]])
                 /\ \A j \in ResponseLen * count[c] + 1 .. Len(out[c]) :
                      out[c][j][2] = response[c].to[2]
      BY <3>2, <3>5 DEF ServedInv
    <3>6. ASSUME ServedInv(c)
          PROVE  /\ Len(out[c]) = ResponseLen * count[c] + response[c].sent
                 /\ LastAnswered(c) \in count[c] .. Len(b)
      BY <3>3, <3>4, <3>6 DEF ServedInv
    <3> QED
      BY <3>1, <3>4, <3>5, <3>6, <1>1 DEF ServedInv
  <2> QED
    BY <2>1, <2>2, <2>3, <2>4, <2>5, <1>1 DEF ClientInv
<1>10. ASSUME NEW v \in Workers, conn'[c] # "closed"
       PROVE  LineInv(v, c)'
  <2> DEFINE s == Line(v, c)
  <2>1. LineInv(v, c) /\ WorkerInv(v) /\ ClientInv(c) /\ ServedInv(c)
    BY <1>10, <1>1 DEF HandlerInv, ClientInv
  <2>2. s \in Seq(Bytes) /\ wire[c] \in Seq(Bytes) /\ request[c] \o Pending(v, c) \in Seq(Bytes)
    BY <2>1, <1>1, LineType
  <2>3. Line(v, c)' = s \o t
    <3>1. Line(v, c)' = (request[c] \o Pending(v, c)) \o (wire[c] \o t)
      BY <1>1, <1>7 DEF Line
    <3> DEFINE r == request[c] \o Pending(v, c)
               z == wire[c]
    <3>2. r \in Seq(Bytes) /\ z \in Seq(Bytes)
      BY <2>2
    <3>3. Line(v, c)' = r \o (z \o t) /\ s = r \o z
      BY <3>1 DEF Line
    <3> HIDE DEF r, z
    <3>4. (r \o z) \o t = r \o (z \o t)
      BY <3>2, <1>2, ConcatAssociative
    <3> QED
      BY <3>3, <3>4
  <2>4. /\ OfClient(c, b, s \o t) /\ Ordered(s \o t)
        /\ \A i \in 0 .. Len(a) : After(t, i)
    BY <2>1, <2>2, <1>1, NextRequest DEF LineInv, t, b
  <2>5. LastAnswered(c)' = LastAnswered(c)
    BY <1>1 DEF LastAnswered
  <2>6. ASSUME response[c] = NoResponse
        PROVE  After(s \o t, LastAnswered(c))
    <3>1. LastAnswered(c) \in 0 .. Len(a) /\ LastAnswered(c) \in Nat
      BY <2>1, <1>1 DEF ServedInv, TypeInv
    <3>2. After(s, LastAnswered(c)) /\ After(t, LastAnswered(c))
      BY <2>1, <2>4, <2>6, <3>1 DEF LineInv
    <3> QED
      BY <3>1, <3>2, <2>2, <1>2, AfterBoth
  <2>7. ASSUME response[c] # NoResponse
        PROVE  After(wire[c] \o t, response[c].to[2])
    <3> DEFINE i == response[c].to[2]
    <3>1. i \in 0 .. Len(a) /\ i \in Nat
      BY <2>1, <2>7 DEF ClientInv, ResponseInv
    <3>2. After(wire[c], i) /\ After(t, i)
      BY <2>1, <2>4, <2>7, <3>1 DEF LineInv
    <3> HIDE DEF i
    <3>3. After(wire[c] \o t, i)
      BY <3>1, <3>2, <2>2, <1>2, AfterBoth
    <3> QED
      BY <3>3 DEF i
  <2> HIDE DEF s
  <2>8. OfClient(c, asked[c], Line(v, c))' /\ Ordered(Line(v, c))'
    <3>1. asked'[c] = b
      BY <1>1 DEF b
    <3> DEFINE u == s \o t
    <3>2. OfClient(c, b, u) /\ Ordered(u) /\ Line(v, c)' = u
      BY <2>3, <2>4
    <3> HIDE DEF u
    <3> QED
      BY <3>1, <3>2 DEF OfClient, Ordered
  <2>9. response[c] = NoResponse => After(Line(v, c), LastAnswered(c))'
    BY <2>3, <2>5, <2>6 DEF After
  <2>10. response[c] # NoResponse => After(wire[c], response[c].to[2])'
    BY <2>7, <1>1 DEF After
  <2> QED
    BY <2>8, <2>9, <2>10, <1>1 DEF LineInv
<1> QED
  BY <1>4, <1>5, <1>6, <1>8, <1>9, <1>10, OneClient

(* The first n bytes of a sequence are a piece of it.                       *)
LEMMA Prefix ==
  ASSUME NEW z \in Seq(Bytes), NEW n \in 0 .. Len(z)
  PROVE  /\ SubSeq(z, 1, n) \in Seq(Bytes) /\ Len(SubSeq(z, 1, n)) = n
         /\ \A j \in 1 .. n : SubSeq(z, 1, n)[j] = z[j]
OBVIOUS

LEMMA PeerClosesStep ==
  ASSUME HandlerInv, NEW c \in Clients, PeerCloses(c)
  PROVE  HandlerInv'
<1>1. /\ TypeInv /\ wire[c] \in Seq(Bytes)
      /\ peer' \in [Clients -> {"there", "gone"}]
      /\ UNCHANGED <<patient, asked, out, conn, owner, request, response, keep, late, count,
                     buf, pc, at, rcvd>>
  BY DEF HandlerInv, TypeInv, PeerCloses, handlerVars, threadVars, clientVars
<1>2. PICK n \in 0 .. Len(wire[c]) : wire' = [wire EXCEPT ![c] = SubSeq(@, 1, n)]
  BY DEF PeerCloses
<1> DEFINE z == SubSeq(wire[c], 1, n)
<1>3. z \in Seq(Bytes) /\ Len(z) = n /\ \A j \in 1 .. n : z[j] = wire[c][j]
  BY <1>1, Prefix
<1> HIDE DEF z
<1>4. wire'[c] = z /\ \A d \in Clients \ {c} : wire'[d] = wire[d]
  BY <1>1, <1>2 DEF TypeInv, z
<1>5. wire' = [wire EXCEPT ![c] = z]
  BY <1>2 DEF z
<1>6. wire' \in [Clients -> Seq(Bytes)]
  BY <1>1, <1>3, <1>5 DEF TypeInv
<1>7. TypeInv'
  BY <1>1, <1>6 DEF TypeInv
<1>8. \A v \in Workers : WorkerInv(v)'
  BY <1>1 DEF HandlerInv, WorkerInv
<1>9. \A d \in Clients : SameClient(d)
  BY <1>1 DEF SameClient
<1>10. \A v \in Workers, d \in Clients : Pending(v, d)' = Pending(v, d)
  BY <1>1 DEF Pending
<1>11. \A v \in Workers, d \in Clients \ {c} : SameLine(v, d)
  BY <1>1, <1>4, <1>10 DEF SameLine, Line
<1>12. ClientInv(c)'
  BY <1>9, ClientFrame DEF HandlerInv
<1>13. ASSUME NEW v \in Workers, conn'[c] # "closed"
       PROVE  LineInv(v, c)'
  <2>1. LineInv(v, c) /\ WorkerInv(v) /\ ClientInv(c) /\ ServedInv(c)
    BY <1>13, <1>1 DEF HandlerInv, ClientInv
  <2> DEFINE r == request[c] \o Pending(v, c)
             y == wire[c]
  <2>2. r \in Seq(Bytes) /\ y \in Seq(Bytes) /\ Line(v, c) = r \o y /\ Line(v, c)' = r \o z
    BY <2>1, <1>1, <1>4, <1>10, LineType DEF Line
  <2>3. n <= Len(y) /\ \A j \in 1 .. n : z[j] = y[j]
    BY <1>3
  <2> HIDE DEF r, y
  <2> DEFINE s == r \o y
             u == r \o z
  <2>4. /\ s \in Seq(Bytes) /\ u \in Seq(Bytes) /\ Len(u) + 0 <= Len(s) /\ 0 \in Nat
        /\ \A j \in 1 .. Len(u) : u[j] = s[j + 0]
    <3>1. s \in Seq(Bytes) /\ u \in Seq(Bytes) /\ Len(s) = Len(r) + Len(y) /\ Len(u) = Len(r) + n
      BY <2>2, <1>3
    <3>2. ASSUME NEW j \in 1 .. Len(u)
          PROVE  u[j] = s[j]
      <4>1. CASE j <= Len(r)
        <5>1. j \in 1 .. Len(r)
          BY <4>1, <2>2
        <5>2. u[j] = r[j] /\ s[j] = r[j]
          BY <5>1, <2>2, <1>3
        <5> QED
          BY <5>2
      <4>2. CASE j > Len(r)
        <5> DEFINE k == j - Len(r)
        <5>1. k \in 1 .. n /\ u[j] = z[k] /\ s[j] = y[k]
          BY <4>2, <3>1, <2>2, <2>3, <1>3
        <5> HIDE DEF k, u, s
        <5>2. z[k] = y[k]
          BY <5>1, <2>3
        <5> QED
          BY <5>1, <5>2
      <4> QED
        <5>1. Len(r) \in Nat /\ j \in Nat
          BY <2>2
        <5> HIDE DEF u, s
        <5> QED
          BY <5>1, <4>1, <4>2
    <3> QED
      BY <3>1, <3>2, <2>3
  <2> HIDE DEF s, u
  <2>5. /\ OfClient(c, asked[c], s) => OfClient(c, asked[c], u)
        /\ Ordered(s) => Ordered(u)
        /\ \A i \in Nat : After(s, i) => After(u, i)
    BY <2>4, Piece
  <2>6. /\ Len(z) + 0 <= Len(y) /\ y \in Seq(Bytes) /\ 0 \in Nat
        /\ \A j \in 1 .. Len(z) : z[j] = y[j + 0]
    BY <2>2, <2>3, <1>3
  <2>7. \A i \in Nat : After(y, i) => After(z, i)
    BY <2>6, <1>3, Piece
  <2>8. Line(v, c) = s /\ Line(v, c)' = u /\ wire[c] = y
    BY <2>2 DEF s, u, y
  <2>9. LastAnswered(c)' = LastAnswered(c)
    BY <1>1 DEF LastAnswered
  <2>10. OfClient(c, asked'[c], Line(v, c)') /\ Ordered(Line(v, c)')
    BY <2>1, <2>5, <2>8, <1>1 DEF LineInv
  <2>11. ASSUME response[c] = NoResponse
         PROVE  After(Line(v, c)', LastAnswered(c)')
    <3>1. LastAnswered(c) \in Nat
      BY <2>1, <1>1 DEF ServedInv, TypeInv
    <3> QED
      BY <3>1, <2>11, <2>1, <2>5, <2>8, <2>9 DEF LineInv
  <2>12. ASSUME response[c] # NoResponse
         PROVE  After(wire'[c], response[c].to[2])
    <3>1. response[c].to[2] \in Nat
      BY <2>1, <2>12 DEF ClientInv, ResponseInv
    <3> QED
      BY <3>1, <2>12, <2>1, <2>7, <2>8, <1>4 DEF LineInv
  <2> QED
    BY <2>10, <2>11, <2>12, <1>1 DEF LineInv, OfClient, Ordered, After
<1> QED
  BY <1>7, <1>8, <1>9, <1>11, <1>12, <1>13, OneClient

LEMMA ElapseStep ==
  ASSUME HandlerInv, NEW c \in Clients, Elapse(c)
  PROVE  HandlerInv'
<1>1. /\ TypeInv /\ late' \in [Clients -> BOOLEAN]
      /\ UNCHANGED <<patient, asked, wire, peer, out, conn, owner, request, response, keep, count,
                     buf, pc, at, rcvd>>
  BY DEF HandlerInv, TypeInv, Elapse, threadVars, clientVars
<1>2. TypeInv'
  BY <1>1 DEF TypeInv
<1>3. \A v \in Workers : WorkerInv(v)'
  BY <1>1 DEF HandlerInv, WorkerInv
<1>4. \A d \in Clients : SameClient(d)
  BY <1>1 DEF SameClient
<1>5. \A v \in Workers, d \in Clients : SameLine(v, d)
  BY <1>1 DEF SameLine, Line, Pending
<1>6. ClientInv(c)'
  BY <1>4, ClientFrame DEF HandlerInv
<1>7. \A v \in Workers : conn'[c] # "closed" => LineInv(v, c)'
  BY <1>1, <1>5, LineFrame DEF HandlerInv
<1> QED
  BY <1>2, <1>3, <1>4, <1>5, <1>6, <1>7, OneClient

-----------------------------------------------------------------------------
(* The steps of the worker.                                                 *)

(* A step of the only worker.                                               *)
LEMMA OneHandler ==
  ASSUME OneWorker, HandlerInv, NEW w \in Workers, NEW c \in Clients,
         TypeInv', WorkerInv(w)',
         \A d \in Clients \ {c} : SameClient(d) /\ SameLine(w, d),
         ClientInv(c)', conn'[c] # "closed" => LineInv(w, c)'
  PROVE  HandlerInv'
<1>1. \A v \in Workers : v = w
  BY DEF OneWorker
<1>2. \A v \in Workers : WorkerInv(v)'
  <2>1. SUFFICES ASSUME NEW v \in Workers
                 PROVE  WorkerInv(v)'
    OBVIOUS
  <2>2. v = w
    BY <1>1
  <2> QED
    BY <2>2
<1>3. \A v \in Workers, d \in Clients \ {c} : SameLine(v, d)
  BY <1>1
<1>4. \A v \in Workers : conn'[c] # "closed" => LineInv(v, c)'
  <2>1. SUFFICES ASSUME NEW v \in Workers, conn'[c] # "closed"
                 PROVE  LineInv(v, c)'
    OBVIOUS
  <2>2. v = w
    BY <1>1
  <2> QED
    BY <2>1, <2>2
<1> QED
  BY <1>2, <1>3, <1>4, OneClient

(* The connection is closed, and nothing else changes about the client.     *)
LEMMA CloseFrame ==
  ASSUME NEW c \in Clients, ClientInv(c), conn[c] = "open", conn'[c] = "closed",
         patient'[c] = patient[c], asked'[c] = asked[c], out'[c] = out[c],
         owner'[c] = owner[c], response'[c] = response[c]
  PROVE  ClientInv(c)'
<1>1. ResponseInv(c)'
  BY DEF ClientInv, ResponseInv
<1>2. OutInv(c)'
  <2>1. \A j \in 1 .. Len(out[c]) : AnswerInv(c, asked[c], out[c], patient[c], FALSE, j)
    BY DEF ClientInv, OutInv, AnswerInv
  <2>2. \A j \in 1 .. Len(out[c]) : AnswerInv(c, asked[c], out[c], patient[c], TRUE, j)
    BY <2>1 DEF AnswerInv
  <2> QED
    BY <2>2 DEF ClientInv, OutInv, AnswerInv
<1> QED
  BY <1>1, <1>2 DEF ClientInv

LEMMA AcceptClientStep ==
  ASSUME OneWorker, HandlerInv, NEW w \in Workers, NEW c \in Clients, AcceptClient(w, c)
  PROVE  HandlerInv'
<1>1. /\ TypeInv /\ conn[c] = "pending" /\ pc[w] = "list"
      /\ conn'[c] = "open" /\ owner'[c] = w
      /\ \A d \in Clients \ {c} : conn'[d] = conn[d] /\ owner'[d] = owner[d]
      /\ conn' \in [Clients -> {"pending", "open", "closed"}]
      /\ owner' \in [Clients -> Workers \cup {NoClient}]
      /\ UNCHANGED <<patient, asked, wire, peer, out, request, response, keep, late, count,
                     buf, pc, at, rcvd>>
  BY DEF HandlerInv, TypeInv, AcceptClient, handlerVars, threadVars, clientVars
<1>2. TypeInv'
  BY <1>1 DEF TypeInv
<1>3. WorkerInv(w)'
  BY <1>1 DEF WorkerInv
<1>4. \A d \in Clients : SameLine(w, d)
  BY <1>1 DEF SameLine, Line, Pending
<1>5. \A d \in Clients \ {c} : SameClient(d)
  BY <1>1 DEF SameClient
<1>6. ClientInv(c)'
  <2>1. ClientInv(c) /\ PendingInv(c) /\ ServedInv(c)
    BY <1>1 DEF HandlerInv, ClientInv
  <2>2. ResponseInv(c)'
    BY <2>1, <1>1 DEF ResponseInv, PendingInv
  <2>3. OutInv(c)'
    <3>1. \A j \in 1 .. Len(out[c]) : AnswerInv(c, asked[c], out[c], patient[c], FALSE, j)
      BY <2>1, <1>1 DEF ClientInv, OutInv, AnswerInv
    <3> QED
      BY <3>1, <2>1, <1>1 DEF ClientInv, OutInv, AnswerInv
  <2>4. ServedInv(c)'
    BY <2>1, <1>1 DEF ServedInv, LastAnswered
  <2> QED
    BY <2>2, <2>3, <2>4, <1>1 DEF ClientInv
<1>7. LineInv(w, c)'
  BY <1>1, <1>4, LineFrame DEF HandlerInv
<1> QED
  BY <1>2, <1>3, <1>4, <1>5, <1>6, <1>7, OneHandler

(* A step that only closes the connection.                                  *)
LEMMA CloseStep ==
  ASSUME OneWorker, HandlerInv, NEW w \in Workers, NEW c \in Clients,
         conn[c] = "open", pc[w] = "append" => at[w] = c, Close(w, c),
         UNCHANGED <<patient, asked, wire, peer, out, owner, request, response, keep, late,
                     count, buf, at, rcvd>>
  PROVE  HandlerInv'
<1>1. /\ TypeInv /\ conn'[c] = "closed" /\ pc'[w] = "list"
      /\ \A d \in Clients \ {c} : conn'[d] = conn[d]
      /\ conn' \in [Clients -> {"pending", "open", "closed"}]
      /\ pc' \in [Workers -> {"list", "read", "append", "write"}]
  BY DEF HandlerInv, TypeInv, Close, Goto
<1>2. TypeInv'
  BY <1>1 DEF TypeInv
<1>3. WorkerInv(w)'
  BY <1>1 DEF WorkerInv
<1>4. \A d \in Clients \ {c} : SameLine(w, d)
  BY <1>1 DEF SameLine, Line, Pending
<1>5. \A d \in Clients \ {c} : SameClient(d)
  BY <1>1 DEF SameClient
<1>6. ClientInv(c)'
  BY <1>1, CloseFrame DEF HandlerInv
<1> QED
  BY <1>1, <1>2, <1>3, <1>4, <1>5, <1>6, OneHandler

(* A step that only takes the worker on, to or from reading and writing.    *)
LEMMA GotoStep ==
  ASSUME OneWorker, HandlerInv, NEW w \in Workers, NEW c \in Clients,
         NEW l \in {"list", "read", "write"}, pc[w] # "append", Goto(w, l),
         at' \in [Workers -> Clients], WorkerInv(w)',
         UNCHANGED <<patient, asked, wire, peer, out, conn, owner, request, response, keep,
                     late, count, buf, rcvd>>
  PROVE  HandlerInv'
<1>1. /\ TypeInv /\ pc'[w] = l /\ pc' \in [Workers -> {"list", "read", "append", "write"}]
  BY DEF HandlerInv, TypeInv, Goto
<1>2. TypeInv'
  BY <1>1 DEF TypeInv
<1>3. \A d \in Clients : SameLine(w, d)
  BY <1>1 DEF SameLine, Line, Pending
<1>4. \A d \in Clients : SameClient(d)
  BY DEF SameClient
<1>5. ClientInv(c)'
  BY <1>4, ClientFrame DEF HandlerInv
<1>6. conn'[c] # "closed" => LineInv(w, c)'
  BY <1>3, LineFrame DEF HandlerInv
<1> QED
  BY <1>2, <1>3, <1>4, <1>5, <1>6, OneHandler

LEMMA TimeoutStep ==
  ASSUME OneWorker, HandlerInv, NEW w \in Workers, NEW c \in Clients, Timeout(w, c)
  PROVE  HandlerInv'
BY CloseStep DEF Timeout, clientVars, handlerVars

LEMMA ProcessStep ==
  ASSUME OneWorker, HandlerInv, NEW w \in Workers, NEW c \in Clients, Process(w, c)
  PROVE  HandlerInv'
<1> DEFINE l == IF response[c] = NoResponse THEN "read" ELSE "write"
<1>1. /\ TypeInv /\ pc[w] = "list" /\ owner[c] = w /\ conn[c] = "open" /\ Goto(w, l)
      /\ at' \in [Workers -> Clients] /\ at'[w] = c
      /\ UNCHANGED <<patient, asked, wire, peer, out, conn, owner, request, response, keep,
                     late, count, buf, rcvd>>
  BY DEF HandlerInv, TypeInv, Process, clientVars, handlerVars
<1>2. pc'[w] = l
  BY <1>1 DEF TypeInv, Goto
<1>3. WorkerInv(w)'
  BY <1>1, <1>2 DEF WorkerInv
<1>4. l \in {"list", "read", "write"} /\ pc[w] # "append"
  BY <1>1
<1> HIDE DEF l
<1> QED
  BY <1>1, <1>3, <1>4, GotoStep

LEMMA ReadNothingStep ==
  ASSUME OneWorker, HandlerInv, NEW w \in Workers, NEW c \in Clients, ReadNothing(w, c)
  PROVE  HandlerInv'
<1>1. /\ TypeInv /\ pc[w] = "read" /\ Goto(w, "list")
      /\ UNCHANGED <<patient, asked, wire, peer, out, conn, owner, request, response, keep,
                     late, count, buf, at, rcvd>>
  BY DEF HandlerInv, ReadNothing, In, clientVars, handlerVars
<1>2. pc'[w] = "list" /\ at' \in [Workers -> Clients]
  BY <1>1 DEF TypeInv, Goto
<1>3. WorkerInv(w)'
  BY <1>1, <1>2 DEF WorkerInv
<1> QED
  BY <1>1, <1>2, <1>3, GotoStep

LEMMA ReadFailStep ==
  ASSUME OneWorker, HandlerInv, NEW w \in Workers, NEW c \in Clients, ReadFail(w, c)
  PROVE  HandlerInv'
<1>1. /\ pc[w] = "read" /\ at[w] = c /\ Close(w, c)
      /\ UNCHANGED <<patient, asked, wire, peer, out, owner, request, response, keep, late,
                     count, buf, at, rcvd>>
  BY DEF ReadFail, In, clientVars, handlerVars
<1>2. conn[c] = "open"
  BY <1>1 DEF HandlerInv, WorkerInv
<1> QED
  BY <1>1, <1>2, CloseStep

(* Reading moves bytes from the wire into the buffer, where they are still  *)
(* on the line.                                                             *)
LEMMA SplitAt ==
  ASSUME NEW r \in Seq(Bytes), NEW z \in Seq(Bytes), NEW n \in 0 .. Len(z)
  PROVE  (r \o SubSeq(z, 1, n)) \o SubSeq(z, n + 1, Len(z)) = (r \o <<>>) \o z
<1> DEFINE x == SubSeq(z, 1, n)
           y == SubSeq(z, n + 1, Len(z))
<1>1. r \in Seq(Bytes) /\ x \in Seq(Bytes) /\ y \in Seq(Bytes)
  OBVIOUS
<1>2. x \o y = z
  <2>1. /\ 1 \in 1 .. Len(z) + 1 /\ n \in 1 - 1 .. Len(z) /\ Len(z) \in n .. Len(z)
    OBVIOUS
  <2>2. SubSeq(z, 1, n) \o SubSeq(z, n + 1, Len(z)) = SubSeq(z, 1, Len(z))
    BY <2>1, ConcatAdjacentSubSeq
  <2>3. SubSeq(z, 1, Len(z)) = z
    OBVIOUS
  <2> QED
    BY <2>2, <2>3
<1>3. (r \o x) \o y = r \o (x \o y)
  <2> HIDE DEF x, y
  <2> QED
    BY <1>1, ConcatAssociative, SMTT(20)
<1> HIDE DEF x, y
<1>4. r \o <<>> = r
  BY ConcatEmptySeq
<1> QED
  BY <1>2, <1>3, <1>4 DEF x, y

LEMMA ReadBytesStep ==
  ASSUME OneWorker, HandlerInv, NEW w \in Workers, NEW c \in Clients,
         NEW n \in 1 .. BufLen, Read(w, c, n)
  PROVE  HandlerInv'
<1> DEFINE z == wire[c]
           x == SubSeq(z, 1, n)
           y == SubSeq(z, n + 1, Len(z))
           b == SubSeq(buf, n + 1, Len(buf))
<1>1. /\ TypeInv /\ pc[w] = "read" /\ at[w] = c /\ n \in 0 .. Len(z) /\ n \in 1 .. BufLen /\ n \in Nat
      /\ z \in Seq(Bytes) /\ buf \in Seq(Bytes) /\ Len(buf) <= BufLen /\ BufLen \in Nat
      /\ UNCHANGED <<patient, asked, peer, out, conn, owner, request, response, keep, late,
                     count, at>>
  <2>1. TypeInv /\ z \in Seq(Bytes) /\ buf \in Seq(Bytes) /\ Len(buf) <= BufLen
    BY DEF HandlerInv, TypeInv
  <2>2. /\ pc[w] = "read" /\ at[w] = c /\ n <= Len(z)
        /\ UNCHANGED <<patient, asked, peer, out, conn, owner, request, response, keep, late,
                       count, at>>
    BY DEF Read, In, clientVars, handlerVars
  <2>3. n \in Nat /\ BufLen \in Nat
    BY LensAssumption
  <2>4. n \in 0 .. Len(z)
    BY <2>1, <2>2, <2>3
  <2> QED
    BY <2>1, <2>2, <2>3, <2>4
<1>2. x \in Seq(Bytes) /\ Len(x) = n /\ y \in Seq(Bytes)
  BY <1>1
<1>3. b \in Seq(Bytes) /\ (n + Len(b) <= BufLen)
  BY <1>1
<1>4. /\ buf' = x \o b /\ rcvd' = [rcvd EXCEPT ![w] = n] /\ pc' = [pc EXCEPT ![w] = "append"]
      /\ wire' = [wire EXCEPT ![c] = y]
  BY DEF Read, Goto
<1> HIDE DEF x, y, b, z
<1>5. /\ wire'[c] = y /\ \A d \in Clients \ {c} : wire'[d] = wire[d]
      /\ wire' \in [Clients -> Seq(Bytes)] /\ pc'[w] = "append"
      /\ pc' \in [Workers -> {"list", "read", "append", "write"}]
      /\ rcvd'[w] = n /\ rcvd' \in [Workers -> 0 .. BufLen]
  BY <1>1, <1>2, <1>4 DEF TypeInv
<1>6. /\ buf' \in Seq(Bytes) /\ Len(buf') = n + Len(b) /\ SubSeq(buf', 1, n) = x
  <2>1. buf' \in Seq(Bytes) /\ Len(buf') = n + Len(b)
    <3>1. x \o b \in Seq(Bytes) /\ Len(x \o b) = n + Len(b)
      BY <1>2, <1>3
    <3> QED
      BY <3>1, <1>4
  <2>2. /\ SubSeq(buf', 1, n) \in Seq(Bytes) /\ Len(SubSeq(buf', 1, n)) = n
        /\ \A j \in 1 .. n : SubSeq(buf', 1, n)[j] = buf'[j]
    <3>1. n \in 0 .. Len(buf')
      BY <2>1, <1>1, <1>3
    <3> QED
      BY <2>1, <3>1, Prefix
  <2>3. \A j \in 1 .. n : buf'[j] = x[j]
    BY <1>2, <1>3, <1>4
  <2> DEFINE u == SubSeq(buf', 1, n)
  <2>4. u \in Seq(Bytes) /\ Len(u) = Len(x) /\ \A j \in 1 .. Len(u) : u[j] = x[j]
    BY <2>2, <2>3, <1>2
  <2> HIDE DEF u
  <2>5. u = x
    BY <2>4, <1>2, SeqEqual
  <2> QED
    BY <2>1, <2>5 DEF u
<1>7. TypeInv'
  <2>1. Len(buf') <= BufLen
    BY <1>3, <1>6
  <2> QED
    BY <2>1, <1>1, <1>5, <1>6 DEF TypeInv
<1>8. WorkerInv(w) /\ LineInv(w, c) /\ conn[c] = "open" /\ response[c] = NoResponse
  BY <1>1 DEF HandlerInv, WorkerInv
<1>9. WorkerInv(w)'
  <2>1. n <= Len(buf')
    BY <1>3, <1>6, <1>1
  <2> QED
    BY <2>1, <1>8, <1>1, <1>5 DEF WorkerInv
<1>10. Line(w, c)' = Line(w, c)
  <2> DEFINE r == request[c]
  <2>1. r \in Seq(Bytes)
    BY <1>1 DEF TypeInv
  <2>2. Pending(w, c) = <<>> /\ Pending(w, c)' = x
    BY <1>1, <1>5, <1>6 DEF Pending
  <2>3. Line(w, c) = (r \o <<>>) \o z /\ Line(w, c)' = (r \o x) \o y
    BY <2>2, <1>1, <1>5 DEF Line, z
  <2> HIDE DEF r
  <2>4. (r \o x) \o y = (r \o <<>>) \o z
    BY <2>1, <1>1, SplitAt DEF x, y
  <2> QED
    BY <2>3, <2>4
<1>11. \A d \in Clients \ {c} : SameLine(w, d)
  BY <1>1, <1>5 DEF SameLine, Line, Pending
<1>12. \A d \in Clients : SameClient(d)
  BY <1>1 DEF SameClient
<1>13. ClientInv(c)'
  BY <1>12, ClientFrame DEF HandlerInv
<1>14. LineInv(w, c)'
  <2>1. LastAnswered(c)' = LastAnswered(c)
    BY <1>1 DEF LastAnswered
  <2>2. /\ OfClient(c, asked[c], Line(w, c)) /\ Ordered(Line(w, c))
        /\ After(Line(w, c), LastAnswered(c))
    BY <1>8 DEF LineInv
  <2> QED
    BY <2>1, <2>2, <1>1, <1>8, <1>10 DEF LineInv, OfClient, Ordered, After
<1> QED
  BY <1>7, <1>9, <1>11, <1>12, <1>13, <1>14, OneHandler

LEMMA HandleRequestStep ==
  ASSUME OneWorker, HandlerInv, NEW w \in Workers, NEW c \in Clients, HandleRequest(w, c)
  PROVE  HandlerInv'
<1> DEFINE s == request[c] \o Pending(w, c)
           z == wire[c]
           i == s[1][2]
<1>1. /\ TypeInv /\ pc[w] = "append" /\ at[w] = c
      /\ request' = [request EXCEPT ![c] = s] /\ late' = [late EXCEPT ![c] = FALSE]
      /\ UNCHANGED <<patient, asked, wire, peer, out, owner, count, buf, at, rcvd>>
  BY DEF HandlerInv, HandleRequest, In, Pending, clientVars
<1>2. WorkerInv(w) /\ LineInv(w, c) /\ conn[c] = "open" /\ response[c] = NoResponse
      /\ ClientInv(c) /\ ServedInv(c)
  BY <1>1 DEF HandlerInv, WorkerInv, ClientInv
<1>3. s \in Seq(Bytes) /\ z \in Seq(Bytes) /\ Line(w, c) = s \o z
  BY <1>1, <1>2, LineType DEF Line
<1> HIDE DEF s, z
<1>4. /\ request'[c] = s /\ \A d \in Clients \ {c} : request'[d] = request[d]
      /\ request' \in [Clients -> Seq(Bytes)] /\ late' \in [Clients -> BOOLEAN]
  BY <1>1, <1>3 DEF TypeInv
<1>5. \/ Parse(s) = "error" /\ Close(w, c) /\ UNCHANGED <<response, keep>>
      \/ Parse(s) = "again" /\ Goto(w, "list") /\ UNCHANGED <<conn, response, keep>>
      \/ /\ Parse(s) = "success" /\ keep' = [keep EXCEPT ![c] = FALSE]
         /\ Close(w, c) /\ UNCHANGED response
      \/ /\ Parse(s) = "success" /\ KindOf(s[1]) # "odd"
         /\ keep' = [keep EXCEPT ![c] = KeptAlive(KindOf(s[1]))]
         /\ response' = [response EXCEPT ![c] = Answer(s)]
         /\ Goto(w, "write") /\ UNCHANGED conn
  BY <1>4 DEF HandleRequest
<1>6. /\ pc'[w] \in {"list", "write"} /\ pc' \in [Workers -> {"list", "read", "append", "write"}]
      /\ keep' \in [Clients -> BOOLEAN] /\ \A d \in Clients \ {c} : keep'[d] = keep[d]
      /\ conn' \in [Clients -> {"pending", "open", "closed"}]
      /\ \A d \in Clients \ {c} : conn'[d] = conn[d] /\ response'[d] = response[d]
  <2>1. pc'[w] \in {"list", "write"} /\ pc' \in [Workers -> {"list", "read", "append", "write"}]
    BY <1>5, <1>1 DEF TypeInv, Close, Goto
  <2>2. conn' \in [Clients -> {"pending", "open", "closed"}]
        /\ \A d \in Clients \ {c} : conn'[d] = conn[d]
    BY <1>5, <1>1 DEF TypeInv, Close
  <2>3. KeptAlive(KindOf(s[1])) \in BOOLEAN
    BY DEF KeptAlive
  <2>4. keep' \in [Clients -> BOOLEAN] /\ \A d \in Clients \ {c} : keep'[d] = keep[d]
    <3>1. /\ \A k \in BOOLEAN : [keep EXCEPT ![c] = k] \in [Clients -> BOOLEAN]
          /\ \A k \in BOOLEAN : \A d \in Clients \ {c} : [keep EXCEPT ![c] = k][d] = keep[d]
      BY <1>1 DEF TypeInv
    <3>2. keep \in [Clients -> BOOLEAN]
      BY <1>1 DEF TypeInv
    <3>3. CASE UNCHANGED keep
      BY <3>2, <3>3
    <3>4. CASE keep' = [keep EXCEPT ![c] = FALSE]
      BY <3>1, <3>4
    <3>5. CASE keep' = [keep EXCEPT ![c] = KeptAlive(KindOf(s[1]))]
      BY <3>1, <3>5, <2>3
    <3> QED
      BY <1>5, <3>3, <3>4, <3>5
  <2>5. \A d \in Clients \ {c} : response'[d] = response[d]
    BY <1>5, <1>1 DEF TypeInv
  <2> QED
    BY <2>1, <2>2, <2>4, <2>5
<1>7. Line(w, c)' = Line(w, c)
  <2>1. Pending(w, c)' = <<>>
    BY <1>6 DEF Pending
  <2>2. Line(w, c)' = (s \o <<>>) \o z
    BY <2>1, <1>1, <1>4 DEF Line, z
  <2>3. s \o <<>> = s
    BY <1>3, ConcatEmptySeq
  <2> QED
    BY <2>2, <2>3, <1>3
<1>8. \A d \in Clients \ {c} : SameLine(w, d)
  BY <1>1, <1>4, <1>6 DEF SameLine, Line, Pending
<1>9. \A d \in Clients \ {c} : SameClient(d)
  BY <1>1, <1>4, <1>6 DEF SameClient
<1>10. response' \in [Clients -> [to : Seq(Ids), sent : Nat]] => TypeInv'
  BY <1>1, <1>4, <1>6 DEF TypeInv
<1>11. CASE Close(w, c) /\ UNCHANGED response
  <2>1. conn'[c] = "closed" /\ pc'[w] = "list"
    BY <1>11, <1>1 DEF Close, Goto, TypeInv
  <2>2. TypeInv'
    BY <1>11, <1>10, <1>1 DEF TypeInv
  <2>3. WorkerInv(w)'
    BY <2>1 DEF WorkerInv
  <2>4. ClientInv(c)'
    BY <2>1, <1>1, <1>2, <1>11, CloseFrame
  <2> QED
    BY <2>1, <2>2, <2>3, <2>4, <1>8, <1>9, OneHandler
<1>12. CASE Goto(w, "list") /\ UNCHANGED <<conn, response, keep>>
  <2>1. pc'[w] = "list"
    BY <1>12, <1>1 DEF Goto, TypeInv
  <2>2. TypeInv'
    BY <1>12, <1>10, <1>1 DEF TypeInv
  <2>3. WorkerInv(w)'
    BY <2>1 DEF WorkerInv
  <2>4. ClientInv(c)'
    <3>1. ResponseInv(c)'
      BY <1>2, <1>12 DEF ResponseInv
    <3>2. OutInv(c)'
      <4>1. \A j \in 1 .. Len(out[c]) : AnswerInv(c, asked[c], out[c], patient[c], FALSE, j)
        BY <1>2 DEF ClientInv, OutInv, AnswerInv
      <4> QED
        BY <4>1, <1>1, <1>2, <1>12 DEF ClientInv, OutInv, AnswerInv
    <3>3. ServedInv(c)'
      BY <1>1, <1>2, <1>12 DEF ServedInv, LastAnswered
    <3>4. conn'[c] = "open" /\ owner'[c] \in Workers
      BY <1>1, <1>2, <1>12 DEF ClientInv
    <3> QED
      BY <3>1, <3>2, <3>3, <3>4 DEF ClientInv
  <2>5. LineInv(w, c)'
    <3>1. LastAnswered(c)' = LastAnswered(c)
      BY <1>1 DEF LastAnswered
    <3>2. /\ OfClient(c, asked[c], Line(w, c)) /\ Ordered(Line(w, c))
          /\ After(Line(w, c), LastAnswered(c))
      BY <1>2 DEF LineInv
    <3> QED
      BY <3>1, <3>2, <1>1, <1>2, <1>7, <1>12 DEF LineInv, OfClient, Ordered, After
  <2> QED
    BY <2>2, <2>3, <2>4, <2>5, <1>8, <1>9, OneHandler
<1>13. CASE /\ Parse(s) = "success"
            /\ keep' = [keep EXCEPT ![c] = KeptAlive(KindOf(s[1]))]
            /\ response' = [response EXCEPT ![c] = Answer(s)]
            /\ Goto(w, "write") /\ UNCHANGED conn
  <2>1. /\ s # <<>> /\ s[1][1] = c /\ i \in 1 .. Len(asked[c]) /\ i \in Nat
        /\ KindOf(s[1]) = asked[c][i] /\ After(z, i)
    <3>1. OfClient(c, asked[c], s \o z) /\ Ordered(s \o z) /\ asked[c] \in Seq(Kinds)
      BY <1>1, <1>2, <1>3 DEF LineInv, TypeInv
    <3> QED
      BY <3>1, <1>3, <1>13, Complete
  <2>2. LastAnswered(c) < i
    <3>1. 1 \in 1 .. Len(s \o z) /\ (s \o z)[1] = s[1]
      BY <2>1, <1>3
    <3>2. After(s \o z, LastAnswered(c))
      BY <1>2, <1>3 DEF LineInv
    <3>3. i > LastAnswered(c)
      BY <3>1, <3>2 DEF After
    <3>4. LastAnswered(c) \in Nat
      BY <1>1, <1>2 DEF ServedInv, TypeInv
    <3> QED
      BY <3>3, <3>4, <2>1
  <2> DEFINE e == <<c, i>>
  <2>3. e \in Seq(Ids) /\ Len(e) = 2 /\ e[1] = c /\ e[2] = i
    BY <2>1 DEF Ids
  <2>4. Answer(s) = [to |-> e, sent |-> 0]
    BY <2>1 DEF Answer
  <2> HIDE DEF e, i
  <2>5. response' = [response EXCEPT ![c] = [to |-> e, sent |-> 0]]
    BY <2>4, <1>13
  <2>6. response' \in [Clients -> [to : Seq(Ids), sent : Nat]] /\ response'[c] = [to |-> e, sent |-> 0]
    BY <2>3, <2>5, <1>1 DEF TypeInv
  <2>7. TypeInv'
    BY <2>6, <1>10
  <2>8. response'[c].to = e /\ response'[c].sent = 0
    BY <2>6
  <2>9. response'[c] # NoResponse
    <3>1. NoResponse.to = <<NoClient, 0>>
      BY DEF NoResponse
    <3>2. e # <<NoClient, 0>>
      BY <2>3, NoClientAssumption
    <3> QED
      BY <2>8, <3>1, <3>2
  <2>10. pc'[w] = "write" /\ conn'[c] = "open"
    BY <1>13, <1>1, <1>2 DEF Goto, TypeInv
  <2>11. WorkerInv(w)'
    BY <2>9, <2>10, <1>1, <1>2 DEF WorkerInv
  <2>12. keep'[c] = KeptAlive(asked[c][i])
    BY <1>13, <1>1, <2>1 DEF TypeInv
  <2>13. ClientInv(c)'
    <3>1. ResponseInv(c)'
      BY <2>1, <2>3, <2>8, <2>10, <1>1, LensAssumption DEF ResponseInv
    <3>2. OutInv(c)'
      <4>1. \A j \in 1 .. Len(out[c]) : AnswerInv(c, asked[c], out[c], patient[c], FALSE, j)
        BY <1>2 DEF ClientInv, OutInv, AnswerInv
      <4> QED
        BY <4>1, <1>1, <1>2, <2>10 DEF ClientInv, OutInv, AnswerInv
    <3>3. ServedInv(c)'
      <4>1. Len(out[c]) = ResponseLen * count[c]
        <5>1. ResponseLen * count[c] \in Nat
          BY <1>1, LensAssumption DEF TypeInv
        <5>2. Len(out[c]) = ResponseLen * count[c] + 0
          BY <1>2 DEF ServedInv, NoResponse
        <5> QED
          BY <5>1, <5>2
      <4>2. Len(out[c]) \in Nat
        BY <1>1 DEF TypeInv
      <4>3. \A j \in ResponseLen * count[c] + 1 .. Len(out[c]) : FALSE
        BY <4>1, <4>2
      <4>4. LastAnswered(c)' = LastAnswered(c)
        BY <1>1 DEF LastAnswered
      <4>5. LastAnswered(c) \in count[c] .. Len(asked[c])
        BY <1>2 DEF ServedInv
      <4>6. Len(out[c]) = ResponseLen * count[c] + 0
        BY <4>1, <4>2
      <4> QED
        BY <4>3, <4>4, <4>5, <4>6, <2>2, <2>3, <2>8, <2>12, <1>1 DEF ServedInv
    <3> QED
      BY <3>1, <3>2, <3>3, <2>10, <1>1, <1>2 DEF ClientInv
  <2>14. LineInv(w, c)'
    <3>1. /\ OfClient(c, asked[c], Line(w, c)) /\ Ordered(Line(w, c))
      BY <1>2 DEF LineInv
    <3>2. OfClient(c, asked'[c], Line(w, c)') /\ Ordered(Line(w, c)')
      BY <3>1, <1>1, <1>7
    <3>3. After(wire'[c], response'[c].to[2])
      BY <2>1, <2>3, <2>8, <1>1 DEF z
    <3> QED
      BY <3>2, <3>3, <2>9 DEF LineInv, OfClient, Ordered, After
  <2> QED
    BY <2>7, <2>11, <2>13, <2>14, <1>8, <1>9, OneHandler
<1> QED
  BY <1>5, <1>11, <1>12, <1>13

Sends(c, n) == out' = [out EXCEPT ![c] = @ \o Written(c, n)]

(* The rest of the last response the connection takes ends it.             *)
Ended(c, n, shut) ==
  n = Left(c) /\ (~keep[c] \/ (KeepAliveMax > 0 /\ count[c] + 1 >= KeepAliveMax)) => shut

(* What n more bytes do to the stream.                                      *)
Wrote(c, n, shut) ==
  LET i == response[c].to[2]
      q == ResponseLen * count[c]
  IN /\ conn[c] = "open" /\ response[c] # NoResponse
     /\ i \in 1 .. Len(asked[c]) /\ i \in Nat /\ count[c] < i /\ LastAnswered(c) < i
     /\ q \in Nat /\ response[c].sent \in Nat /\ response[c].sent < ResponseLen
     /\ out' \in [Clients -> Seq(Seq(Ids))]
     /\ \A d \in Clients \ {c} : out'[d] = out[d]
     /\ Len(out[c]) = q + response[c].sent
     /\ Len(out'[c]) = (q + response[c].sent) + n
     /\ \A j \in 1 .. Len(out[c]) : out'[c][j] = out[c][j]
     /\ \A j \in 1 .. Len(out'[c]) : AnswerInv(c, asked[c], out'[c], patient[c], shut, j)
     /\ \A j \in q + 1 .. Len(out'[c]) : out'[c][j][2] = i
     /\ patient[c] => ResponseLen * Len(asked[c]) <= Len(out'[c]) + ResponseLen

(* write_raw takes n more bytes of the response; shut says whether the      *)
(* connection is closed with them.                                          *)
LEMMA WriteBytes ==
  ASSUME TypeInv, NEW w \in Workers, NEW c \in Clients, WorkerInv(w), ClientInv(c),
         pc[w] = "write", at[w] = c, NEW n \in 0 .. Left(c), NEW shut \in BOOLEAN,
         Sends(c, n), Ended(c, n, shut)
  PROVE  Wrote(c, n, shut)
<1> DEFINE i == response[c].to[2]
           k0 == count[c]
           q == ResponseLen * k0
           sent == response[c].sent
           to == response[c].to
           o == out[c]
           o2 == out'[c]
           t == Block(to, sent, n)
           a == asked[c]
           one == patient[c]
<1>1. /\ conn[c] = "open" /\ response[c] # NoResponse /\ ServedInv(c) /\ ResponseInv(c)
      /\ OutInv(c)
  BY DEF WorkerInv, ClientInv
<1>2. /\ to \in Seq(Ids) /\ sent \in Nat /\ k0 \in Nat /\ o \in Seq(Seq(Ids)) /\ a \in Seq(Kinds)
      /\ ResponseLen \in Nat \ {0} /\ one \in BOOLEAN
  BY LensAssumption DEF TypeInv
<1>3. /\ to[1] = c /\ Len(to) = 2 /\ i \in 1 .. Len(a) /\ i \in Nat /\ sent < ResponseLen
  BY <1>1, <1>2 DEF ResponseInv
<1>4. /\ LastAnswered(c) \in k0 .. Len(a) /\ LastAnswered(c) < i /\ k0 < i
      /\ Len(o) = q + sent /\ \A j \in q + 1 .. Len(o) : o[j][2] = i
      /\ keep[c] = KeptAlive(a[i])
  <2>1. /\ LastAnswered(c) \in k0 .. Len(a) /\ LastAnswered(c) < i
        /\ Len(o) = q + sent /\ \A j \in q + 1 .. Len(o) : o[j][2] = i
        /\ keep[c] = KeptAlive(a[i])
    BY <1>1 DEF ServedInv
  <2>2. k0 < i
    BY <2>1, <1>2, <1>3
  <2> QED
    BY <2>1, <2>2
<1>5. n \in Nat /\ sent + n <= ResponseLen /\ (sent + n = ResponseLen => n = Left(c))
  <2>1. Left(c) = ResponseLen - sent /\ n \in 0 .. Left(c)
    BY DEF Left
  <2> HIDE DEF sent
  <2> QED
    BY <2>1, <1>2, <1>3
<1>6. q \in Nat
  BY <1>2
<1> DEFINE u == o \o t
<1>7. out' = [out EXCEPT ![c] = u]
  BY DEF Written, Sends, Block
<1>8. SoFar(c, a, o, one, q, i)
  <2>1. \A j \in 1 .. Len(o) : AnswerInv(c, a, o, one, FALSE, j)
    BY <1>1 DEF OutInv, AnswerInv
  <2>2. q > 0 => o[q][2] < i
    <3>1. q > 0 => k0 # 0
      BY <1>2
    <3> QED
      BY <3>1, <1>4 DEF LastAnswered
  <2> QED
    BY <2>1, <2>2, <1>4 DEF SoFar
<1>9. one => ResponseLen * Len(a) <= Len(o) + ResponseLen
  BY <1>1 DEF OutInv
<1> HIDE DEF i, k0, sent, to, o, o2, a, one
<1>10. u \in Seq(Seq(Ids)) /\ Longer(o, u, c, q, i, sent, n)
  <2>1. Appended(o, u, to, sent, n)
    <3>1. /\ o \in Seq(Seq(Ids)) /\ to \in Seq(Ids) /\ Len(to) = 2 /\ sent \in Nat /\ n \in Nat
      BY <1>2, <1>3, <1>5
    <3> QED
      BY <3>1, SentBytes
  <2> HIDE DEF u, q
  <2>2. to[2] = i
    BY DEF i, to
  <2>3. Len(o) = q + sent /\ to[1] = c
    BY <1>3, <1>4
  <2> QED
    <3>1. u \in Seq(Seq(Ids)) /\ Len(u) = (q + sent) + n /\ \A j \in 1 .. q + sent : u[j] = o[j]
      BY <2>1, <2>3 DEF Appended
    <3>2. ASSUME NEW k \in 1 .. n
          PROVE  ByteOf(u[(q + sent) + k], to, sent + k)
      BY <2>1, <2>3 DEF Appended
    <3>3. \A k \in 1 .. n : LET b == u[(q + sent) + k]
                          IN b[1] = c /\ b[2] = i /\ b[3] = sent + k
      BY <3>2, <2>2, <2>3 DEF ByteOf
    <3> QED
      BY <3>1, <3>3 DEF Longer
<1> HIDE DEF t, u
<1>11. /\ o2 = u /\ out' \in [Clients -> Seq(Seq(Ids))]
       /\ \A d \in Clients \ {c} : out'[d] = out[d]
  BY <1>7, <1>10 DEF TypeInv, o2
<1>12. Place(q, k0)
  <2>1. \A r \in 0 .. ResponseLen - 1 :
          (q + r) % ResponseLen = r /\ (q + r) \div ResponseLen = k0
    BY <1>2, Places
  <2>2. (q + ResponseLen) \div ResponseLen = k0 + 1
    <3>1. q + ResponseLen = ResponseLen * (k0 + 1) + 0
      BY <1>2
    <3>2. k0 + 1 \in Nat /\ 0 \in 0 .. ResponseLen - 1
      BY <1>2
    <3>3. (ResponseLen * (k0 + 1) + 0) \div ResponseLen = k0 + 1
      BY <3>2, <1>2, Places
    <3> QED
      BY <3>1, <3>3
  <2> QED
    BY <2>1, <2>2 DEF Place
<1>13. one => i = k0 + 1
  <2>1. SUFFICES ASSUME one
                 PROVE  i = k0 + 1
    OBVIOUS
  <2> DEFINE p == ResponseLen * Len(a)
  <2>2. p <= Len(o) + ResponseLen
    BY <1>9, <2>1
  <2>3. Len(a) \in Nat /\ k0 + 2 \in Nat /\ p \in Nat
    BY <1>2
  <2>4. ResponseLen * (k0 + 2) = (q + ResponseLen) + ResponseLen
    BY <1>2
  <2> HIDE DEF q, p
  <2>5. p < (q + ResponseLen) + ResponseLen
    BY <2>2, <2>3, <1>2, <1>3, <1>4, <1>6
  <2>6. ResponseLen * Len(a) < ResponseLen * (k0 + 2)
    BY <2>4, <2>5 DEF p
  <2>7. Len(a) < k0 + 2
    BY <2>3, <2>6, <1>2, Cancel
  <2> QED
    BY <2>7, <2>3, <1>2, <1>3, <1>4
<1>14. Shuts(a, k0, i, sent, n, shut)
  <2>1. a[i] = "last" => ~keep[c]
    BY <1>4 DEF KeptAlive
  <2> QED
    BY <2>1, <1>5 DEF k0, Shuts, Ended
<1> HIDE DEF q
<1>15. AllRight(c, a, u, one, shut, q, i)
  <2>1. /\ one \in BOOLEAN /\ shut \in BOOLEAN /\ k0 \in Nat /\ q \in Nat /\ sent \in Nat
        /\ i \in Nat /\ n \in Nat
    BY <1>2, <1>3, <1>5, <1>6
  <2>2. /\ sent < ResponseLen /\ sent + n <= ResponseLen /\ i \in 1 .. Len(a)
        /\ Place(q, k0) /\ Len(o) = q + sent /\ SoFar(c, a, o, one, q, i)
        /\ one => i = k0 + 1
    BY <1>3, <1>4, <1>5, <1>8, <1>12, <1>13
  <2> QED
    BY <2>1, <2>2, <1>10, <1>14, Sent
<1>16. one => ResponseLen * Len(a) <= Len(u) + ResponseLen
  <2> DEFINE p == ResponseLen * Len(a)
  <2>1. p \in Nat
    BY <1>2
  <2>2. one => p <= Len(o) + ResponseLen
    BY <1>9
  <2> HIDE DEF p
  <2>3. one => p <= Len(u) + ResponseLen
    <3>1. Len(u) = Len(o) + n /\ Len(o) \in Nat
      BY <1>2, <1>4, <1>6, <1>10 DEF Longer
    <3>2. n \in Nat /\ ResponseLen \in Nat
      BY <1>2, <1>5
    <3> QED
      BY <2>1, <2>2, <3>1, <3>2
  <2> QED
    BY <2>3 DEF p
<1>17. /\ i \in 1 .. Len(a) /\ i \in Nat /\ k0 < i /\ LastAnswered(c) < i
       /\ q \in Nat /\ sent \in Nat /\ sent < ResponseLen
       /\ Len(o) = q + sent /\ Len(u) = (q + sent) + n
       /\ \A j \in 1 .. Len(o) : u[j] = o[j]
  BY <1>2, <1>3, <1>4, <1>6, <1>10 DEF Longer
<1> QED
  BY <1>1, <1>11, <1>15, <1>16, <1>17 DEF i, k0, q, sent, o, o2, a, one, AllRight, Wrote

LEMMA ClosedInv ==
  ASSUME NEW c \in Clients, conn'[c] = "closed", owner'[c] \in Workers,
         \A j \in 1 .. Len(out'[c]) :
           AnswerInv(c, asked'[c], out'[c], patient'[c], TRUE, j),
         patient'[c] => ResponseLen * Len(asked'[c]) <= Len(out'[c]) + ResponseLen,
         ResponseInv(c)'
  PROVE  ClientInv(c)'
<1>1. OutInv(c)'
  BY DEF OutInv, AnswerInv
<1> QED
  BY <1>1 DEF ClientInv

(* WritePart: the response goes on where it was cut.                        *)
LEMMA WritePartStep ==
  ASSUME OneWorker, HandlerInv, NEW w \in Workers, NEW c \in Clients, NEW n \in Nat,
         WritePart(w, c, n)
  PROVE  HandlerInv'
<1> DEFINE i == response[c].to[2]
           q == ResponseLen * count[c]
           sent == response[c].sent
<1>1. /\ TypeInv /\ WorkerInv(w) /\ ClientInv(c) /\ pc[w] = "write" /\ at[w] = c
      /\ n \in 0 .. Left(c) - 1 /\ Sends(c, n) /\ Goto(w, "list")
      /\ response' = [response EXCEPT ![c].sent = @ + n]
      /\ UNCHANGED <<patient, asked, wire, peer, conn, owner, request, keep, late, count,
                     buf, at, rcvd>>
  BY DEF HandlerInv, WritePart, In, Sends, clientVars
<1>2. n \in 0 .. Left(c) /\ n # Left(c)
  <2>1. response[c].sent \in Nat /\ ResponseLen \in Nat
    BY <1>1, LensAssumption DEF TypeInv
  <2>2. Left(c) \in Int
    BY <2>1 DEF Left
  <2> QED
    BY <2>2, <1>1
<1>3. /\ conn[c] = "open" /\ response[c] # NoResponse
      /\ i \in 1 .. Len(asked[c]) /\ i \in Nat /\ LastAnswered(c) < i
      /\ q \in Nat /\ sent \in Nat /\ sent < ResponseLen
      /\ out' \in [Clients -> Seq(Seq(Ids))] /\ \A d \in Clients \ {c} : out'[d] = out[d]
      /\ Len(out[c]) = q + sent /\ Len(out'[c]) = (q + sent) + n
      /\ \A j \in 1 .. Len(out[c]) : out'[c][j] = out[c][j]
      /\ \A j \in 1 .. Len(out'[c]) : AnswerInv(c, asked[c], out'[c], patient[c], FALSE, j)
      /\ \A j \in q + 1 .. Len(out'[c]) : out'[c][j][2] = i
      /\ patient[c] => ResponseLen * Len(asked[c]) <= Len(out'[c]) + ResponseLen
  BY <1>1, <1>2, WriteBytes DEF Ended, Wrote
<1>4. /\ response[c] \in [to : Seq(Ids), sent : Nat]
      /\ ServedInv(c) /\ ResponseInv(c) /\ LineInv(w, c) /\ owner[c] \in Workers
      /\ ResponseLen \in Nat \ {0}
  BY <1>1, <1>3, LensAssumption DEF HandlerInv, ClientInv, TypeInv
<1>5. /\ response' \in [Clients -> [to : Seq(Ids), sent : Nat]]
      /\ \A d \in Clients \ {c} : response'[d] = response[d]
      /\ response'[c].to = response[c].to /\ response'[c].sent = sent + n
  <2>1. response \in [Clients -> [to : Seq(Ids), sent : Nat]] /\ sent + n \in Nat
    <3>1. response \in [Clients -> [to : Seq(Ids), sent : Nat]]
      BY <1>1 DEF TypeInv
    <3>2. sent \in Nat
      BY <1>3
    <3> HIDE DEF sent
    <3>3. sent + n \in Nat
      BY <3>2
    <3> QED
      BY <3>1, <3>3
  <2>2. \A d \in Clients \ {c} : response'[d] = response[d]
    BY <1>1, <2>1
  <2>3. response'[c] = [response[c] EXCEPT !.sent = sent + n]
    BY <1>1, <2>1
  <2>4. \A r \in [to : Seq(Ids), sent : Nat] : \A m \in Nat :
          /\ [r EXCEPT !.sent = m] \in [to : Seq(Ids), sent : Nat]
          /\ [r EXCEPT !.sent = m].to = r.to /\ [r EXCEPT !.sent = m].sent = m
    OBVIOUS
  <2>5. /\ response'[c] \in [to : Seq(Ids), sent : Nat]
        /\ response'[c].to = response[c].to /\ response'[c].sent = sent + n
    BY <2>1, <2>3, <2>4, <1>4
  <2>6. response' = [d \in Clients |-> response'[d]]
    BY <1>1, <2>1
  <2>7. \A d \in Clients : response'[d] \in [to : Seq(Ids), sent : Nat]
    BY <2>1, <2>2, <2>5
  <2> QED
    BY <2>2, <2>5, <2>6, <2>7
<1>6. pc' \in [Workers -> {"list", "read", "append", "write"}] /\ pc'[w] = "list"
  BY <1>1 DEF TypeInv, Goto
<1>7. TypeInv'
  BY <1>1, <1>3, <1>5, <1>6 DEF TypeInv
<1>8. WorkerInv(w)'
  BY <1>6 DEF WorkerInv
<1>9. \A d \in Clients \ {c} : SameClient(d) /\ SameLine(w, d)
  BY <1>1, <1>3, <1>5, <1>6 DEF SameClient, SameLine, Line, Pending
<1>10. response'[c] # NoResponse
  <2>1. response[c].to # NoResponse.to
    BY <1>3, <1>4, NoClientAssumption DEF ResponseInv, NoResponse
  <2> QED
    BY <2>1, <1>5
<1>11. LastAnswered(c)' = LastAnswered(c)
  <2>1. CASE count[c] = 0
    BY <2>1, <1>1 DEF LastAnswered
  <2>2. CASE count[c] # 0
    <3>1. count[c] \in Nat
      BY <1>1, LensAssumption DEF TypeInv
    <3>2. q > 0
      BY <2>2, <3>1, <1>4
    <3> HIDE DEF q, sent
    <3>3. q \in 1 .. Len(out[c])
      BY <3>2, <1>3
    <3>4. out'[c][q] = out[c][q]
      BY <3>3, <1>3
    <3> QED
      BY <3>4, <2>2, <1>1 DEF LastAnswered, q
  <2> QED
    BY <2>1, <2>2
<1>12. ClientInv(c)'
  <2>1. sent + n < ResponseLen /\ sent + n \in Nat
    <3>1. Left(c) = ResponseLen - sent /\ n \in 0 .. Left(c) - 1 /\ sent \in Nat
      BY <1>1, <1>3 DEF Left
    <3> HIDE DEF sent
    <3> QED
      BY <3>1, <1>4
  <2>2. ResponseInv(c)'
    <3>1. response[c].to[1] = c /\ Len(response[c].to) = 2
      BY <1>3, <1>4 DEF ResponseInv
    <3>2. sent + n \in 0 .. ResponseLen /\ sent + n # ResponseLen
      BY <2>1, <1>4
    <3> QED
      BY <3>1, <3>2, <1>1, <1>3, <1>5 DEF ResponseInv
  <2>3. OutInv(c)'
    BY <1>1, <1>3 DEF OutInv, AnswerInv
  <2>4. ServedInv(c)'
    <3>1. Len(out'[c]) = ResponseLen * count'[c] + response'[c].sent
      <4> HIDE DEF q
      <4>1. Len(out'[c]) = q + (sent + n)
        BY <1>1, <1>3
      <4> QED
        BY <4>1, <1>1, <1>5 DEF q
    <3>2. LastAnswered(c) \in count[c] .. Len(asked[c]) /\ keep[c] = KeptAlive(asked[c][i])
      BY <1>3, <1>4 DEF ServedInv
    <3> QED
      BY <3>1, <3>2, <1>1, <1>3, <1>5, <1>11 DEF ServedInv
  <2> QED
    BY <2>2, <2>3, <2>4, <1>1, <1>3, <1>4 DEF ClientInv
<1>13. LineInv(w, c)'
  <2>1. Line(w, c)' = Line(w, c)
    BY <1>1, <1>6 DEF Line, Pending
  <2>2. OfClient(c, asked[c], Line(w, c)) /\ Ordered(Line(w, c)) /\ After(wire[c], i)
    BY <1>3, <1>4 DEF LineInv
  <2> QED
    BY <2>1, <2>2, <1>1, <1>5, <1>10 DEF LineInv, OfClient, Ordered, After
<1> QED
  BY <1>7, <1>8, <1>9, <1>12, <1>13, OneHandler

LEMMA WriteFailStep ==
  ASSUME OneWorker, HandlerInv, NEW w \in Workers, NEW c \in Clients, WriteFail(w, c)
  PROVE  HandlerInv'
<1>1. /\ TypeInv /\ WorkerInv(w) /\ ClientInv(c) /\ pc[w] = "write" /\ at[w] = c
      /\ Close(w, c)
      /\ UNCHANGED <<patient, asked, wire, peer, owner, request, response, keep, late, count,
                     buf, at, rcvd>>
  BY DEF HandlerInv, WriteFail, In, clientVars, handlerVars
<1>2. PICK n \in 0 .. Left(c) - 1 : Sends(c, n)
  BY DEF WriteFail, Sends
<1>3. response[c] # NoResponse /\ ResponseInv(c)
  BY <1>1 DEF WorkerInv, ClientInv
<1>4. response[c].sent \in 0 .. ResponseLen /\ ResponseLen \in Nat
  BY <1>3, LensAssumption DEF ResponseInv
<1>5. n \in 0 .. Left(c) /\ n # Left(c)
  BY <1>4 DEF Left
<1>6. /\ conn[c] = "open"
      /\ out' \in [Clients -> Seq(Seq(Ids))] /\ \A d \in Clients \ {c} : out'[d] = out[d]
      /\ \A j \in 1 .. Len(out'[c]) : AnswerInv(c, asked[c], out'[c], patient[c], TRUE, j)
      /\ patient[c] => ResponseLen * Len(asked[c]) <= Len(out'[c]) + ResponseLen
  BY <1>1, <1>2, <1>5, WriteBytes DEF Ended, Wrote
<1>7. /\ conn' \in [Clients -> {"pending", "open", "closed"}] /\ conn'[c] = "closed"
      /\ \A d \in Clients \ {c} : conn'[d] = conn[d]
      /\ pc' \in [Workers -> {"list", "read", "append", "write"}] /\ pc'[w] = "list"
  BY <1>1 DEF TypeInv, Close, Goto
<1>8. TypeInv'
  BY <1>1, <1>6, <1>7 DEF TypeInv
<1>9. WorkerInv(w)'
  BY <1>7 DEF WorkerInv
<1>10. \A d \in Clients \ {c} : SameClient(d) /\ SameLine(w, d)
  BY <1>1, <1>6, <1>7 DEF SameClient, SameLine, Line, Pending
<1>11. ResponseInv(c)'
  BY <1>1, <1>3, <1>7 DEF ResponseInv
<1>12. owner'[c] \in Workers
  BY <1>1, <1>6 DEF ClientInv
<1>13. ClientInv(c)'
  BY <1>1, <1>6, <1>7, <1>11, <1>12, ClosedInv
<1> QED
  BY <1>7, <1>8, <1>9, <1>10, <1>13, OneHandler

(* WriteRest: the last byte closes the connection, or it is ready for the   *)
(* next request.                                                            *)
LEMMA WriteRestStep ==
  ASSUME OneWorker, HandlerInv, NEW w \in Workers, NEW c \in Clients, WriteRest(w, c)
  PROVE  HandlerInv'
<1> DEFINE i == response[c].to[2]
           q == ResponseLen * count[c]
           sent == response[c].sent
           n == Left(c)
           stop == ~keep[c] \/ (KeepAliveMax > 0 /\ count[c] + 1 >= KeepAliveMax)
<1>1. /\ TypeInv /\ WorkerInv(w) /\ ClientInv(c) /\ pc[w] = "write" /\ at[w] = c
      /\ Sends(c, n)
      /\ UNCHANGED <<patient, asked, wire, peer, owner, keep, late, buf, at, rcvd>>
  BY DEF HandlerInv, WriteRest, In, Sends, clientVars
<1>2. /\ response \in [Clients -> [to : Seq(Ids), sent : Nat]] /\ request \in [Clients -> Seq(Bytes)]
      /\ count \in [Clients -> 0 .. MaxRequests] /\ keep \in [Clients -> BOOLEAN]
      /\ conn \in [Clients -> {"pending", "open", "closed"}]
      /\ pc \in [Workers -> {"list", "read", "append", "write"}]
      /\ response[c] # NoResponse /\ conn[c] = "open" /\ ResponseInv(c)
      /\ ResponseLen \in Nat \ {0} /\ KeepAliveMax \in Nat /\ MaxRequests \in Nat
  BY <1>1, LensAssumption DEF TypeInv, WorkerInv, ClientInv
<1>3. sent \in Nat /\ n \in 0 .. Left(c) /\ sent + n = ResponseLen
  <2>1. sent \in 0 .. ResponseLen
    BY <1>2 DEF ResponseInv
  <2>2. Left(c) = ResponseLen - sent
    BY DEF Left
  <2> QED
    BY <2>1, <2>2, <1>2
<1>4. stop \in BOOLEAN
  OBVIOUS
<1>5. \A shut \in BOOLEAN : (stop => shut) =>
        /\ i \in 1 .. Len(asked[c]) /\ i \in Nat /\ count[c] < i /\ LastAnswered(c) < i
        /\ q \in Nat /\ sent < ResponseLen
        /\ out' \in [Clients -> Seq(Seq(Ids))] /\ \A d \in Clients \ {c} : out'[d] = out[d]
        /\ Len(out[c]) = q + sent /\ Len(out'[c]) = (q + sent) + n
        /\ \A j \in 1 .. Len(out'[c]) : AnswerInv(c, asked[c], out'[c], patient[c], shut, j)
        /\ \A j \in q + 1 .. Len(out'[c]) : out'[c][j][2] = i
        /\ patient[c] => ResponseLen * Len(asked[c]) <= Len(out'[c]) + ResponseLen
  <2>1. SUFFICES ASSUME NEW shut \in BOOLEAN, stop => shut
                 PROVE
        /\ i \in 1 .. Len(asked[c]) /\ i \in Nat /\ count[c] < i /\ LastAnswered(c) < i
        /\ q \in Nat /\ sent < ResponseLen
        /\ out' \in [Clients -> Seq(Seq(Ids))] /\ \A d \in Clients \ {c} : out'[d] = out[d]
        /\ Len(out[c]) = q + sent /\ Len(out'[c]) = (q + sent) + n
        /\ \A j \in 1 .. Len(out'[c]) : AnswerInv(c, asked[c], out'[c], patient[c], shut, j)
        /\ \A j \in q + 1 .. Len(out'[c]) : out'[c][j][2] = i
        /\ patient[c] => ResponseLen * Len(asked[c]) <= Len(out'[c]) + ResponseLen
    BY Zenon
  <2>2. Ended(c, n, shut)
    BY <2>1 DEF Ended
  <2> HIDE DEF n
  <2>3. Wrote(c, n, shut)
    BY <2>2, <1>1, <1>3, WriteBytes
  <2> QED
    BY <2>3, <1>3 DEF Wrote
<1>6. /\ count' = [count EXCEPT ![c] = IF keep[c] THEN @ + 1 ELSE @]
      /\ \/ stop /\ Close(w, c) /\ response' = [response EXCEPT ![c].sent = ResponseLen]
            /\ UNCHANGED request
         \/ ~stop /\ Goto(w, "list") /\ Reset(c) /\ UNCHANGED conn
  <2>1. count' = [count EXCEPT ![c] = IF keep[c] THEN @ + 1 ELSE @]
    BY DEF WriteRest
  <2>2. keep[c] => count'[c] = count[c] + 1
    BY <2>1, <1>2
  <2>3. ~keep[c] \/ (KeepAliveMax > 0 /\ count'[c] >= KeepAliveMax) <=> stop
    BY <2>2
  <2> QED
    BY <2>1, <2>3 DEF WriteRest
<1>7. count[c] + 1 \in 0 .. MaxRequests
  <2>1. count[c] < i /\ i \in 1 .. Len(asked[c]) /\ i \in Nat
    BY <1>5
  <2>2. Len(asked[c]) <= MaxRequests /\ Len(asked[c]) \in Nat /\ count[c] \in Nat
    BY <1>1, <1>2 DEF TypeInv
  <2> HIDE DEF i
  <2> QED
    BY <2>1, <2>2, <1>2
<1>8. /\ count' \in [Clients -> 0 .. MaxRequests] /\ (keep[c] => count'[c] = count[c] + 1)
      /\ \A d \in Clients \ {c} : count'[d] = count[d]
  <2>1. CASE keep[c]
    <3>1. count' = [count EXCEPT ![c] = count[c] + 1]
      BY <2>1, <1>6
    <3> QED
      BY <3>1, <1>2, <1>7
  <2>2. CASE ~keep[c]
    <3>1. count' = [count EXCEPT ![c] = count[c]]
      BY <2>2, <1>6
    <3> QED
      BY <3>1, <2>2, <1>2
  <2> QED
    BY <2>1, <2>2
<1>9. /\ out' \in [Clients -> Seq(Seq(Ids))] /\ \A d \in Clients \ {c} : out'[d] = out[d]
      /\ patient[c] => ResponseLen * Len(asked[c]) <= Len(out'[c]) + ResponseLen
  BY <1>5
<1>10. pc' \in [Workers -> {"list", "read", "append", "write"}] /\ pc'[w] = "list"
  BY <1>2, <1>6 DEF Close, Goto
<1>11. WorkerInv(w)'
  BY <1>10 DEF WorkerInv
<1>12. owner'[c] \in Workers
  BY <1>1, <1>2 DEF ClientInv
<1>13. CASE stop
  <2>1. /\ Close(w, c) /\ response' = [response EXCEPT ![c].sent = ResponseLen]
        /\ UNCHANGED request
    BY <1>6, <1>13
  <2>2. /\ conn' \in [Clients -> {"pending", "open", "closed"}] /\ conn'[c] = "closed"
        /\ \A d \in Clients \ {c} : conn'[d] = conn[d]
    BY <2>1, <1>2 DEF Close
  <2>3. /\ response' \in [Clients -> [to : Seq(Ids), sent : Nat]]
        /\ \A d \in Clients \ {c} : response'[d] = response[d]
        /\ response'[c].to = response[c].to /\ response'[c].sent = ResponseLen
    <3>1. \A d \in Clients \ {c} : response'[d] = response[d]
      BY <2>1, <1>2
    <3>2. response'[c] = [response[c] EXCEPT !.sent = ResponseLen]
      BY <2>1, <1>2
    <3>3. \A r \in [to : Seq(Ids), sent : Nat] : \A m \in Nat :
            /\ [r EXCEPT !.sent = m] \in [to : Seq(Ids), sent : Nat]
            /\ [r EXCEPT !.sent = m].to = r.to /\ [r EXCEPT !.sent = m].sent = m
      OBVIOUS
    <3>4. response[c] \in [to : Seq(Ids), sent : Nat] /\ ResponseLen \in Nat
      BY <1>2
    <3>5. /\ response'[c] \in [to : Seq(Ids), sent : Nat]
          /\ response'[c].to = response[c].to /\ response'[c].sent = ResponseLen
      BY <3>2, <3>3, <3>4
    <3>6. response' = [d \in Clients |-> response'[d]]
      BY <2>1, <1>2
    <3>7. \A d \in Clients : response'[d] \in [to : Seq(Ids), sent : Nat]
      BY <1>2, <3>1, <3>5
    <3> QED
      BY <3>1, <3>5, <3>6, <3>7
  <2>4. TypeInv'
    BY <2>1, <2>2, <2>3, <1>1, <1>8, <1>9, <1>10 DEF TypeInv
  <2>5. \A d \in Clients \ {c} : SameClient(d) /\ SameLine(w, d)
    BY <2>1, <2>2, <2>3, <1>1, <1>8, <1>9, <1>10 DEF SameClient, SameLine, Line, Pending
  <2>6. \A j \in 1 .. Len(out'[c]) : AnswerInv(c, asked[c], out'[c], patient[c], TRUE, j)
    BY <1>5
  <2>7. ResponseInv(c)'
    <3>1. /\ response[c].to[1] = c /\ Len(response[c].to) = 2
          /\ response[c].to[2] \in 1 .. Len(asked[c])
      BY <1>2 DEF ResponseInv
    <3>2. ResponseLen \in 0 .. ResponseLen
      BY <1>2
    <3> QED
      BY <3>1, <3>2, <2>2, <2>3, <1>1 DEF ResponseInv
  <2>8. ClientInv(c)'
    BY <2>2, <2>6, <2>7, <1>1, <1>9, <1>12, ClosedInv
  <2> QED
    BY <2>2, <2>4, <2>5, <2>8, <1>11, OneHandler
<1>14. CASE ~stop
  <2>1. /\ Goto(w, "list") /\ Reset(c) /\ UNCHANGED conn /\ keep[c] = TRUE
    BY <1>6, <1>14, <1>2
  <2>2. NoResponse \in [to : Seq(Ids), sent : Nat] /\ NoResponse.sent = 0
    <3>1. <<NoClient, 0>> \in Seq(Ids)
      BY DEF Ids
    <3> QED
      BY <3>1 DEF NoResponse
  <2>3. /\ response' \in [Clients -> [to : Seq(Ids), sent : Nat]]
        /\ request' \in [Clients -> Seq(Bytes)]
        /\ \A d \in Clients \ {c} : response'[d] = response[d] /\ request'[d] = request[d]
        /\ response'[c] = NoResponse /\ request'[c] = <<>>
    BY <2>1, <2>2, <1>2 DEF Reset
  <2>4. TypeInv'
    BY <2>1, <2>3, <1>1, <1>8, <1>9, <1>10 DEF TypeInv
  <2>5. \A d \in Clients \ {c} : SameClient(d) /\ SameLine(w, d)
    BY <2>1, <2>3, <1>1, <1>8, <1>9, <1>10 DEF SameClient, SameLine, Line, Pending
  <2>6. /\ i \in 1 .. Len(asked[c]) /\ i \in Nat /\ count[c] < i /\ q \in Nat
        /\ Len(out'[c]) = q + ResponseLen
        /\ \A j \in 1 .. Len(out'[c]) : AnswerInv(c, asked[c], out'[c], patient[c], FALSE, j)
        /\ \A j \in q + 1 .. Len(out'[c]) : out'[c][j][2] = i
    <3>1. /\ i \in 1 .. Len(asked[c]) /\ i \in Nat /\ count[c] < i /\ q \in Nat
          /\ Len(out'[c]) = (q + sent) + n
          /\ \A j \in 1 .. Len(out'[c]) : AnswerInv(c, asked[c], out'[c], patient[c], FALSE, j)
          /\ \A j \in q + 1 .. Len(out'[c]) : out'[c][j][2] = i
      BY <1>5, <1>14
    <3> HIDE DEF q, n, sent, i
    <3>2. n \in Nat
      BY <1>3, <1>2
    <3>3. (q + sent) + n = q + ResponseLen
      BY <1>3, <3>1, <3>2
    <3> QED
      BY <3>1, <3>3
  <2>7. LastAnswered(c)' = i
    <3>1. count'[c] = count[c] + 1 /\ count[c] \in Nat
      BY <2>1, <1>2, <1>8
    <3>2. ResponseLen * count'[c] = q + ResponseLen
      BY <3>1, <1>2
    <3> HIDE DEF q
    <3>3. q + ResponseLen \in q + 1 .. Len(out'[c])
      BY <2>6, <1>2
    <3>4. out'[c][q + ResponseLen][2] = i
      BY <2>6, <3>3
    <3>5. count'[c] # 0
      BY <3>1
    <3> QED
      BY <3>2, <3>4, <3>5 DEF LastAnswered
  <2>8. ClientInv(c)'
    <3>1. ResponseInv(c)'
      BY <2>3 DEF ResponseInv
    <3>2. OutInv(c)'
      <4>1. ~(conn'[c] = "closed") /\ asked'[c] = asked[c] /\ patient'[c] = patient[c]
        BY <2>1, <1>1, <1>2
      <4>2. \A j \in 1 .. Len(out'[c]) :
              AnswerInv(c, asked'[c], out'[c], patient'[c], conn'[c] = "closed", j)
        BY <4>1, <2>6 DEF AnswerInv
      <4>3. patient'[c] => ResponseLen * Len(asked'[c]) <= Len(out'[c]) + ResponseLen
        BY <4>1, <1>9
      <4> QED
        BY <4>2, <4>3 DEF OutInv, AnswerInv
    <3>3. ServedInv(c)'
      <4>1. count'[c] = count[c] + 1 /\ count[c] \in Nat
        BY <2>1, <1>2, <1>8
      <4>2. Len(out'[c]) = ResponseLen * count'[c] + 0
        <5>1. ResponseLen * count'[c] = q + ResponseLen
          BY <4>1, <1>2
        <5>2. q + ResponseLen = (q + ResponseLen) + 0
          BY <2>6, <1>2
        <5> QED
          BY <5>1, <5>2, <2>6
      <4>3. i \in count'[c] .. Len(asked[c])
        <5> HIDE DEF i
        <5> QED
          BY <4>1, <2>6
      <4> QED
        BY <4>2, <4>3, <2>2, <2>3, <2>7, <1>1 DEF ServedInv
    <3>4. conn'[c] = "open"
      BY <2>1, <1>2
    <3> QED
      BY <3>1, <3>2, <3>3, <3>4, <1>12 DEF ClientInv
  <2>9. LineInv(w, c)'
    <3> DEFINE r == request[c] \o Pending(w, c)
               z == wire[c]
               s == r \o z
    <3>1. LineInv(w, c)
      BY <1>2 DEF HandlerInv
    <3>2. r \in Seq(Bytes) /\ z \in Seq(Bytes) /\ s \in Seq(Bytes) /\ Line(w, c) = s
      BY <1>1, LineType DEF Line
    <3>3. Line(w, c)' = z
      <4>1. Pending(w, c)' = <<>>
        BY <1>10 DEF Pending
      <4>2. Line(w, c)' = (<<>> \o <<>>) \o z
        BY <4>1, <2>3, <1>1 DEF Line
      <4> HIDE DEF z
      <4> QED
        BY <4>2, <3>2
    <3>4. OfClient(c, asked[c], s) /\ Ordered(s) /\ After(z, i)
      BY <3>1, <3>2, <1>2 DEF LineInv
    <3> HIDE DEF r, z
    <3>5. /\ Len(r) \in Nat /\ Len(z) + Len(r) <= Len(s)
          /\ \A j \in 1 .. Len(z) : z[j] = s[j + Len(r)]
      BY <3>2
    <3> HIDE DEF s
    <3>6. OfClient(c, asked[c], z) /\ Ordered(z)
      BY <3>2, <3>4, <3>5, Piece
    <3> QED
      BY <3>3, <3>4, <3>6, <2>3, <2>7, <1>1 DEF LineInv, OfClient, Ordered, After
  <2> QED
    BY <2>4, <2>5, <2>8, <2>9, <1>11, OneHandler
<1> QED
  BY <1>13, <1>14

-----------------------------------------------------------------------------
(* The invariant, and what it says of the properties.                       *)

LEMMA InitHandlers ==
  ASSUME Init
  PROVE  HandlerInv
<1>1. <<NoClient, 0>> \in Seq(Ids)
  BY DEF Ids
<1>2. NoResponse \in [to : Seq(Ids), sent : Nat] /\ NoResponse.sent = 0
  BY <1>1 DEF NoResponse
<1>3. /\ 0 \in 0 .. MaxRequests /\ 0 \in 0 .. BufLen /\ ResponseLen \in Nat \ {0}
      /\ BufLen \in Nat
  BY LensAssumption
<1>4. TypeInv
  <2>1. Len(<<>>) = 0 /\ MaxRequests \in Nat
    BY LensAssumption
  <2> QED
    BY <1>2, <1>3, <2>1 DEF Init, TypeInv
<1>5. \A w \in Workers : WorkerInv(w)
  BY DEF Init, WorkerInv
<1>6. ASSUME NEW c \in Clients
      PROVE  ClientInv(c)
  <2>1. /\ asked[c] = <<>> /\ out[c] = <<>> /\ conn[c] = "pending" /\ owner[c] = NoClient
        /\ request[c] = <<>> /\ response[c] = NoResponse /\ count[c] = 0
    BY DEF Init
  <2>2. Len(asked[c]) = 0 /\ Len(out[c]) = 0
    BY <2>1
  <2>3. OutInv(c)
    BY <2>2, <1>3 DEF OutInv
  <2>4. ServedInv(c)
    <3>1. ResponseLen * count[c] + response[c].sent = 0
      BY <2>1, <1>2, <1>3
    <3>2. LastAnswered(c) = 0
      BY <2>1 DEF LastAnswered
    <3> QED
      BY <3>1, <3>2, <2>1, <2>2 DEF ServedInv
  <2> QED
    BY <2>1, <2>3, <2>4 DEF ClientInv, ResponseInv, PendingInv
<1>7. ASSUME NEW w \in Workers, NEW c \in Clients
      PROVE  LineInv(w, c)
  <2>1. Line(w, c) = <<>>
    <3>1. request[c] = <<>> /\ wire[c] = <<>> /\ Pending(w, c) = <<>>
      BY DEF Init, Pending
    <3> QED
      BY <3>1 DEF Line
  <2>2. Len(Line(w, c)) = 0 /\ response[c] = NoResponse
    BY <2>1 DEF Init
  <2> QED
    BY <2>2 DEF LineInv, OfClient, Ordered, After
<1> QED
  BY <1>4, <1>5, <1>6, <1>7 DEF HandlerInv

LEMMA NextHandlers ==
  ASSUME OneWorker, HandlerInv, [Next]_vars
  PROVE  HandlerInv'
<1>1. CASE Next
  <2>1. ASSUME NEW c \in Clients, NEW kind \in Kinds, Ask(c, kind)
        PROVE  HandlerInv'
    BY <2>1, AskStep
  <2>2. ASSUME NEW c \in Clients, PeerCloses(c) \/ Elapse(c)
        PROVE  HandlerInv'
    BY <2>2, PeerClosesStep, ElapseStep
  <2>3. ASSUME NEW w \in Workers, NEW c \in Clients, AcceptClient(w, c)
        PROVE  HandlerInv'
    BY <2>3, AcceptClientStep
  <2>4. ASSUME NEW w \in Workers, NEW c \in Clients, Serve(w, c)
        PROVE  HandlerInv'
    <3>1. CASE Timeout(w, c)
      BY <3>1, TimeoutStep
    <3>2. CASE Process(w, c)
      BY <3>2, ProcessStep
    <3>3. CASE ReadStep(w, c)
      BY <3>3, ReadNothingStep, ReadBytesStep DEF ReadStep
    <3>4. CASE ReadFail(w, c)
      BY <3>4, ReadFailStep
    <3>5. CASE HandleRequest(w, c)
      BY <3>5, HandleRequestStep
    <3>6. CASE WriteStep(w, c)
      <4>1. ASSUME NEW n \in 0 .. Left(c) - 1, WritePart(w, c, n)
            PROVE  HandlerInv'
        <5>1. n \in Nat
          OBVIOUS
        <5> QED
          BY <4>1, <5>1, WritePartStep
      <4> QED
        BY <3>6, <4>1, WriteRestStep, WriteFailStep DEF WriteStep
    <3> QED
      BY <2>4, <3>1, <3>2, <3>3, <3>4, <3>5, <3>6 DEF Serve
  <2> QED
    BY <1>1, <2>1, <2>2, <2>3, <2>4 DEF Next
<1>2. CASE UNCHANGED vars
  <2>1. /\ UNCHANGED <<patient, asked, wire, peer, out, conn, owner, request, response, keep,
                       late, count, buf, pc, at, rcvd>>
    BY <1>2 DEF vars, clientVars, handlerVars, threadVars
  <2>2. TypeInv'
    BY <2>1 DEF HandlerInv, TypeInv
  <2>3. \A v \in Workers : WorkerInv(v)'
    BY <2>1 DEF HandlerInv, WorkerInv
  <2>4. \A d \in Clients : SameClient(d)
    BY <2>1 DEF SameClient
  <2>5. \A v \in Workers, d \in Clients : SameLine(v, d)
    BY <2>1 DEF SameLine, Line, Pending
  <2>6. \A d \in Clients : ClientInv(d)'
    BY <2>4, ClientFrame DEF HandlerInv
  <2>7. \A v \in Workers, d \in Clients : conn'[d] # "closed" => LineInv(v, d)'
    BY <2>1, <2>5, LineFrame DEF HandlerInv
  <2> QED
    BY <2>2, <2>3, <2>6, <2>7 DEF HandlerInv
<1> QED
  BY <1>1, <1>2

LEMMA TypeOKHolds ==
  ASSUME HandlerInv
  PROVE  TypeOK
<1>1. TypeInv /\ \A c \in Clients : ResponseInv(c)
  BY DEF HandlerInv, ClientInv
<1>2. \A i \in 1 .. Len(buf) : buf[i] \in Bytes
  BY <1>1 DEF TypeInv
<1>3. ASSUME NEW c \in Clients
      PROVE  /\ Len(asked[c]) <= MaxRequests
             /\ \A i \in 1 .. Len(asked[c]) : asked[c][i] \in Kinds
             /\ \A i \in 1 .. Len(wire[c]) : wire[c][i] \in Bytes
             /\ \A i \in 1 .. Len(request[c]) : request[c][i] \in Bytes
             /\ response[c].sent \in 0 .. ResponseLen
  <2>1. /\ asked[c] \in Seq(Kinds) /\ wire[c] \in Seq(Bytes) /\ request[c] \in Seq(Bytes)
        /\ Len(asked[c]) <= MaxRequests
    BY <1>1 DEF TypeInv
  <2>2. response[c].sent \in 0 .. ResponseLen
    <3>1. CASE response[c] = NoResponse
      BY <3>1, LensAssumption DEF NoResponse
    <3> QED
      BY <3>1, <1>1 DEF ResponseInv
  <2> QED
    BY <2>1, <2>2
<1> QED
  BY <1>1, <1>2, <1>3 DEF TypeInv, TypeOK

LEMMA InOrder ==
  ASSUME HandlerInv
  PROVE  ResponsesInOrder
<1>1. TypeOK
  BY TypeOKHolds
<1>2. ASSUME NEW c \in Clients, NEW j \in 1 .. Len(out[c])
      PROVE  LET b == out[c][j]
             IN /\ b[1] = c /\ b[2] <= Len(asked[c])
                /\ b[3] = ((j - 1) % ResponseLen) + 1
                /\ b[3] > 1 => b[2] = out[c][j - 1][2]
                /\ b[3] = 1 /\ j > 1 => b[2] > out[c][j - 1][2]
                /\ patient[c] => b[2] = ((j - 1) \div ResponseLen) + 1
  <2>1. AnswerInv(c, asked[c], out[c], patient[c], conn[c] = "closed", j)
    BY DEF HandlerInv, ClientInv, OutInv
  <2>2. Len(asked[c]) \in Nat
    BY DEF HandlerInv, TypeInv
  <2> QED
    BY <2>1, <2>2 DEF AnswerInv
<1> QED
  BY <1>1, <1>2 DEF ResponsesInOrder

LEMMA EndsRight ==
  ASSUME HandlerInv
  PROVE  KeepAliveEnds
<1>1. ASSUME NEW c \in Clients, NEW j \in 1 .. Len(out[c])
      PROVE  LET b == out[c][j]
                 n == j \div ResponseLen
             IN b[3] = ResponseLen
                  => /\ KindOf(b) = "last" => j = Len(out[c]) /\ conn[c] = "closed"
                     /\ KeepAliveMax > 0 /\ n >= KeepAliveMax
                          => j = Len(out[c]) /\ conn[c] = "closed"
  <2>1. AnswerInv(c, asked[c], out[c], patient[c], conn[c] = "closed", j)
    BY DEF HandlerInv, ClientInv, OutInv
  <2>2. KindOf(out[c][j]) = asked[c][out[c][j][2]]
    BY <2>1 DEF AnswerInv, KindOf
  <2> QED
    BY <2>1, <2>2 DEF AnswerInv
<1> QED
  BY <1>1 DEF KeepAliveEnds

(* With one worker thread, what a client receives are whole responses to    *)
(* its own requests, one after the other and in their order, however        *)
(* requests and responses are cut (http_server.cpp:39-109).                 *)
THEOREM ResponsesCorrect == OneWorker => (Spec => []ResponsesInOrder)
<1> SUFFICES ASSUME OneWorker
             PROVE  Spec => []ResponsesInOrder
  OBVIOUS
<1>1. Init => HandlerInv
  BY InitHandlers
<1>2. HandlerInv /\ [Next]_vars => HandlerInv'
  BY NextHandlers
<1>3. HandlerInv => ResponsesInOrder
  BY InOrder
<1> QED
  BY <1>1, <1>2, <1>3, PTL DEF Spec

(* With one worker thread, a connection that is not kept alive ends with    *)
(* the last byte of its response, and so does one that was sent as many as  *)
(* m_keep_alive_max (http_server.cpp:88-103).                               *)
THEOREM KeepAliveCorrect == OneWorker => (Spec => []KeepAliveEnds)
<1> SUFFICES ASSUME OneWorker
             PROVE  Spec => []KeepAliveEnds
  OBVIOUS
<1>1. Init => HandlerInv
  BY InitHandlers
<1>2. HandlerInv /\ [Next]_vars => HandlerInv'
  BY NextHandlers
<1>3. HandlerInv => KeepAliveEnds
  BY EndsRight
<1> QED
  BY <1>1, <1>2, <1>3, PTL DEF Spec
=============================================================================
