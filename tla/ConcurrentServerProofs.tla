----------------------- MODULE ConcurrentServerProofs -----------------------
(* Proofs about ConcurrentServer, for any clients and any number of worker  *)
(* threads: who owns a connection, and what a pass over the clients         *)
(* handles.                                                                 *)
EXTENDS ConcurrentServer, SequenceTheorems, TLAPS

-----------------------------------------------------------------------------
(* The inductive invariant.                                                 *)

(* Where the main thread and the workers may be; no worker runs before      *)
(* start().                                                                 *)
Places ==
  /\ pc[Main] \in {"off", "ready", "select", "accept", "serve", "join", "down"}
  /\ \A w \in Workers :
       /\ pc[w] \in {"off", "begin", "select", "accept", "serve", "ended"}
       /\ pc[Main] = "off" => pc[w] = "off"

(* Whoever waits or is owned has connected, so that one who connects is in  *)
(* no list yet.                                                             *)
OnlyArrived ==
  /\ \A i \in 1 .. Len(backlog) : backlog[i] \in arrived
  /\ \A t \in Threads : \A i \in 1 .. Len(clients[t]) : clients[t][i] \in arrived

Owned == OnlyArrived /\ OneOwner

(* In a pass, the clients handled are those before the iterator.            *)
PassInv ==
  \A t \in Threads :
    pc[t] = "serve" =>
      /\ iter[t] \in 1 .. Len(clients[t]) + 1
      /\ \A c \in done[t] : \E j \in 1 .. iter[t] - 1 : clients[t][j] = c
      /\ \A j \in 1 .. iter[t] - 1 : clients[t][j] \in done[t]

ServerInv == TypeOK /\ Places /\ Owned /\ PassInv

-----------------------------------------------------------------------------
(* Lists of clients.                                                        *)

LEMMA MainIsThread == Main \in Threads /\ Workers \subseteq Threads /\ Main \notin Workers
BY MaxThreadsAssumption DEF Main, Threads, Workers

(* erase() takes one element out and closes the gap.                        *)
LEMMA Removal ==
  ASSUME NEW S, NEW s \in Seq(S), NEW i \in 1 .. Len(s)
  PROVE  /\ RemoveAt(s, i) \in Seq(S)
         /\ Len(RemoveAt(s, i)) = Len(s) - 1
         /\ \A j \in 1 .. Len(s) - 1 :
              RemoveAt(s, i)[j] = IF j < i THEN s[j] ELSE s[j + 1]
<1> DEFINE a == SubSeq(s, 1, i - 1)
           b == SubSeq(s, i + 1, Len(s))
<1>1. Len(s) \in Nat /\ i \in Nat /\ \A k \in 1 .. Len(s) : s[k] \in S
  BY LenProperties, ElementOfSeq
<1>2. /\ a \in Seq(S) /\ Len(a) = i - 1
      /\ \A j \in 1 .. i - 1 : a[j] = s[j]
  <2>1. /\ 1 \in Int /\ i - 1 \in Int /\ \A k \in 1 .. i - 1 : s[k] \in S
    BY <1>1
  <2>2. /\ SubSeq(s, 1, i - 1) \in Seq(S)
        /\ Len(SubSeq(s, 1, i - 1)) = IF 1 <= i - 1 THEN i - 1 - 1 + 1 ELSE 0
        /\ \A j \in 1 .. i - 1 - 1 + 1 : SubSeq(s, 1, i - 1)[j] = s[1 + j - 1]
    BY <2>1, SubSeqProperties
  <2> QED
    BY <1>1, <2>2
<1>3. /\ b \in Seq(S) /\ Len(b) = Len(s) - i
      /\ \A j \in 1 .. Len(s) - i : b[j] = s[i + j]
  <2>1. /\ i + 1 \in Int /\ Len(s) \in Int /\ \A k \in i + 1 .. Len(s) : s[k] \in S
    BY <1>1
  <2>2. /\ SubSeq(s, i + 1, Len(s)) \in Seq(S)
        /\ Len(SubSeq(s, i + 1, Len(s)))
             = IF i + 1 <= Len(s) THEN Len(s) - (i + 1) + 1 ELSE 0
        /\ \A j \in 1 .. Len(s) - (i + 1) + 1 :
             SubSeq(s, i + 1, Len(s))[j] = s[i + 1 + j - 1]
    BY <2>1, SubSeqProperties
  <2> QED
    BY <1>1, <2>2
<1> HIDE DEF a, b
<1>4. /\ a \o b \in Seq(S) /\ Len(a \o b) = Len(a) + Len(b)
      /\ \A j \in 1 .. Len(a) + Len(b) :
           (a \o b)[j] = IF j <= Len(a) THEN a[j] ELSE b[j - Len(a)]
  BY <1>2, <1>3, ConcatProperties
<1>5. RemoveAt(s, i) = a \o b
  BY DEF RemoveAt, a, b
<1>6. ASSUME NEW j \in 1 .. Len(s) - 1
      PROVE  (a \o b)[j] = IF j < i THEN s[j] ELSE s[j + 1]
  <2>1. CASE j < i
    BY <1>1, <1>2, <1>3, <1>4, <2>1
  <2>2. CASE ~(j < i)
    <3>1. j - (i - 1) \in 1 .. Len(s) - i /\ i + (j - (i - 1)) = j + 1
      BY <1>1, <2>2
    <3>2. j \in 1 .. Len(a) + Len(b) /\ ~(j <= Len(a)) /\ Len(a) = i - 1
      BY <1>1, <1>2, <1>3, <2>2
    <3>3. (a \o b)[j] = b[j - (i - 1)]
      BY <1>4, <3>2
    <3>4. b[j - (i - 1)] = s[i + (j - (i - 1))]
      BY <1>3, <3>1
    <3> QED
      BY <2>2, <3>1, <3>3, <3>4
  <2> QED
    BY <2>1, <2>2
<1>7. Len(a \o b) = Len(s) - 1
  BY <1>1, <1>2, <1>3, <1>4
<1> QED
  BY <1>4, <1>5, <1>6, <1>7

(* What is left keeps apart what was apart.                                 *)
LEMMA RemovalApart ==
  ASSUME NEW S, NEW s \in Seq(S), NEW i \in 1 .. Len(s)
  PROVE  /\ NoRepetition(s) => NoRepetition(RemoveAt(s, i))
         /\ \A u : Apart(s, u) => Apart(RemoveAt(s, i), u)
         /\ \A u : Apart(u, s) => Apart(u, RemoveAt(s, i))
<1>1. Len(s) \in Nat /\ i \in Nat
  BY LenProperties
<1>2. /\ Len(RemoveAt(s, i)) = Len(s) - 1
      /\ \A j \in 1 .. Len(s) - 1 :
           RemoveAt(s, i)[j] = IF j < i THEN s[j] ELSE s[j + 1]
  BY Removal
<1>3. \A j \in 1 .. Len(RemoveAt(s, i)) :
        \E k \in 1 .. Len(s) : RemoveAt(s, i)[j] = s[k] /\ k = IF j < i THEN j ELSE j + 1
  BY <1>1, <1>2
<1>4. ASSUME NoRepetition(s) PROVE NoRepetition(RemoveAt(s, i))
  BY <1>1, <1>2, <1>3, <1>4 DEF NoRepetition
<1>5. ASSUME NEW u, Apart(s, u) PROVE Apart(RemoveAt(s, i), u)
  BY <1>3, <1>5 DEF Apart
<1>6. ASSUME NEW u, Apart(u, s) PROVE Apart(u, RemoveAt(s, i))
  BY <1>3, <1>6 DEF Apart
<1> QED
  BY <1>4, <1>5, <1>6

(* The oldest connection moves to the end of a list that does not hold it.  *)
LEMMA Moved ==
  ASSUME NEW S, NEW b \in Seq(S), b # <<>>, NEW s \in Seq(S),
         NoRepetition(b), NoRepetition(s), Apart(s, b)
  PROVE  /\ Tail(b) \in Seq(S) /\ Append(s, Head(b)) \in Seq(S)
         /\ NoRepetition(Tail(b)) /\ NoRepetition(Append(s, Head(b)))
         /\ Apart(Append(s, Head(b)), Tail(b)) /\ Apart(s, Tail(b))
         /\ \A u : Apart(u, b) => Apart(u, Tail(b))
         /\ \A u : Apart(u, b) /\ Apart(u, s) => Apart(u, Append(s, Head(b)))
         /\ \A u : Apart(u, b) /\ Apart(s, u) => Apart(Append(s, Head(b)), u)
<1>1. /\ Len(b) \in Nat /\ Len(b) > 0 /\ Len(s) \in Nat /\ Head(b) \in S /\ Head(b) = b[1]
      /\ Tail(b) \in Seq(S) /\ Len(Tail(b)) = Len(b) - 1
      /\ \A i \in 1 .. Len(b) - 1 : Tail(b)[i] = b[i + 1]
  BY LenProperties, EmptySeq, HeadTailProperties
<1> DEFINE e == Append(s, Head(b))
<1>2. /\ e \in Seq(S) /\ Len(e) = Len(s) + 1 /\ e[Len(s) + 1] = b[1]
      /\ \A i \in 1 .. Len(s) : e[i] = s[i]
  BY <1>1, AppendProperties
<1> HIDE DEF e
<1>3. NoRepetition(Tail(b)) /\ Apart(s, Tail(b))
  BY <1>1 DEF NoRepetition, Apart
<1>4. NoRepetition(e)
  BY <1>1, <1>2 DEF NoRepetition, Apart
<1>5. Apart(e, Tail(b))
  BY <1>1, <1>2 DEF NoRepetition, Apart
<1>6. ASSUME NEW u, Apart(u, b) PROVE Apart(u, Tail(b))
  BY <1>1, <1>6 DEF Apart
<1>7. ASSUME NEW u, Apart(u, b), Apart(u, s) PROVE Apart(u, e)
  BY <1>1, <1>2, <1>7 DEF Apart
<1>8. ASSUME NEW u, Apart(u, b), Apart(s, u) PROVE Apart(e, u)
  BY <1>1, <1>2, <1>8 DEF Apart
<1> QED
  BY <1>1, <1>2, <1>3, <1>4, <1>5, <1>6, <1>7, <1>8 DEF e

-----------------------------------------------------------------------------
(* The invariant holds at the start.                                        *)

LEMMA InitInv == Init => ServerInv
<1> SUFFICES ASSUME Init PROVE ServerInv
  OBVIOUS
<1> USE DEF Init
<1>1. <<>> \in Seq(Clients) /\ Len(<<>>) = 0
  BY EmptySeq
<1>2. TypeOK
  <2>1. clients \in [Threads -> Seq(Clients)] /\ backlog \in Seq(Clients)
    BY <1>1
  <2>2. /\ pc \in [Threads -> {"off", "ready", "begin", "select", "accept",
                              "serve", "ended", "join", "down"}]
        /\ iter \in [Threads -> Nat] /\ done \in [Threads -> SUBSET Clients]
    OBVIOUS
  <2>3. threads \in 0 .. MaxThreads /\ arrived \subseteq Clients
    BY MaxThreadsAssumption
  <2>4. active \in BOOLEAN /\ listening \in BOOLEAN
    OBVIOUS
  <2> QED
    BY <2>1, <2>2, <2>3, <2>4, Zenon DEF TypeOK
<1>3. Places
  BY MainIsThread DEF Places
<1>4. Owned
  BY <1>1 DEF Owned, OnlyArrived, OneOwner, NoRepetition, Apart
<1>5. PassInv
  BY DEF PassInv
<1> QED
  BY <1>2, <1>3, <1>4, <1>5 DEF ServerInv

-----------------------------------------------------------------------------
(* Types.                                                                   *)

PcValues == {"off", "ready", "begin", "select", "accept", "serve", "ended",
             "join", "down"}

LEMMA TypeStep ==
  ASSUME ServerInv, [Next]_vars
  PROVE  TypeOK'
<1>0. TypeOK /\ PassInv
  BY DEF ServerInv
<1> USE <1>0, MainIsThread
<1>1. ASSUME NEW n \in 0 .. MaxThreads, SetThreads(n) PROVE TypeOK'
  BY <1>1 DEF SetThreads, TypeOK
<1>2. CASE Start
  <2>1. \A t \in Threads :
          (CASE t = Main -> "ready" [] t \in 1 .. threads -> "begin" [] OTHER -> "off")
            \in PcValues
    BY Zenon DEF PcValues
  <2>2. pc' \in [Threads -> PcValues]
    BY <1>2, <2>1, Zenon DEF Start
  <2> QED
    BY <1>2, <2>2 DEF Start, TypeOK, PcValues
<1>3. ASSUME NEW c \in Clients, Connect(c) PROVE TypeOK'
  <2>1. Append(backlog, c) \in Seq(Clients)
    BY AppendProperties DEF TypeOK
  <2> QED
    BY <1>3, <2>1 DEF Connect, TypeOK
<1>4. CASE Process
  BY <1>4 DEF Process, TypeOK
<1>5. ASSUME NEW t \in Threads, Begin(t) PROVE TypeOK'
  BY <1>5 DEF Begin, TypeOK
<1>6. ASSUME NEW t \in Threads, Select(t) PROVE TypeOK'
  BY <1>6 DEF Select, ServeFrom, TypeOK
<1>7. ASSUME NEW t \in Threads, Accept(t) PROVE TypeOK'
  <2>1. /\ Tail(backlog) \in Seq(Clients)
        /\ Append(clients[t], Head(backlog)) \in Seq(Clients)
    BY <1>7, HeadTailProperties, AppendProperties DEF Accept, TypeOK
  <2>2. clients' \in [Threads -> Seq(Clients)] /\ backlog' \in Seq(Clients)
    BY <1>7, <2>1 DEF Accept, TypeOK
  <2> QED
    BY <1>7, <2>2 DEF Accept, ServeFrom, TypeOK
<1>8. ASSUME NEW t \in Threads, AcceptDrops(t) PROVE TypeOK'
  <2>1. Tail(backlog) \in Seq(Clients)
    BY <1>8, HeadTailProperties DEF AcceptDrops, TypeOK
  <2> QED
    BY <1>8, <2>1 DEF AcceptDrops, ServeFrom, TypeOK
<1>9. ASSUME NEW t \in Threads, AcceptNothing(t) PROVE TypeOK'
  BY <1>9 DEF AcceptNothing, ServeFrom, TypeOK
<1>10. ASSUME NEW t \in Threads, ProcessClient(t) PROVE TypeOK'
  <2>1. Current(t) \in Clients
    <3>1. clients[t] \in Seq(Clients) /\ iter[t] \in 1 .. Len(clients[t])
      BY <1>10, LenProperties DEF ProcessClient, Serving, PassInv, TypeOK
    <3> QED
      BY <3>1, ElementOfSeq DEF Current
  <2> QED
    BY <1>10, <2>1 DEF ProcessClient, TypeOK
<1>11. ASSUME NEW t \in Threads, DropClient(t) PROVE TypeOK'
  <2>1. clients[t] \in Seq(Clients) /\ iter[t] \in 1 .. Len(clients[t])
    BY <1>11, LenProperties DEF DropClient, Serving, PassInv, TypeOK
  <2>2. RemoveAt(clients[t], iter[t]) \in Seq(Clients)
    BY <2>1, Removal
  <2> QED
    BY <1>11, <2>2 DEF DropClient, TypeOK
<1>12. ASSUME NEW t \in Threads, EndPass(t) PROVE TypeOK'
  BY <1>12 DEF EndPass, TypeOK
<1>13. CASE Shutdown
  BY <1>13 DEF Shutdown, TypeOK
<1>14. CASE CloseDown
  <2>1. <<>> \in Seq(Clients)
    BY EmptySeq
  <2> QED
    BY <1>14, <2>1 DEF CloseDown, TypeOK
<1>15. CASE UNCHANGED vars
  BY <1>15 DEF vars, TypeOK
<1> QED
  BY <1>1, <1>2, <1>3, <1>4, <1>5, <1>6, <1>7, <1>8, <1>9, <1>10, <1>11,
     <1>12, <1>13, <1>14, <1>15 DEF Next, Pass

-----------------------------------------------------------------------------
(* Where the threads are.  A worker moves within its loop only.             *)

LEMMA PlacesStep ==
  ASSUME ServerInv, [Next]_vars
  PROVE  Places'
<1>0. TypeOK /\ Places
  BY DEF ServerInv
<1>a. pc \in [Threads -> PcValues] /\ threads \in 0 .. MaxThreads
  BY <1>0 DEF TypeOK, PcValues
<1> USE <1>0, <1>a, MainIsThread
<1>1. ASSUME NEW n \in 0 .. MaxThreads, SetThreads(n) PROVE Places'
  BY <1>1 DEF SetThreads, Places
<1>2. CASE Start
  <2>1. pc'[Main] = "ready"
    <3>1. Main \notin 1 .. threads /\ Main \in Threads
      BY DEF Main
    <3> QED
      BY <1>2, <3>1, Zenon DEF Start
  <2>2. ASSUME NEW w \in Workers
        PROVE  pc'[w] \in {"off", "begin"}
    <3>1. w \in Threads /\ w # Main
      OBVIOUS
    <3>2. pc'[w] = IF w \in 1 .. threads THEN "begin" ELSE "off"
      BY <1>2, <3>1, Zenon DEF Start
    <3> QED
      BY <3>2
  <2> QED
    BY <2>1, <2>2 DEF Places
<1>3. ASSUME NEW c \in Clients, Connect(c) PROVE Places'
  BY <1>3 DEF Connect, Places
<1>4. CASE Process
  BY <1>4 DEF Process, Places
<1>5. ASSUME NEW t \in Threads, Pass(t) PROVE Places'
  <2>1. /\ pc[t] \in {"begin", "select", "accept", "serve"}
        /\ \E l \in {"ready", "ended", "select", "accept", "serve"} :
             /\ pc' = [pc EXCEPT ![t] = l]
             /\ l = "ready" => t = Main
             /\ l = "ended" => pc[t] = "begin"
    BY <1>5 DEF Pass, Begin, Select, Accept, AcceptDrops, AcceptNothing,
         ServeFrom, ProcessClient, DropClient, EndPass, Serving
  <2>2. t = Main \/ t \in Workers
    BY DEF Threads
  <2>3. \A u \in Threads : u # t => pc'[u] = pc[u]
    BY <2>1
  <2> QED
    BY <2>1, <2>2, <2>3 DEF Places
<1>6. CASE Shutdown
  BY <1>6 DEF Shutdown, Places
<1>7. CASE CloseDown
  BY <1>7 DEF CloseDown, Places
<1>8. CASE UNCHANGED vars
  BY <1>8 DEF vars, Places
<1> QED
  BY <1>1, <1>2, <1>3, <1>4, <1>5, <1>6, <1>7, <1>8 DEF Next

-----------------------------------------------------------------------------
(* Who owns a connection.                                                   *)

LEMMA OwnedStep ==
  ASSUME ServerInv, [Next]_vars
  PROVE  Owned'
<1>0. TypeOK /\ PassInv /\ OnlyArrived /\ OneOwner
  BY DEF ServerInv, Owned
<1>a. backlog \in Seq(Clients) /\ clients \in [Threads -> Seq(Clients)]
  BY <1>0 DEF TypeOK
<1>1. CASE UNCHANGED <<backlog, arrived, clients>>
  BY <1>0, <1>1 DEF Owned, OnlyArrived, OneOwner
<1>2. ASSUME NEW c \in Clients, Connect(c) PROVE Owned'
  <2>1. /\ backlog' = Append(backlog, c) /\ arrived' = arrived \cup {c}
        /\ c \notin arrived /\ clients' = clients
    BY <1>2 DEF Connect
  <2>2. /\ Len(backlog) \in Nat /\ Len(Append(backlog, c)) = Len(backlog) + 1
        /\ \A i \in 1 .. Len(backlog) : Append(backlog, c)[i] = backlog[i]
        /\ Append(backlog, c)[Len(backlog) + 1] = c
    BY <1>a, LenProperties, AppendProperties
  <2>3. \A i \in 1 .. Len(backlog') :
          \/ i \in 1 .. Len(backlog) /\ backlog'[i] = backlog[i]
          \/ i = Len(backlog) + 1 /\ backlog'[i] = c
    BY <2>1, <2>2
  <2>4. OnlyArrived'
    BY <1>0, <2>1, <2>3 DEF OnlyArrived
  <2>5. NoRepetition(backlog')
    BY <1>0, <2>1, <2>2, <2>3 DEF OnlyArrived, OneOwner, NoRepetition
  <2>6. \A t \in Threads : Apart(clients'[t], backlog')
    BY <1>0, <2>1, <2>2, <2>3 DEF OnlyArrived, OneOwner, Apart
  <2> QED
    BY <1>0, <2>1, <2>4, <2>5, <2>6 DEF Owned, OneOwner
<1>3. ASSUME backlog # <<>>, backlog' = Tail(backlog), arrived' = arrived,
             NEW t \in Threads,
             \/ clients' = clients
             \/ clients' = [clients EXCEPT ![t] = Append(@, Head(backlog))]
      PROVE  Owned'
  <2>1. /\ Len(backlog) \in Nat /\ Len(backlog) > 0 /\ Head(backlog) = backlog[1]
        /\ Len(Tail(backlog)) = Len(backlog) - 1
        /\ \A i \in 1 .. Len(backlog) - 1 : Tail(backlog)[i] = backlog[i + 1]
    BY <1>a, <1>3, LenProperties, EmptySeq, HeadTailProperties
  <2>2. \A i \in 1 .. Len(backlog') : backlog'[i] \in arrived'
    BY <1>0, <1>3, <2>1 DEF OnlyArrived
  <2>3. NoRepetition(backlog')
    BY <1>0, <1>a, <1>3, <2>1 DEF OneOwner, NoRepetition
  <2>4. \A u \in Threads : Apart(clients[u], backlog')
    BY <1>0, <1>3, <2>1 DEF OneOwner, Apart
  <2>5. CASE clients' = clients
    BY <1>0, <1>3, <2>2, <2>3, <2>4, <2>5 DEF Owned, OnlyArrived, OneOwner
  <2>6. CASE clients' = [clients EXCEPT ![t] = Append(@, Head(backlog))]
    <3> DEFINE s == clients[t]
               e == Append(s, Head(backlog))
    <3>1. /\ clients'[t] = e
          /\ \A u \in Threads : u # t => clients'[u] = clients[u]
      BY <1>a, <2>6
    <3>2. /\ s \in Seq(Clients) /\ NoRepetition(backlog) /\ NoRepetition(s)
          /\ Apart(s, backlog)
          /\ \A u \in Threads : u # t => /\ Apart(clients[u], backlog)
                                         /\ Apart(clients[u], s) /\ Apart(s, clients[u])
      BY <1>0, <1>a DEF OneOwner
    <3>3. /\ NoRepetition(e) /\ Apart(e, Tail(backlog))
          /\ \A u : Apart(u, backlog) /\ Apart(u, s) => Apart(u, e)
          /\ \A u : Apart(u, backlog) /\ Apart(s, u) => Apart(e, u)
      BY <1>a, <1>3, <3>2, Moved
    <3>4. \A i \in 1 .. Len(e) : e[i] \in arrived
      <4>1. /\ Len(s) \in Nat /\ Len(e) = Len(s) + 1 /\ e[Len(s) + 1] = backlog[1]
            /\ \A i \in 1 .. Len(s) : e[i] = s[i]
        BY <1>a, <1>3, <2>1, <3>2, LenProperties, HeadTailProperties, AppendProperties
      <4> QED
        BY <1>0, <2>1, <4>1 DEF OnlyArrived
    <3> HIDE DEF s, e
    <3>5. OnlyArrived'
      BY <1>0, <1>3, <2>2, <3>1, <3>4 DEF OnlyArrived
    <3>6. \A u \in Threads : NoRepetition(clients'[u]) /\ Apart(clients'[u], backlog')
      BY <1>0, <1>3, <2>4, <3>1, <3>3 DEF OneOwner
    <3>7. \A u, v \in Threads : u # v => Apart(clients'[u], clients'[v])
      BY <1>0, <3>1, <3>2, <3>3 DEF OneOwner
    <3> QED
      BY <2>3, <3>5, <3>6, <3>7 DEF Owned, OneOwner
  <2> QED
    BY <1>3, <2>5, <2>6
<1>4. ASSUME NEW t \in Threads, DropClient(t) PROVE Owned'
  <2> DEFINE s == clients[t]
             r == RemoveAt(s, iter[t])
  <2>1. s \in Seq(Clients) /\ iter[t] \in 1 .. Len(s) /\ Len(s) \in Nat
    BY <1>0, <1>a, <1>4, LenProperties DEF DropClient, Serving, PassInv
  <2>2. /\ backlog' = backlog /\ arrived' = arrived /\ clients'[t] = r
        /\ \A u \in Threads : u # t => clients'[u] = clients[u]
    BY <1>a, <1>4 DEF DropClient
  <2>3. /\ NoRepetition(s) => NoRepetition(r)
        /\ \A u : Apart(s, u) => Apart(r, u)
        /\ \A u : Apart(u, s) => Apart(u, r)
    BY <2>1, RemovalApart
  <2>4. /\ Len(r) = Len(s) - 1
        /\ \A j \in 1 .. Len(s) - 1 : r[j] = IF j < iter[t] THEN s[j] ELSE s[j + 1]
    BY <2>1, Removal
  <2>5. \A i \in 1 .. Len(r) : r[i] \in arrived
    BY <1>0, <2>1, <2>4 DEF OnlyArrived
  <2>6. NoRepetition(s)
    BY <1>0 DEF OneOwner
  <2> HIDE DEF r
  <2>7. OnlyArrived'
    BY <1>0, <2>2, <2>5 DEF OnlyArrived
  <2>8. \A u \in Threads : NoRepetition(clients'[u]) /\ Apart(clients'[u], backlog')
    BY <1>0, <2>2, <2>3, <2>6 DEF OneOwner
  <2>9. \A u, v \in Threads : u # v => Apart(clients'[u], clients'[v])
    BY <1>0, <2>2, <2>3 DEF OneOwner
  <2> QED
    BY <1>0, <2>2, <2>7, <2>8, <2>9 DEF Owned, OneOwner
<1>5. CASE CloseDown
  <2>1. /\ backlog' = <<>> /\ arrived' = arrived /\ clients'[Main] = <<>>
        /\ \A u \in Threads : u # Main => clients'[u] = clients[u]
    BY <1>a, <1>5, MainIsThread DEF CloseDown
  <2>2. Len(<<>>) = 0
    BY EmptySeq
  <2> QED
    BY <1>0, <2>1, <2>2 DEF Owned, OnlyArrived, OneOwner, NoRepetition, Apart
<1>6. ASSUME NEW t \in Threads, Pass(t), ~DropClient(t) PROVE Owned'
  <2>1. CASE Accept(t)
    BY <1>3, <2>1 DEF Accept
  <2>2. CASE AcceptDrops(t)
    BY <1>3, <2>2 DEF AcceptDrops
  <2>3. CASE ~Accept(t) /\ ~AcceptDrops(t)
    BY <1>1, <1>6, <2>3 DEF Pass, Begin, Select, AcceptNothing, ProcessClient, EndPass
  <2> QED
    BY <2>1, <2>2, <2>3
<1>7. CASE \/ \E n \in 0 .. MaxThreads : SetThreads(n)
           \/ Start \/ Process \/ Shutdown \/ UNCHANGED vars
  BY <1>1, <1>7 DEF SetThreads, Start, Process, Shutdown, vars
<1> QED
  BY <1>2, <1>4, <1>5, <1>6, <1>7 DEF Next

-----------------------------------------------------------------------------
(* What a pass has handled.                                                 *)

(* What PassInv says of one thread.                                         *)
Handled(t) ==
  pc[t] = "serve" =>
    /\ iter[t] \in 1 .. Len(clients[t]) + 1
    /\ \A c \in done[t] : \E j \in 1 .. iter[t] - 1 : clients[t][j] = c
    /\ \A j \in 1 .. iter[t] - 1 : clients[t][j] \in done[t]

(* A step of a thread changes nothing of another one.                       *)
LEMMA OthersUnchanged ==
  ASSUME TypeOK, NEW t \in Threads, Pass(t), NEW u \in Threads, u # t
  PROVE  /\ pc'[u] = pc[u] /\ clients'[u] = clients[u]
         /\ iter'[u] = iter[u] /\ done'[u] = done[u]
BY DEF TypeOK, Pass, Begin, Select, Accept, AcceptDrops, AcceptNothing,
   ServeFrom, ProcessClient, DropClient, EndPass

LEMMA PassOfThread ==
  ASSUME ServerInv, NEW t \in Threads, Pass(t)
  PROVE  Handled(t)'
<1>0. TypeOK /\ TypeOK' /\ (pc[t] = "serve" => Handled(t))
  BY TypeStep DEF ServerInv, PassInv, Handled, Next
<1>1. /\ clients[t] \in Seq(Clients) /\ Len(clients[t]) \in Nat /\ iter[t] \in Nat
      /\ clients'[t] \in Seq(Clients) /\ Len(clients'[t]) \in Nat
  BY <1>0, LenProperties DEF TypeOK
<1>2. CASE Begin(t) \/ EndPass(t)
  BY <1>0, <1>2 DEF Begin, EndPass, Handled, TypeOK
<1>3. CASE \/ Select(t) \/ Accept(t) \/ AcceptDrops(t) \/ AcceptNothing(t)
  <2>1. iter'[t] = 1 /\ done'[t] = {}
    BY <1>0, <1>3 DEF Select, Accept, AcceptDrops, AcceptNothing, ServeFrom, TypeOK
  <2> QED
    BY <1>1, <2>1 DEF Handled
<1>4. CASE ProcessClient(t)
  <2>1. /\ clients'[t] = clients[t] /\ iter'[t] = iter[t] + 1 /\ pc[t] = "serve"
        /\ done'[t] = done[t] \cup {clients[t][iter[t]]}
        /\ iter[t] <= Len(clients[t])
    BY <1>0, <1>4 DEF ProcessClient, Serving, Current, TypeOK
  <2>2. /\ iter[t] \in 1 .. Len(clients[t])
        /\ \A c \in done[t] : \E j \in 1 .. iter[t] - 1 : clients[t][j] = c
        /\ \A j \in 1 .. iter[t] - 1 : clients[t][j] \in done[t]
    <3>1. /\ iter[t] \in 1 .. Len(clients[t]) + 1
          /\ \A c \in done[t] : \E j \in 1 .. iter[t] - 1 : clients[t][j] = c
          /\ \A j \in 1 .. iter[t] - 1 : clients[t][j] \in done[t]
      BY <1>0, <2>1, Zenon DEF Handled
    <3>2. iter[t] \in 1 .. Len(clients[t])
      BY <1>1, <2>1, <3>1
    <3> QED
      BY <3>1, <3>2
  <2>3. \A j \in 1 .. iter'[t] - 1 : j \in 1 .. iter[t] - 1 \/ j = iter[t]
    BY <2>1, <2>2
  <2>4. \A j \in 1 .. iter[t] - 1 : j \in 1 .. iter'[t] - 1
    BY <2>1, <2>2
  <2>5. iter[t] \in 1 .. iter'[t] - 1 /\ iter'[t] \in 1 .. Len(clients'[t]) + 1
    BY <1>1, <2>1, <2>2
  <2> QED
    BY <2>1, <2>2, <2>3, <2>4, <2>5 DEF Handled
<1>5. CASE DropClient(t)
  <2>1. /\ clients'[t] = RemoveAt(clients[t], iter[t]) /\ iter'[t] = iter[t]
        /\ pc[t] = "serve" /\ done'[t] = done[t] /\ iter[t] <= Len(clients[t])
    BY <1>0, <1>5 DEF DropClient, Serving, TypeOK
  <2>2. /\ iter[t] \in 1 .. Len(clients[t])
        /\ \A c \in done[t] : \E j \in 1 .. iter[t] - 1 : clients[t][j] = c
        /\ \A j \in 1 .. iter[t] - 1 : clients[t][j] \in done[t]
    <3>1. /\ iter[t] \in 1 .. Len(clients[t]) + 1
          /\ \A c \in done[t] : \E j \in 1 .. iter[t] - 1 : clients[t][j] = c
          /\ \A j \in 1 .. iter[t] - 1 : clients[t][j] \in done[t]
      BY <1>0, <2>1, Zenon DEF Handled
    <3>2. iter[t] \in 1 .. Len(clients[t])
      BY <1>1, <2>1, <3>1
    <3> QED
      BY <3>1, <3>2
  <2>3. /\ Len(clients'[t]) = Len(clients[t]) - 1
        /\ \A j \in 1 .. Len(clients[t]) - 1 :
             clients'[t][j] = IF j < iter[t] THEN clients[t][j] ELSE clients[t][j + 1]
    <3> DEFINE s == clients[t]
               i == iter[t]
    <3>1. s \in Seq(Clients) /\ i \in 1 .. Len(s)
      BY <1>1, <2>2
    <3>2. clients'[t] = RemoveAt(s, i)
      BY <2>1
    <3> HIDE DEF s, i
    <3>3. /\ Len(RemoveAt(s, i)) = Len(s) - 1
          /\ \A j \in 1 .. Len(s) - 1 :
               RemoveAt(s, i)[j] = IF j < i THEN s[j] ELSE s[j + 1]
      BY <3>1, Removal
    <3> QED
      BY <3>2, <3>3 DEF s, i
  <2>4. \A j \in 1 .. iter[t] - 1 : clients'[t][j] = clients[t][j]
    <3>1. Len(clients[t]) \in Nat /\ iter[t] \in 1 .. Len(clients[t])
      BY <1>1, <2>2
    <3>2. \A j \in 1 .. iter[t] - 1 : j \in 1 .. Len(clients[t]) - 1 /\ j < iter[t]
      BY <3>1
    <3> QED
      BY <2>3, <3>2, Zenon
  <2>5. iter'[t] \in 1 .. Len(clients'[t]) + 1
    BY <1>1, <2>1, <2>2, <2>3
  <2> QED
    BY <2>1, <2>2, <2>4, <2>5 DEF Handled
<1> QED
  BY <1>2, <1>3, <1>4, <1>5 DEF Pass

LEMMA PassStep ==
  ASSUME ServerInv, [Next]_vars
  PROVE  PassInv'
<1>0. TypeOK /\ Places /\ \A t \in Threads : Handled(t)
  BY DEF ServerInv, PassInv, Handled
<1>1. ASSUME NEW t \in Threads, Pass(t) PROVE PassInv'
  <2>1. Handled(t)'
    BY <1>1, PassOfThread
  <2>2. ASSUME NEW u \in Threads, u # t PROVE Handled(u)'
    <3>1. Handled(u)
      BY <1>0
    <3>2. /\ pc'[u] = pc[u] /\ clients'[u] = clients[u]
          /\ iter'[u] = iter[u] /\ done'[u] = done[u]
      BY <1>0, <1>1, <2>2, OthersUnchanged
    <3> QED
      BY <3>1, <3>2 DEF Handled
  <2> QED
    BY <2>1, <2>2 DEF PassInv, Handled
<1>2. CASE Start
  <2>1. \A t \in Threads : pc'[t] # "serve"
    BY <1>2, Zenon DEF Start
  <2> QED
    BY <2>1 DEF PassInv
<1>3. CASE Process \/ Shutdown \/ CloseDown
  <2>1. /\ pc'[Main] # "serve" /\ iter' = iter /\ done' = done
        /\ \A u \in Threads : u # Main => pc'[u] = pc[u] /\ clients'[u] = clients[u]
    BY <1>0, <1>3, MainIsThread DEF Process, Shutdown, CloseDown, TypeOK
  <2>2. ASSUME NEW u \in Threads, u # Main PROVE Handled(u)'
    <3>1. Handled(u)
      BY <1>0
    <3>2. /\ pc'[u] = pc[u] /\ clients'[u] = clients[u]
          /\ iter'[u] = iter[u] /\ done'[u] = done[u]
      BY <2>1, <2>2
    <3> QED
      BY <3>1, <3>2 DEF Handled
  <2>3. Handled(Main)'
    BY <2>1, Zenon DEF Handled
  <2> QED
    BY <2>2, <2>3 DEF PassInv, Handled
<1>4. CASE \/ \E n \in 0 .. MaxThreads : SetThreads(n)
           \/ \E c \in Clients : Connect(c)
           \/ UNCHANGED vars
  <2>1. UNCHANGED <<pc, clients, iter, done>>
    BY <1>4 DEF SetThreads, Connect, vars
  <2> QED
    BY <1>0, <2>1 DEF PassInv, Handled
<1> QED
  BY <1>1, <1>2, <1>3, <1>4 DEF Next

(* A client that is handled was not handled before in this pass, and a pass *)
(* that ends has handled all.                                               *)
OncePerPass ==
  \A t \in Threads :
    /\ ProcessClient(t) => Current(t) \notin done[t]
    /\ (pc[t] = "serve" /\ pc'[t] # "serve") => Range(clients[t]) \subseteq done[t]

LEMMA OnceStep ==
  ASSUME ServerInv, [Next]_vars
  PROVE  OncePerPass \/ UNCHANGED vars
<1>0. TypeOK /\ Places /\ OneOwner /\ \A t \in Threads : Handled(t)
  BY DEF ServerInv, Owned, PassInv, Handled
<1>1. ASSUME NEW t \in Threads, ProcessClient(t) PROVE Current(t) \notin done[t]
  <2>1. /\ pc[t] = "serve" /\ iter[t] <= Len(clients[t])
        /\ Len(clients[t]) \in Nat /\ NoRepetition(clients[t])
    BY <1>0, <1>1, LenProperties DEF ProcessClient, Serving, TypeOK, OneOwner
  <2>2. /\ iter[t] \in 1 .. Len(clients[t])
        /\ \A c \in done[t] : \E j \in 1 .. iter[t] - 1 : clients[t][j] = c
    <3>1. /\ iter[t] \in 1 .. Len(clients[t]) + 1
          /\ \A c \in done[t] : \E j \in 1 .. iter[t] - 1 : clients[t][j] = c
      BY <1>0, <2>1, Zenon DEF Handled
    <3>2. iter[t] \in 1 .. Len(clients[t])
      BY <2>1, <3>1
    <3> QED
      BY <3>1, <3>2
  <2>3. \A j \in 1 .. iter[t] - 1 : clients[t][j] # clients[t][iter[t]]
    BY <2>1, <2>2 DEF NoRepetition
  <2> QED
    BY <2>2, <2>3 DEF Current
<1>2. ASSUME Next, NEW t \in Threads, pc[t] = "serve", pc'[t] # "serve"
      PROVE  EndPass(t)
  <2>1. pc[Main] # "off"
    BY <1>0, <1>2, MainIsThread DEF Places, Threads
  <2>2. ASSUME NEW u \in Threads, Pass(u) PROVE u = t
    BY <1>0, <1>2, <2>2, OthersUnchanged
  <2>3. CASE Pass(t)
    BY <1>0, <1>2, <2>3 DEF Pass, Begin, Select, Accept, AcceptDrops,
       AcceptNothing, ProcessClient, DropClient, TypeOK
  <2>4. CASE \/ \E n \in 0 .. MaxThreads : SetThreads(n)
             \/ Start \/ \E c \in Clients : Connect(c)
    BY <1>2, <2>1, <2>4 DEF SetThreads, Start, Connect
  <2>5. CASE Process \/ Shutdown \/ CloseDown
    BY <1>0, <1>2, <2>5, MainIsThread DEF Process, Shutdown, CloseDown, TypeOK
  <2> QED
    BY <1>2, <2>2, <2>3, <2>4, <2>5 DEF Next
<1>3. ASSUME NEW t \in Threads, EndPass(t) PROVE Range(clients[t]) \subseteq done[t]
  <2>1. /\ pc[t] = "serve" /\ ~(iter[t] <= Len(clients[t])) /\ iter[t] \in Nat
        /\ Len(clients[t]) \in Nat /\ DOMAIN clients[t] = 1 .. Len(clients[t])
    BY <1>0, <1>3, LenProperties DEF EndPass, Serving, TypeOK
  <2>2. \A j \in 1 .. iter[t] - 1 : clients[t][j] \in done[t]
    BY <1>0, <2>1, Zenon DEF Handled
  <2>3. \A j \in 1 .. Len(clients[t]) : clients[t][j] \in done[t]
    BY <2>1, <2>2
  <2> QED
    BY <2>1, <2>3 DEF Range
<1> QED
  BY <1>1, <1>2, <1>3 DEF OncePerPass

-----------------------------------------------------------------------------
(* The theorems.                                                            *)

LEMMA Invariance == Spec => []ServerInv
<1>1. Init => ServerInv
  BY InitInv
<1>2. ServerInv /\ [Next]_vars => ServerInv'
  BY TypeStep, PlacesStep, OwnedStep, PassStep DEF ServerInv
<1> QED
  BY <1>1, <1>2, PTL DEF Spec

(* A connection waits in the backlog or belongs to one thread, once,        *)
(* however many workers accept on the socket (concurrent_server.cpp:133-176)*)
THEOREM OwnersCorrect == Spec => [](TypeOK /\ OneOwner)
<1>1. ServerInv => TypeOK /\ OneOwner
  BY DEF ServerInv, Owned
<1> QED
  BY <1>1, Invariance, PTL

(* A pass handles each client of its thread once, whatever was accepted or  *)
(* erased (concurrent_server.cpp:89-96, 163-170).                           *)
THEOREM PassesCorrect == Spec => EachOncePerPass
<1>1. ServerInv /\ [Next]_vars => [OncePerPass]_vars
  BY OnceStep
<1>2. Spec => [][OncePerPass]_vars
  BY <1>1, Invariance, PTL DEF Spec
<1> QED
  BY <1>2 DEF EachOncePerPass, OncePerPass
=============================================================================
