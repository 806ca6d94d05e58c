------------------------ MODULE StreamSocketsProofs ------------------------
(* Proofs about the stream sockets, for any objects and any number of       *)
(* kernel sockets, and both families.                                       *)
EXTENDS StreamSockets, TLAPS

Descriptors == Sockets \cup {NoSocket}
ObjectRecords ==
  [m_sockfd : Descriptors, m_blocking : BOOLEAN, m_nopipe : BOOLEAN,
   m_connected : BOOLEAN, alive : BOOLEAN, asked : BOOLEAN, lost : BOOLEAN,
   binding : BOOLEAN, saved : BOOLEAN]
SocketRecords ==
  [kind : {"unused", "new", "listening", "pending", "connected"},
   blocking : BOOLEAN, peer : Descriptors, via : Descriptors]

TypeInv ==
  /\ family \in {"tcp", "unix"}
  /\ object \in [Objects -> ObjectRecords]
  /\ kernel \in [Sockets -> SocketRecords]
  /\ name \in Descriptors
  /\ killed \in Objects \cup {NoSocket}

(* What an open descriptor of an object may be.                             *)
KindsOf(o) == IF o \in Servers THEN {"new", "listening"} ELSE {"new", "connected"}

(* An object and its socket: the mode of the socket is remembered; inside   *)
(* of bind there is a socket and the local variable remembers what the user *)
(* asked for; whoever asked for nopipe has it.                              *)
ObjectInv(o) ==
  /\ object[o].m_sockfd # NoSocket =>
       /\ kernel[object[o].m_sockfd].kind \in KindsOf(o)
       /\ kernel[object[o].m_sockfd].blocking = object[o].m_blocking
  /\ object[o].m_connected => /\ object[o].m_sockfd # NoSocket
                              /\ kernel[object[o].m_sockfd].kind = "connected"
  /\ ~object[o].alive => object[o].m_sockfd = NoSocket
  /\ object[o].binding => object[o].m_sockfd # NoSocket
  /\ ~object[o].lost =>
       (IF object[o].binding THEN object[o].saved ELSE object[o].m_blocking)
         = ~object[o].asked
  /\ object[o].asked => object[o].m_nopipe

InUse(k) == kernel[k].kind \in {"new", "listening", "connected"}

(* Every descriptor has one owner.                                          *)
Owners ==
  /\ \A o, q \in Objects :
       object[o].m_sockfd = object[q].m_sockfd => o = q \/ object[o].m_sockfd = NoSocket
  /\ \A k \in Sockets : InUse(k) => \E o \in Objects : object[o].m_sockfd = k

(* Only pending connections refer to a listening socket, and no socket is   *)
(* its own peer.                                                            *)
Links ==
  \A k \in Sockets : /\ kernel[k].via # NoSocket => kernel[k].kind = "pending"
                     /\ kernel[k].peer # k

NameInv == name # NoSocket => kernel[name].kind = "listening"

KilledInv == killed # NoSocket => ~object[killed].asked

SocketsInv ==
  /\ TypeInv
  /\ \A o \in Objects : ObjectInv(o)
  /\ Owners /\ Links /\ NameInv /\ KilledInv

-----------------------------------------------------------------------------
(* The three properties are parts of the invariant.                         *)
LEMMA InvImplies == SocketsInv => DescriptorsOwned /\ ModeKept /\ KilledUnprotected
<1> SUFFICES ASSUME SocketsInv PROVE DescriptorsOwned /\ ModeKept /\ KilledUnprotected
  OBVIOUS
<1>1. TypeOK
  BY DEF SocketsInv, TypeInv, Links, TypeOK, Descriptors, ObjectRecords, SocketRecords
<1>2. \A o \in Objects : object[o].m_sockfd # NoSocket =>
        /\ kernel[object[o].m_sockfd].kind \notin {"unused", "pending"}
        /\ \A q \in Objects \ {o} : object[q].m_sockfd # object[o].m_sockfd
  BY DEF SocketsInv, ObjectInv, KindsOf, Owners
<1>3. \A o \in Clients \cup Accepted : IsConnected(o) =>
        /\ object[o].m_sockfd # NoSocket
        /\ kernel[object[o].m_sockfd].kind = "connected"
  BY DEF SocketsInv, ObjectInv, IsConnected, Objects
<1>4. DescriptorsOwned
  BY <1>1, <1>2, <1>3 DEF SocketsInv, Owners, InUse, NameInv, DescriptorsOwned
<1>5. ModeKept
  BY DEF SocketsInv, ObjectInv, ModeKept
<1>6. KilledUnprotected
  BY DEF SocketsInv, KilledInv, KilledUnprotected
<1> QED
  BY <1>4, <1>5, <1>6

(* Records of a new object and of an unused socket.                         *)
LEMMA NewRecords == NewObject \in ObjectRecords /\ Unused \in SocketRecords
BY DEF NewObject, Unused, ObjectRecords, SocketRecords, Descriptors

LEMMA NewSocket ==
  [Unused EXCEPT !.kind = "new"] =
    [kind |-> "new", blocking |-> TRUE, peer |-> NoSocket, via |-> NoSocket]
<1>1. \A r \in SocketRecords :
        [r EXCEPT !.kind = "new"] =
          [kind |-> "new", blocking |-> r.blocking, peer |-> r.peer, via |-> r.via]
  BY DEF SocketRecords
<1>2. Unused.blocking = TRUE /\ Unused.peer = NoSocket /\ Unused.via = NoSocket
  BY DEF Unused
<1> QED
  BY <1>1, <1>2, NewRecords

LEMMA InvInit == Init => SocketsInv
<1> SUFFICES ASSUME Init PROVE SocketsInv
  OBVIOUS
<1>1. \A o \in Objects :
        /\ object[o] \in ObjectRecords
        /\ object[o].m_sockfd = NoSocket /\ object[o].m_blocking /\ ~object[o].m_connected
        /\ ~object[o].asked /\ ~object[o].binding
  BY NewRecords DEF Init, NewObject, ObjectRecords
<1>2. TypeInv
  BY <1>1, NewRecords DEF Init, TypeInv, Descriptors
<1>3. \A o \in Objects : ObjectInv(o)
  BY <1>1 DEF ObjectInv
<1>4. Owners /\ Links /\ NameInv /\ KilledInv
  BY <1>1, SocketsAssumption DEF Init, Unused, Owners, InUse, Links, NameInv, KilledInv, Sockets
<1> QED
  BY <1>2, <1>3, <1>4 DEF SocketsInv

-----------------------------------------------------------------------------
(* A table of sockets in which o has the descriptor fd and all other        *)
(* objects have kept theirs.                                                *)
Keeps(table, o, fd) ==
  /\ table \in [Sockets -> SocketRecords]
  /\ \A q \in Objects \ {o} : object[q].m_sockfd # NoSocket =>
       /\ object[q].m_sockfd # fd
       /\ table[object[q].m_sockfd].kind = kernel[object[q].m_sockfd].kind
       /\ table[object[q].m_sockfd].blocking = kernel[object[q].m_sockfd].blocking
  /\ \A k \in Sockets : table[k].kind \in {"new", "listening", "connected"} =>
       k = fd \/ \E q \in Objects \ {o} : object[q].m_sockfd = k
  /\ \A k \in Sockets : /\ table[k].via # NoSocket => table[k].kind = "pending"
                        /\ table[k].peer # k

(* A step of one object keeps the invariant when that object and the name   *)
(* are right afterwards.                                                    *)
LEMMA OneObject ==
  ASSUME SocketsInv, NEW o \in Objects,
         object' \in [Objects -> ObjectRecords],
         \A q \in Objects \ {o} : object'[q] = object[q],
         Keeps(kernel', o, object'[o].m_sockfd),
         ObjectInv(o)', NameInv', name' \in Descriptors,
         UNCHANGED family,
         \/ killed' = NoSocket
         \/ killed' = killed /\ (object'[o].asked => object[o].asked)
  PROVE  SocketsInv'
<1>1. object \in [Objects -> ObjectRecords]
  BY DEF SocketsInv, TypeInv
<1>2. TypeInv'
  BY <1>1 DEF SocketsInv, TypeInv, Keeps
<1>3. ASSUME NEW q \in Objects PROVE ObjectInv(q)'
  <2>1. CASE q = o
    BY <2>1
  <2>2. CASE q # o
    <3>1. object'[q] = object[q] /\ ObjectInv(q)
      BY <1>1, <2>2 DEF SocketsInv
    <3>2. object[q].m_sockfd # NoSocket =>
            /\ kernel'[object[q].m_sockfd].kind = kernel[object[q].m_sockfd].kind
            /\ kernel'[object[q].m_sockfd].blocking = kernel[object[q].m_sockfd].blocking
      BY <2>2 DEF Keeps
    <3> QED
      BY <3>1, <3>2 DEF ObjectInv, KindsOf
  <2> QED
    BY <2>1, <2>2
<1>4. Owners'
  BY <1>1 DEF SocketsInv, Owners, InUse, Keeps
<1>5. Links'
  BY DEF Links, Keeps
<1>6. KilledInv'
  BY <1>1 DEF SocketsInv, TypeInv, KilledInv
<1> QED
  BY <1>2, <1>3, <1>4, <1>5, <1>6 DEF SocketsInv

(* What ::close() does to the table.                                        *)
LEMMA ClosedTable ==
  ASSUME SocketsInv, NEW k \in Descriptors
  PROVE  /\ Closed(k) \in [Sockets -> SocketRecords]
         /\ k = NoSocket => Closed(k) = kernel
         /\ \A j \in Sockets :
              /\ (k # NoSocket /\ (j = k \/ kernel[j].via = k)) => Closed(k)[j] = Unused
              /\ ~(k # NoSocket /\ (j = k \/ kernel[j].via = k)) =>
                   /\ Closed(k)[j].kind = kernel[j].kind
                   /\ Closed(k)[j].blocking = kernel[j].blocking
                   /\ Closed(k)[j].via = kernel[j].via
                   /\ Closed(k)[j].peer \in {kernel[j].peer, NoSocket}
<1>1. kernel \in [Sockets -> SocketRecords] /\ \A j \in Sockets : kernel[j] \in SocketRecords
  BY DEF SocketsInv, TypeInv
<1>2. \A j \in Sockets : j \in Gone(k) <=> k # NoSocket /\ (j = k \/ kernel[j].via = k)
  BY DEF Gone, Descriptors
<1>3. \A j \in Sockets :
        [kernel[j] EXCEPT !.peer = NoSocket] =
          [kind |-> kernel[j].kind, blocking |-> kernel[j].blocking,
           peer |-> NoSocket, via |-> kernel[j].via]
  BY <1>1 DEF SocketRecords
<1>4. \A j \in Sockets :
        Closed(k)[j] = IF j \in Gone(k) THEN Unused
                       ELSE IF kernel[j].peer \in Gone(k)
                              THEN [kind |-> kernel[j].kind, blocking |-> kernel[j].blocking,
                                    peer |-> NoSocket, via |-> kernel[j].via]
                              ELSE kernel[j]
  BY <1>3 DEF Closed
<1>5. \A j \in Sockets : Closed(k)[j] \in SocketRecords
  <2> SUFFICES ASSUME NEW j \in Sockets PROVE Closed(k)[j] \in SocketRecords
    OBVIOUS
  <2>1. [kind |-> kernel[j].kind, blocking |-> kernel[j].blocking,
         peer |-> NoSocket, via |-> kernel[j].via] \in SocketRecords
    BY <1>1 DEF SocketRecords, Descriptors
  <2> QED
    BY <1>1, <1>4, <2>1, NewRecords
<1>6. Closed(k) \in [Sockets -> SocketRecords]
  BY <1>5 DEF Closed
<1>7. k = NoSocket => Closed(k) = kernel
  BY <1>1, <1>4, <1>6 DEF Gone
<1> QED
  BY <1>2, <1>4, <1>6, <1>7

LEMMA ClosedKeeps ==
  ASSUME SocketsInv, NEW o \in Objects
  PROVE  Keeps(Closed(object[o].m_sockfd), o, NoSocket)
<1> DEFINE fd == object[o].m_sockfd
           t == Closed(fd)
<1>1. fd \in Descriptors
  BY DEF SocketsInv, TypeInv, ObjectRecords
<1>2. /\ t \in [Sockets -> SocketRecords]
      /\ \A j \in Sockets :
           /\ (fd # NoSocket /\ (j = fd \/ kernel[j].via = fd)) => t[j] = Unused
           /\ ~(fd # NoSocket /\ (j = fd \/ kernel[j].via = fd)) =>
                /\ t[j].kind = kernel[j].kind /\ t[j].blocking = kernel[j].blocking
                /\ t[j].via = kernel[j].via /\ t[j].peer \in {kernel[j].peer, NoSocket}
  BY <1>1, ClosedTable
<1> HIDE DEF t
<1>3. ASSUME NEW q \in Objects \ {o}, object[q].m_sockfd # NoSocket
      PROVE  /\ t[object[q].m_sockfd].kind = kernel[object[q].m_sockfd].kind
             /\ t[object[q].m_sockfd].blocking = kernel[object[q].m_sockfd].blocking
  <2>1. object[q].m_sockfd \in Sockets /\ object[q].m_sockfd # fd
    BY <1>3 DEF SocketsInv, TypeInv, ObjectRecords, Owners, Descriptors
  <2>2. kernel[object[q].m_sockfd].kind # "pending"
    BY <1>3 DEF SocketsInv, ObjectInv, KindsOf
  <2> QED
    BY <1>2, <2>1, <2>2 DEF SocketsInv, Links
<1>4. ASSUME NEW k \in Sockets, t[k].kind \in {"new", "listening", "connected"}
      PROVE  \E q \in Objects \ {o} : object[q].m_sockfd = k
  <2>1. Unused.kind = "unused"
    BY DEF Unused
  <2>2. t[k].kind = kernel[k].kind /\ ~(fd # NoSocket /\ k = fd)
    BY <1>2, <1>4, <2>1
  <2>3. PICK q \in Objects : object[q].m_sockfd = k
    BY <1>4, <2>2 DEF SocketsInv, Owners, InUse
  <2> QED
    BY <2>2, <2>3, SocketsAssumption DEF Sockets
<1>5. \A k \in Sockets : /\ t[k].via # NoSocket => t[k].kind = "pending"
                         /\ t[k].peer # k
  BY <1>2, SocketsAssumption DEF SocketsInv, Links, Unused, Sockets
<1> QED
  BY <1>2, <1>3, <1>4, <1>5 DEF Keeps, t

(* What create_socket does: o has an open socket of its own afterwards, a   *)
(* new one unless the old one is used again.                                *)
Creates(o, k, fd, table) ==
  /\ kernel[k].kind = "unused"
  /\ fd \in Sockets /\ Keeps(table, o, fd)
  /\ \/ /\ family = "tcp" /\ object[o].m_sockfd # NoSocket
        /\ fd = object[o].m_sockfd /\ table = kernel
     \/ /\ family = "unix" \/ object[o].m_sockfd = NoSocket
        /\ fd = k
        /\ table[k] = [kind |-> "new", blocking |-> TRUE, peer |-> NoSocket,
                       via |-> NoSocket]
  /\ \A j \in Sockets \ {fd} :
       \/ table[j].kind = kernel[j].kind
       \/ /\ family = "unix" /\ table[j] = Unused
          /\ kernel[j].kind = "pending" \/ j = object[o].m_sockfd

LEMMA CreatedKeeps ==
  ASSUME SocketsInv, NEW o \in Servers \cup Clients, NEW k \in Sockets, Lowest(k, {})
  PROVE  Creates(o, k, Created(o, k).fd, Created(o, k).table)
<1> DEFINE old == object[o].m_sockfd
           c == Created(o, k)
           new == [Unused EXCEPT !.kind = "new"]
<1>1. /\ old \in Descriptors /\ o \in Objects
      /\ kernel \in [Sockets -> SocketRecords] /\ family \in {"tcp", "unix"}
  BY DEF SocketsInv, TypeInv, ObjectRecords, Objects
<1>2. kernel[k].kind = "unused"
  BY DEF Lowest
<1>3. CASE family = "tcp" /\ old # NoSocket
  <2>1. c.fd = old /\ c.table = kernel /\ c.fd \in Sockets
    BY <1>1, <1>3 DEF Created, Descriptors
  <2>2. Keeps(kernel, o, old)
    BY <1>1, <1>3 DEF SocketsInv, Owners, InUse, Links, Keeps
  <2> QED
    BY <1>2, <1>3, <2>1, <2>2 DEF Creates
<1>4. CASE ~(family = "tcp" /\ old # NoSocket)
  <2>1. c = [fd |-> k, table |-> [Closed(old) EXCEPT ![k] = new]]
    BY <1>4 DEF Created
  <2>2. Keeps(Closed(old), o, NoSocket)
    BY <1>1, ClosedKeeps
  <2>3. new = [kind |-> "new", blocking |-> TRUE, peer |-> NoSocket, via |-> NoSocket]
    BY NewSocket
  <2>4. new \in SocketRecords
    BY <2>3 DEF SocketRecords, Descriptors
  <2>5. /\ c.fd = k /\ c.table \in [Sockets -> SocketRecords] /\ c.table[k] = new
        /\ \A j \in Sockets \ {k} : c.table[j] = Closed(old)[j]
    BY <2>1, <2>2, <2>4 DEF Keeps
  <2>6. \A q \in Objects : object[q].m_sockfd # NoSocket =>
          object[q].m_sockfd # k /\ object[q].m_sockfd \in Sockets
    BY <1>2 DEF SocketsInv, TypeInv, ObjectRecords, ObjectInv, KindsOf, Descriptors
  <2>7. Keeps(c.table, o, k)
    <3>1. ASSUME NEW q \in Objects \ {o}, object[q].m_sockfd # NoSocket
          PROVE  /\ object[q].m_sockfd # k
                 /\ c.table[object[q].m_sockfd].kind = kernel[object[q].m_sockfd].kind
                 /\ c.table[object[q].m_sockfd].blocking = kernel[object[q].m_sockfd].blocking
      BY <2>2, <2>5, <2>6, <3>1 DEF Keeps
    <3>2. \A j \in Sockets : c.table[j].kind \in {"new", "listening", "connected"} =>
            j = k \/ \E q \in Objects \ {o} : object[q].m_sockfd = j
      <4>1. \A j \in Sockets : Closed(old)[j].kind \in {"new", "listening", "connected"} =>
              j = NoSocket \/ \E q \in Objects \ {o} : object[q].m_sockfd = j
        BY <2>2 DEF Keeps
      <4> QED
        BY <2>5, <4>1, SocketsAssumption DEF Sockets
    <3>3. \A j \in Sockets : /\ c.table[j].via # NoSocket => c.table[j].kind = "pending"
                             /\ c.table[j].peer # j
      BY <2>2, <2>3, <2>5, SocketsAssumption DEF Keeps, Sockets
    <3> QED
      BY <2>5, <3>1, <3>2, <3>3 DEF Keeps
  <2>8. ASSUME NEW j \in Sockets \ {k}
        PROVE  \/ c.table[j].kind = kernel[j].kind
               \/ /\ family = "unix" /\ c.table[j] = Unused
                  /\ kernel[j].kind = "pending" \/ j = object[o].m_sockfd
    <3>1. /\ old = NoSocket => Closed(old)[j] = kernel[j]
          /\ (old # NoSocket /\ (j = old \/ kernel[j].via = old)) => Closed(old)[j] = Unused
          /\ ~(old # NoSocket /\ (j = old \/ kernel[j].via = old)) =>
               Closed(old)[j].kind = kernel[j].kind
      BY <1>1, ClosedTable
    <3>2. kernel[j].via # NoSocket => kernel[j].kind = "pending"
      BY DEF SocketsInv, Links
    <3> QED
      BY <1>1, <1>4, <2>5, <3>1, <3>2
  <2>9. family = "unix" \/ old = NoSocket
    BY <1>1, <1>4
  <2> QED
    BY <1>2, <2>3, <2>5, <2>7, <2>8, <2>9 DEF Creates
<1> QED
  BY <1>3, <1>4

(* The table as it is, and one that differs in the socket of o only.        *)
LEMMA KeptTable ==
  ASSUME SocketsInv, NEW o \in Objects
  PROVE  Keeps(kernel, o, object[o].m_sockfd)
BY DEF SocketsInv, TypeInv, Owners, InUse, Links, Keeps

LEMMA OneSocket ==
  ASSUME SocketsInv, NEW o \in Objects, NEW fd \in Sockets, NEW table,
         Keeps(table, o, fd), kernel' \in [Sockets -> SocketRecords],
         \A k \in Sockets \ {fd} : kernel'[k] = table[k],
         kernel'[fd].via # NoSocket => kernel'[fd].kind = "pending", kernel'[fd].peer # fd
  PROVE  Keeps(kernel', o, fd)
<1>1. \A q \in Objects : object[q].m_sockfd # NoSocket => object[q].m_sockfd \in Sockets
  BY DEF SocketsInv, TypeInv, ObjectRecords, Descriptors
<1>2. ASSUME NEW q \in Objects \ {o}, object[q].m_sockfd # NoSocket
      PROVE  /\ object[q].m_sockfd # fd
             /\ kernel'[object[q].m_sockfd].kind = kernel[object[q].m_sockfd].kind
             /\ kernel'[object[q].m_sockfd].blocking = kernel[object[q].m_sockfd].blocking
  BY <1>1, <1>2 DEF Keeps
<1>3. \A k \in Sockets : kernel'[k].kind \in {"new", "listening", "connected"} =>
        k = fd \/ \E q \in Objects \ {o} : object[q].m_sockfd = k
  BY DEF Keeps
<1>4. \A k \in Sockets : /\ kernel'[k].via # NoSocket => kernel'[k].kind = "pending"
                         /\ kernel'[k].peer # k
  BY DEF Keeps
<1> QED
  BY <1>2, <1>3, <1>4 DEF Keeps

-----------------------------------------------------------------------------
(* The steps.                                                               *)
LEMMA CloseStep ==
  ASSUME SocketsInv, NEW o \in Objects, Close(o)
  PROVE  SocketsInv'
<1>1. /\ object \in [Objects -> ObjectRecords] /\ killed = NoSocket
      /\ object[o] \in ObjectRecords /\ ~object[o].binding
      /\ kernel' = Closed(object[o].m_sockfd) /\ family' = family /\ killed' = killed
  BY DEF SocketsInv, TypeInv, Close, Ready
<1>2. /\ object' \in [Objects -> ObjectRecords]
      /\ \A q \in Objects \ {o} : object'[q] = object[q]
      /\ object'[o].m_sockfd = NoSocket /\ ~object'[o].m_connected
      /\ \/ /\ object'[o].lost = object[o].lost /\ ~object'[o].binding
            /\ object'[o].m_blocking = object[o].m_blocking
            /\ object'[o].asked = object[o].asked
            /\ object'[o].m_nopipe = object[o].m_nopipe
         \/ /\ ~object'[o].binding /\ object'[o].m_blocking = TRUE
            /\ object'[o].asked = FALSE
  <2>1. CASE o \in Accepted
    BY <1>1, <2>1, NewRecords DEF Close, NewObject, ObjectRecords
  <2>2. CASE o \notin Accepted
    BY <1>1, <2>2 DEF Close, ObjectRecords, Descriptors
  <2> QED
    BY <2>1, <2>2
<1>3. Keeps(kernel', o, NoSocket)
  BY <1>1, ClosedKeeps
<1>4. ObjectInv(o)'
  BY <1>1, <1>2 DEF SocketsInv, ObjectInv
<1>5. NameInv' /\ name' \in Descriptors
  <2>1. name' = NoSocket \/ (name' = name /\ ~ForgetsName(o))
    BY DEF Close, NameWithout
  <2>2. ASSUME name # NoSocket, ~ForgetsName(o)
        PROVE  Closed(object[o].m_sockfd)[name].kind = "listening"
    <3>1. name \in Sockets /\ kernel[name].kind = "listening" /\ kernel[name].via = NoSocket
      BY <2>2 DEF SocketsInv, TypeInv, NameInv, Links, Descriptors
    <3>2. object[o].m_sockfd # name
      <4>1. CASE family = "tcp"
        BY <2>2, <4>1 DEF ForgetsName
      <4>2. CASE family = "unix"
        BY <2>2, <3>1, <4>2 DEF ForgetsName, SocketsInv, ObjectInv, KindsOf
      <4> QED
        BY <4>1, <4>2 DEF SocketsInv, TypeInv
    <3> QED
      BY <1>1, <3>1, <3>2, ClosedTable DEF ObjectRecords
  <2> QED
    BY <1>1, <2>1, <2>2 DEF SocketsInv, TypeInv, NameInv, Descriptors
<1> QED
  BY <1>1, <1>2, <1>3, <1>4, <1>5, OneObject

LEMMA ConfigureStep ==
  ASSUME SocketsInv, NEW o \in Servers \cup Clients, Configure(o)
  PROVE  SocketsInv'
<1>1. /\ object \in [Objects -> ObjectRecords] /\ killed = NoSocket
      /\ o \in Objects /\ object[o] \in ObjectRecords /\ ~object[o].binding
      /\ family' = family /\ killed' = killed /\ name' = name
  BY DEF SocketsInv, TypeInv, Configure, Ready, Objects
<1>2. /\ object' \in [Objects -> ObjectRecords]
      /\ \A q \in Objects \ {o} : object'[q] = object[q]
      /\ object'[o].m_sockfd = object[o].m_sockfd
      /\ object'[o].m_connected = object[o].m_connected
      /\ object'[o].alive = object[o].alive /\ ~object'[o].binding
      /\ object'[o].m_blocking = FALSE /\ object'[o].asked = TRUE /\ object'[o].m_nopipe = TRUE
  BY <1>1 DEF Configure, ObjectRecords
<1>3. /\ kernel' \in [Sockets -> SocketRecords]
      /\ \A k \in Sockets :
           /\ kernel'[k].kind = kernel[k].kind /\ kernel'[k].peer = kernel[k].peer
           /\ kernel'[k].via = kernel[k].via
           /\ kernel'[k].blocking = IF k = object[o].m_sockfd THEN FALSE
                                                             ELSE kernel[k].blocking
  <2>1. /\ kernel \in [Sockets -> SocketRecords]
        /\ kernel' = [k \in Sockets |-> IF k = object[o].m_sockfd
                                          THEN [kernel[k] EXCEPT !.blocking = FALSE]
                                          ELSE kernel[k]]
    BY DEF Configure, SocketsInv, TypeInv
  <2>2. \A r \in SocketRecords :
          /\ [r EXCEPT !.blocking = FALSE] \in SocketRecords
          /\ [r EXCEPT !.blocking = FALSE].kind = r.kind
          /\ [r EXCEPT !.blocking = FALSE].peer = r.peer
          /\ [r EXCEPT !.blocking = FALSE].via = r.via
          /\ [r EXCEPT !.blocking = FALSE].blocking = FALSE
    BY DEF SocketRecords
  <2>3. \A k \in Sockets : kernel[k] \in SocketRecords
    BY <2>1
  <2> QED
    BY <2>1, <2>2, <2>3
<1>4. Keeps(kernel', o, object'[o].m_sockfd)
  <2>1. \A q \in Objects : object[q].m_sockfd # NoSocket => object[q].m_sockfd \in Sockets
    BY DEF SocketsInv, TypeInv, ObjectRecords, Descriptors
  <2>2. ASSUME NEW q \in Objects \ {o}, object[q].m_sockfd # NoSocket
        PROVE  /\ object[q].m_sockfd # object[o].m_sockfd
               /\ kernel'[object[q].m_sockfd].kind = kernel[object[q].m_sockfd].kind
               /\ kernel'[object[q].m_sockfd].blocking = kernel[object[q].m_sockfd].blocking
    <3>1. object[q].m_sockfd # object[o].m_sockfd
      BY <1>1, <2>2 DEF SocketsInv, Owners
    <3> QED
      BY <1>3, <2>1, <2>2, <3>1
  <2>3. \A k \in Sockets : kernel'[k].kind \in {"new", "listening", "connected"} =>
          k = object[o].m_sockfd \/ \E q \in Objects \ {o} : object[q].m_sockfd = k
    BY <1>3 DEF SocketsInv, Owners, InUse
  <2>4. \A k \in Sockets : /\ kernel'[k].via # NoSocket => kernel'[k].kind = "pending"
                           /\ kernel'[k].peer # k
    BY <1>3 DEF SocketsInv, Links
  <2> QED
    BY <1>2, <1>3, <2>2, <2>3, <2>4 DEF Keeps
<1>5. ObjectInv(o)'
  <2>1. object[o].m_sockfd # NoSocket =>
          /\ kernel'[object[o].m_sockfd].kind = kernel[object[o].m_sockfd].kind
          /\ kernel'[object[o].m_sockfd].blocking = FALSE
    BY <1>1, <1>3 DEF ObjectRecords, Descriptors
  <2>2. ObjectInv(o)
    BY <1>1 DEF SocketsInv
  <2> QED
    BY <1>1, <1>2, <2>1, <2>2 DEF ObjectInv, KindsOf
<1>6. NameInv' /\ name' \in Descriptors
  BY <1>1, <1>3 DEF SocketsInv, TypeInv, NameInv, Descriptors
<1> QED
  BY <1>1, <1>2, <1>4, <1>5, <1>6, OneObject

(* The mode of one socket is set.                                           *)
LEMMA SetMode ==
  ASSUME SocketsInv, NEW o \in Objects, NEW fd \in Sockets, NEW table,
         Keeps(table, o, fd), NEW mode \in BOOLEAN,
         kernel' = [table EXCEPT ![fd].blocking = mode]
  PROVE  /\ Keeps(kernel', o, fd)
         /\ \A j \in Sockets \ {fd} : kernel'[j] = table[j]
         /\ kernel'[fd].kind = table[fd].kind /\ kernel'[fd].blocking = mode
<1>1. table \in [Sockets -> SocketRecords] /\ table[fd] \in SocketRecords
  BY DEF Keeps
<1>2. /\ kernel' \in [Sockets -> SocketRecords]
      /\ \A j \in Sockets \ {fd} : kernel'[j] = table[j]
      /\ kernel'[fd].kind = table[fd].kind /\ kernel'[fd].blocking = mode
      /\ kernel'[fd].via = table[fd].via /\ kernel'[fd].peer = table[fd].peer
  BY <1>1 DEF SocketRecords
<1>3. table[fd].via # NoSocket => table[fd].kind = "pending"
  BY DEF Keeps
<1>4. table[fd].peer # fd
  BY DEF Keeps
<1>5. Keeps(kernel', o, fd)
  BY <1>2, <1>3, <1>4, OneSocket
<1> QED
  BY <1>2, <1>5

(* The record of an object that create_socket is called for.                *)
LEMMA ReadyObject ==
  ASSUME SocketsInv, NEW o \in Objects, Ready(o)
  PROVE  /\ object \in [Objects -> ObjectRecords] /\ object[o] \in ObjectRecords
         /\ killed = NoSocket /\ ~object[o].binding /\ object[o].alive
         /\ family \in {"tcp", "unix"} /\ name \in Descriptors
BY DEF SocketsInv, TypeInv, Ready

(* create_socket leaves the socket that the name leads to alone, unless it  *)
(* is of a unix server, which unlinks the path first.                       *)
LEMMA NameKept ==
  ASSUME SocketsInv, NEW o \in Objects, NEW k \in Sockets, NEW fd, NEW table,
         Creates(o, k, fd, table), family = "tcp" \/ o \notin Servers,
         name # NoSocket
  PROVE  /\ name \in Sockets /\ table[name].kind = "listening"
         /\ o \notin Servers => name # fd
<1>1. name \in Sockets /\ kernel[name].kind = "listening"
  BY DEF SocketsInv, TypeInv, NameInv, Descriptors
<1>2. o \notin Servers => name # object[o].m_sockfd
  BY <1>1 DEF SocketsInv, ObjectInv, KindsOf
<1>3. table[name].kind = "listening"
  <2>1. CASE name = fd
    BY <1>1, <2>1 DEF Creates
  <2>2. CASE name # fd
    BY <1>1, <1>2, <2>2 DEF Creates
  <2> QED
    BY <2>1, <2>2
<1> QED
  BY <1>1, <1>2, <1>3 DEF Creates

LEMMA BindStep ==
  ASSUME SocketsInv, NEW s \in Servers, Bind(s)
  PROVE  SocketsInv'
<1>0. s \in Objects /\ s \in Servers \cup Clients
  BY DEF Objects
<1>1. PICK k \in Sockets :
        LET c == Created(s, k) IN
        /\ Lowest(k, {}) /\ Ready(s)
        /\ object' = [object EXCEPT ![s].m_sockfd = c.fd, ![s].m_blocking = TRUE,
                                    ![s].saved = object[s].m_blocking,
                                    ![s].binding = TRUE]
        /\ kernel' = [c.table EXCEPT ![c.fd].blocking = TRUE]
        /\ name' = IF family = "unix" THEN NoSocket ELSE name
        /\ UNCHANGED <<family, killed>>
  BY DEF Bind
<1> DEFINE fd == Created(s, k).fd
           t == Created(s, k).table
<1>2. /\ Creates(s, k, fd, t)
      /\ object' = [object EXCEPT ![s].m_sockfd = fd, ![s].m_blocking = TRUE,
                                  ![s].saved = object[s].m_blocking,
                                  ![s].binding = TRUE]
      /\ kernel' = [t EXCEPT ![fd].blocking = TRUE]
  BY <1>0, <1>1, CreatedKeeps
<1> HIDE DEF fd, t
<1>3. /\ object \in [Objects -> ObjectRecords] /\ object[s] \in ObjectRecords
      /\ killed = NoSocket /\ ~object[s].binding /\ object[s].alive
      /\ family \in {"tcp", "unix"} /\ name \in Descriptors
      /\ fd \in Sockets
  BY <1>0, <1>1, <1>2, ReadyObject DEF Creates
<1>4. /\ object' \in [Objects -> ObjectRecords]
      /\ \A q \in Objects \ {s} : object'[q] = object[q]
      /\ object'[s].m_sockfd = fd /\ object'[s].m_blocking = TRUE
      /\ object'[s].saved = object[s].m_blocking /\ object'[s].binding = TRUE
      /\ object'[s].m_connected = object[s].m_connected
      /\ object'[s].alive = object[s].alive /\ object'[s].asked = object[s].asked
      /\ object'[s].lost = object[s].lost /\ object'[s].m_nopipe = object[s].m_nopipe
  BY <1>0, <1>2, <1>3 DEF ObjectRecords, Descriptors
<1>5. Keeps(t, s, fd)
  BY <1>2 DEF Creates
<1>6. /\ Keeps(kernel', s, fd)
      /\ \A j \in Sockets \ {fd} : kernel'[j] = t[j]
      /\ kernel'[fd].kind = t[fd].kind /\ kernel'[fd].blocking = TRUE
  BY <1>0, <1>2, <1>3, <1>5, SetMode
<1>7. ObjectInv(s)'
  <2>1. /\ object[s].m_sockfd # NoSocket => kernel[object[s].m_sockfd].kind \in KindsOf(s)
        /\ ~object[s].m_connected
        /\ ~object[s].lost => object[s].m_blocking = ~object[s].asked
        /\ object[s].asked => object[s].m_nopipe
    BY <1>0, <1>3 DEF SocketsInv, ObjectInv, KindsOf
  <2>2. kernel'[fd].kind \in KindsOf(s)
    BY <1>2, <1>6, <2>1 DEF Creates, KindsOf
  <2>3. fd # NoSocket
    BY <1>3, SocketsAssumption DEF Sockets
  <2> QED
    BY <1>3, <1>4, <1>6, <2>1, <2>2, <2>3 DEF ObjectInv, KindsOf
<1>8. NameInv' /\ name' \in Descriptors
  <2>1. CASE family = "unix"
    BY <1>1, <2>1 DEF NameInv, Descriptors
  <2>2. CASE family = "tcp"
    <3>1. ASSUME name # NoSocket
          PROVE  name \in Sockets /\ t[name].kind = "listening"
      BY <1>0, <1>2, <2>2, <3>1, NameKept
    <3>2. name' = name
      BY <1>1, <2>2
    <3>3. name # NoSocket => kernel'[name].kind = "listening"
      BY <1>6, <3>1
    <3> QED
      BY <1>3, <3>2, <3>3 DEF NameInv
  <2> QED
    BY <1>3, <2>1, <2>2
<1> QED
  BY <1>0, <1>1, <1>3, <1>4, <1>6, <1>7, <1>8, OneObject

LEMMA BindOkStep ==
  ASSUME SocketsInv, NEW s \in Servers, BindOk(s)
  PROVE  SocketsInv'
<1> DEFINE fd == object[s].m_sockfd
<1>1. /\ s \in Objects /\ object \in [Objects -> ObjectRecords] /\ object[s] \in ObjectRecords
      /\ object[s].binding /\ killed = NoSocket /\ kernel[fd].kind = "new" /\ name' = fd
      /\ family' = family /\ killed' = killed
      /\ object' = [object EXCEPT ![s].binding = FALSE, ![s].saved = TRUE,
                                  ![s].m_blocking = object[s].saved]
      /\ kernel' = [kernel EXCEPT ![fd].kind = "listening", ![fd].blocking = object[s].saved]
      /\ kernel \in [Sockets -> SocketRecords]
  BY DEF SocketsInv, TypeInv, BindOk, Restored, Objects
<1>2. ObjectInv(s) /\ Keeps(kernel, s, fd)
  BY <1>1, KeptTable DEF SocketsInv
<1>3. fd \in Sockets
  BY <1>1, <1>2 DEF ObjectInv, ObjectRecords, Descriptors
<1>4. /\ object' \in [Objects -> ObjectRecords]
      /\ \A q \in Objects \ {s} : object'[q] = object[q]
      /\ object'[s].m_sockfd = fd /\ object'[s].m_blocking = object[s].saved
      /\ object'[s].binding = FALSE /\ object'[s].m_connected = object[s].m_connected
      /\ object'[s].alive = object[s].alive /\ object'[s].asked = object[s].asked
      /\ object'[s].lost = object[s].lost /\ object'[s].m_nopipe = object[s].m_nopipe
  BY <1>1 DEF ObjectRecords
<1>5. /\ kernel' \in [Sockets -> SocketRecords]
      /\ \A j \in Sockets \ {fd} : kernel'[j] = kernel[j]
      /\ kernel'[fd].kind = "listening" /\ kernel'[fd].blocking = object[s].saved
      /\ kernel'[fd].via = kernel[fd].via /\ kernel'[fd].peer = kernel[fd].peer
  <2> HIDE DEF fd
  <2>1. object[s].saved \in BOOLEAN
    BY <1>1 DEF ObjectRecords
  <2> QED
    BY <1>1, <1>3, <2>1 DEF SocketRecords
<1>6. kernel'[fd].via = NoSocket /\ kernel'[fd].peer # fd
  BY <1>1, <1>3, <1>5 DEF SocketsInv, Links
<1>7. Keeps(kernel', s, fd)
  BY <1>1, <1>2, <1>3, <1>5, <1>6, OneSocket
<1>8. ObjectInv(s)'
  <2>1. ~object[s].m_connected
    BY <1>1, <1>2 DEF ObjectInv
  <2> QED
    BY <1>1, <1>2, <1>3, <1>4, <1>5, <2>1 DEF ObjectInv, KindsOf
<1>9. NameInv' /\ name' \in Descriptors
  BY <1>1, <1>3, <1>5 DEF NameInv, Descriptors
<1> QED
  BY <1>1, <1>4, <1>7, <1>8, <1>9, OneObject

(* Steps that change fields of one object, and not its descriptor.          *)
LEMMA FieldsOnly ==
  ASSUME SocketsInv, NEW o \in Objects,
         object' \in [Objects -> ObjectRecords],
         \A q \in Objects \ {o} : object'[q] = object[q],
         object'[o].m_sockfd = object[o].m_sockfd, ObjectInv(o)',
         object'[o].asked = object[o].asked, UNCHANGED <<family, kernel, name, killed>>
  PROVE  SocketsInv'
<1>1. Keeps(kernel', o, object'[o].m_sockfd)
  BY KeptTable
<1>2. NameInv' /\ name' \in Descriptors
  BY DEF SocketsInv, TypeInv, NameInv
<1> QED
  BY <1>1, <1>2, OneObject

LEMMA BindFailsStep ==
  ASSUME SocketsInv, NEW s \in Servers, BindFails(s)
  PROVE  SocketsInv'
<1>1. /\ s \in Objects /\ object \in [Objects -> ObjectRecords] /\ object[s] \in ObjectRecords
      /\ ObjectInv(s)
  BY DEF SocketsInv, TypeInv, Objects
<1>2. /\ object' \in [Objects -> ObjectRecords]
      /\ \A q \in Objects \ {s} : object'[q] = object[q]
      /\ object'[s].m_sockfd = object[s].m_sockfd
      /\ object'[s].m_blocking = object[s].m_blocking
      /\ object'[s].binding = FALSE /\ object'[s].m_connected = object[s].m_connected
      /\ object'[s].alive = object[s].alive /\ object'[s].asked = object[s].asked
      /\ object'[s].lost = TRUE /\ object'[s].m_nopipe = object[s].m_nopipe
  BY <1>1 DEF BindFails, ObjectRecords
<1>3. ObjectInv(s)'
  BY <1>1, <1>2 DEF BindFails, ObjectInv, KindsOf
<1> QED
  BY <1>1, <1>2, <1>3, FieldsOnly DEF BindFails

(* A connection that ends.                                                  *)
LEMMA EndOfConnection ==
  ASSUME SocketsInv, NEW o \in Objects,
         object' = [object EXCEPT ![o].m_connected = FALSE],
         UNCHANGED <<family, kernel, name, killed>>
  PROVE  SocketsInv'
<1>1. object \in [Objects -> ObjectRecords] /\ object[o] \in ObjectRecords /\ ObjectInv(o)
  BY DEF SocketsInv, TypeInv
<1>2. /\ object' \in [Objects -> ObjectRecords]
      /\ \A q \in Objects \ {o} : object'[q] = object[q]
      /\ object'[o].m_sockfd = object[o].m_sockfd
      /\ object'[o].m_blocking = object[o].m_blocking
      /\ object'[o].binding = object[o].binding /\ object'[o].m_connected = FALSE
      /\ object'[o].saved = object[o].saved
      /\ object'[o].alive = object[o].alive /\ object'[o].asked = object[o].asked
      /\ object'[o].lost = object[o].lost /\ object'[o].m_nopipe = object[o].m_nopipe
  BY <1>1 DEF ObjectRecords
<1>3. ObjectInv(o)'
  BY <1>1, <1>2 DEF ObjectInv, KindsOf
<1> QED
  BY <1>1, <1>2, <1>3, FieldsOnly

LEMMA EndStep ==
  ASSUME SocketsInv, NEW o \in Clients \cup Accepted, ReadEnd(o) \/ WriteBroken(o)
  PROVE  SocketsInv'
<1>1. o \in Objects /\ object \in [Objects -> ObjectRecords] /\ ObjectInv(o)
  BY DEF SocketsInv, TypeInv, Objects
<1>2. CASE ReadEnd(o) \/ (WriteBroken(o) /\ object[o].m_nopipe)
  BY <1>1, <1>2, EndOfConnection DEF ReadEnd, WriteBroken
<1>3. CASE WriteBroken(o) /\ ~object[o].m_nopipe
  <2>1. UNCHANGED <<family, object, kernel, name>> /\ killed' = o /\ ~object[o].asked
    BY <1>1, <1>3 DEF WriteBroken, ObjectInv
  <2> QED
    BY <1>1, <2>1 DEF SocketsInv, TypeInv, ObjectInv, KindsOf, Owners, InUse, Links, NameInv,
                      KilledInv
<1> QED
  BY <1>2, <1>3

LEMMA AcceptStep ==
  ASSUME SocketsInv, NEW s \in Servers, Accept(s)
  PROVE  SocketsInv'
<1>1. PICK a \in Accepted, p \in Sockets :
        /\ Ready(s) /\ ~object[a].alive
        /\ kernel[p].kind = "pending" /\ kernel[p].via = object[s].m_sockfd
        /\ object' = [object EXCEPT ![a] =
             [NewObject EXCEPT !.m_sockfd = p, !.m_connected = TRUE,
                !.m_blocking = Inherited(s).m_blocking,
                !.m_nopipe = Inherited(s).m_nopipe,
                !.asked = object[s].asked, !.lost = object[s].lost]]
        /\ kernel' = [kernel EXCEPT ![p].kind = "connected", ![p].via = NoSocket,
                                    ![p].blocking = Inherited(s).m_blocking]
        /\ UNCHANGED <<family, name, killed>>
  BY DEF Accept
<1>2. /\ a \in Objects /\ s \in Objects /\ a \notin Servers
      /\ object \in [Objects -> ObjectRecords] /\ object[s] \in ObjectRecords
      /\ killed = NoSocket /\ ~object[s].binding /\ kernel \in [Sockets -> SocketRecords]
      /\ ObjectInv(s) /\ ObjectInv(a) /\ object[a].m_sockfd = NoSocket
  BY <1>1, ReadyObject, ObjectsAssumption DEF SocketsInv, TypeInv, Objects, ObjectInv
<1>3. /\ Inherited(s).m_blocking = object[s].m_blocking
      /\ Inherited(s).m_nopipe = object[s].m_nopipe
  BY DEF Inherited
<1>4. /\ object' \in [Objects -> ObjectRecords]
      /\ \A q \in Objects \ {a} : object'[q] = object[q]
      /\ object'[a].m_sockfd = p /\ object'[a].m_blocking = object[s].m_blocking
      /\ object'[a].binding = FALSE /\ object'[a].m_connected = TRUE
      /\ object'[a].alive = TRUE /\ object'[a].asked = object[s].asked
      /\ object'[a].lost = object[s].lost /\ object'[a].m_nopipe = object[s].m_nopipe
  BY <1>1, <1>2, <1>3 DEF NewObject, ObjectRecords, Descriptors
<1>5. /\ kernel' \in [Sockets -> SocketRecords]
      /\ \A j \in Sockets \ {p} : kernel'[j] = kernel[j]
      /\ kernel'[p].kind = "connected" /\ kernel'[p].blocking = object[s].m_blocking
      /\ kernel'[p].via = NoSocket /\ kernel'[p].peer = kernel[p].peer
  <2>1. object[s].m_blocking \in BOOLEAN /\ NoSocket \in Descriptors
    BY <1>2 DEF ObjectRecords, Descriptors
  <2> QED
    BY <1>1, <1>2, <1>3, <2>1 DEF SocketRecords
<1>6. Keeps(kernel, a, p)
  <2>1. \A q \in Objects : object[q].m_sockfd # NoSocket => object[q].m_sockfd # p
    BY <1>1 DEF SocketsInv, ObjectInv, KindsOf
  <2>2. \A k \in Sockets : InUse(k) => \E q \in Objects \ {a} : object[q].m_sockfd = k
    BY <1>2, SocketsAssumption DEF SocketsInv, Owners, Sockets
  <2> QED
    BY <1>2, <2>1, <2>2 DEF Keeps, InUse, SocketsInv, Links
<1>7. Keeps(kernel', a, p)
  <2>1. kernel'[p].peer # p
    BY <1>5 DEF SocketsInv, Links
  <2> QED
    BY <1>2, <1>5, <1>6, <2>1, OneSocket
<1>8. ObjectInv(a)'
  <2>1. p # NoSocket
    BY SocketsAssumption DEF Sockets
  <2>2. /\ ~object[s].lost => object[s].m_blocking = ~object[s].asked
        /\ object[s].asked => object[s].m_nopipe
    BY <1>2 DEF ObjectInv
  <2> QED
    BY <1>2, <1>4, <1>5, <2>1, <2>2 DEF ObjectInv, KindsOf
<1>9. NameInv' /\ name' \in Descriptors
  <2>1. name # NoSocket => name \in Sockets \ {p}
    BY <1>1 DEF SocketsInv, TypeInv, NameInv, Descriptors
  <2> QED
    BY <1>1, <1>5, <2>1 DEF SocketsInv, TypeInv, NameInv
<1> QED
  BY <1>1, <1>2, <1>4, <1>7, <1>8, <1>9, OneObject

(* connect() with an address that is none, or in tcp one that fails: the    *)
(* socket of create_socket stays, in some mode.                             *)
LEMMA Unconnected ==
  ASSUME SocketsInv, NEW c \in Clients, NEW k \in Sockets, Lowest(k, {}), Ready(c),
         NEW fd, NEW t, Creates(c, k, fd, t), Keeps(kernel', c, fd),
         \A j \in Sockets \ {fd} : kernel'[j] = t[j],
         kernel'[fd].kind = t[fd].kind, kernel'[fd].blocking = object'[c].m_blocking,
         object' \in [Objects -> ObjectRecords],
         \A q \in Objects \ {c} : object'[q] = object[q],
         object'[c].m_sockfd = fd,
         object'[c].m_connected = (family = "tcp" /\ object[c].m_connected),
         object'[c].alive = object[c].alive, object'[c].asked = object[c].asked,
         object'[c].binding = object[c].binding,
         \/ object'[c].lost
         \/ /\ object'[c].lost = object[c].lost
            /\ object'[c].m_blocking = object[c].m_blocking,
         object'[c].m_nopipe = object[c].m_nopipe,
         UNCHANGED <<family, name, killed>>
  PROVE  SocketsInv'
<1>1. /\ c \in Objects /\ c \notin Servers /\ ~object[c].binding /\ object[c].alive
      /\ killed = NoSocket /\ ObjectInv(c) /\ family \in {"tcp", "unix"}
      /\ fd \in Sockets /\ Keeps(t, c, fd) /\ name \in Descriptors
  BY ReadyObject, ObjectsAssumption DEF SocketsInv, Objects, Creates
<1>3. ObjectInv(c)'
  <2>1. fd # NoSocket
    BY <1>1, SocketsAssumption DEF Sockets
  <2>2. t[fd].kind \in {"new", "connected"}
    BY <1>1 DEF Creates, ObjectInv, KindsOf
  <2>3. object'[c].m_connected => t[fd].kind = "connected"
    BY <1>1 DEF Creates, ObjectInv
  <2> QED
    BY <1>1, <2>1, <2>2, <2>3 DEF ObjectInv, KindsOf
<1>4. NameInv' /\ name' \in Descriptors
  <2>1. name # NoSocket => name \in Sockets /\ t[name].kind = "listening" /\ name # fd
    BY <1>1, NameKept
  <2> QED
    BY <1>1, <2>1 DEF NameInv
<1> QED
  BY <1>1, <1>3, <1>4, OneObject

LEMMA ConnectNowhereStep ==
  ASSUME SocketsInv, NEW c \in Clients, ConnectNowhere(c)
  PROVE  SocketsInv'
<1>1. PICK k \in Sockets :
        LET n == Created(c, k) IN
        /\ Lowest(k, {}) /\ Ready(c)
        /\ object' = [object EXCEPT ![c].m_sockfd = n.fd,
                         ![c].m_connected = family = "tcp" /\ object[c].m_connected]
        /\ kernel' = [n.table EXCEPT ![n.fd].blocking = object[c].m_blocking]
        /\ UNCHANGED <<family, name, killed>>
  BY DEF ConnectNowhere
<1> DEFINE fd == Created(c, k).fd
           t == Created(c, k).table
<1>2. /\ Creates(c, k, fd, t) /\ c \in Objects
      /\ object' = [object EXCEPT ![c].m_sockfd = fd,
                       ![c].m_connected = (family = "tcp" /\ object[c].m_connected)]
      /\ kernel' = [t EXCEPT ![fd].blocking = object[c].m_blocking]
  BY <1>1, CreatedKeeps DEF Objects
<1> HIDE DEF fd, t
<1>3. /\ object \in [Objects -> ObjectRecords] /\ object[c] \in ObjectRecords
      /\ object[c].m_blocking \in BOOLEAN /\ fd \in Descriptors
  BY <1>1, <1>2, ReadyObject DEF ObjectRecords, Creates, Descriptors
<1>4. /\ object' \in [Objects -> ObjectRecords]
      /\ \A q \in Objects \ {c} : object'[q] = object[q]
      /\ object'[c].m_sockfd = fd /\ object'[c].m_blocking = object[c].m_blocking
      /\ object'[c].m_connected = (family = "tcp" /\ object[c].m_connected)
      /\ object'[c].alive = object[c].alive /\ object'[c].asked = object[c].asked
      /\ object'[c].binding = object[c].binding /\ object'[c].lost = object[c].lost
      /\ object'[c].m_nopipe = object[c].m_nopipe
  BY <1>2, <1>3 DEF ObjectRecords
<1>5. /\ Keeps(kernel', c, fd)
      /\ \A j \in Sockets \ {fd} : kernel'[j] = t[j]
      /\ kernel'[fd].kind = t[fd].kind /\ kernel'[fd].blocking = object[c].m_blocking
  <2>1. fd \in Sockets /\ Keeps(t, c, fd) /\ c \in Objects
    BY <1>2 DEF Creates
  <2>2. kernel' = [t EXCEPT ![fd].blocking = object[c].m_blocking]
    BY <1>2
  <2>3. object[c].m_blocking \in BOOLEAN
    BY <1>3
  <2>4. t \in [Sockets -> SocketRecords] /\ t[fd] \in SocketRecords
    BY <2>1 DEF Keeps
  <2>5. /\ kernel' \in [Sockets -> SocketRecords]
        /\ \A j \in Sockets \ {fd} : kernel'[j] = t[j]
        /\ kernel'[fd].kind = t[fd].kind /\ kernel'[fd].blocking = object[c].m_blocking
        /\ kernel'[fd].via = t[fd].via /\ kernel'[fd].peer = t[fd].peer
    BY <2>1, <2>2, <2>3, <2>4 DEF SocketRecords
  <2>6. /\ kernel'[fd].via # NoSocket => kernel'[fd].kind = "pending"
        /\ kernel'[fd].peer # fd
    BY <2>1, <2>5 DEF Keeps
  <2> QED
    BY <2>1, <2>5, <2>6, OneSocket
<1>6. UNCHANGED <<family, name, killed>> /\ Lowest(k, {}) /\ Ready(c) /\ Creates(c, k, fd, t)
  BY <1>1, <1>2
<1> QED
  BY <1>4, <1>5, <1>6, Unconnected

LEMMA ConnectFailsStep ==
  ASSUME SocketsInv, NEW c \in Clients, ConnectFails(c)
  PROVE  SocketsInv'
<1>1. PICK k \in Sockets :
        LET n == Created(c, k) IN
        /\ Lowest(k, {}) /\ Ready(c)
        /\ object' = [object EXCEPT
             ![c].m_sockfd = IF family = "tcp" THEN n.fd ELSE NoSocket,
             ![c].m_connected = IF family = "tcp" THEN @ ELSE FALSE,
             ![c].m_blocking = TRUE, ![c].lost = TRUE]
        /\ kernel' = IF family = "tcp"
                       THEN [n.table EXCEPT ![n.fd].blocking = TRUE]
                       ELSE Closed(object[c].m_sockfd)
        /\ UNCHANGED <<family, name, killed>>
  BY DEF ConnectFails
<1> DEFINE fd == Created(c, k).fd
           t == Created(c, k).table
<1>2. /\ Creates(c, k, fd, t) /\ c \in Objects
      /\ object' = [object EXCEPT
             ![c].m_sockfd = IF family = "tcp" THEN fd ELSE NoSocket,
             ![c].m_connected = IF family = "tcp" THEN object[c].m_connected ELSE FALSE,
             ![c].m_blocking = TRUE, ![c].lost = TRUE]
      /\ kernel' = IF family = "tcp" THEN [t EXCEPT ![fd].blocking = TRUE]
                                     ELSE Closed(object[c].m_sockfd)
  BY <1>1, CreatedKeeps DEF Objects
<1> HIDE DEF fd, t
<1>3. /\ object \in [Objects -> ObjectRecords] /\ object[c] \in ObjectRecords
      /\ fd \in Descriptors /\ family \in {"tcp", "unix"} /\ ObjectInv(c)
      /\ killed = NoSocket /\ ~object[c].binding /\ name \in Descriptors
  BY <1>1, <1>2, ReadyObject DEF ObjectRecords, Creates, Descriptors, SocketsInv
<1>4. /\ object' \in [Objects -> ObjectRecords]
      /\ \A q \in Objects \ {c} : object'[q] = object[q]
      /\ object'[c].m_sockfd = (IF family = "tcp" THEN fd ELSE NoSocket)
      /\ object'[c].m_connected = (family = "tcp" /\ object[c].m_connected)
      /\ object'[c].m_blocking = TRUE /\ object'[c].lost = TRUE
      /\ object'[c].alive = object[c].alive /\ object'[c].asked = object[c].asked
      /\ object'[c].binding = object[c].binding
      /\ object'[c].m_nopipe = object[c].m_nopipe
  <2>1. CASE family = "tcp"
    <3>1. object' = [object EXCEPT ![c].m_sockfd = fd,
                                   ![c].m_connected = object[c].m_connected,
                                   ![c].m_blocking = TRUE, ![c].lost = TRUE]
      BY <1>2, <2>1
    <3>2. c \in Objects
      BY <1>2
    <3> QED
      BY <1>3, <2>1, <3>1, <3>2 DEF ObjectRecords
  <2>2. CASE family = "unix"
    <3>1. object' = [object EXCEPT ![c].m_sockfd = NoSocket, ![c].m_connected = FALSE,
                                   ![c].m_blocking = TRUE, ![c].lost = TRUE]
      BY <1>2, <2>2
    <3>2. c \in Objects /\ NoSocket \in Descriptors
      BY <1>2 DEF Descriptors
    <3> QED
      BY <1>3, <2>2, <3>1, <3>2 DEF ObjectRecords
  <2> QED
    BY <1>3, <2>1, <2>2
<1>5. CASE family = "tcp"
  <2>1. object'[c].m_sockfd = fd /\ kernel' = [t EXCEPT ![fd].blocking = TRUE]
    BY <1>2, <1>4, <1>5
  <2>2. fd \in Sockets /\ Keeps(t, c, fd) /\ c \in Objects /\ Creates(c, k, fd, t)
    BY <1>2 DEF Creates
  <2>3. /\ Keeps(kernel', c, fd)
        /\ \A j \in Sockets \ {fd} : kernel'[j] = t[j]
        /\ kernel'[fd].kind = t[fd].kind /\ kernel'[fd].blocking = TRUE
    <3>1. t \in [Sockets -> SocketRecords] /\ t[fd] \in SocketRecords
      BY <2>2 DEF Keeps
    <3>2. /\ kernel' \in [Sockets -> SocketRecords]
          /\ \A j \in Sockets \ {fd} : kernel'[j] = t[j]
          /\ kernel'[fd].kind = t[fd].kind /\ kernel'[fd].blocking = TRUE
          /\ kernel'[fd].via = t[fd].via /\ kernel'[fd].peer = t[fd].peer
      BY <2>1, <2>2, <3>1 DEF SocketRecords
    <3>3. /\ kernel'[fd].via # NoSocket => kernel'[fd].kind = "pending"
          /\ kernel'[fd].peer # fd
      BY <2>2, <3>2 DEF Keeps
    <3> QED
      BY <2>2, <3>2, <3>3, OneSocket
  <2>4. UNCHANGED <<family, name, killed>> /\ Lowest(k, {}) /\ Ready(c)
    BY <1>1
  <2>5. /\ object'[c].m_sockfd = fd /\ kernel'[fd].blocking = object'[c].m_blocking
        /\ object'[c].lost
    BY <1>4, <2>1, <2>3
  <2> QED
    BY <1>4, <2>2, <2>3, <2>4, <2>5, Unconnected
<1>6. CASE family = "unix"
  <2>1. object'[c].m_sockfd = NoSocket /\ ~object'[c].m_connected
        /\ kernel' = Closed(object[c].m_sockfd) /\ name' = name
    BY <1>1, <1>2, <1>4, <1>6
  <2>2. Keeps(kernel', c, NoSocket)
    BY <1>2, <2>1, ClosedKeeps
  <2>3. ObjectInv(c)'
    BY <1>3, <1>4, <2>1 DEF ObjectInv
  <2>4. ASSUME name # NoSocket PROVE kernel'[name].kind = "listening"
    <3>1. name \in Sockets /\ kernel[name].kind = "listening" /\ kernel[name].via = NoSocket
      BY <2>4 DEF SocketsInv, TypeInv, NameInv, Links, Descriptors
    <3>2. object[c].m_sockfd # name
      <4>1. c \notin Servers /\ name # NoSocket
        BY <2>4, ObjectsAssumption
      <4> QED
        BY <1>3, <3>1, <4>1 DEF ObjectInv, KindsOf
    <3> QED
      BY <1>3, <2>1, <3>1, <3>2, ClosedTable DEF ObjectRecords
  <2>5. NameInv' /\ name' \in Descriptors
    BY <1>3, <2>1, <2>4 DEF NameInv
  <2>6. /\ c \in Objects /\ family' = family /\ killed' = NoSocket
        /\ object' \in [Objects -> ObjectRecords]
        /\ \A q \in Objects \ {c} : object'[q] = object[q]
        /\ Keeps(kernel', c, object'[c].m_sockfd)
    BY <1>2, <1>3, <1>4, <2>1, <2>2, <1>1
  <2>7. \/ killed' = NoSocket
        \/ killed' = killed /\ (object'[c].asked => object[c].asked)
    BY <2>6
  <2> QED
    BY <2>3, <2>5, <2>6, <2>7, OneObject
<1> QED
  BY <1>3, <1>5, <1>6

LEMMA ConnectOkStep ==
  ASSUME SocketsInv, NEW c \in Clients, ConnectOk(c)
  PROVE  SocketsInv'
<1>1. PICK k \in Sockets, j \in Sockets :
        LET n == Created(c, k) IN
        /\ Lowest(k, {}) /\ Lowest(j, {k}) /\ Ready(c)
        /\ name # NoSocket /\ kernel[name].kind = "listening"
        /\ n.table[n.fd].kind = "new"
        /\ object' = [object EXCEPT ![c].m_sockfd = n.fd, ![c].m_connected = TRUE]
        /\ kernel' = [n.table EXCEPT
             ![n.fd] = [kind |-> "connected", blocking |-> object[c].m_blocking,
                        peer |-> j, via |-> NoSocket],
             ![j] = [kind |-> "pending", blocking |-> TRUE, peer |-> n.fd,
                     via |-> name]]
        /\ UNCHANGED <<family, name, killed>>
  BY DEF ConnectOk
<1> DEFINE fd == Created(c, k).fd
           t == Created(c, k).table
           mine == [kind |-> "connected", blocking |-> object[c].m_blocking,
                    peer |-> j, via |-> NoSocket]
           other == [kind |-> "pending", blocking |-> TRUE, peer |-> fd, via |-> name]
<1>2. /\ Creates(c, k, fd, t) /\ c \in Objects /\ t[fd].kind = "new"
      /\ object' = [object EXCEPT ![c].m_sockfd = fd, ![c].m_connected = TRUE]
      /\ kernel' = [t EXCEPT ![fd] = mine, ![j] = other]
  BY <1>1, CreatedKeeps DEF Objects
<1> HIDE DEF fd, t
<1>3. /\ object \in [Objects -> ObjectRecords] /\ object[c] \in ObjectRecords
      /\ fd \in Sockets /\ fd \in Descriptors /\ ObjectInv(c) /\ c \notin Servers
      /\ killed = NoSocket /\ ~object[c].binding /\ object[c].alive /\ name \in Descriptors
      /\ Keeps(t, c, fd) /\ t \in [Sockets -> SocketRecords]
  BY <1>1, <1>2, ReadyObject, ObjectsAssumption
  DEF ObjectRecords, Creates, Keeps, Descriptors, SocketsInv
<1>4. kernel[j].kind = "unused" /\ j # fd
  <2>1. kernel[j].kind = "unused" /\ j # k
    BY <1>1 DEF Lowest
  <2>2. fd = k \/ (fd = object[c].m_sockfd /\ object[c].m_sockfd # NoSocket)
    BY <1>2 DEF Creates
  <2> QED
    BY <1>3, <2>1, <2>2 DEF ObjectInv, KindsOf
<1>5. /\ object' \in [Objects -> ObjectRecords]
      /\ \A q \in Objects \ {c} : object'[q] = object[q]
      /\ object'[c].m_sockfd = fd /\ object'[c].m_connected = TRUE
      /\ object'[c].m_blocking = object[c].m_blocking /\ object'[c].lost = object[c].lost
      /\ object'[c].alive = object[c].alive /\ object'[c].asked = object[c].asked
      /\ object'[c].binding = object[c].binding
      /\ object'[c].m_nopipe = object[c].m_nopipe
  BY <1>2, <1>3 DEF ObjectRecords
<1>6. mine \in SocketRecords /\ other \in SocketRecords
  BY <1>1, <1>3 DEF SocketRecords, ObjectRecords, Descriptors
<1>7. /\ kernel' \in [Sockets -> SocketRecords]
      /\ kernel'[fd] = mine /\ kernel'[j] = other
      /\ \A i \in Sockets \ {fd, j} : kernel'[i] = t[i]
  <2> HIDE DEF mine, other
  <2> QED
    BY <1>2, <1>3, <1>4, <1>6
<1>8. Keeps(kernel', c, fd)
  <2>1. ASSUME NEW q \in Objects \ {c}, object[q].m_sockfd # NoSocket
        PROVE  /\ object[q].m_sockfd # fd
               /\ kernel'[object[q].m_sockfd].kind = kernel[object[q].m_sockfd].kind
               /\ kernel'[object[q].m_sockfd].blocking = kernel[object[q].m_sockfd].blocking
    <3>1. object[q].m_sockfd \in Sockets /\ object[q].m_sockfd # j
      BY <1>4, <2>1 DEF SocketsInv, TypeInv, ObjectInv, KindsOf, ObjectRecords, Descriptors
    <3> QED
      BY <1>3, <1>7, <2>1, <3>1 DEF Keeps
  <2>2. \A i \in Sockets : kernel'[i].kind \in {"new", "listening", "connected"} =>
          i = fd \/ \E q \in Objects \ {c} : object[q].m_sockfd = i
    BY <1>3, <1>7 DEF Keeps
  <2>3. \A i \in Sockets : /\ kernel'[i].via # NoSocket => kernel'[i].kind = "pending"
                           /\ kernel'[i].peer # i
    BY <1>3, <1>4, <1>7 DEF Keeps
  <2> QED
    BY <1>7, <2>1, <2>2, <2>3 DEF Keeps
<1>9. ObjectInv(c)'
  <2>1. fd # NoSocket
    BY <1>3, SocketsAssumption DEF Sockets
  <2> QED
    BY <1>3, <1>5, <1>7, <2>1 DEF ObjectInv, KindsOf
<1>10. NameInv' /\ name' \in Descriptors
  <2>1. name # NoSocket => name \in Sockets /\ t[name].kind = "listening" /\ name # fd
    BY <1>2, <1>3, NameKept
  <2>2. name # j
    BY <1>1, <1>4
  <2> QED
    BY <1>1, <1>3, <1>7, <2>1, <2>2 DEF NameInv
<1>11. /\ Keeps(kernel', c, object'[c].m_sockfd) /\ family' = family
       /\ killed' = killed /\ (object'[c].asked => object[c].asked)
  BY <1>1, <1>5, <1>8
<1> QED
  BY <1>2, <1>5, <1>9, <1>10, <1>11, OneObject

-----------------------------------------------------------------------------
LEMMA InvStep == SocketsInv /\ [Next]_vars => SocketsInv'
<1> SUFFICES ASSUME SocketsInv, [Next]_vars PROVE SocketsInv'
  OBVIOUS
<1>1. ASSUME NEW s \in Servers, Bind(s) \/ BindOk(s) \/ BindFails(s) \/ Accept(s)
      PROVE  SocketsInv'
  BY <1>1, BindStep, BindOkStep, BindFailsStep, AcceptStep
<1>2. ASSUME NEW c \in Clients, ConnectOk(c) \/ ConnectNowhere(c) \/ ConnectFails(c)
      PROVE  SocketsInv'
  BY <1>2, ConnectOkStep, ConnectNowhereStep, ConnectFailsStep
<1>3. ASSUME NEW o \in Clients \cup Accepted, ReadEnd(o) \/ WriteBroken(o)
      PROVE  SocketsInv'
  BY <1>3, EndStep
<1>4. ASSUME NEW o \in Servers \cup Clients, Configure(o) PROVE SocketsInv'
  BY <1>4, ConfigureStep
<1>5. ASSUME NEW o \in Objects, Close(o) PROVE SocketsInv'
  BY <1>5, CloseStep
<1>6. CASE UNCHANGED vars
  BY <1>6 DEF vars, SocketsInv, TypeInv, ObjectInv, Owners, InUse, Links, NameInv, KilledInv
<1> QED
  BY <1>1, <1>2, <1>3, <1>4, <1>5, <1>6 DEF Next

(* Every open socket belongs to one object or waits to be accepted, every   *)
(* descriptor is open, and who is connected has a connected socket,         *)
(* whatever is bound, connected, accepted and closed (tcp.cpp:33-51,        *)
(* unix.cpp:29-43, socket.cpp:149-162).                                     *)
THEOREM SocketsCorrect == Spec => []DescriptorsOwned
<1>1. SocketsInv => DescriptorsOwned
  BY InvImplies
<1> QED
  BY InvInit, InvStep, <1>1, PTL DEF Spec

(* The mode of a socket is the one remembered, and the one that was asked   *)
(* for until a bind or a connect fails (tcp.cpp:155-164, socket.cpp:106-128)*)
THEOREM ModesCorrect == Spec => []ModeKept
<1>1. SocketsInv => ModeKept
  BY InvImplies
<1> QED
  BY InvInit, InvStep, <1>1, PTL DEF Spec

(* No object whose user asked for nopipe lets a signal end the process      *)
(* (socket.cpp:164-174, tcp.cpp:108-109).                                   *)
THEOREM SignalsCorrect == Spec => []KilledUnprotected
<1>1. SocketsInv => KilledUnprotected
  BY InvImplies
<1> QED
  BY InvInit, InvStep, <1>1, PTL DEF Spec
=============================================================================
