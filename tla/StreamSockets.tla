--------------------------- MODULE StreamSockets ---------------------------
(* The stream sockets of networkio: tcp_server and tcp_client, unix_server  *)
(* and unix_client, on the common base networkio::socket::socket, around a  *)
(* kernel that refuses, resets and ends connections.  All servers use one   *)
(* port, or one path.                                                       *)
EXTENDS Integers, FiniteSets

CONSTANTS
  Servers,     \* tcp_server or unix_server objects
  Clients,     \* connecting tcp_client or unix_client objects
  Accepted,    \* the objects accept() returns: as many as live at a time
  MaxSockets,  \* kernel sockets
  NoSocket     \* INVALID_SOCKET, and the peer that is gone

ASSUME ObjectsAssumption == /\ Servers \cap Clients = {}
                            /\ Accepted \cap (Servers \cup Clients) = {}
ASSUME SocketsAssumption == MaxSockets \in Nat /\ NoSocket \notin 1 .. MaxSockets

VARIABLES
  family,      \* "tcp" or "unix"
  object,      \* the C++ objects
  kernel,      \* the kernel's sockets
  name,        \* the socket that the port or the path leads to
  killed       \* the object whose send() raised SIGPIPE, or NoSocket

vars == <<family, object, kernel, name, killed>>

Sockets == 1 .. MaxSockets
Objects == Servers \cup Clients \cup Accepted

(* asked: the user, of the object or of the server it came from, has asked  *)
(* for set_blocking(false) and set_nopipe(true); lost: a connect or a bind  *)
(* has failed since.                                                        *)
(* saved is the local variable `blocking` of bind.                          *)
NewObject == [m_sockfd |-> NoSocket, m_blocking |-> TRUE, m_nopipe |-> FALSE,
              m_connected |-> FALSE, alive |-> TRUE, asked |-> FALSE,
              lost |-> FALSE, binding |-> FALSE, saved |-> TRUE]

(* A kernel socket: of a pending connection, via is the listening one.      *)
Unused == [kind |-> "unused", blocking |-> TRUE, peer |-> NoSocket,
           via |-> NoSocket]

Init ==
  /\ family \in {"tcp", "unix"}
  /\ object = [o \in Objects |-> [NewObject EXCEPT !.alive = o \notin Accepted]]
  /\ kernel = [k \in Sockets |-> Unused]
  /\ name = NoSocket
  /\ killed = NoSocket

(* The kernel hands out the lowest unused number.                           *)
Lowest(k, without) ==
  LET unused == {j \in Sockets \ without : kernel[j].kind = "unused"} IN
  k \in unused /\ \A j \in unused : k <= j

(* What an object does next: it is not inside bind, nor the process dead.   *)
Ready(o) == killed = NoSocket /\ object[o].alive /\ ~object[o].binding

-----------------------------------------------------------------------------
(* ::close(): the peer sees the end, pending connections are gone with the  *)
(* listening socket.                                                        *)
Gone(k) == IF k = NoSocket THEN {}
           ELSE {k} \cup {p \in Sockets : kernel[p].via = k}

Closed(k) ==
  [j \in Sockets |->
     IF j \in Gone(k) THEN Unused
     ELSE IF kernel[j].peer \in Gone(k) THEN [kernel[j] EXCEPT !.peer = NoSocket]
     ELSE kernel[j]]

(* Closing a listening tcp socket frees the port; unix_server::close unlinks*)
(* the path, whoever has bound it meanwhile.                                *)
ForgetsName(o) ==
  \/ family = "tcp" /\ name = object[o].m_sockfd
  \/ family = "unix" /\ o \in Servers

NameWithout(o) == IF ForgetsName(o) THEN NoSocket ELSE name

(* close() of a server or a client; an accepted one is dropped afterwards,  *)
(* its destructor closes it as well.                                        *)
Close(o) ==
  /\ Ready(o)
  /\ kernel' = Closed(object[o].m_sockfd)
  /\ name' = NameWithout(o)
  /\ object' = IF o \in Accepted
                 THEN [object EXCEPT ![o] = [NewObject EXCEPT !.alive = FALSE]]
                 ELSE [object EXCEPT ![o].m_sockfd = NoSocket,
                                     ![o].m_connected = FALSE]
  /\ UNCHANGED <<family, killed>>

(* set_blocking(false) and set_nopipe(true), as the servers and clients of  *)
(* the library are set up: of the socket, or remembered for create_socket.  *)
Configure(o) ==
  /\ Ready(o)
  /\ object' = [object EXCEPT ![o].m_blocking = FALSE, ![o].m_nopipe = TRUE,
                              ![o].asked = TRUE, ![o].lost = FALSE]
  /\ kernel' = [k \in Sockets |-> IF k = object[o].m_sockfd
                                    THEN [kernel[k] EXCEPT !.blocking = FALSE]
                                    ELSE kernel[k]]
  /\ UNCHANGED <<family, name, killed>>

(* Mutant of Created: unix_socket::create_socket forgets the old socket.    *)
CreatedAnew(o, k) ==
  LET old == object[o].m_sockfd IN
  IF family = "tcp" /\ old # NoSocket
    THEN [fd |-> old, table |-> kernel]
    ELSE [fd |-> k, table |-> [kernel EXCEPT ![k] = [Unused EXCEPT !.kind = "new"]]]

(* create_socket: an open tcp socket is used again, an open unix socket is  *)
(* closed first.  k is the new socket.                                      *)
Created(o, k) ==
  LET old == object[o].m_sockfd IN
  IF family = "tcp" /\ old # NoSocket
    THEN [fd |-> old, table |-> kernel]
    ELSE [fd |-> k,
          table |-> [Closed(old) EXCEPT ![k] = [Unused EXCEPT !.kind = "new"]]]

-----------------------------------------------------------------------------
(* bind: create_socket, unlink (unix), blocking mode; then ::bind and       *)
(* ::listen, which fail when another socket has the name.                   *)
Bind(s) ==
  \E k \in Sockets :
    LET c == Created(s, k) IN
    /\ Lowest(k, {}) /\ Ready(s)
    /\ object' = [object EXCEPT ![s].m_sockfd = c.fd, ![s].m_blocking = TRUE,
                                ![s].saved = object[s].m_blocking,
                                ![s].binding = TRUE]
    /\ kernel' = [c.table EXCEPT ![c.fd].blocking = TRUE]
    /\ name' = IF family = "unix" THEN NoSocket ELSE name
    /\ UNCHANGED <<family, killed>>

(* Mutant of Restored: the mode that bind needed stays.                     *)
BlockingStays(s) == TRUE

(* The blocking mode after bind.                                            *)
Restored(s) == object[s].saved

BindOk(s) ==
  LET k == object[s].m_sockfd IN
  /\ object[s].binding /\ killed = NoSocket
  /\ name = NoSocket /\ kernel[k].kind = "new"
  /\ object' = [object EXCEPT ![s].binding = FALSE, ![s].saved = TRUE,
                              ![s].m_blocking = Restored(s)]
  /\ kernel' = [kernel EXCEPT ![k].kind = "listening",
                              ![k].blocking = Restored(s)]
  /\ name' = k
  /\ UNCHANGED <<family, killed>>

(* The early returns of bind: the socket stays, in blocking mode.           *)
BindFails(s) ==
  /\ object[s].binding /\ killed = NoSocket
  /\ object' = [object EXCEPT ![s].binding = FALSE, ![s].saved = TRUE,
                              ![s].lost = TRUE]
  /\ UNCHANGED <<family, kernel, name, killed>>

(* connect() with somebody listening.  j is the kernel's socket for the     *)
(* other end, which accept() will return.  The mode is the one from before. *)
ConnectOk(c) ==
  \E k, j \in Sockets :
    LET n == Created(c, k) IN
    /\ Lowest(k, {}) /\ Lowest(j, {k}) /\ Ready(c)
    /\ name # NoSocket /\ kernel[name].kind = "listening"
    /\ n.table[n.fd].kind = "new"
    /\ object' = [object EXCEPT ![c].m_sockfd = n.fd, ![c].m_connected = TRUE]
    /\ kernel' = [n.table EXCEPT
         ![n.fd] = [kind |-> "connected", blocking |-> object[c].m_blocking,
                    peer |-> j, via |-> NoSocket],
         ![j] = [kind |-> "pending", blocking |-> TRUE, peer |-> n.fd,
                 via |-> name]]
    /\ UNCHANGED <<family, name, killed>>

(* connect() with an address that is not a host and a port.                 *)
ConnectNowhere(c) ==
  \E k \in Sockets :
    LET n == Created(c, k) IN
    /\ Lowest(k, {}) /\ Ready(c)
    /\ object' = [object EXCEPT ![c].m_sockfd = n.fd,
                     ![c].m_connected = family = "tcp" /\ object[c].m_connected]
    /\ kernel' = [n.table EXCEPT ![n.fd].blocking = object[c].m_blocking]
    /\ UNCHANGED <<family, name, killed>>

(* connect() that fails: refused, timed out, or connected already.  A tcp   *)
(* socket stays, a unix socket is closed; the mode is blocking either way.  *)
ConnectFails(c) ==
  \E k \in Sockets :
    LET n == Created(c, k) IN
    /\ Lowest(k, {}) /\ Ready(c)
    /\ object' = [object EXCEPT
         ![c].m_sockfd = IF family = "tcp" THEN n.fd ELSE NoSocket,
         ![c].m_connected = IF family = "tcp" THEN @ ELSE FALSE,
         ![c].m_blocking = TRUE, ![c].lost = TRUE]
    /\ kernel' = IF family = "tcp"
                   THEN [n.table EXCEPT ![n.fd].blocking = TRUE]
                   ELSE Closed(object[c].m_sockfd)
    /\ UNCHANGED <<family, name, killed>>

(* Mutant of Inherited: accept() hands over one of the modes.               *)
InheritedBlocking(s) == [m_blocking |-> object[s].m_blocking, m_nopipe |-> FALSE]

(* accept() hands its modes to the new object.                              *)
Inherited(s) ==
  [m_blocking |-> object[s].m_blocking, m_nopipe |-> object[s].m_nopipe]

Accept(s) ==
  \E a \in Accepted, p \in Sockets :
    /\ Ready(s) /\ ~object[a].alive
    /\ kernel[p].kind = "pending" /\ kernel[p].via = object[s].m_sockfd
    /\ object' = [object EXCEPT ![a] =
         [NewObject EXCEPT !.m_sockfd = p, !.m_connected = TRUE,
            !.m_blocking = Inherited(s).m_blocking,
            !.m_nopipe = Inherited(s).m_nopipe,
            !.asked = object[s].asked, !.lost = object[s].lost]]
    /\ kernel' = [kernel EXCEPT ![p].kind = "connected", ![p].via = NoSocket,
                                ![p].blocking = Inherited(s).m_blocking]
    /\ UNCHANGED <<family, name, killed>>

-----------------------------------------------------------------------------
(* is_connected().                                                          *)
IsConnected(o) ==
  object[o].m_connected /\ (family = "tcp" => object[o].m_sockfd # NoSocket)

Peer(o) == kernel[object[o].m_sockfd].peer

(* read_raw that meets an error, or in tcp the end of the stream with an    *)
(* errno.  Otherwise the end changes nothing: unix_client returns -1 and    *)
(* leaves m_connected to its caller, tcp_client returns 0.                  *)
ReadEnd(o) ==
  /\ Ready(o) /\ IsConnected(o) /\ Peer(o) = NoSocket
  /\ object' = [object EXCEPT ![o].m_connected = FALSE]
  /\ UNCHANGED <<family, kernel, name, killed>>

(* write_raw without an other end: an error, and without MSG_NOSIGNAL the   *)
(* signal that ends the process.                                            *)
WriteBroken(o) ==
  /\ Ready(o) /\ IsConnected(o) /\ Peer(o) = NoSocket
  /\ IF object[o].m_nopipe
       THEN /\ object' = [object EXCEPT ![o].m_connected = FALSE]
            /\ UNCHANGED killed
       ELSE killed' = o /\ UNCHANGED object
  /\ UNCHANGED <<family, kernel, name>>

Next ==
  \/ \E s \in Servers : Bind(s) \/ BindOk(s) \/ BindFails(s) \/ Accept(s)
  \/ \E c \in Clients : ConnectOk(c) \/ ConnectNowhere(c) \/ ConnectFails(c)
  \/ \E o \in Clients \cup Accepted : ReadEnd(o) \/ WriteBroken(o)
  \/ \E o \in Servers \cup Clients : Configure(o)
  \/ \E o \in Objects : Close(o)

Spec == Init /\ [][Next]_vars

-----------------------------------------------------------------------------
(* The variables keep their types.                                          *)
TypeOK ==
  /\ family \in {"tcp", "unix"}
  /\ \A o \in Objects :
       /\ object[o].m_sockfd \in Sockets \cup {NoSocket}
       /\ {object[o].m_blocking, object[o].m_nopipe, object[o].m_connected}
            \subseteq BOOLEAN
  /\ \A k \in Sockets :
       /\ kernel[k].kind \in {"unused", "new", "listening", "pending", "connected"}
       /\ kernel[k].peer \in (Sockets \ {k}) \cup {NoSocket}
  /\ name \in Sockets \cup {NoSocket}
  /\ killed \in Objects \cup {NoSocket}

(* Every open socket belongs to one object, or waits to be accepted, and    *)
(* every object's descriptor is open: none leaks and none is closed twice,  *)
(* whatever is bound, connected and closed in which order (tcp.cpp:33-51,   *)
(* unix.cpp:29-43, socket.cpp:149-162).  is_connected() is true only of a   *)
(* socket that was connected and is still open, and the port or the path    *)
(* leads to a socket that still listens, or nowhere (unix.cpp:51-64).       *)
DescriptorsOwned ==
  /\ TypeOK
  /\ \A o \in Objects : object[o].m_sockfd # NoSocket =>
       /\ kernel[object[o].m_sockfd].kind \notin {"unused", "pending"}
       /\ \A q \in Objects \ {o} : object[q].m_sockfd # object[o].m_sockfd
  /\ \A k \in Sockets : kernel[k].kind \in {"new", "listening", "connected"} =>
       \E o \in Objects : object[o].m_sockfd = k
  /\ \A o \in Clients \cup Accepted : IsConnected(o) =>
       /\ object[o].m_sockfd # NoSocket
       /\ kernel[object[o].m_sockfd].kind = "connected"
  /\ name # NoSocket => kernel[name].kind = "listening"

(* m_blocking is the mode of the socket, and outside of bind it is the one  *)
(* the user asked for, of the object or of the server it came from, unless  *)
(* a connect or a bind has failed since (tcp.cpp:108, 155-164,              *)
(* socket.cpp:106-128).                                                     *)
ModeKept ==
  \A o \in Objects :
    /\ object[o].m_sockfd # NoSocket =>
         kernel[object[o].m_sockfd].blocking = object[o].m_blocking
    /\ (~object[o].binding /\ ~object[o].lost) =>
         object[o].m_blocking = ~object[o].asked

(* The process dies of SIGPIPE only by an object whose user, or whose       *)
(* server's user before it was accepted, left nopipe off (socket.cpp:       *)
(* 164-174, tcp.cpp:108-109).                                               *)
KilledUnprotected == killed # NoSocket => ~object[killed].asked
=============================================================================
