----------------------------- MODULE MuxServer -----------------------------
(* networkio::mux::server on worker threads: accept_client(),               *)
(* process_client(), the endpoint table and its mutex, and the calls that    *)
(* handlers make on the client object.  A connection is handled by the       *)
(* worker that accepted it and by no other (ConcurrentServer); what its      *)
(* packets carry is PacketProto's business.                                  *)
EXTENDS Integers, FiniteSets

CONSTANTS Clients,      \* connections, each accepted at most once
          Workers,      \* worker threads
          Free,         \* nobody: no owner, no holder of the mutex
          HandlerOps,   \* what handlers do with their client
          RegisterIn,   \* the kinds of handlers that register endpoints
          MaxPackets    \* bound: packets a peer sends to endpoints

ASSUME FreeAssumption == Free \notin Workers
ASSUME OpsAssumption == HandlerOps \subseteq {"return", "call", "disconnect"}
ASSUME RegisterAssumption == RegisterIn \subseteq {"connect", "endpoint"}
ASSUME MaxPacketsAssumption == MaxPackets \in Nat

VARIABLES
  owner,    \* the worker that has the client in its list
  state,    \* m_connection_state of the client object
  sock,     \* its socket; "broken": the peer is gone, not yet noticed
  idle,     \* more than a second has passed since its m_sent_tp
  unread,   \* packets that wait to be read
  sent,     \* packets the peer has sent (bounds the run)
  told,     \* disconnect events raised for it (history)
  gone,     \* it was dropped from the list
  mutex,    \* the holder of m_endpoints_mutex
  pc, at    \* per worker: where it is, with which client

vars == <<owner, state, sock, idle, unread, sent, told, gone, mutex, pc, at>>

Init == /\ owner = [c \in Clients |-> Free]
        /\ state = [c \in Clients |-> -1]
        /\ sock = [c \in Clients |-> "open"]
        /\ idle = [c \in Clients |-> FALSE]
        /\ unread = [c \in Clients |-> 0]
        /\ sent = [c \in Clients |-> 0]
        /\ told = [c \in Clients |-> 0]
        /\ gone = [c \in Clients |-> FALSE]
        /\ mutex = Free
        /\ pc = [w \in Workers |-> "pass"]
        /\ at \in [Workers -> Clients]

Goto(w, l) == pc' = [pc EXCEPT ![w] = l]
At(w, c, l) == at[w] = c /\ pc[w] = l

-----------------------------------------------------------------------------
(* The client object, used by the worker that owns it.                      *)

(* Mutant of HandleDisconnect: the socket stays open.                       *)
HandleDisconnectOpen(c) ==
  /\ told' = [told EXCEPT ![c] = IF state[c] > 0 THEN @ + 1 ELSE @]
  /\ state' = [state EXCEPT ![c] = -1]
  /\ UNCHANGED sock

(* handle_disconnect(): the event is relayed to the server's handler.       *)
HandleDisconnect(c) ==
  /\ told' = [told EXCEPT ![c] = IF state[c] > 0 THEN @ + 1 ELSE @]
  /\ sock' = [sock EXCEPT ![c] = IF state[c] > 0 THEN "closed" ELSE @]
  /\ state' = [state EXCEPT ![c] = -1]

(* process_client() returns false and the list erases the client.           *)
Drop(c) == gone' = [gone EXCEPT ![c] = TRUE]

(* call(): the write works, is refused, or finds the connection broken,     *)
(* which closes it.                                                         *)
Call(c) ==
  \/ /\ state[c] = 1 /\ sock[c] # "closed"
     /\ idle' = [idle EXCEPT ![c] = FALSE]
     /\ UNCHANGED <<state, sock, told>>
  \/ /\ state[c] = 1 /\ sock[c] # "open"
     /\ HandleDisconnect(c)
     /\ UNCHANGED idle
  \/ /\ state[c] # 1
     /\ UNCHANGED <<state, sock, told, idle>>

(* disconnect().                                                            *)
Disconnect(c) ==
  /\ told' = [told EXCEPT ![c] = IF state[c] = 1 THEN @ + 1 ELSE @]
  /\ state' = [state EXCEPT ![c] = -1]
  /\ sock' = [sock EXCEPT ![c] = "closed"]
  /\ UNCHANGED idle

(* The body of a connect or endpoint handler.                               *)
Handler(c) == \/ /\ "return" \in HandlerOps
                 /\ UNCHANGED <<state, sock, told, idle>>
              \/ "call" \in HandlerOps /\ Call(c)
              \/ "disconnect" \in HandlerOps /\ Disconnect(c)

-----------------------------------------------------------------------------
(* accept_client(): the client object has state 1 before the connect event. *)
Accept(w, c) ==
  /\ pc[w] = "pass"
  /\ owner[c] = Free
  /\ owner' = [owner EXCEPT ![c] = w]
  /\ state' = [state EXCEPT ![c] = 1]
  /\ at' = [at EXCEPT ![w] = c]
  /\ Goto(w, "connect")
  /\ UNCHANGED <<sock, idle, unread, sent, told, gone, mutex>>

ConnectEvent(w, c) ==
  /\ At(w, c, "connect")
  /\ Handler(c)
  /\ Goto(w, "pass")
  /\ UNCHANGED <<owner, unread, sent, gone, mutex, at>>

(* process_client(): m_proto->process() works.                              *)
Process(w, c) ==
  /\ pc[w] = "pass"
  /\ owner[c] = w /\ ~gone[c]
  /\ sock[c] # "closed"
  /\ at' = [at EXCEPT ![w] = c]
  /\ Goto(w, "read")
  /\ UNCHANGED <<owner, state, sock, idle, unread, sent, told, gone, mutex>>

(* Mutant of ProcessFails: the client is dropped without the event.         *)
ProcessFailsSilently(w, c) ==
  /\ pc[w] = "pass"
  /\ owner[c] = w /\ ~gone[c]
  /\ sock[c] # "open"
  /\ sock' = [sock EXCEPT ![c] = "closed"]
  /\ Drop(c)
  /\ UNCHANGED <<owner, state, idle, unread, sent, told, mutex, pc, at>>

(* It fails, on a closed or a broken connection: the server raises the      *)
(* disconnect event, whatever m_connection_state says.                      *)
ProcessFails(w, c) ==
  /\ pc[w] = "pass"
  /\ owner[c] = w /\ ~gone[c]
  /\ sock[c] # "open"
  /\ sock' = [sock EXCEPT ![c] = "closed"]
  /\ told' = [told EXCEPT ![c] = @ + 1]
  /\ Drop(c)
  /\ UNCHANGED <<owner, state, idle, unread, sent, mutex, pc, at>>

(* read_packet() returns a packet for an endpoint (heartbeats change        *)
(* nothing).                                                                *)
ReadPacket(w, c) ==
  /\ At(w, c, "read")
  /\ unread[c] > 0 /\ sock[c] # "closed"
  /\ unread' = [unread EXCEPT ![c] = @ - 1]
  /\ Goto(w, "lock")
  /\ UNCHANGED <<owner, state, sock, idle, sent, told, gone, mutex, at>>

(* It returns nothing; the end of the stream closes the socket.             *)
ReadNothing(w, c) ==
  /\ At(w, c, "read")
  /\ unread[c] = 0 \/ sock[c] = "closed"
  /\ sock' = [sock EXCEPT ![c] = IF @ = "broken" THEN "closed" ELSE @]
  /\ Goto(w, "beat")
  /\ UNCHANGED <<owner, state, idle, unread, sent, told, gone, mutex, at>>

(* The end need not be noticed by the read.                                 *)
ReadMissesEnd(w, c) ==
  /\ At(w, c, "read")
  /\ sock[c] = "broken"
  /\ Goto(w, "beat")
  /\ UNCHANGED <<owner, state, sock, idle, unread, sent, told, gone, mutex, at>>

(* The endpoint's handler runs with m_endpoints_mutex held.                 *)
LockEndpoints(w, c) ==
  /\ At(w, c, "lock")
  /\ mutex = Free
  /\ mutex' = w
  /\ Goto(w, "endpoint")
  /\ UNCHANGED <<owner, state, sock, idle, unread, sent, told, gone, at>>

(* Mutant of EndpointHandler: the early return of a missing endpoint skips  *)
(* the unlock.                                                              *)
EndpointKeepsMutex(w, c) ==
  /\ At(w, c, "endpoint")
  /\ Handler(c)
  /\ Goto(w, "read")
  /\ UNCHANGED <<owner, unread, sent, gone, at, mutex>>

(* The handler returns, the mutex is released, and the loop reads again.    *)
EndpointHandler(w, c) ==
  /\ At(w, c, "endpoint")
  /\ Handler(c)
  /\ mutex' = Free
  /\ Goto(w, "read")
  /\ UNCHANGED <<owner, unread, sent, gone, at>>

(* A handler calls server::endpoint() last.                                 *)
RegisterBegin(w, c) ==
  /\ at[w] = c /\ pc[w] \in RegisterIn
  /\ Handler(c)
  /\ Goto(w, "register")
  /\ UNCHANGED <<owner, unread, sent, gone, mutex, at>>

(* endpoint() locks, stores and unlocks, and the connect handler returns.   *)
(* An endpoint handler never gets here: its own thread holds the mutex.     *)
Register(w, c) ==
  /\ At(w, c, "register")
  /\ mutex = Free
  /\ Goto(w, "pass")
  /\ UNCHANGED <<owner, state, sock, idle, unread, sent, told, gone, mutex, at>>

(* check_heartbeat(): nothing is due, or the write works.                   *)
Beat(w, c) ==
  /\ At(w, c, "beat")
  /\ ~idle[c] \/ sock[c] # "closed"
  /\ idle' = [idle EXCEPT ![c] = FALSE]
  /\ Goto(w, "pass")
  /\ UNCHANGED <<owner, state, sock, unread, sent, told, gone, mutex, at>>

(* Mutant of BeatFails: the result of the write is ignored.                 *)
BeatIgnored(w, c) ==
  /\ At(w, c, "beat")
  /\ idle[c] /\ sock[c] # "open"
  /\ Goto(w, "pass")
  /\ UNCHANGED <<owner, state, sock, idle, unread, sent, told, gone, mutex, at>>

(* The write fails: the client handles the disconnect and is dropped.       *)
BeatFails(w, c) ==
  /\ At(w, c, "beat")
  /\ idle[c] /\ sock[c] # "open"
  /\ HandleDisconnect(c)
  /\ Drop(c)
  /\ Goto(w, "pass")
  /\ UNCHANGED <<owner, idle, unread, sent, mutex, at>>

-----------------------------------------------------------------------------
(* The peer and the clock.                                                  *)

PeerSends(c) ==
  /\ sock[c] = "open"
  /\ sent[c] < MaxPackets
  /\ sent' = [sent EXCEPT ![c] = @ + 1]
  /\ unread' = [unread EXCEPT ![c] = @ + 1]
  /\ UNCHANGED <<owner, state, sock, idle, told, gone, mutex, pc, at>>

Break(c) ==
  /\ sock[c] = "open"
  /\ sock' = [sock EXCEPT ![c] = "broken"]
  /\ UNCHANGED <<owner, state, idle, unread, sent, told, gone, mutex, pc, at>>

SecondPasses(c) ==
  /\ ~idle[c] /\ ~gone[c]
  /\ idle' = [idle EXCEPT ![c] = TRUE]
  /\ UNCHANGED <<owner, state, sock, unread, sent, told, gone, mutex, pc, at>>

-----------------------------------------------------------------------------
Handle(w, c) == \/ Process(w, c) \/ ProcessFails(w, c)
                \/ ReadPacket(w, c) \/ ReadNothing(w, c) \/ ReadMissesEnd(w, c)
                \/ LockEndpoints(w, c) \/ EndpointHandler(w, c)
                \/ Beat(w, c) \/ BeatFails(w, c)
                \/ ConnectEvent(w, c)
                \/ RegisterBegin(w, c) \/ Register(w, c)

Next == \E c \in Clients :
          \/ \E w \in Workers : Accept(w, c) \/ Handle(w, c)
          \/ PeerSends(c) \/ Break(c) \/ SecondPasses(c)

Spec == Init /\ [][Next]_vars

(* A worker goes on with the client it handles, gets to each of its clients *)
(* in every pass (ConcurrentServer's ServedAgain) and to the endpoint mutex *)
(* when others let go of it; time passes; the kernel does not take          *)
(* heartbeats for a broken connection for ever.                             *)
FairSpec ==
  /\ Spec
  /\ \A w \in Workers :
       /\ WF_vars(pc[w] # "pass" /\ \E c \in Clients : Handle(w, c))
       /\ SF_vars(\E c \in Clients : LockEndpoints(w, c) \/ Register(w, c))
  /\ \A c \in Clients :
       /\ WF_vars(SecondPasses(c))
       /\ SF_vars(\E w \in Workers : Process(w, c) \/ ProcessFails(w, c))
       /\ SF_vars(\E w \in Workers : BeatFails(w, c))

-----------------------------------------------------------------------------
(* Properties.                                                              *)

(* The variables keep their types.                                          *)
TypeOK ==
  /\ owner \in [Clients -> Workers \cup {Free}]
  /\ state \in [Clients -> {-1, 1}]
  /\ sock \in [Clients -> {"open", "broken", "closed"}]
  /\ idle \in [Clients -> BOOLEAN]
  /\ unread \in [Clients -> 0 .. MaxPackets]
  /\ sent \in [Clients -> 0 .. MaxPackets]
  /\ told \in [Clients -> 0 .. 2]
  /\ gone \in [Clients -> BOOLEAN]
  /\ mutex \in Workers \cup {Free}
  /\ pc \in [Workers -> {"pass", "connect", "read", "lock", "endpoint",
                          "register", "beat"}]
  /\ at \in [Workers -> Clients]

(* A client that is dropped was reported by a disconnect event, whichever   *)
(* call noticed its end (mux_server.cpp:88-94, 122-124); two events are     *)
(* raised only if a handler's call() or disconnect() closed it first, a     *)
(* client in the list whose session is up was not reported.  The variables  *)
(* keep their types meanwhile.                                              *)
DropIsTold ==
  /\ TypeOK
  /\ \A c \in Clients :
       /\ gone[c] => told[c] >= 1
       /\ told[c] = 2 => state[c] = -1
       /\ state[c] = 1 /\ ~gone[c] => told[c] = 0

(* No endpoint handler runs for a client whose end was reported to the      *)
(* handlers before (mux_server.cpp:98-118).                                 *)
NoHandlerAfterDisconnect ==
  [][\A w \in Workers, c \in Clients : EndpointHandler(w, c) => told[c] = 0]_vars

(* An accepted connection that breaks is noticed and dropped, although its  *)
(* reads may never see the end and other workers hold the endpoint mutex    *)
(* (mux_server.cpp:105-124).                                                *)
BrokenIsDropped ==
  \A c \in Clients : (owner[c] # Free /\ sock[c] = "broken") ~> gone[c]

(* A packet that was read reaches its handler, and a handler that registers *)
(* an endpoint gets to do it: the endpoint mutex is always released         *)
(* (mux_server.cpp:31-44, 105-116).  With "endpoint" in RegisterIn this     *)
(* fails: the callback waits for its own thread.                            *)
MutexReleased ==
  \A w \in Workers : /\ (pc[w] = "lock") ~> (pc[w] = "endpoint")
                     /\ (pc[w] = "register") ~> (pc[w] = "pass")
=============================================================================
