-------------------------- MODULE ConcurrentServer --------------------------
(* networkio::socket::tcp::concurrent_server: the main thread, the worker   *)
(* threads of start(), the clients each of them owns, and shutdown().  The   *)
(* virtual accept_client() is the accept() of tcp_server (select, then       *)
(* ::accept on the non-blocking listening socket); the virtual               *)
(* process_client() answers TRUE to keep a client and FALSE to drop it.      *)
EXTENDS Integers, SequencesExt

CONSTANTS Clients,      \* those who connect, each once
          MaxThreads    \* bound: the largest value given to set_threads

ASSUME MaxThreadsAssumption == MaxThreads \in Nat

Main == 0
Workers == 1 .. MaxThreads
Threads == {Main} \cup Workers

VARIABLES
  threads,    \* m_threads
  active,     \* m_threads_active
  listening,  \* m_server is bound and not closed
  backlog,    \* connections waiting in the kernel, oldest first
  arrived,    \* the clients that have connected so far
  clients,    \* m_clients of the main thread, local_clients of a worker
  pc,         \* where each thread is
  iter,       \* the position of the iterator in clients[t]
  done        \* the clients handled in this pass over the list (history)

vars == <<threads, active, listening, backlog, arrived, clients, pc, iter, done>>

Init ==
  /\ threads = 0
  /\ active = FALSE
  /\ listening = FALSE
  /\ backlog = <<>>
  /\ arrived = {}
  /\ clients = [t \in Threads |-> <<>>]
  /\ pc = [t \in Threads |-> "off"]
  /\ iter = [t \in Threads |-> 0]
  /\ done = [t \in Threads |-> {}]

-----------------------------------------------------------------------------
(* Configuration and start.                                                 *)

SetThreads(n) ==
  /\ pc[Main] = "off"
  /\ threads' = n
  /\ UNCHANGED <<active, listening, backlog, arrived, clients, pc, iter, done>>

Start ==
  /\ pc[Main] = "off"
  /\ listening' = TRUE
  /\ active' = TRUE
  /\ pc' = [t \in Threads |-> CASE t = Main -> "ready"
                                [] t \in 1 .. threads -> "begin"
                                [] OTHER -> "off"]
  /\ UNCHANGED <<threads, backlog, arrived, clients, iter, done>>

(* A client connects; the kernel keeps it until somebody accepts it.        *)
Connect(c) ==
  /\ listening
  /\ c \notin arrived
  /\ arrived' = arrived \cup {c}
  /\ backlog' = Append(backlog, c)
  /\ UNCHANGED <<threads, active, listening, clients, pc, iter, done>>

-----------------------------------------------------------------------------
(* One pass of a thread: accept at most one client, then handle each of its *)
(* clients once.                                                            *)

(* process() of the main thread does nothing when there are workers.        *)
Process ==
  /\ pc[Main] = "ready"
  /\ threads = 0
  /\ pc' = [pc EXCEPT ![Main] = "select"]
  /\ UNCHANGED <<threads, active, listening, backlog, arrived, clients, iter,
                 done>>

(* A worker looks at m_threads_active once, before its loop.                *)
Begin(t) ==
  /\ pc[t] = "begin"
  /\ pc' = [pc EXCEPT ![t] = IF active THEN "select" ELSE "ended"]
  /\ UNCHANGED <<threads, active, listening, backlog, arrived, clients, iter,
                 done>>

ServeFrom(t, next) == pc' = [pc EXCEPT ![t] = next]
                      /\ iter' = [iter EXCEPT ![t] = 1]
                      /\ done' = [done EXCEPT ![t] = {}]

(* accept(): select() says whether a connection waits.                      *)
Select(t) ==
  /\ pc[t] = "select"
  /\ ServeFrom(t, IF backlog # <<>> THEN "accept" ELSE "serve")
  /\ UNCHANGED <<threads, active, listening, backlog, arrived, clients>>

(* Mutant of Accept: the client also goes to the storage of the server (the *)
(* merge that is commented out in worker()).                                *)
AcceptAndStore(t) ==
  /\ pc[t] = "accept"
  /\ backlog # <<>>
  /\ backlog' = Tail(backlog)
  /\ clients' = [u \in Threads |-> IF u \in {t, Main}
                                  THEN Append(clients[u], Head(backlog))
                                  ELSE clients[u]]
  /\ ServeFrom(t, "serve")
  /\ UNCHANGED <<threads, active, listening, arrived>>

(* accept(): ::accept returns the oldest connection.                        *)
Accept(t) ==
  /\ pc[t] = "accept"
  /\ backlog # <<>>
  /\ backlog' = Tail(backlog)
  /\ clients' = [clients EXCEPT ![t] = Append(@, Head(backlog))]
  /\ ServeFrom(t, "serve")
  /\ UNCHANGED <<threads, active, listening, arrived>>

(* accept(): the new socket cannot be configured and is closed again.       *)
AcceptDrops(t) ==
  /\ pc[t] = "accept"
  /\ backlog # <<>>
  /\ backlog' = Tail(backlog)
  /\ ServeFrom(t, "serve")
  /\ UNCHANGED <<threads, active, listening, arrived, clients>>

(* Mutant of AcceptNothing: a blocking listening socket waits for ever for  *)
(* a connection that another thread has taken.                              *)
AcceptBlocks(t) == FALSE /\ pc[t] = "accept" /\ UNCHANGED vars

(* accept(): another thread took the connection that select() had seen; the *)
(* listening socket does not block.                                         *)
AcceptNothing(t) ==
  /\ pc[t] = "accept"
  /\ backlog = <<>>
  /\ ServeFrom(t, "serve")
  /\ UNCHANGED <<threads, active, listening, backlog, arrived, clients>>

Current(t) == clients[t][iter[t]]
Serving(t) == pc[t] = "serve" /\ iter[t] <= Len(clients[t])

(* process_client() keeps the client: ++iter.                               *)
ProcessClient(t) ==
  /\ Serving(t)
  /\ done' = [done EXCEPT ![t] = @ \cup {Current(t)}]
  /\ iter' = [iter EXCEPT ![t] = @ + 1]
  /\ UNCHANGED <<threads, active, listening, backlog, arrived, clients, pc>>

(* Mutant of DropClient: the iterator moves on after erase().               *)
DropClientAndSkip(t) ==
  /\ Serving(t)
  /\ clients' = [clients EXCEPT ![t] = RemoveAt(@, iter[t])]
  /\ iter' = [iter EXCEPT ![t] = @ + 1]
  /\ UNCHANGED <<threads, active, listening, backlog, arrived, pc, done>>

(* process_client() gives the client up: iter = erase(iter).                *)
DropClient(t) ==
  /\ Serving(t)
  /\ clients' = [clients EXCEPT ![t] = RemoveAt(@, iter[t])]
  /\ UNCHANGED <<threads, active, listening, backlog, arrived, pc, iter, done>>

(* Mutant of EndPass: a worker accepts only when it has no clients left.    *)
EndPassServesOn(t) ==
  /\ pc[t] = "serve" /\ ~Serving(t)
  /\ IF t # Main /\ clients[t] # <<>>
       THEN ServeFrom(t, "serve")
       ELSE /\ pc' = [pc EXCEPT ![t] = IF t = Main THEN "ready" ELSE "select"]
            /\ UNCHANGED <<iter, done>>
  /\ UNCHANGED <<threads, active, listening, backlog, arrived, clients>>

(* The pass is over: a worker starts the next one, process() returns.       *)
EndPass(t) ==
  /\ pc[t] = "serve" /\ ~Serving(t)
  /\ pc' = [pc EXCEPT ![t] = IF t = Main THEN "ready" ELSE "select"]
  /\ UNCHANGED <<threads, active, listening, backlog, arrived, clients, iter,
                 done>>

-----------------------------------------------------------------------------
(* shutdown(), called by the main thread between two calls of process().    *)

Shutdown ==
  /\ pc[Main] = "ready"
  /\ active' = FALSE
  /\ pc' = [pc EXCEPT ![Main] = "join"]
  /\ UNCHANGED <<threads, listening, backlog, arrived, clients, iter, done>>

Joined == \A t \in 1 .. threads : pc[t] = "ended"

(* All threads joined: the clients are dropped and the socket is closed,    *)
(* with the connections that wait on it.                                    *)
CloseDown ==
  /\ pc[Main] = "join"
  /\ Joined
  /\ clients' = [clients EXCEPT ![Main] = <<>>]
  /\ listening' = FALSE
  /\ backlog' = <<>>
  /\ pc' = [pc EXCEPT ![Main] = "down"]
  /\ UNCHANGED <<threads, active, arrived, iter, done>>

-----------------------------------------------------------------------------
Pass(t) == \/ Begin(t) \/ Select(t)
           \/ Accept(t) \/ AcceptDrops(t) \/ AcceptNothing(t)
           \/ ProcessClient(t) \/ DropClient(t) \/ EndPass(t)

Next == \/ \E n \in 0 .. MaxThreads : SetThreads(n)
        \/ Start
        \/ \E c \in Clients : Connect(c)
        \/ Process
        \/ \E t \in Threads : Pass(t)
        \/ Shutdown
        \/ CloseDown

Spec == Init /\ [][Next]_vars

(* Threads are scheduled; the main thread calls process() again and again   *)
(* (run()), unless it calls shutdown().                                     *)
FairSpec == /\ Spec
            /\ \A t \in Threads : WF_vars(Pass(t))
            /\ WF_vars(Process)
            /\ WF_vars(CloseDown)

-----------------------------------------------------------------------------
(* Properties.                                                              *)

(* The variables keep their types.                                          *)
TypeOK ==
  /\ threads \in 0 .. MaxThreads
  /\ active \in BOOLEAN
  /\ listening \in BOOLEAN
  /\ backlog \in Seq(Clients)
  /\ arrived \subseteq Clients
  /\ clients \in [Threads -> Seq(Clients)]
  /\ pc \in [Threads -> {"off", "ready", "begin", "select", "accept", "serve",
                         "ended", "join", "down"}]
  /\ iter \in [Threads -> Nat]
  /\ done \in [Threads -> SUBSET Clients]

NoRepetition(s) == \A i, j \in 1 .. Len(s) : s[i] = s[j] => i = j
Apart(s, u) == \A i \in 1 .. Len(s), j \in 1 .. Len(u) : s[i] # u[j]

(* A connection is in one place: it waits in the backlog or one thread owns *)
(* it, once (concurrent_server.cpp:133-176: all workers accept on the same  *)
(* socket).  The packet layer relies on it: one thread reads a connection.  *)
OneOwner ==
  /\ NoRepetition(backlog)
  /\ \A t \in Threads : NoRepetition(clients[t]) /\ Apart(clients[t], backlog)
  /\ \A t, u \in Threads : t # u => Apart(clients[t], clients[u])

(* A pass handles every client of its thread exactly once, whatever it      *)
(* accepted or erased (concurrent_server.cpp:163-170, 89-96): nobody is     *)
(* handled twice, and nobody is left out when the pass ends.                *)
EachOncePerPass ==
  [][\A t \in Threads :
       /\ ProcessClient(t) => Current(t) \notin done[t]
       /\ (pc[t] = "serve" /\ pc'[t] # "serve") => Range(clients[t]) \subseteq done[t]]_vars

(* A connection that waits is accepted, or refused by a failing accept,     *)
(* unless the server is shut down: a thread that is busy with its clients,  *)
(* or loses the race for a connection, comes back to accept.                *)
PendingAccepted ==
  \A c \in Clients : (c \in Range(backlog)) ~> (c \notin Range(backlog) \/ ~active)

(* An owned client is handled again and again until it is dropped.          *)
ServedAgain ==
  \A c \in Clients, t \in Threads :
    (c \in Range(clients[t]) /\ active)
      ~> (c \in done[t] \/ c \notin Range(clients[t]) \/ ~active)

(* concurrent_server.h:76: "shutdown the server and all associated threads".*)
ShutdownReturns == (pc[Main] = "join") ~> (pc[Main] = "down")
=============================================================================
