--------------------------- MODULE MuxServerProofs ---------------------------
(* Proofs about MuxServer, for any clients, workers and packets: which      *)
(* disconnect events a client's end raises, whoever notices it, and that no *)
(* endpoint handler runs after them.                                        *)
EXTENDS MuxServer, TLAPS

-----------------------------------------------------------------------------
(* The inductive invariant.                                                 *)

(* A client is not accepted, up and not reported, closed by its own object  *)
(* and reported once, or dropped: then it was reported once more unless it  *)
(* was dropped by the heartbeat.                                            *)
ClientInv(c) ==
  /\ owner[c] = Free => state[c] = -1 /\ told[c] = 0 /\ ~gone[c]
  /\ owner[c] # Free /\ ~gone[c] =>
       \/ state[c] = 1 /\ told[c] = 0
       \/ state[c] = -1 /\ told[c] = 1 /\ sock[c] = "closed"
  /\ gone[c] => \/ state[c] = 1 /\ told[c] = 1
                \/ state[c] = -1 /\ told[c] \in {1, 2}
  /\ unread[c] <= sent[c]

(* A worker handles a client of its own list; between the read of a packet  *)
(* and its handler nobody reports the client, the mutex notwithstanding.    *)
WorkerInv(w) ==
  /\ pc[w] # "pass" => owner[at[w]] = w /\ ~gone[at[w]]
  /\ pc[w] \in {"lock", "endpoint"} => told[at[w]] = 0

EventsInv == /\ TypeOK
             /\ \A c \in Clients : ClientInv(c)
             /\ \A w \in Workers : WorkerInv(w)

LEMMA InitInv == Init => EventsInv
<1> SUFFICES ASSUME Init PROVE EventsInv
  OBVIOUS
<1>1. TypeOK
  <2>1. /\ mutex = Free
        /\ pc \in [Workers -> {"pass", "connect", "read", "lock", "endpoint",
                                "register", "beat"}]
        /\ at \in [Workers -> Clients] /\ owner \in [Clients -> Workers \cup {Free}]
        /\ state \in [Clients -> {-1, 1}]
        /\ sock \in [Clients -> {"open", "broken", "closed"}]
    BY DEF Init
  <2>2. idle \in [Clients -> BOOLEAN] /\ gone \in [Clients -> BOOLEAN]
    BY Zenon DEF Init
  <2>3. /\ unread \in [Clients -> 0 .. MaxPackets] /\ sent \in [Clients -> 0 .. MaxPackets]
        /\ told \in [Clients -> 0 .. 2]
    BY MaxPacketsAssumption DEF Init
  <2> QED
    BY <2>1, <2>2, <2>3, Zenon DEF TypeOK
<1>2. \A c \in Clients : ClientInv(c)
  BY DEF Init, ClientInv
<1>3. \A w \in Workers : WorkerInv(w)
  BY DEF Init, WorkerInv
<1> QED
  BY <1>1, <1>2, <1>3 DEF EventsInv

-----------------------------------------------------------------------------
(* Steps.                                                                   *)

(* All but one client keep what an event is about.                          *)
OnlyClient(c) ==
  \A d \in Clients : d # c =>
    /\ owner'[d] = owner[d] /\ state'[d] = state[d] /\ sock'[d] = sock[d]
    /\ told'[d] = told[d] /\ gone'[d] = gone[d]
    /\ unread'[d] = unread[d] /\ sent'[d] = sent[d]

(* All but one worker stay where they are.                                  *)
OnlyWorker(w) ==
  \A v \in Workers : v # w => pc'[v] = pc[v] /\ at'[v] = at[v]

(* What a handler may do to a client that is in the list.                   *)
LEMMA HandlerStep ==
  ASSUME EventsInv, NEW c \in Clients, Handler(c), owner[c] # Free, ~gone[c],
         owner' = owner, gone' = gone, unread' = unread, sent' = sent
  PROVE  /\ ClientInv(c)' /\ OnlyClient(c)
         /\ state' \in [Clients -> {-1, 1}]
         /\ sock' \in [Clients -> {"open", "broken", "closed"}]
         /\ idle' \in [Clients -> BOOLEAN]
         /\ told' \in [Clients -> 0 .. 2]
<1>1. TypeOK /\ ClientInv(c)
  BY DEF EventsInv
<1>2. \/ state[c] = 1 /\ told[c] = 0
      \/ state[c] = -1 /\ told[c] = 1 /\ sock[c] = "closed"
  BY <1>1 DEF ClientInv
<1>3. CASE UNCHANGED <<state, sock, told>> /\ idle' \in [Clients -> BOOLEAN]
  BY <1>1, <1>3 DEF ClientInv, OnlyClient, TypeOK
<1>4. CASE /\ state[c] = 1 /\ HandleDisconnect(c) /\ idle' = idle
  <2>1. /\ told' = [told EXCEPT ![c] = 1] /\ sock' = [sock EXCEPT ![c] = "closed"]
        /\ state' = [state EXCEPT ![c] = -1]
    BY <1>1, <1>2, <1>4 DEF HandleDisconnect, TypeOK
  <2> QED
    BY <1>1, <1>4, <2>1 DEF ClientInv, OnlyClient, TypeOK
<1>5. CASE Disconnect(c)
  <2>1. /\ told' = [told EXCEPT ![c] = 1] /\ sock' = [sock EXCEPT ![c] = "closed"]
        /\ state' = [state EXCEPT ![c] = -1] /\ idle' = idle
    <3>1. (IF state[c] = 1 THEN told[c] + 1 ELSE told[c]) = 1
      BY <1>2
    <3> QED
      BY <1>5, <3>1 DEF Disconnect
  <2> QED
    BY <1>1, <2>1 DEF ClientInv, OnlyClient, TypeOK
<1> QED
  <2>1. idle \in [Clients -> BOOLEAN] /\ [idle EXCEPT ![c] = FALSE] \in [Clients -> BOOLEAN]
    BY <1>1 DEF TypeOK
  <2> QED
    BY <1>3, <1>4, <1>5, <2>1 DEF Handler, Call

(* A step of worker w that concerns the client c it owns, or accepts, leaves *)
(* the invariant of the others alone.                                       *)
LEMMA Framed ==
  ASSUME EventsInv, NEW w \in Workers, NEW c \in Clients,
         owner[c] \in {w, Free}, OnlyClient(c), OnlyWorker(w)
  PROVE  /\ \A d \in Clients : d # c => ClientInv(d)'
         /\ \A v \in Workers : v # w => WorkerInv(v)'
<1>1. /\ \A d \in Clients : ClientInv(d)
      /\ \A v \in Workers : WorkerInv(v) /\ at[v] \in Clients
      /\ Free \notin Workers
  BY FreeAssumption DEF EventsInv, TypeOK
<1>2. ASSUME NEW d \in Clients, d # c PROVE ClientInv(d)'
  BY <1>1, <1>2 DEF OnlyClient, ClientInv
<1>3. ASSUME NEW v \in Workers, v # w PROVE WorkerInv(v)'
  <2>1. WorkerInv(v) /\ at[v] \in Clients
    BY <1>1
  <2>2. pc'[v] = pc[v] /\ at'[v] = at[v]
    BY <1>3 DEF OnlyWorker
  <2>3. pc[v] # "pass" => at[v] # c
    BY <1>1, <1>3, <2>1 DEF WorkerInv
  <2> QED
    BY <2>1, <2>2, <2>3 DEF WorkerInv, OnlyClient
<1> QED
  BY <1>2, <1>3

(* A step is put together from what it does to its client and its worker,   *)
(* and what it leaves alone.                                                *)
LEMMA Together ==
  ASSUME EventsInv, NEW w \in Workers, NEW c \in Clients,
         owner[c] \in {w, Free}, OnlyClient(c), OnlyWorker(w),
         TypeOK', ClientInv(c)', WorkerInv(w)'
  PROVE  EventsInv'
BY Framed DEF EventsInv

(* What is known of a worker that handles a client.                         *)
LEMMA Handled ==
  ASSUME EventsInv, NEW w \in Workers, NEW c \in Clients, at[w] = c, pc[w] # "pass"
  PROVE  owner[c] = w /\ owner[c] # Free /\ ~gone[c]
BY FreeAssumption DEF EventsInv, WorkerInv

LEMMA AcceptStep ==
  ASSUME EventsInv, NEW w \in Workers, NEW c \in Clients, Accept(w, c)
  PROVE  EventsInv'
<1>1. TypeOK /\ ClientInv(c) /\ w # Free
  BY FreeAssumption DEF EventsInv
<1>2. TypeOK'
  BY <1>1 DEF Accept, Goto, TypeOK
<1>3. /\ owner[c] = Free /\ owner'[c] = w /\ state'[c] = 1 /\ told'[c] = told[c]
      /\ gone'[c] = gone[c] /\ unread' = unread /\ sent' = sent
      /\ pc'[w] = "connect" /\ at'[w] = c /\ sock' = sock
  BY <1>1 DEF Accept, Goto, TypeOK
<1>4. ClientInv(c)' /\ WorkerInv(w)'
  BY <1>1, <1>3 DEF ClientInv, WorkerInv
<1>5. OnlyClient(c) /\ OnlyWorker(w)
  BY <1>1 DEF OnlyClient, OnlyWorker, Accept, Goto, TypeOK
<1> QED
  BY <1>2, <1>3, <1>4, <1>5, Together

(* The connect event and the endpoint handler, with what they register.     *)
LEMMA HandlersStep ==
  ASSUME EventsInv, NEW w \in Workers, NEW c \in Clients,
         ConnectEvent(w, c) \/ EndpointHandler(w, c) \/ RegisterBegin(w, c)
  PROVE  EventsInv'
<1>1. TypeOK
  BY DEF EventsInv
<1>2. /\ at[w] = c /\ pc[w] # "pass" /\ Handler(c) /\ at' = at
      /\ owner' = owner /\ gone' = gone /\ unread' = unread /\ sent' = sent
      /\ \/ pc' = [pc EXCEPT ![w] = "pass"] \/ pc' = [pc EXCEPT ![w] = "read"]
         \/ pc' = [pc EXCEPT ![w] = "register"]
      /\ mutex' \in {mutex, Free}
  BY RegisterAssumption DEF ConnectEvent, EndpointHandler, RegisterBegin, At, Goto
<1>3. owner[c] = w /\ owner[c] # Free /\ ~gone[c]
  BY <1>2, Handled
<1>4. /\ ClientInv(c)' /\ OnlyClient(c)
      /\ state' \in [Clients -> {-1, 1}]
      /\ sock' \in [Clients -> {"open", "broken", "closed"}]
      /\ idle' \in [Clients -> BOOLEAN]
      /\ told' \in [Clients -> 0 .. 2]
  BY <1>2, <1>3, HandlerStep
<1>5. TypeOK'
  BY <1>1, <1>2, <1>4 DEF TypeOK
<1>6. WorkerInv(w)' /\ OnlyWorker(w)
  BY <1>1, <1>2, <1>3 DEF WorkerInv, OnlyWorker, TypeOK
<1> QED
  BY <1>3, <1>4, <1>5, <1>6, Together

(* process_client() and what it calls.                                      *)
LEMMA ProcessStep ==
  ASSUME EventsInv, NEW w \in Workers, NEW c \in Clients,
         Process(w, c) \/ ProcessFails(w, c)
  PROVE  EventsInv'
<1>1. TypeOK /\ ClientInv(c) /\ w # Free
  BY FreeAssumption DEF EventsInv
<1>2. owner[c] = w /\ ~gone[c] /\ pc[w] = "pass"
  BY DEF Process, ProcessFails
<1>3. told[c] \in {0, 1}
  BY <1>1, <1>2 DEF ClientInv
<1>4. TypeOK'
  <2>1. CASE Process(w, c)
    BY <1>1, <2>1 DEF Process, Goto, TypeOK
  <2>2. CASE ProcessFails(w, c)
    <3>1. told[c] + 1 \in 0 .. 2
      BY <1>3
    <3>2. told' \in [Clients -> 0 .. 2]
      BY <1>1, <2>2, <3>1 DEF ProcessFails, TypeOK
    <3>3. gone' \in [Clients -> BOOLEAN]
      BY <1>1, <2>2 DEF ProcessFails, Drop, TypeOK
    <3> QED
      BY <1>1, <2>2, <3>2, <3>3 DEF ProcessFails, TypeOK
  <2> QED
    BY <2>1, <2>2
<1>5. CASE Process(w, c)
  BY <1>1, <1>2, <1>4, <1>5, Together
  DEF Process, Goto, TypeOK, ClientInv, WorkerInv, OnlyClient, OnlyWorker
<1>6. CASE ProcessFails(w, c)
  <2>1. ClientInv(c)'
    <3>1. /\ owner'[c] = owner[c] /\ state'[c] = state[c] /\ told'[c] = told[c] + 1
          /\ gone'[c] /\ unread' = unread /\ sent' = sent
      BY <1>1, <1>6 DEF ProcessFails, Drop, TypeOK
    <3> QED
      BY <1>1, <1>2, <3>1 DEF ClientInv
  <2>2. WorkerInv(w)' /\ OnlyClient(c) /\ OnlyWorker(w)
    BY <1>1, <1>2, <1>6
    DEF ProcessFails, Drop, TypeOK, WorkerInv, OnlyClient, OnlyWorker
  <2> QED
    BY <1>2, <1>4, <2>1, <2>2, Together
<1> QED
  BY <1>5, <1>6

LEMMA ReadStep ==
  ASSUME EventsInv, NEW w \in Workers, NEW c \in Clients,
         ReadPacket(w, c) \/ ReadNothing(w, c) \/ ReadMissesEnd(w, c)
  PROVE  EventsInv'
<1>1. TypeOK /\ ClientInv(c)
  BY DEF EventsInv
<1>2. at[w] = c /\ pc[w] = "read"
  BY DEF ReadPacket, ReadNothing, ReadMissesEnd, At
<1>3. owner[c] = w /\ owner[c] # Free /\ ~gone[c]
  BY <1>2, Handled
<1>4. CASE ReadPacket(w, c)
  <2>1. state[c] = 1 /\ told[c] = 0
    BY <1>1, <1>3, <1>4 DEF ReadPacket, ClientInv
  <2>2. TypeOK'
    <3>1. unread[c] - 1 \in 0 .. MaxPackets
      BY <1>1, <1>4, MaxPacketsAssumption DEF ReadPacket, TypeOK
    <3>2. unread' \in [Clients -> 0 .. MaxPackets]
      BY <1>1, <1>4, <3>1 DEF ReadPacket, TypeOK
    <3> QED
      BY <1>1, <1>4, <3>2 DEF ReadPacket, Goto, TypeOK
  <2>3. /\ pc'[w] = "lock" /\ at' = at /\ owner' = owner /\ gone' = gone
        /\ told' = told /\ state' = state /\ sock' = sock /\ sent' = sent
        /\ unread'[c] = unread[c] - 1
    BY <1>1, <1>4 DEF ReadPacket, Goto, TypeOK
  <2>4. ClientInv(c)' /\ WorkerInv(w)'
    BY <1>1, <1>2, <1>3, <2>1, <2>3, MaxPacketsAssumption DEF ClientInv, WorkerInv, TypeOK
  <2>5. OnlyClient(c) /\ OnlyWorker(w)
    BY <1>1, <1>4 DEF ReadPacket, Goto, TypeOK, OnlyClient, OnlyWorker
  <2> QED
    BY <1>3, <2>2, <2>4, <2>5, Together
<1>5. CASE ReadNothing(w, c) \/ ReadMissesEnd(w, c)
  <2>1. TypeOK'
    BY <1>1, <1>5 DEF ReadNothing, ReadMissesEnd, Goto, TypeOK
  <2>2. /\ pc'[w] = "beat" /\ at' = at /\ owner' = owner /\ gone' = gone
        /\ told' = told /\ state' = state /\ unread' = unread /\ sent' = sent
        /\ sock[c] = "closed" => sock'[c] = "closed"
    BY <1>1, <1>5 DEF ReadNothing, ReadMissesEnd, Goto, TypeOK
  <2>3. ClientInv(c)' /\ WorkerInv(w)'
    BY <1>1, <1>2, <1>3, <2>2 DEF ClientInv, WorkerInv
  <2>4. OnlyClient(c) /\ OnlyWorker(w)
    BY <1>1, <1>5 DEF ReadNothing, ReadMissesEnd, Goto, TypeOK, OnlyClient, OnlyWorker
  <2> QED
    BY <1>3, <2>1, <2>3, <2>4, Together
<1> QED
  BY <1>4, <1>5

LEMMA LockStep ==
  ASSUME EventsInv, NEW w \in Workers, NEW c \in Clients,
         LockEndpoints(w, c) \/ Register(w, c)
  PROVE  EventsInv'
<1>1. TypeOK /\ ClientInv(c) /\ WorkerInv(w)
  BY DEF EventsInv
<1>2. at[w] = c /\ pc[w] \in {"lock", "register"} /\ (LockEndpoints(w, c) => pc[w] = "lock")
  BY DEF LockEndpoints, Register, At
<1>3. owner[c] = w
  BY <1>2, Handled
<1>4. TypeOK'
  BY <1>1 DEF LockEndpoints, Register, Goto, TypeOK
<1>5. ClientInv(c)' /\ WorkerInv(w)'
  BY <1>1, <1>2 DEF LockEndpoints, Register, Goto, TypeOK, ClientInv, WorkerInv
<1>6. OnlyClient(c) /\ OnlyWorker(w)
  BY <1>1 DEF LockEndpoints, Register, Goto, TypeOK, OnlyClient, OnlyWorker
<1> QED
  BY <1>3, <1>4, <1>5, <1>6, Together

LEMMA BeatStep ==
  ASSUME EventsInv, NEW w \in Workers, NEW c \in Clients, Beat(w, c) \/ BeatFails(w, c)
  PROVE  EventsInv'
<1>1. TypeOK /\ ClientInv(c)
  BY DEF EventsInv
<1>2. at[w] = c /\ pc[w] = "beat"
  BY DEF Beat, BeatFails, At
<1>3. owner[c] = w /\ owner[c] # Free /\ ~gone[c]
  BY <1>2, Handled
<1>4. CASE Beat(w, c)
  BY <1>1, <1>2, <1>3, <1>4, Together
  DEF Beat, Goto, TypeOK, ClientInv, WorkerInv, OnlyClient, OnlyWorker
<1>5. CASE BeatFails(w, c)
  <2>1. \/ state[c] = 1 /\ told[c] = 0
        \/ state[c] = -1 /\ told[c] = 1
    BY <1>1, <1>3 DEF ClientInv
  <2>2. /\ state' = [state EXCEPT ![c] = -1] /\ told' = [told EXCEPT ![c] = 1]
        /\ gone' = [gone EXCEPT ![c] = TRUE] /\ pc' = [pc EXCEPT ![w] = "pass"]
        /\ at' = at /\ owner' = owner /\ unread' = unread /\ sent' = sent
        /\ idle' = idle /\ mutex' = mutex
    <3>1. (IF state[c] > 0 THEN told[c] + 1 ELSE told[c]) = 1
      BY <2>1
    <3> QED
      BY <1>5, <3>1 DEF BeatFails, HandleDisconnect, Drop, Goto
  <2>3. /\ sock' \in [Clients -> {"open", "broken", "closed"}]
        /\ \A d \in Clients : d # c => sock'[d] = sock[d]
    BY <1>1, <1>5 DEF BeatFails, HandleDisconnect, TypeOK
  <2>4. TypeOK'
    <3>1. gone' \in [Clients -> BOOLEAN]
      BY <1>1, <2>2 DEF TypeOK
    <3>2. told' \in [Clients -> 0 .. 2] /\ state' \in [Clients -> {-1, 1}]
      BY <1>1, <2>2 DEF TypeOK
    <3> QED
      BY <1>1, <2>2, <2>3, <3>1, <3>2 DEF TypeOK
  <2>5. ClientInv(c)' /\ WorkerInv(w)'
    BY <1>1, <1>3, <2>2 DEF TypeOK, ClientInv, WorkerInv
  <2>6. OnlyClient(c) /\ OnlyWorker(w)
    BY <1>1, <2>2, <2>3 DEF TypeOK, OnlyClient, OnlyWorker
  <2> QED
    BY <1>3, <2>4, <2>5, <2>6, Together
<1> QED
  BY <1>4, <1>5

(* The peer and the clock.                                                  *)
LEMMA EnvironmentStep ==
  ASSUME EventsInv, NEW c \in Clients, PeerSends(c) \/ Break(c) \/ SecondPasses(c)
  PROVE  EventsInv'
<1>1. /\ TypeOK /\ \A d \in Clients : ClientInv(d)
      /\ \A w \in Workers : WorkerInv(w)
  BY DEF EventsInv
<1>2. /\ owner' = owner /\ state' = state /\ told' = told /\ gone' = gone
      /\ pc' = pc /\ at' = at /\ mutex' = mutex
  BY DEF PeerSends, Break, SecondPasses
<1>3. \A w \in Workers : WorkerInv(w)'
  BY <1>1, <1>2 DEF WorkerInv
<1>4. CASE PeerSends(c)
  <2>1. TypeOK'
    <3>1. unread[c] + 1 \in 0 .. MaxPackets /\ sent[c] + 1 \in 0 .. MaxPackets
      BY <1>1, <1>4, MaxPacketsAssumption DEF PeerSends, TypeOK, ClientInv
    <3>2. /\ unread' \in [Clients -> 0 .. MaxPackets]
          /\ sent' \in [Clients -> 0 .. MaxPackets]
      BY <1>1, <1>4, <3>1 DEF PeerSends, TypeOK
    <3> QED
      BY <1>1, <1>4, <3>2 DEF PeerSends, TypeOK
  <2>2. \A d \in Clients : ClientInv(d)'
    BY <1>1, <1>4 DEF PeerSends, TypeOK, ClientInv
  <2> QED
    BY <1>3, <2>1, <2>2 DEF EventsInv
<1>5. CASE Break(c) \/ SecondPasses(c)
  <2>1. TypeOK'
    <3>1. CASE Break(c)
      BY <1>1, <3>1 DEF Break, TypeOK
    <3>2. CASE SecondPasses(c)
      <4>1. idle' \in [Clients -> BOOLEAN]
        BY <1>1, <3>2 DEF SecondPasses, TypeOK
      <4> QED
        BY <1>1, <3>2, <4>1 DEF SecondPasses, TypeOK
    <3> QED
      BY <1>5, <3>1, <3>2
  <2>2. \A d \in Clients : ClientInv(d)'
    BY <1>1, <1>5 DEF Break, SecondPasses, TypeOK, ClientInv
  <2> QED
    BY <1>3, <2>1, <2>2 DEF EventsInv
<1> QED
  BY <1>4, <1>5

LEMMA EventsStep ==
  ASSUME EventsInv, [Next]_vars
  PROVE  EventsInv'
<1>1. CASE UNCHANGED vars
  BY <1>1 DEF vars, EventsInv, TypeOK, ClientInv, WorkerInv
<1>2. CASE Next
  BY <1>2, AcceptStep, HandlersStep, ProcessStep, ReadStep, LockStep, BeatStep,
     EnvironmentStep DEF Next, Handle
<1> QED
  BY <1>1, <1>2

-----------------------------------------------------------------------------
(* The theorems.                                                            *)

LEMMA Invariance == Spec => []EventsInv
<1>1. Init => EventsInv
  BY InitInv
<1>2. EventsInv /\ [Next]_vars => EventsInv'
  BY EventsStep
<1> QED
  BY <1>1, <1>2, PTL DEF Spec

(* A dropped client was reported, once, or twice if its own object closed   *)
(* it before process_client() saw it (mux_server.cpp:88-94, 122-124).       *)
THEOREM EventsCorrect == Spec => []DropIsTold
<1>1. EventsInv => DropIsTold
  <2>1. ASSUME EventsInv, NEW c \in Clients
        PROVE  /\ gone[c] => told[c] >= 1
               /\ told[c] = 2 => state[c] = -1
               /\ state[c] = 1 /\ ~gone[c] => told[c] = 0
    BY <2>1 DEF EventsInv, ClientInv
  <2> QED
    BY <2>1 DEF DropIsTold, EventsInv
<1> QED
  BY <1>1, Invariance, PTL

(* The handler of an endpoint runs for clients whose end nobody reported    *)
(* (mux_server.cpp:98-118).                                                 *)
THEOREM HandlersCorrect == Spec => NoHandlerAfterDisconnect
<1>1. EventsInv => [\A w \in Workers, c \in Clients :
                      EndpointHandler(w, c) => told[c] = 0]_vars
  BY DEF EventsInv, WorkerInv, EndpointHandler, At
<1> QED
  BY <1>1, Invariance, PTL DEF NoHandlerAfterDisconnect
==============================================================================
