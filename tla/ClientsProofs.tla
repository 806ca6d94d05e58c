--------------------------- MODULE ClientsProofs ---------------------------
(* Proofs about the clients: the loop of a mux client and its user threads, *)
(* the two ends of a tls connection, and the requests of an http client,    *)
(* each for every value of its constants.                                   *)
EXTENDS MCClients, SequenceTheorems, FiniteSetTheorems, TLAPS

-----------------------------------------------------------------------------
(* The mux client.                                                          *)

(* Whoever runs handle_disconnect() has somewhere to return to.             *)
MuxTypes ==
  /\ Mux!TypeOK
  /\ \A t \in Mux!Threads :
       mux_pc[t] \in {"event", "shut"} => back[t] # "none"

(* One thread alone: the state says whether the disconnect was reported,    *)
(* but for the moment between the event and the change of the state; a      *)
(* connection is made only when the one before was reported.                *)
Alternating ==
  /\ told <= 1
  /\ mux_pc[Mux!P] = "shut" => told = 1 /\ state = 1
  /\ mux_pc[Mux!P] # "shut" => (told = 0 <=> state = 1)
  /\ mux_pc[Mux!P] \in {"out", "retry"} => state = -1

MuxInv == MuxTypes /\ (Mux!Alone => Alternating)

LEMMA MuxInit == Mux!Init => MuxInv
<1> SUFFICES ASSUME Mux!Init PROVE MuxInv
  OBVIOUS
<1>1. /\ state = -1 /\ sock = "none" /\ via = "loop"
      /\ idle = FALSE /\ past = FALSE
      /\ mux_pc \in [Mux!Threads -> {"out", "user", "absent"}]
      /\ back = [t \in Mux!Threads |-> "none"] /\ told = 1
      /\ Mux!P \in Mux!Threads /\ mux_pc[Mux!P] = "out"
  BY DEF Mux!Init, Mux!Threads
<1>2. Mux!TypeOK
  BY <1>1 DEF Mux!TypeOK
<1>3. Alternating
  BY <1>1 DEF Alternating
<1> QED
  BY <1>1, <1>2, <1>3 DEF MuxInv, MuxTypes

(* call() of any thread that goes on at a place of its own.                 *)
LEMMA CallTypes ==
  ASSUME MuxTypes, NEW t \in Mux!Threads, NEW from,
         NEW return \in {"reads", "user"}, Mux!Call(t, from, return)
  PROVE  /\ MuxTypes'
         /\ \A u \in Mux!Threads : u # t => mux_pc'[u] = mux_pc[u]
         /\ mux_pc'[t] # "absent"
<1>1. CASE Mux!CallOk(t, from, return)
  BY <1>1 DEF Mux!CallOk, Mux!Goto, MuxTypes, Mux!TypeOK
<1>2. CASE Mux!CallFails(t, from, return)
  BY <1>2
  DEF Mux!CallFails, Mux!CallHandleDisconnect, MuxTypes, Mux!TypeOK
<1>3. CASE Mux!CallRefused(t, from, return)
  BY <1>3 DEF Mux!CallRefused, Mux!Goto, MuxTypes, Mux!TypeOK
<1> QED
  BY <1>1, <1>2, <1>3 DEF Mux!Call

(* handle_disconnect().                                                     *)
LEMMA DisconnectTypes ==
  ASSUME MuxTypes, NEW t \in Mux!Threads,
         Mux!DisconnectEvent(t) \/ Mux!ShutSession(t)
  PROVE  /\ MuxTypes'
         /\ \A u \in Mux!Threads : u # t => mux_pc'[u] = mux_pc[u]
         /\ mux_pc'[t] # "absent"
<1>1. CASE Mux!DisconnectEvent(t)
  <2>1. CASE state > 0
    BY <1>1, <2>1
    DEF Mux!DisconnectEvent, Mux!Goto, MuxTypes, Mux!TypeOK
  <2>2. CASE ~(state > 0)
    BY <1>1, <2>2
    DEF Mux!DisconnectEvent, Mux!Goto, MuxTypes, Mux!TypeOK
  <2> QED
    BY <2>1, <2>2
<1>2. CASE Mux!ShutSession(t)
  BY <1>2 DEF Mux!ShutSession, Mux!Goto, MuxTypes, Mux!TypeOK
<1> QED
  BY <1>1, <1>2

(* connect() and the process() loop.                                        *)
LEMMA LoopTypes ==
  ASSUME MuxTypes, Mux!Process \/ Mux!ConnectOk \/ Mux!ConnectFail
  PROVE  /\ MuxTypes'
         /\ \A u \in Mux!Threads : u # Mux!P => mux_pc'[u] = mux_pc[u]
         /\ mux_pc'[Mux!P] # "absent"
<1>0. Mux!P \in Mux!Threads
  BY DEF Mux!Threads
<1>1. CASE Mux!ConnectOk \/ Mux!ConnectFail
  BY <1>0, <1>1
  DEF Mux!ConnectOk, Mux!ConnectFail, Mux!NewConnection, Mux!Goto,
      MuxTypes, Mux!TypeOK
<1>2. CASE Mux!ProtoFails
  BY <1>0, <1>2
  DEF Mux!ProtoFails, Mux!CallHandleDisconnect, MuxTypes, Mux!TypeOK
<1>3. CASE Mux!ProtoRuns
  BY <1>0, <1>3 DEF Mux!ProtoRuns, Mux!Goto, MuxTypes, Mux!TypeOK
<1>4. CASE \/ Mux!HandlerReturns \/ Mux!ReadsPacket
           \/ Mux!ReadsNothing \/ Mux!ReadsEnd
  BY <1>0, <1>4
  DEF Mux!HandlerReturns, Mux!ReadsPacket, Mux!ReadsNothing,
      Mux!ReadsEnd, Mux!Goto, MuxTypes, Mux!TypeOK
<1>5. CASE Mux!HandlerCalls
  BY <1>0, <1>5, CallTypes DEF Mux!HandlerCalls
<1>6. CASE \/ Mux!BeatNotDue \/ Mux!BeatSent
           \/ Mux!ProcessFails \/ Mux!RetryTooEarly
  BY <1>0, <1>6
  DEF Mux!BeatNotDue, Mux!BeatSent, Mux!ProcessFails,
      Mux!RetryTooEarly, Mux!Return, Mux!Goto, MuxTypes, Mux!TypeOK
<1>7. CASE Mux!BeatFails
  BY <1>0, <1>7
  DEF Mux!BeatFails, Mux!CallHandleDisconnect, MuxTypes, Mux!TypeOK
<1>8. CASE Mux!RetryConnects
  BY <1>0, <1>8
  DEF Mux!RetryConnects, Mux!NewConnection, Mux!Goto, MuxTypes,
      Mux!TypeOK
<1>9. CASE Mux!RetryFails
  BY <1>0, <1>9
  DEF Mux!RetryFails, Mux!Return, Mux!Goto, MuxTypes, Mux!TypeOK
<1>10. CASE Mux!DisconnectEvent(Mux!P) \/ Mux!ShutSession(Mux!P)
  BY <1>0, <1>10, DisconnectTypes
<1> QED
  BY <1>1, <1>2, <1>3, <1>4, <1>5, <1>6, <1>7, <1>8, <1>9, <1>10
  DEF Mux!Process

(* User threads; one that does not exist takes no step.                     *)
LEMMA UserTypes ==
  ASSUME MuxTypes, NEW u \in Users, Mux!User(u)
  PROVE  MuxTypes' /\ mux_pc[u] # "absent" /\ mux_pc'[u] # "absent"
         /\ \A t \in Mux!Threads : t # u => mux_pc'[t] = mux_pc[t]
<1>0. u \in Mux!Threads
  BY DEF Mux!Threads
<1>1. CASE Mux!UserCalls(u)
  <2>1. mux_pc[u] = "user"
    BY <1>1
    DEF Mux!UserCalls, Mux!Call, Mux!CallOk, Mux!CallFails,
        Mux!CallRefused
  <2> QED
    BY <1>0, <1>1, <2>1, CallTypes DEF Mux!UserCalls
<1>2. CASE Mux!UserDisconnects(u)
  <2>1. told' \in Nat
    BY <1>2 DEF Mux!UserDisconnects, MuxTypes, Mux!TypeOK
  <2> QED
    BY <1>0, <1>2, <2>1
    DEF Mux!UserDisconnects, Mux!Goto, MuxTypes, Mux!TypeOK
<1>3. CASE Mux!UserCloses(u)
  BY <1>0, <1>3 DEF Mux!UserCloses, Mux!Goto, MuxTypes, Mux!TypeOK
<1>4. CASE Mux!DisconnectEvent(u) \/ Mux!ShutSession(u)
  BY <1>0, <1>4, DisconnectTypes DEF Mux!DisconnectEvent, Mux!ShutSession
<1> QED
  BY <1>1, <1>2, <1>3, <1>4 DEF Mux!User

LEMMA TypesStep ==
  ASSUME MuxTypes, [Mux!Next]_(Mux!vars)
  PROVE  MuxTypes' /\ (Mux!Alone' => Mux!Alone)
<1>0. Users \subseteq Mux!Threads
  BY DEF Mux!Threads
<1>1. CASE Mux!Process \/ Mux!ConnectOk \/ Mux!ConnectFail
  BY <1>0, <1>1, LoopTypes DEF Mux!Alone
<1>2. ASSUME NEW u \in Users, Mux!User(u)
      PROVE  MuxTypes' /\ (Mux!Alone' => Mux!Alone)
  BY <1>0, <1>2, UserTypes DEF Mux!Alone
<1>3. CASE Mux!Environment
  BY <1>3
  DEF Mux!Environment, Mux!Break, Mux!SecondPasses, Mux!DelayPasses,
      MuxTypes, Mux!TypeOK, Mux!Alone
<1>4. CASE UNCHANGED Mux!vars
  BY <1>4 DEF Mux!vars, MuxTypes, Mux!TypeOK, Mux!Alone
<1> QED
  BY <1>1, <1>2, <1>3, <1>4 DEF Mux!Next

(* The events, when nobody else uses the client.                            *)
LEMMA AlternatingStep ==
  ASSUME MuxTypes, Mux!Alone, Alternating, [Mux!Next]_(Mux!vars)
  PROVE  Alternating'
<1>0. /\ Mux!P \in Mux!Threads
      /\ mux_pc \in [Mux!Threads -> {"out", "begin", "handler", "reads", "beat",
           "failed", "retry", "ended", "event", "shut", "user", "close", "absent"}]
      /\ state \in {-1, 0, 1} /\ told \in {0, 1}
      /\ back \in [Mux!Threads -> {"none", "retry", "reads", "failed", "user"}]
  BY DEF Mux!Threads, MuxTypes, Mux!TypeOK, Alternating
<1>1. ~\E u \in Users : Mux!User(u)
  BY UserTypes DEF Mux!Alone
<1>2. CASE Mux!ConnectOk \/ Mux!ConnectFail
  BY <1>0, <1>2
  DEF Mux!ConnectOk, Mux!ConnectFail, Mux!NewConnection, Mux!Goto,
      Alternating
<1>3. CASE Mux!ProtoFails
  BY <1>0, <1>3 DEF Mux!ProtoFails, Mux!CallHandleDisconnect, Alternating
<1>4. CASE Mux!ProtoRuns
  BY <1>0, <1>4 DEF Mux!ProtoRuns, Mux!Goto, Alternating
<1>5. CASE \/ Mux!HandlerReturns \/ Mux!ReadsPacket
           \/ Mux!ReadsNothing \/ Mux!ReadsEnd
  BY <1>0, <1>5
  DEF Mux!HandlerReturns, Mux!ReadsPacket, Mux!ReadsNothing,
      Mux!ReadsEnd, Mux!Goto, Alternating
<1>6. CASE Mux!HandlerCalls
  BY <1>0, <1>6
  DEF Mux!HandlerCalls, Mux!Call, Mux!CallOk, Mux!CallFails,
      Mux!CallRefused, Mux!CallHandleDisconnect, Mux!Goto, Alternating
<1>7. CASE \/ Mux!BeatNotDue \/ Mux!BeatSent
           \/ Mux!ProcessFails \/ Mux!RetryTooEarly
  BY <1>0, <1>7
  DEF Mux!BeatNotDue, Mux!BeatSent, Mux!ProcessFails,
      Mux!RetryTooEarly, Mux!Return, Mux!Goto, Alternating
<1>8. CASE Mux!BeatFails
  BY <1>0, <1>8 DEF Mux!BeatFails, Mux!CallHandleDisconnect, Alternating
<1>9. CASE Mux!RetryConnects
  BY <1>0, <1>9
  DEF Mux!RetryConnects, Mux!NewConnection, Mux!Goto, Alternating
<1>10. CASE Mux!RetryFails
  BY <1>0, <1>10 DEF Mux!RetryFails, Mux!Return, Mux!Goto, Alternating
<1>11. CASE Mux!DisconnectEvent(Mux!P)
  <2>1. CASE state > 0
    BY <1>0, <1>11, <2>1 DEF Mux!DisconnectEvent, Mux!Goto, Alternating
  <2>2. CASE ~(state > 0)
    BY <1>0, <1>11, <2>2 DEF Mux!DisconnectEvent, Mux!Goto, Alternating
  <2> QED
    BY <2>1, <2>2
<1>12. CASE Mux!ShutSession(Mux!P)
  BY <1>0, <1>12 DEF Mux!ShutSession, Mux!Goto, Alternating
<1>13. CASE Mux!Environment
  BY <1>13
  DEF Mux!Environment, Mux!Break, Mux!SecondPasses, Mux!DelayPasses,
      Alternating
<1>14. CASE UNCHANGED Mux!vars
  BY <1>14 DEF Mux!vars, Alternating
<1> QED
  BY <1>1, <1>2, <1>3, <1>4, <1>5, <1>6, <1>7, <1>8, <1>9, <1>10, <1>11, <1>12,
     <1>13, <1>14 DEF Mux!Next, Mux!Process

LEMMA MuxInvariance == Mux!Init /\ [][Mux!Next]_(Mux!vars) => []MuxInv
<1>1. Mux!Init => MuxInv
  BY MuxInit
<1>2. MuxInv /\ [Mux!Next]_(Mux!vars) => MuxInv'
  BY TypesStep, AlternatingStep DEF MuxInv
<1> QED
  BY <1>1, <1>2, PTL

(* Every variable keeps its type; in particular a thread always returns     *)
(* from handle_disconnect() to the call that began it                       *)
(* (mux_client.cpp:195-209).                                                *)
THEOREM MuxTypesCorrect == Mux!Spec => []MuxTypeOK
<1>1. MuxInv => MuxTypeOK
  BY DEF MuxInv, MuxTypes, MuxTypeOK
<1> QED
  BY <1>1, MuxInvariance, PTL DEF Mux!Spec

(* Connect and disconnect events alternate when one thread uses the client  *)
(* (mux_client.cpp:113-123, 195-209).                                       *)
THEOREM EventsCorrect == Mux!Spec => []EventsAlternate
<1>1. MuxInv => EventsAlternate
  BY DEF MuxInv, Alternating, EventsAlternate, Mux!EventsAlternate
<1> QED
  BY <1>1, MuxInvariance, PTL DEF Mux!Spec

-----------------------------------------------------------------------------
(* The http client.                                                         *)

(* The numbers of s go on after k.                                          *)
Follows(s, k) == s \in Seq(Nat) /\ \A i \in 1 .. Len(s) : s[i] = k + i

HttpTypes ==
  /\ m_follow_redirects \in {0, 1} /\ m_timeout \in BOOLEAN
  /\ pc \in {"idle", "connect", "send", "receive", "terminated"}
  /\ sent \in 0 .. RequestLen /\ redirects = 0
  /\ connected \in BOOLEAN /\ hops \in Nat
  /\ http_fin \in {"no", "reported", "silent"}
  /\ breaks \in 0 .. MaxBreaks /\ calls \in 0 .. MaxCalls

(* While the site still listens it has got what was sent; the request       *)
(* starts with nothing sent, and a connection is there exactly while one is *)
(* needed.                                                                  *)
Sending ==
  /\ Follows(got, 0)
  /\ pc \in {"idle", "connect"} => ~connected
  /\ pc \in {"send", "receive"} => connected
  /\ pc = "connect" => sent = 0
  /\ pc = "send" => sent < RequestLen /\ (http_fin = "no" => Len(got) = sent)

(* What was received and what the kernel holds are the beginning of the     *)
(* response; before the site has ended it there is nothing.                 *)
Receiving ==
  /\ pc # "idle" => address \in Addresses
  /\ pc \notin {"idle", "connect"} => Site(address) # Refused
  /\ http_wire \in Seq(Nat)
  /\ pc \in {"connect", "send"} => respstr = <<>>
  /\ pc \in {"send", "receive"} =>
       /\ Follows(respstr, 0) /\ Follows(http_wire, Len(respstr))
       /\ http_fin = "no" => http_wire = <<>> /\ respstr = <<>>

(* What a call returns, and the redirects before it.                        *)
Returning ==
  /\ DOMAIN result = {"status", "body"}
  /\ pc = "idle" /\ result # Http!NotFound =>
       /\ result.status = Http!Response.status
       /\ Follows(result.body, HeadLen)
       /\ Len(result.body) >= Http!Response.content_length
  /\ hops > 0 => m_follow_redirects > 0
  /\ (pc = "idle" /\ result.status = 302 /\ m_follow_redirects > 0) =>
       Http!Response.location.host = Nowhere

HttpInv == HttpTypes /\ Sending /\ Receiving /\ Returning

LEMMA EmptyFollows == \A k : Follows(<<>>, k)
BY DEF Follows

LEMMA FollowsCut ==
  ASSUME NEW s, NEW k \in Nat, NEW n \in 0 .. Len(s), Follows(s, k)
  PROVE  /\ Follows(SubSeq(s, 1, n), k) /\ Len(SubSeq(s, 1, n)) = n
         /\ Follows(SubSeq(s, n + 1, Len(s)), k + n)
         /\ Len(SubSeq(s, n + 1, Len(s))) = Len(s) - n
<1>1. s \in Seq(Nat) /\ Len(s) \in Nat /\ n \in Nat /\ n <= Len(s)
  BY LenProperties DEF Follows
<1>2. /\ SubSeq(s, 1, n) \in Seq(Nat) /\ Len(SubSeq(s, 1, n)) = n
      /\ \A i \in 1 .. n : SubSeq(s, 1, n)[i] = s[i]
  <2>1. \A i \in 1 .. n : s[i] \in Nat
    BY <1>1, ElementOfSeq
  <2> QED
    BY <1>1, <2>1, SubSeqProperties
<1>3. /\ SubSeq(s, n + 1, Len(s)) \in Seq(Nat)
      /\ Len(SubSeq(s, n + 1, Len(s))) = Len(s) - n
      /\ \A i \in 1 .. Len(s) - n : SubSeq(s, n + 1, Len(s))[i] = s[n + i]
  <2>1. \A i \in n + 1 .. Len(s) : s[i] \in Nat
    BY <1>1, ElementOfSeq
  <2> QED
    BY <1>1, <2>1, SubSeqProperties
<1>4. \A i \in 1 .. n : s[i] = k + i
  BY <1>1 DEF Follows
<1>5. \A i \in 1 .. Len(s) - n : s[n + i] = (k + n) + i
  <2>1. \A i \in 1 .. Len(s) - n : n + i \in 1 .. Len(s)
    BY <1>1
  <2> QED
    BY <1>1, <2>1 DEF Follows
<1> QED
  BY <1>1, <1>2, <1>3, <1>4, <1>5 DEF Follows

LEMMA FollowsOn ==
  ASSUME NEW s, NEW t, NEW k \in Nat, Follows(s, k), Follows(t, k + Len(s))
  PROVE  Follows(s \o t, k) /\ Len(s \o t) = Len(s) + Len(t)
<1>1. s \in Seq(Nat) /\ t \in Seq(Nat) /\ Len(s) \in Nat /\ Len(t) \in Nat
  BY LenProperties DEF Follows
<1>2. /\ s \o t \in Seq(Nat) /\ Len(s \o t) = Len(s) + Len(t)
      /\ \A i \in 1 .. Len(s) + Len(t) :
           (s \o t)[i] = IF i <= Len(s) THEN s[i] ELSE t[i - Len(s)]
  BY <1>1, ConcatProperties
<1>3. ASSUME NEW i \in 1 .. Len(s) + Len(t) PROVE (s \o t)[i] = k + i
  <2>1. CASE i <= Len(s)
    BY <1>1, <1>2, <2>1 DEF Follows
  <2>2. CASE ~(i <= Len(s))
    <3>1. i - Len(s) \in 1 .. Len(t)
      BY <1>1, <2>2
    <3>2. t[i - Len(s)] = (k + Len(s)) + (i - Len(s))
      BY <3>1 DEF Follows
    <3> QED
      BY <1>1, <1>2, <2>2, <3>2
  <2> QED
    BY <2>1, <2>2
<1> QED
  BY <1>2, <1>3 DEF Follows

(* The numbers from k on are a sequence of any length.                      *)
LEMMA Counted ==
  ASSUME NEW k \in Nat, NEW n \in Nat
  PROVE  /\ Follows([i \in 1 .. n |-> k + i], k)
         /\ Len([i \in 1 .. n |-> k + i]) = n
BY DEF Follows

LEMMA HttpInit == Http!Init => HttpInv
<1> SUFFICES ASSUME Http!Init PROVE HttpInv
  OBVIOUS
<1>1. HttpTypes
  <2>1. m_timeout \in BOOLEAN /\ connected \in BOOLEAN
    BY DEF Http!Init
  <2>2. /\ sent \in 0 .. RequestLen /\ redirects = 0 /\ hops \in Nat
        /\ breaks \in 0 .. MaxBreaks /\ calls \in 0 .. MaxCalls
        /\ m_follow_redirects \in {0, 1}
        /\ pc = "idle" /\ http_fin = "no"
    BY HttpAssumption DEF Http!Init
  <2> QED
    BY <2>1, <2>2 DEF HttpTypes
<1>2. Sending
  BY EmptyFollows DEF Http!Init, Sending
<1>3. Receiving
  BY DEF Http!Init, Receiving
<1>4. Returning
  BY DEF Http!Init, Returning, Http!NotFound
<1> QED
  BY <1>1, <1>2, <1>3, <1>4 DEF HttpInv

(* A call that returns the 404.                                             *)
LEMMA FailureReturns ==
  ASSUME HttpInv, Http!Returns(Http!NotFound)
  PROVE  HttpInv'
<1>1. HttpTypes'
  BY DEF HttpInv, HttpTypes, Http!Returns, Http!options, Http!site
<1>2. Sending'
  BY DEF HttpInv, HttpTypes, Sending, Http!Returns, Http!site
<1>3. Receiving'
  BY DEF HttpInv, Receiving, Http!Returns, Http!site
<1>4. Returning'
  <2>1. result' = [status |-> 404, body |-> <<>>]
    BY DEF Http!Returns, Http!NotFound
  <2>2. DOMAIN result' = {"status", "body"} /\ result'.status = 404
    BY <2>1
  <2>3. (hops > 0 => m_follow_redirects > 0)'
    BY DEF HttpInv, Returning, Http!Returns, Http!options
  <2> QED
    BY <2>1, <2>2, <2>3 DEF Returning, Http!NotFound
<1> QED
  BY <1>1, <1>2, <1>3, <1>4 DEF HttpInv

LEMMA RequestStep ==
  ASSUME HttpInv, NEW u \in Urls, Http!RequestSync(u)
  PROVE  HttpInv'
<1>0. /\ pc = "idle" /\ calls < MaxCalls /\ calls' = calls + 1
      /\ hops' = 0 /\ sent' = 0 /\ respstr' = <<>>
      /\ UNCHANGED <<m_follow_redirects, m_timeout, connected, got, http_wire, http_fin,
                     breaks>>
  BY DEF Http!RequestSync, Http!options, Http!site
<1>1. CASE Http!Malformed(u)
  <2>1. result' = Http!NotFound /\ UNCHANGED <<pc, address, redirects>>
    BY <1>1 DEF Http!RequestSync
  <2>2. HttpTypes'
    BY <1>0, <2>1, HttpAssumption DEF HttpInv, HttpTypes
  <2>3. Sending' /\ Receiving'
    BY <1>0, <2>1 DEF HttpInv, Sending, Receiving
  <2>4. Returning'
    <3>1. result' = [status |-> 404, body |-> <<>>]
      BY <2>1 DEF Http!NotFound
    <3>2. DOMAIN result' = {"status", "body"} /\ result'.status = 404
      BY <3>1
    <3> QED
      BY <1>0, <2>1, <3>2 DEF Returning, Http!NotFound
  <2> QED
    BY <2>2, <2>3, <2>4 DEF HttpInv
<1>2. CASE ~Http!Malformed(u)
  <2>1. /\ pc' = "connect" /\ address' = Http!Address(u) /\ redirects' = 0
        /\ UNCHANGED result
    BY <1>2 DEF Http!RequestSync
  <2>2. HttpTypes'
    BY <1>0, <2>1, HttpAssumption DEF HttpInv, HttpTypes
  <2>3. address' \in Addresses
    BY <1>2, <2>1, SiteAssumption
  <2>4. Sending' /\ Receiving'
    BY <1>0, <2>1, <2>3 DEF HttpInv, Sending, Receiving
  <2>5. Returning'
    BY <1>0, <2>1 DEF HttpInv, Returning
  <2> QED
    BY <2>2, <2>4, <2>5 DEF HttpInv
<1> QED
  BY <1>1, <1>2

LEMMA ConnectStep ==
  ASSUME HttpInv, Http!Connect
  PROVE  HttpInv'
<1>1. HttpTypes'
  BY DEF HttpInv, HttpTypes, Http!Connect, Http!options
<1>2. Sending'
  BY EmptyFollows, HttpAssumption DEF HttpInv, Sending, Http!Connect
<1>3. Receiving'
  BY EmptyFollows DEF HttpInv, Receiving, Http!Connect
<1>4. Returning'
  BY DEF HttpInv, Returning, Http!Connect, Http!options
<1> QED
  BY <1>1, <1>2, <1>3, <1>4 DEF HttpInv

LEMMA SendStep ==
  ASSUME HttpInv, NEW n \in 1 .. RequestLen - sent, Http!Send(n)
  PROVE  HttpInv'
<1>0. /\ pc = "send" /\ sent' = sent + n /\ sent \in Nat /\ n \in Nat
      /\ RequestLen \in Nat /\ sent + n <= RequestLen
      /\ pc' = IF sent' = RequestLen THEN "receive" ELSE pc
      /\ UNCHANGED <<m_follow_redirects, m_timeout, address, redirects, respstr, result,
                     connected, hops, http_wire, http_fin, breaks, calls>>
  BY HttpAssumption DEF HttpInv, HttpTypes, Http!Send, Http!options
<1>1. HttpTypes'
  BY <1>0 DEF HttpInv, HttpTypes
<1>2. Follows(got', 0) /\ (http_fin = "no" => Len(got') = sent + n)
  <2>1. CASE http_fin # "no"
    BY <2>1 DEF HttpInv, Sending, Http!Send
  <2>2. CASE http_fin = "no"
    <3>1. got' = got \o Http!Pieces(n) /\ Follows(got, 0) /\ Len(got) = sent
      BY <1>0, <2>2 DEF HttpInv, Sending, Http!Send
    <3>2. Follows(Http!Pieces(n), sent) /\ Len(Http!Pieces(n)) = n
      BY <1>0, Counted DEF Http!Pieces
    <3>3. Follows(Http!Pieces(n), 0 + Len(got))
      BY <1>0, <3>1, <3>2
    <3> QED
      BY <3>1, <3>2, <3>3, FollowsOn
  <2> QED
    BY <2>1, <2>2
<1>3. Sending'
  BY <1>0, <1>2 DEF HttpInv, Sending
<1>4. Receiving'
  BY <1>0 DEF HttpInv, Receiving
<1>5. Returning'
  BY <1>0 DEF HttpInv, Returning
<1> QED
  BY <1>1, <1>3, <1>4, <1>5 DEF HttpInv

(* The request starts again.                                                *)
LEMMA RetryStep ==
  ASSUME HttpInv, Http!ReceiveFails
  PROVE  HttpInv'
<1>0. /\ pc = "receive" /\ pc' = "connect" /\ address' = address
      /\ redirects' = redirects /\ sent' = 0 /\ respstr' = <<>>
      /\ connected' = FALSE
      /\ UNCHANGED <<m_follow_redirects, m_timeout, result, got, http_wire, http_fin,
                     calls, hops>>
  BY DEF Http!ReceiveFails, Http!Retry, Http!ProcessRequest, Http!options
<1>1. breaks' \in 0 .. MaxBreaks
  BY HttpAssumption DEF HttpInv, HttpTypes, Http!ReceiveFails
<1>2. HttpTypes'
  <2>1. connected' \in BOOLEAN
    BY <1>0
  <2>2. sent' \in 0 .. RequestLen
    BY <1>0, HttpAssumption
  <2> QED
    BY <1>0, <1>1, <2>1, <2>2 DEF HttpInv, HttpTypes
<1>3. Sending' /\ Receiving'
  BY <1>0 DEF HttpInv, Sending, Receiving
<1>4. Returning'
  BY <1>0 DEF HttpInv, Returning
<1> QED
  BY <1>2, <1>3, <1>4 DEF HttpInv

(* What the parser takes for a response has as many bytes as it announced.  *)
LEMMA Parsed ==
  ASSUME NEW s, Http!Parse(s) = "success"
  PROVE  Http!Header(s) /\ Http!Complete(s)
<1>1. CASE ~Http!Header(s)
  BY <1>1 DEF Http!Parse
<1>2. CASE Http!Header(s) /\ Http!Response.status = BadLine
  BY <1>2 DEF Http!Parse
<1>3. CASE Http!Header(s) /\ Http!Response.status = Word /\ Word # BadLine
  BY <1>3 DEF Http!Parse
<1>4. CASE Http!Header(s) /\ Http!Response.status \notin {BadLine, Word}
  BY <1>4 DEF Http!Parse
<1> QED
  BY <1>1, <1>2, <1>3, <1>4

LEMMA ReceiveStep ==
  ASSUME HttpInv, NEW n \in 1 .. Len(http_wire), Http!Receive(n)
  PROVE  HttpInv'
<1> DEFINE s == respstr \o SubSeq(http_wire, 1, n)
<1> DEFINE to == Http!Redirected(Http!Response.location)
<1>0. /\ pc = "receive"
      /\ http_wire' = SubSeq(http_wire, n + 1, Len(http_wire))
      /\ UNCHANGED <<m_follow_redirects, m_timeout, got, http_fin, breaks, calls>>
  BY DEF Http!Receive, Http!options
<1>1. /\ Follows(respstr, 0) /\ Follows(http_wire, Len(respstr))
      /\ Len(respstr) \in Nat /\ http_fin # "no"
      /\ address \in Addresses /\ Site(address) # Refused
      /\ connected /\ Follows(got, 0) /\ redirects = 0
  <2>1. n \in Nat /\ n <= Len(http_wire) /\ Len(http_wire) # 0
    BY DEF HttpInv, Receiving
  <2>2. http_fin # "no"
    BY <1>0, <2>1 DEF HttpInv, Receiving
  <2> QED
    BY <1>0, <2>2, LenProperties DEF HttpInv, HttpTypes, Receiving, Sending, Follows
<1>2. Http!Response.content_length \in Nat
  BY <1>1, SiteAssumption DEF Http!Response
<1>3. /\ Follows(s, 0) /\ Len(s) \in Nat
      /\ http_wire' \in Seq(Nat) /\ Follows(http_wire', Len(s))
  <2>1. n \in 0 .. Len(http_wire)
    BY <1>1, LenProperties DEF Follows
  <2>2. /\ Follows(SubSeq(http_wire, 1, n), Len(respstr))
        /\ Len(SubSeq(http_wire, 1, n)) = n
        /\ Follows(http_wire', Len(respstr) + n)
    BY <1>0, <1>1, <2>1, FollowsCut
  <2>3. Follows(SubSeq(http_wire, 1, n), 0 + Len(respstr))
    BY <1>1, <2>2
  <2>4. Follows(s, 0) /\ Len(s) = Len(respstr) + n
    BY <1>1, <2>2, <2>3, FollowsOn
  <2> QED
    BY <1>1, <2>1, <2>2, <2>4 DEF Follows
<1> HIDE DEF s, to
<1>4. CASE /\ respstr' = s
           /\ UNCHANGED <<pc, address, redirects, sent, result, connected, hops>>
  <2>1. HttpTypes' /\ Sending'
    BY <1>0, <1>4 DEF HttpInv, HttpTypes, Sending
  <2>2. Receiving'
    BY <1>0, <1>1, <1>3, <1>4 DEF Receiving
  <2>3. Returning'
    BY <1>0, <1>4 DEF HttpInv, Returning
  <2> QED
    BY <2>1, <2>2, <2>3 DEF HttpInv
<1>5. CASE /\ pc' = "idle" /\ result' = Http!NotFound /\ connected' = FALSE
           /\ UNCHANGED <<address, redirects, sent, respstr, hops>>
  <2>1. connected' \in BOOLEAN
    BY <1>5
  <2>2. HttpTypes' /\ Sending'
    BY <1>0, <1>5, <2>1 DEF HttpInv, HttpTypes, Sending
  <2>3. Receiving'
    BY <1>0, <1>3, <1>5 DEF Receiving
  <2>4. result' = [status |-> 404, body |-> <<>>]
    BY <1>5 DEF Http!NotFound
  <2>5. DOMAIN result' = {"status", "body"} /\ result'.status = 404
    BY <2>4
  <2>6. Returning'
    BY <1>0, <1>5, <2>5 DEF HttpInv, Returning, Http!NotFound
  <2> QED
    BY <2>2, <2>3, <2>6 DEF HttpInv
<1>6. CASE /\ pc' = "terminated"
           /\ UNCHANGED <<address, redirects, sent, respstr, result, connected, hops>>
  <2>1. HttpTypes' /\ Sending'
    BY <1>0, <1>6 DEF HttpInv, HttpTypes, Sending
  <2>2. Receiving'
    BY <1>0, <1>1, <1>3, <1>6 DEF Receiving
  <2>3. Returning'
    BY <1>0, <1>6 DEF HttpInv, Returning
  <2> QED
    BY <2>1, <2>2, <2>3 DEF HttpInv
<1>7. CASE /\ Http!FollowsRedirect
           /\ pc' = "connect" /\ address' = Http!Address(to) /\ hops' = hops + 1
           /\ sent' = 0 /\ respstr' = <<>> /\ connected' = FALSE
           /\ UNCHANGED <<redirects, result>>
  <2>1. connected' \in BOOLEAN /\ sent' \in 0 .. RequestLen /\ hops' \in Nat
    <3>1. connected' \in BOOLEAN
      BY <1>7
    <3> QED
      BY <1>7, <3>1, HttpAssumption DEF HttpInv, HttpTypes
  <2>2. HttpTypes' /\ Sending'
    BY <1>0, <1>7, <2>1 DEF HttpInv, HttpTypes, Sending
  <2>3. address' \in Addresses
    BY <1>1, <1>7, SiteAssumption DEF Http!FollowsRedirect, Http!Response, to
  <2>4. Receiving'
    BY <1>0, <1>3, <1>7, <2>3 DEF Receiving
  <2>5. m_follow_redirects > 0
    BY <1>1, <1>7 DEF Http!FollowsRedirect
  <2>6. Returning'
    BY <1>0, <1>7, <2>5 DEF HttpInv, Returning
  <2> QED
    BY <2>2, <2>4, <2>6 DEF HttpInv
<1>8. CASE /\ Http!Parse(s) = "success" /\ ~Http!FollowsRedirect
           /\ pc' = "idle" /\ connected' = FALSE
           /\ result' = [status |-> Http!Response.status, body |-> Http!Body(s)]
           /\ UNCHANGED <<address, redirects, sent, respstr, hops>>
  <2>1. connected' \in BOOLEAN
    BY <1>8
  <2>2. HttpTypes' /\ Sending'
    BY <1>0, <1>8, <2>1 DEF HttpInv, HttpTypes, Sending
  <2>3. Receiving'
    BY <1>0, <1>3, <1>8 DEF Receiving
  <2>4. HeadLen \in 0 .. Len(s) /\ Len(s) - HeadLen >= Http!Response.content_length
    <3>1. Len(s) >= HeadLen /\ Len(s) >= HeadLen + Http!Response.content_length
      BY <1>8, Parsed DEF Http!Header, Http!Complete
    <3> QED
      BY <1>2, <1>3, <3>1, HttpAssumption
  <2>5. /\ Follows(Http!Body(s), HeadLen)
        /\ Len(Http!Body(s)) >= Http!Response.content_length
    <3>1. Follows(Http!Body(s), 0 + HeadLen) /\ Len(Http!Body(s)) = Len(s) - HeadLen
      BY <1>3, <2>4, FollowsCut DEF Http!Body
    <3> QED
      BY <2>4, <3>1, HttpAssumption
  <2>6. /\ DOMAIN result' = {"status", "body"}
        /\ result'.status = Http!Response.status /\ result'.body = Http!Body(s)
    BY <1>8
  <2>7. Http!Response' = Http!Response
    BY <1>8 DEF Http!Response
  <2>8. (Http!Response.status = 302 /\ m_follow_redirects > 0) =>
          Http!Response.location.host = Nowhere
    BY <1>1, <1>8 DEF Http!FollowsRedirect
  <2>9. Returning'
    BY <1>0, <1>8, <2>5, <2>6, <2>7, <2>8 DEF HttpInv, Returning
  <2> QED
    BY <2>2, <2>3, <2>9 DEF HttpInv
<1> QED
  BY <1>4, <1>5, <1>6, <1>7, <1>8 DEF Http!Receive, s, to

LEMMA SiteStep ==
  ASSUME HttpInv, Http!SiteResponds \/ Http!SiteBreaks
  PROVE  HttpInv'
<1>0. /\ connected /\ http_fin' \in {"reported", "silent"}
      /\ UNCHANGED <<m_follow_redirects, m_timeout, pc, address, redirects, sent, respstr,
                     result, connected, hops, got, calls>>
  BY DEF Http!SiteResponds, Http!SiteBreaks, Http!Ends, Http!options
<1>1. breaks' \in 0 .. MaxBreaks
  BY HttpAssumption DEF HttpInv, HttpTypes, Http!SiteResponds, Http!SiteBreaks
<1>2. HttpTypes' /\ Sending'
  BY <1>0, <1>1 DEF HttpInv, HttpTypes, Sending
<1>3. /\ pc \notin {"idle", "connect"} /\ address \in Addresses
      /\ Site(address) # Refused
  BY <1>0 DEF HttpInv, Sending, Receiving
<1>4. /\ http_wire' \in Seq(Nat)
      /\ pc \in {"send", "receive"} =>
           Follows(respstr, 0) /\ Follows(http_wire', Len(respstr))
  <2>1. CASE Http!SiteResponds
    <3>1. /\ http_wire' = [i \in 1 .. HeadLen + Http!Response.body |-> i]
          /\ http_fin = "no"
      BY <2>1 DEF Http!SiteResponds
    <3>2. HeadLen + Http!Response.body \in Nat
      BY <1>3, HttpAssumption, SiteAssumption DEF Http!Response
    <3>3. Follows(http_wire', 0)
      BY <3>1, <3>2 DEF Follows
    <3>4. pc \in {"send", "receive"} => respstr = <<>>
      BY <3>1 DEF HttpInv, Receiving
    <3> QED
      BY <3>3, <3>4, EmptyFollows DEF Follows
  <2>2. CASE Http!SiteBreaks
    <3>1. PICK n \in 0 .. Len(http_wire) : http_wire' = SubSeq(http_wire, 1, n)
      BY <2>2 DEF Http!SiteBreaks
    <3>2. http_wire' \in Seq(Nat)
      <4>1. http_wire \in Seq(Nat) /\ Len(http_wire) \in Nat
        BY LenProperties DEF HttpInv, Receiving
      <4>2. \A i \in 1 .. n : http_wire[i] \in Nat
        BY <4>1, ElementOfSeq
      <4> QED
        BY <3>1, <4>1, <4>2, SubSeqProperties
    <3>3. ASSUME pc \in {"send", "receive"}
          PROVE  Follows(respstr, 0) /\ Follows(http_wire', Len(respstr))
      <4>1. Follows(respstr, 0) /\ Follows(http_wire, Len(respstr)) /\ Len(respstr) \in Nat
        BY <3>3, LenProperties DEF HttpInv, Receiving, Follows
      <4> QED
        BY <3>1, <4>1, FollowsCut
    <3> QED
      BY <3>2, <3>3
  <2> QED
    BY <2>1, <2>2
<1>5. Receiving'
  BY <1>0, <1>3, <1>4 DEF HttpInv, Receiving
<1>6. Returning'
  BY <1>0 DEF HttpInv, Returning, Http!Response
<1> QED
  BY <1>2, <1>5, <1>6 DEF HttpInv

LEMMA HttpInvariance == Http!Init /\ [][Http!Next]_(Http!vars) => []HttpInv
<1>1. ASSUME HttpInv, [Http!Next]_(Http!vars) PROVE HttpInv'
  <2>1. CASE UNCHANGED Http!vars
    BY <1>1, <2>1
    DEF Http!vars, Http!options, Http!site, HttpInv, HttpTypes, Sending, Receiving,
        Returning, Http!Response
  <2>2. CASE Http!ConnectFails \/ Http!SendFails \/ Http!TimesOut
    BY <1>1, <2>2, FailureReturns DEF Http!ConnectFails, Http!SendFails, Http!TimesOut
  <2> QED
    BY <1>1, <2>1, <2>2, RequestStep, ConnectStep, SendStep, RetryStep, ReceiveStep,
       SiteStep
    DEF Http!Next, Http!Sends, Http!Receives
<1> QED
  BY <1>1, HttpInit, PTL

LEMMA RequestFromInv == HttpInv => RequestInOrder
<1> SUFFICES ASSUME HttpInv PROVE RequestInOrder
  OBVIOUS
<1>1. got \in Seq(Nat) /\ \A i \in 1 .. Len(got) : got[i] = i
  BY DEF HttpInv, Sending, Follows
<1>2. got = [i \in 1 .. Len(got) |-> i]
  BY <1>1
<1>3. Http!TypeOK
  BY DEF HttpInv, HttpTypes, Returning, Http!TypeOK
<1>4. pc \in {"idle", "connect"} => ~connected
  BY DEF HttpInv, Sending
<1> QED
  BY <1>2, <1>3, <1>4 DEF RequestInOrder, Http!RequestInOrder

LEMMA ResponseFromInv == HttpInv => ResponseIsWhole
<1>1. ASSUME HttpInv, pc = "idle", result # Http!NotFound
      PROVE  /\ result.status = Http!Response.status
             /\ result.body = [i \in 1 .. Len(result.body) |-> HeadLen + i]
             /\ Len(result.body) >= Http!Response.content_length
  BY <1>1 DEF HttpInv, Returning, Follows
<1> QED
  BY <1>1 DEF ResponseIsWhole, Http!ResponseIsWhole

LEMMA RedirectsFromInv == HttpInv => RedirectsAsAsked
BY DEF HttpInv, Returning, RedirectsAsAsked, Http!RedirectsAsAsked

(* A connection carries one request, byte by byte, and every way out of     *)
(* process_request closes it (http_client.cpp:149-250).                     *)
THEOREM RequestsCorrect == Http!Spec => []RequestInOrder
BY RequestFromInv, HttpInvariance, PTL DEF Http!Spec

(* What is returned is a 404 or the whole answer of the site the request    *)
(* went to last (http_client.cpp:170-204, http_response.cpp:221-270).       *)
THEOREM ResponsesCorrect == Http!Spec => []ResponseIsWhole
BY ResponseFromInv, HttpInvariance, PTL DEF Http!Spec

(* Redirects are followed only when that was asked for, and then no caller  *)
(* gets one that says where to go (http_client.cpp:220-238).                *)
THEOREM RedirectsCorrect == Http!Spec => []RedirectsAsAsked
BY RedirectsFromInv, HttpInvariance, PTL DEF Http!Spec

-----------------------------------------------------------------------------
(* The two ends of a tls connection: what is said of the values first.      *)

Records == {"data", "flight", "close_notify", "fatal"} \X Nat

(* Records of user data among the first n of e.                             *)
DataIn(e, n) == Cardinality({i \in 1 .. n : e[i][1] = "data"})

(* The records of user data have the numbers 1, 2, 3 ...                    *)
Numbered(e) ==
  /\ e \in Seq(Records)
  /\ \A j \in 1 .. Len(e) : e[j][1] = "data" => e[j] = Data(DataIn(e, j))

LEMMA DataInType ==
  ASSUME NEW e, NEW n \in Nat
  PROVE  /\ IsFiniteSet({i \in 1 .. n : e[i][1] = "data"})
         /\ DataIn(e, n) \in Nat
<1>1. IsFiniteSet(1 .. n)
  BY FS_Interval
<1>2. {i \in 1 .. n : e[i][1] = "data"} \in SUBSET (1 .. n)
  OBVIOUS
<1>3. IsFiniteSet({i \in 1 .. n : e[i][1] = "data"})
  BY <1>1, <1>2, FS_Subset
<1> QED
  BY <1>3, FS_CardinalityType DEF DataIn

(* One record more.                                                         *)
LEMMA DataInNext ==
  ASSUME NEW e, NEW n \in Nat
  PROVE  DataIn(e, n + 1) = IF e[n + 1][1] = "data" THEN DataIn(e, n) + 1
                                                    ELSE DataIn(e, n)
<1> DEFINE S == {i \in 1 .. n : e[i][1] = "data"}
<1>1. {i \in 1 .. n + 1 : e[i][1] = "data"}
        = IF e[n + 1][1] = "data" THEN S \cup {n + 1} ELSE S
  <2>1. 1 .. n + 1 = (1 .. n) \cup {n + 1}
    OBVIOUS
  <2> QED
    BY <2>1
<1>2. n + 1 \notin S /\ IsFiniteSet(S)
  <2>1. n + 1 \notin S
    OBVIOUS
  <2> QED
    BY <2>1, DataInType
<1>3. Cardinality(S \cup {n + 1}) = Cardinality(S) + 1
  BY <1>2, FS_AddElement
<1> QED
  BY <1>1, <1>3 DEF DataIn

LEMMA DataInFewer ==
  ASSUME NEW e, NEW n \in Nat, NEW k \in 0 .. n
  PROVE  DataIn(e, k) <= DataIn(e, n)
<1>1. {i \in 1 .. k : e[i][1] = "data"} \in SUBSET {i \in 1 .. n : e[i][1] = "data"}
  OBVIOUS
<1>2. IsFiniteSet({i \in 1 .. n : e[i][1] = "data"})
  BY DataInType
<1> QED
  BY <1>1, <1>2, FS_Subset DEF DataIn

LEMMA DataInAppended ==
  ASSUME NEW e \in Seq(Records), NEW r \in Records, NEW k \in 0 .. Len(e)
  PROVE  DataIn(Append(e, r), k) = DataIn(e, k)
<1>1. \A i \in 1 .. k : Append(e, r)[i] = e[i]
  BY LenProperties, AppendProperties
<1>2. {i \in 1 .. k : Append(e, r)[i][1] = "data"} = {i \in 1 .. k : e[i][1] = "data"}
  BY <1>1
<1> QED
  BY <1>2 DEF DataIn

LEMMA NumberedOn ==
  ASSUME NEW e, NEW r \in Records, Numbered(e),
         r[1] = "data" => r = Data(DataIn(e, Len(e)) + 1)
  PROVE  Numbered(Append(e, r))
<1> DEFINE a == Append(e, r)
<1>1. /\ e \in Seq(Records) /\ Len(e) \in Nat
      /\ a \in Seq(Records) /\ Len(a) = Len(e) + 1 /\ a[Len(e) + 1] = r
      /\ \A j \in 1 .. Len(e) : a[j] = e[j]
  BY LenProperties, AppendProperties DEF Numbered
<1>2. \A j \in 0 .. Len(e) : DataIn(a, j) = DataIn(e, j)
  BY <1>1, DataInAppended
<1> HIDE DEF a
<1>3. ASSUME NEW j \in 1 .. Len(e), a[j][1] = "data" PROVE a[j] = Data(DataIn(a, j))
  <2>1. j \in 0 .. Len(e) /\ a[j] = e[j]
    BY <1>1
  <2>2. e[j] = Data(DataIn(e, j))
    BY <1>3, <2>1 DEF Numbered
  <2> QED
    BY <1>2, <2>1, <2>2
<1>4. ASSUME r[1] = "data" PROVE r = Data(DataIn(a, Len(e) + 1))
  <2>1. DataIn(a, Len(e) + 1) = DataIn(a, Len(e)) + 1
    BY <1>1, <1>4, DataInNext
  <2>2. DataIn(a, Len(e)) = DataIn(e, Len(e))
    BY <1>1, <1>2
  <2> QED
    BY <1>4, <2>1, <2>2
<1>5. \A j \in 1 .. Len(a) : j \in 1 .. Len(e) \/ j = Len(e) + 1
  BY <1>1
<1>6. ASSUME NEW j \in 1 .. Len(a), a[j][1] = "data" PROVE a[j] = Data(DataIn(a, j))
  BY <1>1, <1>3, <1>4, <1>5, <1>6
<1>7. Numbered(a)
  BY <1>1, <1>6 DEF Numbered
<1> QED
  BY <1>7 DEF a

-----------------------------------------------------------------------------
(* One way: e has been emitted, k records of it were understood; rec, w and *)
(* out are on their way, ret and got the user data that has arrived.        *)
Way(e, k, rec, w) ==
  /\ k \in 0 .. Len(e)
  /\ Follows(rec, RecordLen * k) /\ Follows(w, RecordLen * k + Len(rec))
  /\ RecordLen * k + Len(rec) + Len(w) <= RecordLen * Len(e)

Plain(e, k, ret, in) ==
  /\ ret \in Seq(Records) /\ in \in Seq(Records)
  /\ Len(ret) + Len(in) = DataIn(e, k)
  /\ \A i \in 1 .. Len(ret) : ret[i] = Data(i)
  /\ \A i \in 1 .. Len(in) : in[i] = Data(Len(ret) + i)

(* Nothing was lost: the rest is in the buffer of the sender.               *)
Whole(e, k, rec, w, out) ==
  /\ Follows(out, RecordLen * k + Len(rec) + Len(w))
  /\ RecordLen * k + Len(rec) + Len(w) + Len(out) = RecordLen * Len(e)

(* The bytes of the first n records.                                        *)
LEMMA Products ==
  ASSUME NEW n \in Nat
  PROVE  /\ RecordLen \in Nat /\ RecordLen > 0 /\ RecordLen * n \in Nat
         /\ RecordLen * (n + 1) = RecordLen * n + RecordLen
         /\ ((RecordLen * n + 1) - 1) \div RecordLen = n
<1>1. RecordLen \in Nat /\ RecordLen > 0
  BY RecordAssumption
<1>2. RecordLen * n \in Nat /\ RecordLen * (n + 1) = RecordLen * n + RecordLen
  BY <1>1
<1>3. (RecordLen * n) \div RecordLen = n
  BY <1>1
<1>4. (RecordLen * n + 1) - 1 = RecordLen * n
  BY <1>2
<1> QED
  BY <1>1, <1>2, <1>3, <1>4

LEMMA WholeRecords ==
  ASSUME NEW k \in Nat, NEW n \in Nat, RecordLen * k + RecordLen <= RecordLen * n
  PROVE  k + 1 <= n
<1>1. RecordLen \in Nat /\ RecordLen > 0
  BY RecordAssumption
<1>2. RecordLen * (n - (k + 1)) >= 0
  BY <1>1
<1> QED
  BY <1>1, <1>2

(* The sender emits a record: nothing changes for what is under way.        *)
LEMMA WayLonger ==
  ASSUME NEW e, NEW r \in Records, NEW k, NEW rec, NEW w, Numbered(e), Way(e, k, rec, w)
  PROVE  Way(Append(e, r), k, rec, w)
<1> DEFINE a == Append(e, r)
<1>1. Len(a) = Len(e) + 1 /\ Len(e) \in Nat /\ k \in Nat /\ k <= Len(e)
  BY LenProperties, AppendProperties DEF Numbered, Way
<1>2. Follows(rec, RecordLen * k) /\ Follows(w, RecordLen * k + Len(rec))
  BY DEF Way
<1>3. Len(rec) \in Nat /\ Len(w) \in Nat
  BY <1>2, LenProperties DEF Follows
<1> DEFINE p == RecordLen * k
           q == RecordLen * Len(e)
           m == Len(rec)
           l == Len(w)
<1>4. /\ p \in Nat /\ q \in Nat /\ RecordLen \in Nat
      /\ RecordLen * Len(a) = q + RecordLen
  BY <1>1, Products
<1>5. p + m + l <= q
  BY DEF Way
<1>6. k \in 0 .. Len(a)
  BY <1>1
<1> HIDE DEF a, q
<1>7. p + m + l <= RecordLen * Len(a)
  <2> HIDE DEF p, m, l
  <2>1. m \in Nat /\ l \in Nat
    BY <1>3 DEF m, l
  <2> QED
    BY <1>4, <1>5, <2>1
<1>8. Way(a, k, rec, w)
  BY <1>2, <1>6, <1>7 DEF Way, p, m, l
<1> QED
  BY <1>8 DEF a

LEMMA PlainLonger ==
  ASSUME NEW e, NEW r \in Records, NEW k \in 0 .. Len(e), NEW ret, NEW in,
         Numbered(e), Plain(e, k, ret, in)
  PROVE  Plain(Append(e, r), k, ret, in)
<1>1. DataIn(Append(e, r), k) = DataIn(e, k)
  BY DataInAppended DEF Numbered
<1> QED
  BY <1>1 DEF Plain

LEMMA WholeLonger ==
  ASSUME NEW e, NEW r \in Records, NEW k, NEW rec, NEW w, NEW out, NEW bytes,
         Numbered(e), Way(e, k, rec, w), Whole(e, k, rec, w, out),
         Follows(bytes, RecordLen * Len(e)), Len(bytes) = RecordLen
  PROVE  Whole(Append(e, r), k, rec, w, out \o bytes)
<1> DEFINE a == Append(e, r)
           p == RecordLen * k + Len(rec) + Len(w)
           q == RecordLen * Len(e)
<1>1. Len(a) = Len(e) + 1 /\ Len(e) \in Nat /\ k \in Nat
  BY LenProperties, AppendProperties DEF Numbered, Way
<1>2. Follows(out, p) /\ p + Len(out) = q
  BY DEF Whole
<1>3. Len(rec) \in Nat /\ Len(w) \in Nat /\ Len(out) \in Nat
  BY <1>2, LenProperties DEF Way, Follows
<1>4. p \in Nat
  <2>1. RecordLen * k \in Nat
    BY <1>1, Products
  <2> QED
    BY <1>3, <2>1
<1>5. RecordLen \in Nat /\ RecordLen * Len(a) = q + RecordLen
  BY <1>1, Products
<1>6. Follows(bytes, p + Len(out))
  BY <1>2
<1>7. Follows(out \o bytes, p) /\ Len(out \o bytes) = Len(out) + RecordLen
  BY <1>2, <1>4, <1>6, FollowsOn
<1> HIDE DEF a, q
<1>8. p + Len(out \o bytes) = RecordLen * Len(a)
  <2> DEFINE l == Len(out \o bytes)
             m == Len(out)
  <2>1. l = m + RecordLen /\ m \in Nat /\ p + m = q
    BY <1>2, <1>3, <1>7
  <2> HIDE DEF l, m, p
  <2>2. p + l = q + RecordLen
    BY <1>4, <1>5, <2>1
  <2> QED
    BY <1>5, <2>2 DEF l
<1>9. Whole(a, k, rec, w, out \o bytes)
  BY <1>7, <1>8 DEF Whole, p
<1> QED
  BY <1>9 DEF a

(* The socket of the sender takes n bytes.                                  *)
LEMMA WaySent ==
  ASSUME NEW e, NEW k, NEW rec, NEW w, NEW out, NEW n \in 0 .. Len(out),
         Numbered(e), Way(e, k, rec, w), Whole(e, k, rec, w, out)
  PROVE  /\ Way(e, k, rec, w \o SubSeq(out, 1, n))
         /\ Whole(e, k, rec, w \o SubSeq(out, 1, n), SubSeq(out, n + 1, Len(out)))
<1> DEFINE p == RecordLen * k
           q == RecordLen * Len(e)
           first == SubSeq(out, 1, n)
           rest == SubSeq(out, n + 1, Len(out))
<1>1. /\ Follows(w, p + Len(rec)) /\ Follows(out, p + Len(rec) + Len(w))
      /\ p + Len(rec) + Len(w) + Len(out) = q
      /\ k \in 0 .. Len(e) /\ Follows(rec, p)
  BY DEF Way, Whole
<1>2. /\ Len(rec) \in Nat /\ Len(w) \in Nat /\ Len(out) \in Nat /\ Len(e) \in Nat
      /\ n \in Nat /\ n <= Len(out)
  BY <1>1, LenProperties DEF Follows, Numbered
<1>3. p \in Nat /\ q \in Nat
  BY <1>1, <1>2, Products
<1> HIDE DEF p, q
<1>4. p + Len(rec) + Len(w) \in Nat /\ p + Len(rec) \in Nat
  BY <1>2, <1>3
<1>5. /\ Follows(first, p + Len(rec) + Len(w)) /\ Len(first) = n
      /\ Follows(rest, p + Len(rec) + Len(w) + n) /\ Len(rest) = Len(out) - n
  BY <1>1, <1>4, FollowsCut
<1>6. Follows(first, (p + Len(rec)) + Len(w))
  BY <1>5
<1> HIDE DEF first, rest
<1>7. Follows(w \o first, p + Len(rec)) /\ Len(w \o first) = Len(w) + n
  BY <1>1, <1>4, <1>5, <1>6, FollowsOn
<1> DEFINE m == Len(w \o first)
<1>8. m = Len(w) + n
  BY <1>7
<1> HIDE DEF m
<1>9. /\ p + Len(rec) + m <= q
      /\ p + Len(rec) + m = p + Len(rec) + Len(w) + n
      /\ p + Len(rec) + m + Len(rest) = q
  <2> DEFINE a == Len(rec)
             b == Len(w)
             c == Len(out)
             d == Len(rest)
  <2>1. a \in Nat /\ b \in Nat /\ c \in Nat /\ p + a + b + c = q
    BY <1>1, <1>2
  <2>2. m = b + n /\ d = c - n /\ n <= c /\ n \in Nat
    BY <1>2, <1>5, <1>8
  <2> HIDE DEF a, b, c, d
  <2>3. p + a + m <= q /\ p + a + m = p + a + b + n /\ p + a + m + d = q
    BY <1>3, <2>1, <2>2
  <2> QED
    BY <2>3 DEF a, b, c, d
<1>10. Way(e, k, rec, w \o first)
  BY <1>1, <1>7, <1>9 DEF Way, p, q, m
<1>11. Follows(rest, p + Len(rec) + m)
  BY <1>5, <1>9
<1>12. Whole(e, k, rec, w \o first, rest)
  BY <1>9, <1>11 DEF Whole, p, q, m
<1> QED
  BY <1>10, <1>12 DEF first, rest

(* The receiver gets n bytes of the kernel's.                               *)
LEMMA WayReceived ==
  ASSUME NEW e, NEW k, NEW rec, NEW w, NEW n \in 0 .. Len(w), Numbered(e),
         Way(e, k, rec, w)
  PROVE  /\ Way(e, k, rec \o SubSeq(w, 1, n), SubSeq(w, n + 1, Len(w)))
         /\ \A out : Whole(e, k, rec, w, out) =>
              Whole(e, k, rec \o SubSeq(w, 1, n), SubSeq(w, n + 1, Len(w)), out)
<1> DEFINE p == RecordLen * k
           q == RecordLen * Len(e)
           first == SubSeq(w, 1, n)
           rest == SubSeq(w, n + 1, Len(w))
<1>1. /\ k \in 0 .. Len(e) /\ Follows(rec, p) /\ Follows(w, p + Len(rec))
      /\ p + Len(rec) + Len(w) <= q
  BY DEF Way
<1>2. /\ Len(rec) \in Nat /\ Len(w) \in Nat /\ Len(e) \in Nat
      /\ n \in Nat /\ n <= Len(w)
  BY <1>1, LenProperties DEF Follows, Numbered
<1>3. p \in Nat /\ q \in Nat
  BY <1>1, <1>2, Products
<1> HIDE DEF p, q
<1>4. p + Len(rec) \in Nat
  BY <1>2, <1>3
<1>5. /\ Follows(first, p + Len(rec)) /\ Len(first) = n
      /\ Follows(rest, p + Len(rec) + n) /\ Len(rest) = Len(w) - n
  BY <1>1, <1>4, FollowsCut
<1> HIDE DEF first, rest
<1>6. Follows(rec \o first, p) /\ Len(rec \o first) = Len(rec) + n
  BY <1>1, <1>3, <1>5, FollowsOn
<1> DEFINE m == Len(rec \o first)
<1>7. m = Len(rec) + n
  BY <1>6
<1> HIDE DEF m
<1>8. p + m + Len(rest) = p + Len(rec) + Len(w) /\ p + m = p + Len(rec) + n
  BY <1>2, <1>3, <1>5, <1>7
<1>9. Way(e, k, rec \o first, rest)
  BY <1>1, <1>5, <1>6, <1>8 DEF Way, p, q, m
<1>10. ASSUME NEW out, Whole(e, k, rec, w, out) PROVE Whole(e, k, rec \o first, rest, out)
  <2>1. Follows(out, p + Len(rec) + Len(w)) /\ p + Len(rec) + Len(w) + Len(out) = q
    BY <1>10 DEF Whole, p, q
  <2>2. Follows(out, p + m + Len(rest)) /\ p + m + Len(rest) + Len(out) = q
    BY <1>8, <2>1
  <2> QED
    BY <2>2 DEF Whole, p, q, m
<1> QED
  BY <1>9, <1>10 DEF first, rest

(* The kernel drops what it holds.                                          *)
LEMMA WayCut ==
  ASSUME NEW e, NEW k, NEW rec, NEW w, Numbered(e), Way(e, k, rec, w)
  PROVE  Way(e, k, rec, <<>>)
<1>1. /\ k \in 0 .. Len(e) /\ Follows(rec, RecordLen * k)
      /\ RecordLen * k + Len(rec) + Len(w) <= RecordLen * Len(e)
      /\ Len(rec) \in Nat /\ Len(w) \in Nat /\ Len(e) \in Nat
  BY LenProperties DEF Way, Follows, Numbered
<1>2. RecordLen * k \in Nat /\ RecordLen * Len(e) \in Nat
  BY <1>1, Products
<1>3. Follows(<<>>, RecordLen * k + Len(rec))
  BY EmptyFollows
<1>4. Len(<<>>) = 0
  OBVIOUS
<1> DEFINE p == RecordLen * k
           q == RecordLen * Len(e)
<1> HIDE DEF p, q
<1>5. p + Len(rec) + Len(<<>>) <= q
  BY <1>1, <1>2, <1>4 DEF p, q
<1> QED
  BY <1>1, <1>3, <1>5 DEF Way, p, q

(* Botan understands a record: it is the next one, and its bytes are gone.  *)
LEMMA WayUnderstood ==
  ASSUME NEW e, NEW k, NEW rec, NEW w, Numbered(e), Way(e, k, rec, w),
         Len(rec) >= RecordLen
  PROVE  /\ k + 1 \in 1 .. Len(e) /\ ((rec[1] - 1) \div RecordLen) + 1 = k + 1
         /\ Way(e, k + 1, SubSeq(rec, RecordLen + 1, Len(rec)), w)
         /\ \A out : Whole(e, k, rec, w, out) =>
              Whole(e, k + 1, SubSeq(rec, RecordLen + 1, Len(rec)), w, out)
<1> DEFINE p == RecordLen * k
           q == RecordLen * Len(e)
           rest == SubSeq(rec, RecordLen + 1, Len(rec))
<1>1. /\ k \in 0 .. Len(e) /\ Follows(rec, p) /\ Follows(w, p + Len(rec))
      /\ p + Len(rec) + Len(w) <= q
  BY DEF Way
<1>2. Len(rec) \in Nat /\ Len(w) \in Nat /\ Len(e) \in Nat /\ k \in Nat
  BY <1>1, LenProperties DEF Follows, Numbered
<1>3. /\ p \in Nat /\ q \in Nat /\ RecordLen \in Nat /\ RecordLen > 0
      /\ RecordLen * (k + 1) = p + RecordLen /\ ((p + 1) - 1) \div RecordLen = k
  BY <1>2, Products
<1> DEFINE p1 == RecordLen * (k + 1)
<1>4. rec[1] = p + 1
  BY <1>1, <1>2, <1>3 DEF Follows
<1>5. k + 1 <= Len(e)
  <2> HIDE DEF p, q
  <2>1. p + RecordLen <= q
    BY <1>1, <1>2, <1>3
  <2> QED
    BY <1>2, <2>1, WholeRecords DEF p, q
<1> HIDE DEF p, q
<1>6. /\ Follows(rest, p + RecordLen) /\ Len(rest) = Len(rec) - RecordLen
  <2>1. RecordLen \in 0 .. Len(rec)
    BY <1>2, <1>3
  <2> QED
    BY <1>1, <1>3, <2>1, FollowsCut
<1> HIDE DEF rest, p1
<1>7. p1 = p + RecordLen /\ p1 + Len(rest) = p + Len(rec)
  BY <1>2, <1>3, <1>6 DEF p1
<1>8. p1 + Len(rest) + Len(w) = p + Len(rec) + Len(w)
  BY <1>7
<1>9. k + 1 \in 0 .. Len(e)
  BY <1>2, <1>5
<1>10. Way(e, k + 1, rest, w)
  BY <1>1, <1>6, <1>7, <1>8, <1>9 DEF Way, p1, q
<1>11. ASSUME NEW out, Whole(e, k, rec, w, out) PROVE Whole(e, k + 1, rest, w, out)
  <2>1. Follows(out, p + Len(rec) + Len(w)) /\ p + Len(rec) + Len(w) + Len(out) = q
    BY <1>11 DEF Whole, p, q
  <2>2. Follows(out, p1 + Len(rest) + Len(w)) /\ p1 + Len(rest) + Len(w) + Len(out) = q
    BY <1>8, <2>1
  <2> QED
    BY <2>2 DEF Whole, p1, q
<1>12. ((rec[1] - 1) \div RecordLen) + 1 = k + 1
  BY <1>3, <1>4
<1>13. k + 1 \in 1 .. Len(e)
  BY <1>2, <1>5
<1> QED
  BY <1>10, <1>11, <1>12, <1>13 DEF rest

(* User data that was decrypted is appended.                                *)
LEMMA PlainUnderstood ==
  ASSUME NEW e, NEW k, NEW ret, NEW in, Numbered(e), k \in 0 .. Len(e),
         k + 1 \in 1 .. Len(e), Plain(e, k, ret, in)
  PROVE  Plain(e, k + 1, ret, IF e[k + 1][1] = "data" THEN Append(in, e[k + 1]) ELSE in)
<1>0. Len(e) \in Nat /\ k \in Nat /\ e[k + 1] \in Records
  BY LenProperties, ElementOfSeq DEF Numbered
<1>1. DataIn(e, k) \in Nat
  BY <1>0, DataInType
<1>2. /\ ret \in Seq(Records) /\ in \in Seq(Records) /\ Len(ret) \in Nat /\ Len(in) \in Nat
      /\ Len(ret) + Len(in) = DataIn(e, k)
      /\ \A i \in 1 .. Len(ret) : ret[i] = Data(i)
      /\ \A i \in 1 .. Len(in) : in[i] = Data(Len(ret) + i)
  BY LenProperties DEF Plain
<1>3. CASE e[k + 1][1] # "data"
  <2>1. DataIn(e, k + 1) = DataIn(e, k)
    BY <1>0, <1>3, DataInNext
  <2> QED
    BY <1>2, <1>3, <2>1 DEF Plain
<1>4. CASE e[k + 1][1] = "data"
  <2> DEFINE n == Append(in, e[k + 1])
  <2>1. DataIn(e, k + 1) = DataIn(e, k) + 1
    BY <1>0, <1>4, DataInNext
  <2>2. e[k + 1] = Data(DataIn(e, k + 1))
    BY <1>4 DEF Numbered
  <2>3. /\ n \in Seq(Records) /\ Len(n) = Len(in) + 1 /\ n[Len(in) + 1] = e[k + 1]
        /\ \A i \in 1 .. Len(in) : n[i] = in[i]
    BY <1>0, <1>2, AppendProperties
  <2> HIDE DEF n
  <2>4. Len(ret) + Len(n) = DataIn(e, k + 1)
    BY <1>1, <1>2, <2>1, <2>3
  <2>5. \A i \in 1 .. Len(n) : i \in 1 .. Len(in) \/ i = Len(in) + 1
    BY <1>2, <2>3
  <2>6. n[Len(in) + 1] = Data(Len(ret) + (Len(in) + 1))
    <3>1. DataIn(e, k + 1) = Len(ret) + (Len(in) + 1)
      BY <1>1, <1>2, <2>1
    <3> QED
      BY <2>2, <2>3, <3>1
  <2>7. \A i \in 1 .. Len(n) : n[i] = Data(Len(ret) + i)
    BY <1>2, <2>3, <2>5, <2>6
  <2>8. Plain(e, k + 1, ret, n)
    BY <1>2, <2>3, <2>4, <2>7 DEF Plain
  <2> QED
    BY <1>4, <2>8 DEF n
<1> QED
  BY <1>3, <1>4

(* read_raw returns n records.                                              *)
LEMMA PlainRead ==
  ASSUME NEW e, NEW k \in Nat, NEW ret, NEW in, NEW n \in 0 .. Len(in), Plain(e, k, ret, in)
  PROVE  Plain(e, k, ret \o SubSeq(in, 1, n), SubSeq(in, n + 1, Len(in)))
<1> DEFINE first == SubSeq(in, 1, n)
           rest == SubSeq(in, n + 1, Len(in))
<1>1. /\ ret \in Seq(Records) /\ in \in Seq(Records) /\ Len(ret) \in Nat /\ Len(in) \in Nat
      /\ Len(ret) + Len(in) = DataIn(e, k)
      /\ \A i \in 1 .. Len(ret) : ret[i] = Data(i)
      /\ \A i \in 1 .. Len(in) : in[i] = Data(Len(ret) + i)
      /\ n \in Nat /\ n <= Len(in)
  BY LenProperties DEF Plain
<1>2. /\ first \in Seq(Records) /\ Len(first) = n
      /\ \A i \in 1 .. n : first[i] = in[i]
  <2>1. \A i \in 1 .. n : in[i] \in Records
    BY <1>1, ElementOfSeq
  <2> QED
    BY <1>1, <2>1, SubSeqProperties
<1>3. /\ rest \in Seq(Records) /\ Len(rest) = Len(in) - n
      /\ \A i \in 1 .. Len(in) - n : rest[i] = in[n + i]
  <2>1. \A i \in n + 1 .. Len(in) : in[i] \in Records
    BY <1>1, ElementOfSeq
  <2> QED
    BY <1>1, <2>1, SubSeqProperties
<1> HIDE DEF first, rest
<1> DEFINE all == ret \o first
<1>4. /\ all \in Seq(Records) /\ Len(all) = Len(ret) + n
      /\ \A i \in 1 .. Len(ret) + n :
           all[i] = IF i <= Len(ret) THEN ret[i] ELSE first[i - Len(ret)]
  BY <1>1, <1>2, ConcatProperties
<1> HIDE DEF all
<1>5. ASSUME NEW i \in 1 .. Len(all) PROVE all[i] = Data(i)
  <2>1. CASE i <= Len(ret)
    BY <1>1, <1>4, <2>1
  <2>2. CASE ~(i <= Len(ret))
    <3>1. i - Len(ret) \in 1 .. n /\ i - Len(ret) \in 1 .. Len(in)
      BY <1>1, <1>4, <2>2
    <3>2. first[i - Len(ret)] = Data(Len(ret) + (i - Len(ret)))
      BY <1>1, <1>2, <3>1
    <3>3. Len(ret) + (i - Len(ret)) = i
      BY <1>1
    <3> QED
      BY <1>1, <1>4, <2>2, <3>2, <3>3
  <2> QED
    BY <2>1, <2>2
<1>6. ASSUME NEW i \in 1 .. Len(rest) PROVE rest[i] = Data(Len(all) + i)
  <2>1. i \in 1 .. Len(in) - n /\ n + i \in 1 .. Len(in)
    BY <1>1, <1>3
  <2>2. rest[i] = Data(Len(ret) + (n + i))
    BY <1>1, <1>3, <2>1
  <2>3. Len(ret) + (n + i) = Len(all) + i
    BY <1>1, <1>4
  <2> QED
    BY <2>2, <2>3
<1>7. Len(all) + Len(rest) = DataIn(e, k)
  BY <1>1, <1>3, <1>4
<1>8. Plain(e, k, all, rest)
  BY <1>3, <1>4, <1>5, <1>6, <1>7 DEF Plain
<1> QED
  BY <1>8 DEF all, first, rest

-----------------------------------------------------------------------------
(* The state.  The two ends are joined towards x while nothing was dropped  *)
(* of what goes to x.                                                       *)
Joined(x) == m_client[x] = "open" /\ m_client[Other(x)] = "open" /\ fin[x] = "no"

TlsTypes ==
  /\ m_client \in [Ends -> {"open", "closed", "null"}]
  /\ m_tls_channel \in [Ends -> {"handshake", "active", "closed"}]
  /\ step \in [Ends -> Steps]
  /\ call \in [Ends -> {"finish", "read", "write", "close"}]
  /\ fin \in [Ends -> {"no", "reported", "silent"}]
  /\ m_out_buffer \in [Ends -> Seq(Nat)] /\ received \in [Ends -> Seq(Nat)]
  /\ wire \in [Ends -> Seq(Nat)]
  /\ m_in_buffer \in [Ends -> Seq(Records)] /\ returned \in [Ends -> Seq(Records)]
  /\ emitted \in [Ends -> Seq(Records)]

(* What an end has emitted, and what it keeps of it.                        *)
EndOK(x) ==
  /\ Numbered(emitted[x]) /\ Written(x) <= MaxData(x)
  /\ \A i \in 1 .. Len(m_out_buffer[x]) :
       m_out_buffer[x][i] \in 1 .. RecordLen * Len(emitted[x])

(* Towards x: Botan of x has understood the first k records of the other    *)
(* end, and the rest is under way as far as it was not dropped.             *)
Towards(x, k) ==
  LET e == emitted[Other(x)] IN
  /\ Way(e, k, received[x], wire[x])
  /\ Plain(e, k, returned[x], m_in_buffer[x])
  /\ Joined(x) => Whole(e, k, received[x], wire[x], m_out_buffer[Other(x)])

TlsInv == TlsTypes /\ \A x \in Ends : EndOK(x) /\ \E k \in Nat : Towards(x, k)

(* x emits a record, or nothing; what it had not sent is lost when the ends *)
(* are not joined any more.                                                 *)
Same(x) == emitted'[x] = emitted[x] /\ m_out_buffer'[x] = m_out_buffer[x]
EmitsOne(x, r) ==
  /\ emitted'[x] = Append(emitted[x], r)
  /\ m_out_buffer'[x] = m_out_buffer[x] \o NewBytes(x)
Permitted(x, r) ==
  /\ r \in Records
  /\ r[1] = "data" => Written(x) < MaxData(x) /\ r = Data(Written(x) + 1)
Emptied(x) == emitted'[x] = emitted[x] /\ m_out_buffer'[x] = <<>>
Replaced(x, r) ==
  /\ emitted'[x] = Append(emitted[x], r)
  /\ m_out_buffer'[x] = NewBytes(x)
Loses(x) == /\ ~Joined(Other(x))'
            /\ Emptied(x) \/ \E r : Permitted(x, r) /\ Replaced(x, r)
Emission(x) == Same(x) \/ Loses(x) \/ \E r : Permitted(x, r) /\ EmitsOne(x, r)

(* x gets nothing, and the kernel drops what it holds for x only when the   *)
(* ends are not joined any more.                                            *)
Kept(x) == /\ wire'[x] = wire[x] \/ (wire'[x] = <<>> /\ ~Joined(x)')
           /\ Joined(x)' => Joined(x)
Quiet(x) == /\ received'[x] = received[x] /\ Kept(x)
            /\ returned'[x] = returned[x] /\ m_in_buffer'[x] = m_in_buffer[x]

(* Botan of x understands a record.                                         *)
Understands(x) ==
  /\ Len(received[x]) >= RecordLen /\ Kept(x)
  /\ received'[x] = SubSeq(received[x], RecordLen + 1, Len(received[x]))
  /\ returned'[x] = returned[x]
  /\ m_in_buffer'[x] = IF Record(x)[1] = "data" THEN Append(m_in_buffer[x], Record(x))
                                                ELSE m_in_buffer[x]

LEMMA Pair ==
  ASSUME NEW x \in Ends
  PROVE  /\ Other(x) \in Ends /\ Other(x) # x /\ Other(Other(x)) = x
         /\ \A y \in Ends : y = x \/ y = Other(x)
BY EndsAssumption DEF Ends, Other

LEMMA NewBytesFollow ==
  ASSUME NEW x, emitted[x] \in Seq(Records)
  PROVE  Follows(NewBytes(x), RecordLen * Len(emitted[x])) /\ Len(NewBytes(x)) = RecordLen
<1>1. Len(emitted[x]) \in Nat
  BY LenProperties
<1>2. RecordLen * Len(emitted[x]) \in Nat /\ RecordLen \in Nat
  BY <1>1, Products
<1> QED
  BY <1>2, Counted DEF NewBytes

LEMMA WrittenIs == \A x : Written(x) = DataIn(emitted[x], Len(emitted[x]))
BY DEF Written, DataAmong, DataIn

LEMMA EmissionEnd ==
  ASSUME NEW x \in Ends, EndOK(x), Emission(x), MaxData(x) \in Nat,
         m_out_buffer[x] \in Seq(Nat)
  PROVE  EndOK(x)'
<1>1. CASE Same(x)
  BY <1>1 DEF Same, EndOK, Written, DataAmong
<1>2. ASSUME NEW r, Permitted(x, r), EmitsOne(x, r) \/ Replaced(x, r) PROVE EndOK(x)'
  <2> DEFINE e == emitted[x]
             a == Append(e, r)
             n == Len(e)
             o == m_out_buffer[x]
             b == NewBytes(x)
  <2>1. Numbered(e) /\ r \in Records /\ e \in Seq(Records) /\ n \in Nat
    BY <1>2, LenProperties DEF EndOK, Numbered, Permitted
  <2>2. Written(x) = DataIn(e, n) /\ Written(x)' = DataIn(a, Len(a))
    BY <1>2 DEF Written, DataAmong, DataIn, EmitsOne, Replaced
  <2>3. Numbered(a)
    BY <1>2, <2>1, <2>2, NumberedOn DEF Permitted
  <2>4. /\ Len(a) = n + 1 /\ a[n + 1] = r /\ DataIn(a, n) = DataIn(e, n)
        /\ DataIn(e, n) \in Nat
    <3>1. n \in 0 .. Len(e)
      BY <2>1
    <3>2. DataIn(a, n) = DataIn(e, n)
      BY <2>1, <3>1, DataInAppended
    <3>3. Len(a) = n + 1 /\ a[n + 1] = r
      BY <2>1, AppendProperties
    <3>4. DataIn(e, n) \in Nat
      BY <2>1, DataInType
    <3> QED
      BY <3>2, <3>3, <3>4
  <2>5. DataIn(a, Len(a)) = IF r[1] = "data" THEN DataIn(e, n) + 1 ELSE DataIn(e, n)
    <3> HIDE DEF a
    <3>1. DataIn(a, n + 1) = IF a[n + 1][1] = "data" THEN DataIn(a, n) + 1 ELSE DataIn(a, n)
      BY <2>1, DataInNext
    <3> QED
      BY <2>4, <3>1
  <2>6. Written(x)' <= MaxData(x)
    <3>1. DataIn(e, n) <= MaxData(x)
      BY <2>2 DEF EndOK
    <3>2. r[1] = "data" => DataIn(e, n) < MaxData(x)
      BY <1>2, <2>2 DEF Permitted
    <3> HIDE DEF e, n, a
    <3> QED
      BY <2>2, <2>4, <2>5, <3>1, <3>2
  <2>7. Follows(b, RecordLen * n) /\ Len(b) = RecordLen
    BY <2>1, NewBytesFollow
  <2>8. o \in Seq(Nat) /\ Len(o) \in Nat /\ b \in Seq(Nat) /\ RecordLen \in Nat /\ RecordLen * n \in Nat
        /\ RecordLen * (n + 1) = RecordLen * n + RecordLen
    BY <2>1, <2>7, LenProperties, Products DEF Follows
  <2> DEFINE c == o \o b
             q == RecordLen * n
  <2>9. /\ Len(c) = Len(o) + RecordLen
        /\ \A i \in 1 .. Len(o) + RecordLen :
             c[i] = IF i <= Len(o) THEN o[i] ELSE b[i - Len(o)]
    BY <2>7, <2>8, ConcatProperties
  <2>10. \A i \in 1 .. Len(o) : o[i] \in 1 .. q
    BY DEF EndOK
  <2>11. \A i \in 1 .. RecordLen : b[i] = q + i
    BY <2>7 DEF Follows
  <2>12. RecordLen * Len(a) = q + RecordLen
    BY <2>4, <2>8
  <2>13. q \in Nat /\ o \in Seq(Nat) /\ Len(o) \in Nat /\ RecordLen \in Nat
    BY <2>8
  <2> HIDE DEF q, c, b, o, a
  <2>14. ASSUME NEW i \in 1 .. Len(c) PROVE c[i] \in 1 .. RecordLen * Len(a)
    <3> DEFINE l == Len(o)
    <3>1. l \in Nat /\ i \in 1 .. l + RecordLen /\ c[i] = IF i <= l THEN o[i] ELSE b[i - l]
      BY <2>9, <2>13, <2>14
    <3>2. \A j \in 1 .. l : o[j] \in 1 .. q
      BY <2>10
    <3> HIDE DEF l
    <3>3. CASE i <= l
      <4>1. c[i] \in 1 .. q
        BY <3>1, <3>2, <3>3
      <4> QED
        BY <2>12, <2>13, <4>1
    <3>4. CASE ~(i <= l)
      <4>1. i - l \in 1 .. RecordLen
        BY <2>13, <3>1, <3>4
      <4>2. c[i] = q + (i - l)
        BY <2>11, <3>1, <3>4, <4>1
      <4> QED
        BY <2>12, <2>13, <4>1, <4>2
    <3> QED
      BY <3>3, <3>4
  <2>15. ASSUME NEW i \in 1 .. Len(b) PROVE b[i] \in 1 .. RecordLen * Len(a)
    <3>1. i \in 1 .. RecordLen /\ b[i] = q + i
      BY <2>7, <2>11, <2>15
    <3> QED
      BY <2>12, <2>13, <3>1
  <2>16. emitted'[x] = a /\ (m_out_buffer'[x] = c \/ m_out_buffer'[x] = b)
    BY <1>2 DEF EmitsOne, Replaced, a, c, e, o, b
  <2> HIDE DEF e, n
  <2> QED
    BY <2>3, <2>6, <2>14, <2>15, <2>16 DEF EndOK
<1>3. CASE Emptied(x)
  BY <1>3 DEF Emptied, EndOK, Written, DataAmong
<1> QED
  BY <1>1, <1>2, <1>3 DEF Emission, Loses

(* Towards x, when the other end emits.                                     *)
LEMMA EmissionTowards ==
  ASSUME NEW x \in Ends, NEW k \in Nat, EndOK(Other(x)), Towards(x, k), Emission(Other(x)),
         Quiet(x)
  PROVE  Towards(x, k)'
<1> DEFINE y == Other(x)
           e == emitted[y]
           rec == received[x]
           w == wire[x]
           ret == returned[x]
           in == m_in_buffer[x]
           out == m_out_buffer[y]
           f == emitted'[y]
           out1 == m_out_buffer'[y]
           w1 == wire'[x]
<1>1. /\ Numbered(e) /\ Way(e, k, rec, w) /\ Plain(e, k, ret, in)
      /\ Joined(x) => Whole(e, k, rec, w, out)
  BY DEF EndOK, Towards
<1>2. k \in 0 .. Len(e)
  BY <1>1 DEF Way
<1>3. /\ Way(f, k, rec, w) /\ Plain(f, k, ret, in) /\ Numbered(e)
      /\ Joined(x) /\ Joined(x)' => Whole(f, k, rec, w, out1)
  <2>1. CASE Same(y)
    BY <1>1, <2>1 DEF Same
  <2>2. ASSUME NEW r, Permitted(y, r), EmitsOne(y, r)
        PROVE  /\ Way(f, k, rec, w) /\ Plain(f, k, ret, in)
               /\ Joined(x) => Whole(f, k, rec, w, out1)
    <3> DEFINE b == NewBytes(y)
    <3>1. r \in Records /\ f = Append(e, r) /\ out1 = out \o b
      BY <2>2 DEF Permitted, EmitsOne
    <3>2. Follows(b, RecordLen * Len(e)) /\ Len(b) = RecordLen
      BY <1>1, NewBytesFollow DEF Numbered
    <3> HIDE DEF b, e, f, out, out1, rec, w, ret, in
    <3> QED
      BY <1>1, <1>2, <3>1, <3>2, WayLonger, PlainLonger, WholeLonger
  <2>3. ASSUME Loses(y)
        PROVE  Way(f, k, rec, w) /\ Plain(f, k, ret, in) /\ ~Joined(x)'
    <3>1. ~Joined(x)'
      BY <2>3, Pair DEF Loses
    <3>2. CASE Emptied(y)
      BY <1>1, <3>1, <3>2 DEF Emptied
    <3>3. ASSUME NEW r, Permitted(y, r), Replaced(y, r)
          PROVE  Way(f, k, rec, w) /\ Plain(f, k, ret, in)
      <4>1. r \in Records /\ f = Append(e, r)
        BY <3>3 DEF Permitted, Replaced
      <4> HIDE DEF e, f, rec, w, ret, in
      <4> QED
        BY <1>1, <1>2, <4>1, WayLonger, PlainLonger
    <3> QED
      BY <2>3, <3>1, <3>2, <3>3 DEF Loses
  <2> QED
    BY <1>1, <2>1, <2>2, <2>3 DEF Emission
<1>4. Way(f, k, rec, w1)
  <2>1. CASE w1 = w
    BY <1>3, <2>1
  <2>2. CASE w1 = <<>>
    <3>1. Way(e, k, rec, <<>>)
      BY <1>1, WayCut
    <3>2. Way(f, k, rec, <<>>)
      <4>1. CASE Same(y)
        BY <3>1, <4>1 DEF Same
      <4>2. ASSUME NEW r, Permitted(y, r), EmitsOne(y, r) \/ Replaced(y, r)
            PROVE  Way(f, k, rec, <<>>)
        BY <1>1, <3>1, <4>2, WayLonger DEF Permitted, EmitsOne, Replaced
      <4>3. CASE Emptied(y)
        BY <3>1, <4>3 DEF Emptied
      <4> QED
        BY <4>1, <4>2, <4>3 DEF Emission, Loses
    <3> QED
      BY <2>2, <3>2
  <2> QED
    BY <2>1, <2>2 DEF Quiet, Kept
<1>5. ASSUME Joined(x)' PROVE Whole(f, k, rec, w1, out1)
  BY <1>3, <1>5 DEF Quiet, Kept
<1>6. received'[x] = rec /\ returned'[x] = ret /\ m_in_buffer'[x] = in
  BY DEF Quiet
<1> HIDE DEF e, rec, w, ret, in, out
<1> QED
  BY <1>3, <1>4, <1>5, <1>6 DEF Towards

(* Towards x, when Botan of x understands a record.                         *)
LEMMA UnderstandsTowards ==
  ASSUME NEW x \in Ends, NEW k \in Nat, EndOK(Other(x)), Towards(x, k), Same(Other(x)),
         Understands(x)
  PROVE  /\ Towards(x, k + 1)' /\ Record(x) = emitted[Other(x)][k + 1]
         /\ k + 1 \in 1 .. Len(emitted[Other(x)])
<1> DEFINE y == Other(x)
           e == emitted[y]
           rec == received[x]
           w == wire[x]
           ret == returned[x]
           in == m_in_buffer[x]
           out == m_out_buffer[y]
           rec1 == SubSeq(rec, RecordLen + 1, Len(rec))
           in1 == m_in_buffer'[x]
           w1 == wire'[x]
<1>1. /\ Numbered(e) /\ Way(e, k, rec, w) /\ Plain(e, k, ret, in)
      /\ Joined(x) => Whole(e, k, rec, w, out)
      /\ Len(rec) >= RecordLen
  BY DEF EndOK, Towards, Understands
<1>2. k \in 0 .. Len(e)
  BY <1>1 DEF Way
<1>3. Record(x) = e[((rec[1] - 1) \div RecordLen) + 1]
  BY DEF Record
<1>4. received'[x] = rec1 /\ returned'[x] = ret /\ emitted'[y] = e /\ m_out_buffer'[y] = out
  BY DEF Understands, Same
<1>5. in1 = IF Record(x)[1] = "data" THEN Append(in, Record(x)) ELSE in
  BY DEF Understands
<1>6. (w1 = w \/ (w1 = <<>> /\ ~Joined(x)')) /\ (Joined(x)' => Joined(x))
  BY DEF Understands, Kept
<1> HIDE DEF e, rec, w, ret, in, out, rec1, in1, w1
<1>7. /\ k + 1 \in 1 .. Len(e) /\ ((rec[1] - 1) \div RecordLen) + 1 = k + 1
      /\ Way(e, k + 1, rec1, w)
      /\ Whole(e, k, rec, w, out) => Whole(e, k + 1, rec1, w, out)
  BY <1>1, WayUnderstood DEF rec1
<1>8. Record(x) = e[k + 1]
  BY <1>3, <1>7
<1>9. Plain(e, k + 1, ret, in1)
  BY <1>1, <1>2, <1>5, <1>7, <1>8, PlainUnderstood
<1>10. Way(e, k + 1, rec1, w1)
  BY <1>1, <1>6, <1>7, WayCut
<1>11. ASSUME Joined(x)' PROVE Whole(e, k + 1, rec1, w1, out)
  BY <1>1, <1>6, <1>7, <1>11
<1>12. Towards(x, k + 1)'
  BY <1>4, <1>9, <1>10, <1>11 DEF Towards, in1, w1
<1> QED
  BY <1>7, <1>8, <1>12 DEF e

-----------------------------------------------------------------------------
(* Steps of an end.                                                         *)

Settled(x) == Emission(x) /\ Quiet(x)

(* No end receives.                                                         *)
LEMMA SettledStep ==
  ASSUME TlsInv, TlsTypes', \A x \in Ends : Settled(x)
  PROVE  TlsInv'
<1>1. ASSUME NEW x \in Ends PROVE EndOK(x)' /\ \E k \in Nat : Towards(x, k)'
  <2>1. Other(x) \in Ends /\ EndOK(x) /\ EndOK(Other(x))
    BY <1>1, Pair DEF TlsInv
  <2>2. Emission(x) /\ Emission(Other(x)) /\ Quiet(x)
    BY <1>1, <2>1 DEF Settled
  <2>3. m_out_buffer[x] \in Seq(Nat) /\ MaxData(x) \in Nat
    BY <1>1, MaxDataAssumption DEF TlsInv, TlsTypes, Ends
  <2>4. PICK k \in Nat : Towards(x, k)
    BY <1>1 DEF TlsInv
  <2>5. Towards(x, k)'
    BY <2>1, <2>2, <2>4, EmissionTowards
  <2>6. EndOK(x)'
    BY <2>1, <2>2, <2>3, EmissionEnd
  <2> QED
    BY <2>4, <2>5, <2>6
<1> QED
  BY <1>1 DEF TlsInv

(* Botan of x understands a record and may answer it.                       *)
LEMMA UnderstandsStep ==
  ASSUME TlsInv, TlsTypes', NEW x \in Ends, Understands(x), Emission(x),
         Same(Other(x)), Quiet(Other(x))
  PROVE  TlsInv'
<1> DEFINE y == Other(x)
<1>1. y \in Ends /\ Other(y) = x /\ \A z \in Ends : z = x \/ z = y
  BY Pair
<1>2. /\ EndOK(x) /\ EndOK(y) /\ MaxData(x) \in Nat /\ MaxData(y) \in Nat
      /\ m_out_buffer[x] \in Seq(Nat) /\ m_out_buffer[y] \in Seq(Nat)
  BY <1>1, MaxDataAssumption DEF TlsInv, TlsTypes, Ends
<1>3. Emission(y)
  BY DEF Emission
<1>4. EndOK(x)' /\ EndOK(y)'
  BY <1>1, <1>2, <1>3, EmissionEnd
<1>5. \E k \in Nat : Towards(x, k)'
  <2>1. PICK k \in Nat : Towards(x, k)
    BY DEF TlsInv
  <2>2. Towards(x, k + 1)'
    BY <1>2, <2>1, UnderstandsTowards
  <2> QED
    BY <2>2
<1>6. \E k \in Nat : Towards(y, k)'
  <2>1. PICK k \in Nat : Towards(y, k)
    BY <1>1 DEF TlsInv
  <2>2. Towards(y, k)'
    BY <1>1, <1>2, <2>1, EmissionTowards
  <2> QED
    BY <2>2
<1> HIDE DEF y
<1> QED
  BY <1>1, <1>4, <1>5, <1>6 DEF TlsInv

(* The other end of the step, when its own part of the state stays.         *)
LEMMA StaysTowards ==
  ASSUME TlsInv, NEW x \in Ends, Same(Other(x)), Quiet(x)
  PROVE  \E k \in Nat : Towards(x, k)'
<1>1. PICK k \in Nat : Towards(x, k)
  BY DEF TlsInv
<1>2. EndOK(Other(x)) /\ Emission(Other(x))
  BY Pair DEF TlsInv, Emission
<1> QED
  BY <1>1, <1>2, EmissionTowards

LEMMA StaysEnd ==
  ASSUME TlsInv, NEW x \in Ends, Same(x)
  PROVE  EndOK(x)'
BY DEF TlsInv, Same, EndOK, Written, DataAmong

(* _send.                                                                   *)
LEMMA TlsSend ==
  ASSUME TlsInv, NEW x \in Ends, Send(x)
  PROVE  TlsInv'
<1> DEFINE y == Other(x)
           out == m_out_buffer[x]
<1>1. y \in Ends /\ y # x /\ Other(y) = x /\ \A z \in Ends : z = x \/ z = y
  BY Pair
<1>2. PICK n \in 0 .. Len(out) :
        /\ m_out_buffer' = [m_out_buffer EXCEPT ![x] = Rest(out, n)]
        /\ wire' = [wire EXCEPT ![y] =
             IF fin[y] # "no" \/ m_client[y] # "open"
               THEN wire[y] ELSE wire[y] \o SubSeq(out, 1, n)]
  BY DEF Send
<1>3. TlsTypes
  BY DEF TlsInv
<1>4. out \in Seq(Nat) /\ wire[y] \in Seq(Nat) /\ Len(out) \in Nat
  BY <1>1, <1>3, LenProperties DEF TlsTypes
<1>5. n \in Nat /\ n <= Len(out) /\ \A i \in 1 .. Len(out) : out[i] \in Nat
  BY <1>4, ElementOfSeq
<1>6. /\ SubSeq(out, 1, n) \in Seq(Nat)
      /\ Rest(out, n) \in Seq(Nat) /\ Len(Rest(out, n)) = Len(out) - n
      /\ \A i \in 1 .. Len(out) - n : Rest(out, n)[i] = out[n + i]
  BY <1>4, <1>5, SubSeqProperties DEF Rest
<1>7. wire[y] \o SubSeq(out, 1, n) \in Seq(Nat)
  BY <1>4, <1>6, ConcatProperties
<1> DEFINE first == SubSeq(out, 1, n)
           rest == Rest(out, n)
<1> HIDE DEF out, y
<1>8. /\ m_out_buffer' \in [Ends -> Seq(Nat)] /\ m_out_buffer'[x] = rest
      /\ m_out_buffer'[y] = m_out_buffer[y]
  BY <1>1, <1>2, <1>3, <1>6 DEF TlsTypes
<1>9. /\ wire' \in [Ends -> Seq(Nat)] /\ wire'[x] = wire[x]
      /\ wire'[y] = IF fin[y] # "no" \/ m_client[y] # "open"
                      THEN wire[y] ELSE wire[y] \o first
  BY <1>1, <1>2, <1>3, <1>4, <1>7 DEF TlsTypes
<1>10. step' \in [Ends -> Steps]
  BY <1>3 DEF TlsTypes, Send, Goto, AfterSend, Steps
<1>11. TlsTypes'
  BY <1>3, <1>8, <1>9, <1>10 DEF TlsTypes, Send, channel
<1>12. /\ emitted' = emitted /\ received' = received /\ m_in_buffer' = m_in_buffer
       /\ returned' = returned /\ m_client' = m_client /\ fin' = fin
       /\ m_client[x] = "open"
  BY DEF Send, channel
<1>13. EndOK(x)'
  <2>1. EndOK(x)
    BY DEF TlsInv
  <2>2. \A i \in 1 .. Len(rest) : rest[i] \in 1 .. RecordLen * Len(emitted[x])
    <3>1. ASSUME NEW i \in 1 .. Len(rest) PROVE n + i \in 1 .. Len(out) /\ rest[i] = out[n + i]
      BY <1>4, <1>5, <1>6
    <3>2. \A i \in 1 .. Len(out) : out[i] \in 1 .. RecordLen * Len(emitted[x])
      BY <2>1 DEF EndOK, out
    <3> HIDE DEF rest
    <3> QED
      BY <3>1, <3>2
  <2>3. Numbered(emitted[x]) /\ Written(x) <= MaxData(x) /\ Written(x)' = Written(x)
    BY <1>12, <2>1 DEF EndOK, Written, DataAmong
  <2> HIDE DEF rest
  <2> QED
    BY <1>8, <1>12, <2>2, <2>3 DEF EndOK
<1>14. EndOK(y)'
  BY <1>1, <1>8, <1>12, StaysEnd DEF Same
<1>15. \E k \in Nat : Towards(x, k)'
  BY <1>1, <1>8, <1>9, <1>12, StaysTowards DEF Same, Quiet, Kept, Joined, y
<1>16. \E k \in Nat : Towards(y, k)'
  <2>1. PICK k \in Nat : Towards(y, k)
    BY <1>1 DEF TlsInv
  <2>2. /\ Numbered(emitted[x]) /\ Way(emitted[x], k, received[y], wire[y])
        /\ Plain(emitted[x], k, returned[y], m_in_buffer[y])
        /\ Joined(y) => Whole(emitted[x], k, received[y], wire[y], out)
    BY <1>1, <2>1 DEF Towards, TlsInv, EndOK, out
  <2>3. Joined(y)' = Joined(y)
    BY <1>12 DEF Joined
  <2>4. Joined(y) = ~(fin[y] # "no" \/ m_client[y] # "open")
    BY <1>1, <1>12 DEF Joined
  <2>5. CASE Joined(y)
    <3>1. wire'[y] = wire[y] \o first
      BY <1>9, <2>4, <2>5
    <3>2. /\ Way(emitted[x], k, received[y], wire[y] \o first)
          /\ Whole(emitted[x], k, received[y], wire[y] \o first, rest)
      BY <2>2, <2>5, WaySent DEF Rest
    <3> HIDE DEF first, rest
    <3> QED
      BY <1>1, <1>8, <1>12, <2>2, <3>1, <3>2 DEF Towards
  <2>6. CASE ~Joined(y)
    <3>1. wire'[y] = wire[y]
      BY <1>9, <2>4, <2>6
    <3> HIDE DEF first, rest
    <3> QED
      BY <1>1, <1>12, <2>2, <2>3, <2>6, <3>1 DEF Towards
  <2> QED
    BY <2>5, <2>6
<1> QED
  BY <1>1, <1>11, <1>13, <1>14, <1>15, <1>16 DEF TlsInv

(* _recv.                                                                   *)
LEMMA TlsRecv ==
  ASSUME TlsInv, NEW x \in Ends, Recv(x)
  PROVE  TlsInv'
<1> DEFINE y == Other(x)
           w == wire[x]
<1>1. y \in Ends /\ y # x /\ Other(y) = x /\ \A z \in Ends : z = x \/ z = y
  BY Pair
<1>2. PICK n \in 0 .. Len(w) :
        /\ received' = [received EXCEPT ![x] = received[x] \o SubSeq(w, 1, n)]
        /\ wire' = [wire EXCEPT ![x] = SubSeq(w, n + 1, Len(w))]
  BY DEF Recv
<1>3. TlsTypes
  BY DEF TlsInv
<1>4. w \in Seq(Nat) /\ received[x] \in Seq(Nat) /\ Len(w) \in Nat
  BY <1>3, LenProperties DEF TlsTypes
<1>5. n \in Nat /\ n <= Len(w) /\ \A i \in 1 .. Len(w) : w[i] \in Nat
  BY <1>4, ElementOfSeq
<1>6. SubSeq(w, 1, n) \in Seq(Nat) /\ SubSeq(w, n + 1, Len(w)) \in Seq(Nat)
  BY <1>4, <1>5, SubSeqProperties
<1>7. received[x] \o SubSeq(w, 1, n) \in Seq(Nat)
  BY <1>4, <1>6, ConcatProperties
<1> DEFINE rec1 == received[x] \o SubSeq(w, 1, n)
           rest == SubSeq(w, n + 1, Len(w))
<1> HIDE DEF w, y
<1>8. /\ received' \in [Ends -> Seq(Nat)] /\ received'[x] = rec1 /\ received'[y] = received[y]
      /\ wire' \in [Ends -> Seq(Nat)] /\ wire'[x] = rest /\ wire'[y] = wire[y]
  BY <1>1, <1>2, <1>3, <1>6, <1>7 DEF TlsTypes
<1>9. step' \in [Ends -> Steps]
  BY <1>3 DEF TlsTypes, Recv, Goto, Steps
<1>10. /\ emitted' = emitted /\ m_in_buffer' = m_in_buffer /\ m_out_buffer' = m_out_buffer
       /\ returned' = returned /\ m_client' = m_client /\ fin' = fin
       /\ m_tls_channel' = m_tls_channel /\ call' = call
  BY DEF Recv, buffers
<1>11. TlsTypes'
  BY <1>3, <1>8, <1>9, <1>10 DEF TlsTypes
<1>12. EndOK(x)' /\ EndOK(y)'
  BY <1>1, <1>10, StaysEnd DEF Same
<1>13. \E k \in Nat : Towards(y, k)'
  BY <1>1, <1>8, <1>10, StaysTowards DEF Same, Quiet, Kept, Joined
<1>14. \E k \in Nat : Towards(x, k)'
  <2>1. PICK k \in Nat : Towards(x, k)
    BY DEF TlsInv
  <2>2. /\ Numbered(emitted[y]) /\ Way(emitted[y], k, received[x], w)
        /\ Plain(emitted[y], k, returned[x], m_in_buffer[x])
        /\ Joined(x) => Whole(emitted[y], k, received[x], w, m_out_buffer[y])
    BY <1>1, <2>1 DEF Towards, TlsInv, EndOK, w, y
  <2>3. Joined(x)' = Joined(x)
    BY <1>10 DEF Joined
  <2>4. /\ Way(emitted[y], k, rec1, rest)
        /\ Joined(x) => Whole(emitted[y], k, rec1, rest, m_out_buffer[y])
    BY <2>2, WayReceived
  <2> HIDE DEF rec1, rest
  <2> QED
    BY <1>8, <1>10, <2>2, <2>3, <2>4 DEF Towards, y
<1> QED
  BY <1>1, <1>11, <1>12, <1>13, <1>14 DEF TlsInv

(* The end of read_raw.                                                     *)
LEMMA TlsRead ==
  ASSUME TlsInv, NEW x \in Ends, ReadReturns(x)
  PROVE  TlsInv'
<1> DEFINE y == Other(x)
           in == m_in_buffer[x]
<1>1. y \in Ends /\ y # x /\ Other(y) = x /\ \A z \in Ends : z = x \/ z = y
  BY Pair
<1>2. PICK n \in 0 .. Len(in) :
        /\ returned' = [returned EXCEPT ![x] = returned[x] \o SubSeq(in, 1, n)]
        /\ m_in_buffer' = [m_in_buffer EXCEPT ![x] = SubSeq(in, n + 1, Len(in))]
  BY DEF ReadReturns, PopFront
<1>3. TlsTypes
  BY DEF TlsInv
<1>4. in \in Seq(Records) /\ returned[x] \in Seq(Records) /\ Len(in) \in Nat
  BY <1>3, LenProperties DEF TlsTypes
<1>5. n \in Nat /\ n <= Len(in) /\ \A i \in 1 .. Len(in) : in[i] \in Records
  BY <1>4, ElementOfSeq
<1>6. SubSeq(in, 1, n) \in Seq(Records) /\ SubSeq(in, n + 1, Len(in)) \in Seq(Records)
  BY <1>4, <1>5, SubSeqProperties
<1>7. returned[x] \o SubSeq(in, 1, n) \in Seq(Records)
  BY <1>4, <1>6, ConcatProperties
<1> DEFINE ret1 == returned[x] \o SubSeq(in, 1, n)
           rest == SubSeq(in, n + 1, Len(in))
<1> HIDE DEF in, y
<1>8. /\ returned' \in [Ends -> Seq(Records)] /\ returned'[x] = ret1
      /\ returned'[y] = returned[y]
      /\ m_in_buffer' \in [Ends -> Seq(Records)] /\ m_in_buffer'[x] = rest
      /\ m_in_buffer'[y] = m_in_buffer[y]
  BY <1>1, <1>2, <1>3, <1>6, <1>7 DEF TlsTypes
<1>9. step' \in [Ends -> Steps]
  BY <1>3 DEF TlsTypes, ReadReturns, Goto, Steps
<1>10. /\ emitted' = emitted /\ received' = received /\ m_out_buffer' = m_out_buffer
       /\ wire' = wire /\ m_client' = m_client /\ fin' = fin
       /\ m_tls_channel' = m_tls_channel /\ call' = call
  BY DEF ReadReturns, channel, network
<1>11. TlsTypes'
  BY <1>3, <1>8, <1>9, <1>10 DEF TlsTypes
<1>12. EndOK(x)' /\ EndOK(y)'
  BY <1>1, <1>10, StaysEnd DEF Same
<1>13. \E k \in Nat : Towards(y, k)'
  BY <1>1, <1>8, <1>10, StaysTowards DEF Same, Quiet, Kept, Joined
<1>14. \E k \in Nat : Towards(x, k)'
  <2>1. PICK k \in Nat : Towards(x, k)
    BY DEF TlsInv
  <2>2. Plain(emitted[y], k, returned[x], in)
    BY <2>1 DEF Towards, in, y
  <2>3. Plain(emitted[y], k, ret1, rest)
    BY <2>1, <2>2, PlainRead
  <2>4. Joined(x)' = Joined(x)
    BY <1>10 DEF Joined
  <2> HIDE DEF ret1, rest
  <2> QED
    BY <1>8, <1>10, <2>1, <2>3, <2>4 DEF Towards, y
<1> QED
  BY <1>1, <1>11, <1>12, <1>13, <1>14 DEF TlsInv

-----------------------------------------------------------------------------
LEMMA Emitted ==
  ASSUME TlsTypes, NEW x \in Ends, NEW r, Permitted(x, r), Emits(x, r)
  PROVE  /\ emitted' \in [Ends -> Seq(Records)] /\ m_out_buffer' \in [Ends -> Seq(Nat)]
         /\ Emission(x) /\ Same(Other(x))
<1>1. Other(x) \in Ends /\ Other(x) # x
  BY Pair
<1>2. /\ emitted \in [Ends -> Seq(Records)] /\ m_out_buffer \in [Ends -> Seq(Nat)]
      /\ r \in Records
  BY DEF TlsTypes, Permitted
<1>3. emitted[x] \in Seq(Records) /\ m_out_buffer[x] \in Seq(Nat)
  BY <1>2
<1>4. NewBytes(x) \in Seq(Nat)
  BY <1>3, NewBytesFollow DEF Follows
<1>5. /\ Append(emitted[x], r) \in Seq(Records)
      /\ m_out_buffer[x] \o NewBytes(x) \in Seq(Nat)
  BY <1>2, <1>3, <1>4, AppendProperties, ConcatProperties
<1> DEFINE a == Append(emitted[x], r)
           o == m_out_buffer[x] \o NewBytes(x)
<1>6. emitted' = [emitted EXCEPT ![x] = a] /\ m_out_buffer' = [m_out_buffer EXCEPT ![x] = o]
  BY DEF Emits
<1>7. a \in Seq(Records) /\ o \in Seq(Nat)
  BY <1>5
<1> HIDE DEF a, o
<1>8. /\ emitted' \in [Ends -> Seq(Records)] /\ m_out_buffer' \in [Ends -> Seq(Nat)]
      /\ emitted'[x] = a /\ m_out_buffer'[x] = o
      /\ emitted'[Other(x)] = emitted[Other(x)]
      /\ m_out_buffer'[Other(x)] = m_out_buffer[Other(x)]
  BY <1>1, <1>2, <1>6, <1>7
<1> QED
  BY <1>8 DEF Emission, EmitsOne, Same, a, o

LEMMA RecordsOf ==
  /\ \A n \in Nat : Data(n) \in Records /\ Flight(n) \in Records
  /\ CloseNotify \in Records /\ FatalAlert \in Records
<1>1. ASSUME NEW s \in {"data", "flight", "close_notify", "fatal"}, NEW n \in Nat
      PROVE  <<s, n>> \in Records
  BY DEF Records
<1>2. 0 \in Nat
  OBVIOUS
<1> QED
  BY <1>1, <1>2 DEF Data, Flight, CloseNotify, FatalAlert

LEMMA Alerts ==
  ASSUME TlsTypes, NEW x \in Ends, NEW r \in {CloseNotify, FatalAlert}, ClosesChannel(x, r)
  PROVE  /\ emitted' \in [Ends -> Seq(Records)] /\ m_out_buffer' \in [Ends -> Seq(Nat)]
         /\ m_tls_channel' \in [Ends -> {"handshake", "active", "closed"}]
         /\ Emission(x) /\ Same(Other(x))
<1>1. r \in Records /\ r[1] # "data"
  <2>1. CloseNotify \in Records /\ FatalAlert \in Records
    BY RecordsOf
  <2>2. CloseNotify[1] # "data" /\ FatalAlert[1] # "data"
    BY DEF CloseNotify, FatalAlert
  <2> QED
    BY <2>1, <2>2
<1>2. Permitted(x, r)
  BY <1>1 DEF Permitted
<1>3. m_tls_channel' \in [Ends -> {"handshake", "active", "closed"}]
  BY DEF TlsTypes, ClosesChannel
<1>4. CASE m_tls_channel[x] = "closed"
  <2>1. emitted' = emitted /\ m_out_buffer' = m_out_buffer
    BY <1>4 DEF ClosesChannel
  <2> QED
    BY <1>3, <2>1 DEF TlsTypes, Emission, Same
<1>5. CASE m_tls_channel[x] # "closed"
  <2>1. Emits(x, r)
    BY <1>5 DEF ClosesChannel
  <2> QED
    BY <1>2, <1>3, <2>1, Emitted
<1> QED
  BY <1>4, <1>5

LEMMA StreamEnds ==
  ASSUME TlsTypes, NEW x \in Ends, EndsStream(x)
  PROVE  fin' \in [Ends -> {"no", "reported", "silent"}]
BY DEF TlsTypes, EndsStream

(* The socket of x is gone, and what the kernel held for it.                *)
LEMMA SocketGone ==
  ASSUME TlsTypes, NEW x \in Ends, NEW s \in {"closed", "null"},
         m_client' = [m_client EXCEPT ![x] = s], wire' = [wire EXCEPT ![x] = <<>>]
  PROVE  /\ m_client' \in [Ends -> {"open", "closed", "null"}]
         /\ wire' \in [Ends -> Seq(Nat)]
         /\ Kept(x) /\ Kept(Other(x))
<1>1. Other(x) \in Ends /\ Other(x) # x /\ Other(Other(x)) = x
  BY Pair
<1>2. <<>> \in Seq(Nat)
  BY EmptySeq
<1>3. /\ m_client' \in [Ends -> {"open", "closed", "null"}] /\ m_client'[x] # "open"
      /\ m_client'[Other(x)] = m_client[Other(x)]
  BY <1>1 DEF TlsTypes
<1>4. wire' \in [Ends -> Seq(Nat)] /\ wire'[x] = <<>> /\ wire'[Other(x)] = wire[Other(x)]
  BY <1>1, <1>2 DEF TlsTypes
<1>5. ~Joined(x)' /\ ~Joined(Other(x))'
  BY <1>1, <1>3 DEF Joined
<1> QED
  BY <1>3, <1>4, <1>5 DEF Kept

LEMMA StepType ==
  ASSUME TlsTypes, NEW x \in Ends, NEW s \in Steps, Goto(x, s)
  PROVE  step' \in [Ends -> Steps]
BY DEF TlsTypes, Goto

LEMMA SetCall ==
  ASSUME TlsTypes, NEW x \in Ends, NEW c \in {"finish", "read", "write", "close"},
         call' = [call EXCEPT ![x] = c]
  PROVE  call' \in [Ends -> {"finish", "read", "write", "close"}]
BY DEF TlsTypes

LEMMA AfterSendType == \A x : AfterSend(x) \in Steps
BY DEF AfterSend, Steps

(* Nothing but the place of the thread changes.                             *)
LEMMA PlaceOnly ==
  ASSUME TlsInv, step' \in [Ends -> Steps],
         call' \in [Ends -> {"finish", "read", "write", "close"}],
         UNCHANGED <<m_client, channel, buffers, network>>
  PROVE  TlsInv'
<1>1. /\ m_client' = m_client /\ m_tls_channel' = m_tls_channel /\ emitted' = emitted
      /\ received' = received /\ m_out_buffer' = m_out_buffer
      /\ m_in_buffer' = m_in_buffer /\ returned' = returned /\ wire' = wire /\ fin' = fin
  BY DEF channel, buffers, network
<1>2. TlsTypes'
  BY <1>1 DEF TlsInv, TlsTypes
<1>3. \A x \in Ends : Settled(x)
  BY <1>1 DEF Settled, Emission, Same, Quiet, Kept, Joined
<1> QED
  BY <1>2, <1>3, SettledStep

LEMMA TlsPlaces ==
  ASSUME TlsInv, NEW x \in Ends, SendRefused(x) \/ FinishConnection(x) \/ ReadRaw(x)
  PROVE  TlsInv'
<1>1. TlsTypes
  BY DEF TlsInv
<1>2. step' \in [Ends -> Steps]
  BY <1>1, StepType, AfterSendType DEF SendRefused, FinishConnection, ReadRaw, Steps
<1>3. call' \in [Ends -> {"finish", "read", "write", "close"}]
  BY <1>1 DEF SendRefused, FinishConnection, ReadRaw, TlsTypes
<1> QED
  BY <1>2, <1>3, PlaceOnly DEF SendRefused, FinishConnection, ReadRaw

(* An end emits, or does not, and its socket stays or goes.                 *)
LEMMA OneSettles ==
  ASSUME TlsInv, TlsTypes', NEW x \in Ends, Emission(x), Same(Other(x)),
         received' = received, returned' = returned, m_in_buffer' = m_in_buffer,
         Kept(x), Kept(Other(x))
  PROVE  TlsInv'
<1>1. \A y \in Ends : Settled(y)
  BY Pair DEF Settled, Emission, Quiet
<1> QED
  BY <1>1, SettledStep

LEMMA SocketStays ==
  ASSUME m_client' = m_client, fin' = fin, wire' = wire
  PROVE  \A x \in Ends : Kept(x) /\ Kept(Other(x))
BY DEF Kept, Joined

(* What the failing socket leaves in the buffer, with the alert behind it   *)
(* if the channel was not closed.                                           *)
LEMMA FailedBuffer ==
  ASSUME TlsTypes, NEW x \in Ends, SocketFails(x)
  PROVE  /\ emitted' \in [Ends -> Seq(Records)] /\ m_out_buffer' \in [Ends -> Seq(Nat)]
         /\ m_tls_channel' \in [Ends -> {"handshake", "active", "closed"}]
         /\ Emission(x) /\ Same(Other(x))
<1>1. Other(x) \in Ends /\ Other(x) # x /\ Other(Other(x)) = x
  BY Pair
<1>2. /\ emitted[x] \in Seq(Records) /\ m_out_buffer[x] \in Seq(Nat)
      /\ <<>> \in Seq(Nat)
  BY EmptySeq DEF TlsTypes
<1>3. NewBytes(x) \in Seq(Nat)
  BY <1>2, NewBytesFollow DEF Follows
<1>4. ~Joined(Other(x))'
  <2>1. m_client'[x] # "open"
    BY DEF SocketFails, TlsTypes
  <2> QED
    BY <1>1, <2>1 DEF Joined
<1>5. CloseNotify \in Records /\ Permitted(x, CloseNotify)
  BY RecordsOf DEF CloseNotify, Permitted
<1>6. m_tls_channel' \in [Ends -> {"handshake", "active", "closed"}]
  BY DEF SocketFails, TlsTypes
<1> DEFINE left == IF step[x] = "recv" THEN m_out_buffer[x] ELSE <<>>
<1>7. left \in Seq(Nat) /\ (left = m_out_buffer[x] \/ left = <<>>)
  BY <1>2
<1>8. /\ m_tls_channel[x] = "closed" =>
           m_out_buffer' = [m_out_buffer EXCEPT ![x] = left] /\ emitted' = emitted
      /\ m_tls_channel[x] # "closed" =>
           /\ m_out_buffer' = [m_out_buffer EXCEPT ![x] = left \o NewBytes(x)]
           /\ emitted' = [emitted EXCEPT ![x] = Append(emitted[x], CloseNotify)]
  BY DEF SocketFails
<1> HIDE DEF left
<1>9. CASE m_tls_channel[x] = "closed"
  <2>1. /\ m_out_buffer' \in [Ends -> Seq(Nat)] /\ emitted' \in [Ends -> Seq(Records)]
        /\ Same(Other(x)) /\ emitted'[x] = emitted[x] /\ m_out_buffer'[x] = left
    <3>1. m_out_buffer' = [m_out_buffer EXCEPT ![x] = left] /\ emitted' = emitted
      BY <1>8, <1>9
    <3>2. m_out_buffer \in [Ends -> Seq(Nat)] /\ emitted \in [Ends -> Seq(Records)]
      BY DEF TlsTypes
    <3>3. m_out_buffer' \in [Ends -> Seq(Nat)] /\ m_out_buffer'[x] = left
          /\ m_out_buffer'[Other(x)] = m_out_buffer[Other(x)]
      BY <1>1, <1>7, <3>1, <3>2
    <3> QED
      BY <3>1, <3>2, <3>3 DEF Same
  <2>2. Emission(x)
    BY <1>4, <1>7, <2>1 DEF Emission, Same, Loses, Emptied
  <2> QED
    BY <1>6, <2>1, <2>2
<1>10. CASE m_tls_channel[x] # "closed"
  <2> DEFINE o == left \o NewBytes(x)
             a == Append(emitted[x], CloseNotify)
  <2>1. o \in Seq(Nat) /\ a \in Seq(Records)
    BY <1>2, <1>3, <1>5, <1>7, ConcatProperties, AppendProperties
  <2>2. m_out_buffer' = [m_out_buffer EXCEPT ![x] = o] /\ emitted' = [emitted EXCEPT ![x] = a]
    BY <1>8, <1>10
  <2>3. left = <<>> => o = NewBytes(x)
    BY <1>3
  <2>4. left = m_out_buffer[x] => o = m_out_buffer[x] \o NewBytes(x)
    OBVIOUS
  <2>5. a = Append(emitted[x], CloseNotify)
    OBVIOUS
  <2> HIDE DEF o, a
  <2>6. /\ m_out_buffer' \in [Ends -> Seq(Nat)] /\ emitted' \in [Ends -> Seq(Records)]
        /\ Same(Other(x)) /\ emitted'[x] = a /\ m_out_buffer'[x] = o
    BY <1>1, <2>1, <2>2 DEF TlsTypes, Same
  <2>7. left = <<>> => Emission(x)
    BY <1>4, <1>5, <2>3, <2>5, <2>6 DEF Emission, Loses, Replaced
  <2>8. left = m_out_buffer[x] => Emission(x)
    BY <1>5, <2>4, <2>5, <2>6 DEF Emission, EmitsOne
  <2> QED
    BY <1>6, <1>7, <2>6, <2>7, <2>8
<1> QED
  BY <1>9, <1>10

LEMMA TlsSocketFails ==
  ASSUME TlsInv, NEW x \in Ends, SocketFails(x)
  PROVE  TlsInv'
<1>1. TlsTypes
  BY DEF TlsInv
<1>2. /\ m_client' = [m_client EXCEPT ![x] = "closed"] /\ wire' = [wire EXCEPT ![x] = <<>>]
      /\ EndsStream(Other(x))
      /\ received' = received /\ returned' = returned /\ m_in_buffer' = m_in_buffer
      /\ call' = call
  BY DEF SocketFails
<1>3. step' \in [Ends -> Steps]
  BY <1>1, StepType, AfterSendType DEF SocketFails, Steps
<1>4. fin' \in [Ends -> {"no", "reported", "silent"}]
  BY <1>1, <1>2, Pair, StreamEnds
<1>5. /\ emitted' \in [Ends -> Seq(Records)] /\ m_out_buffer' \in [Ends -> Seq(Nat)]
      /\ m_tls_channel' \in [Ends -> {"handshake", "active", "closed"}]
      /\ Emission(x) /\ Same(Other(x))
  BY <1>1, FailedBuffer
<1>6. /\ m_client' \in [Ends -> {"open", "closed", "null"}] /\ wire' \in [Ends -> Seq(Nat)]
      /\ Kept(x) /\ Kept(Other(x))
  BY <1>1, <1>2, SocketGone
<1>7. TlsTypes'
  BY <1>1, <1>2, <1>3, <1>4, <1>5, <1>6 DEF TlsTypes
<1> QED
  BY <1>2, <1>5, <1>6, <1>7, OneSettles

LEMMA TlsThrowsOrCloses ==
  ASSUME TlsInv, NEW x \in Ends, BotanThrows(x) \/ Close(x)
  PROVE  TlsInv'
<1>1. TlsTypes
  BY DEF TlsInv
<1>2. /\ ClosesChannel(x, CloseNotify) \/ ClosesChannel(x, FatalAlert)
      /\ m_client' = m_client /\ wire' = wire /\ fin' = fin
      /\ received' = received /\ returned' = returned /\ m_in_buffer' = m_in_buffer
      /\ Goto(x, "emit") /\ call' = [call EXCEPT ![x] = "close"]
  BY DEF BotanThrows, Close, network
<1>3. step' \in [Ends -> Steps]
  BY <1>1, <1>2, StepType DEF Steps
<1>4. call' \in [Ends -> {"finish", "read", "write", "close"}]
  BY <1>1, <1>2, SetCall
<1>5. /\ emitted' \in [Ends -> Seq(Records)] /\ m_out_buffer' \in [Ends -> Seq(Nat)]
      /\ m_tls_channel' \in [Ends -> {"handshake", "active", "closed"}]
      /\ Emission(x) /\ Same(Other(x))
  BY <1>1, <1>2, Alerts
<1>6. TlsTypes'
  BY <1>1, <1>2, <1>3, <1>4, <1>5 DEF TlsTypes
<1> QED
  BY <1>2, <1>5, <1>6, OneSettles, SocketStays

LEMMA TlsWriteRaw ==
  ASSUME TlsInv, NEW x \in Ends, WriteRaw(x)
  PROVE  TlsInv'
<1> DEFINE r == Data(Written(x) + 1)
<1>1. TlsTypes
  BY DEF TlsInv
<1>2. /\ m_client' = m_client /\ wire' = wire /\ fin' = fin /\ Emits(x, r)
      /\ received' = received /\ returned' = returned /\ m_in_buffer' = m_in_buffer
      /\ Goto(x, "emit") /\ call' = [call EXCEPT ![x] = "write"]
      /\ m_tls_channel' = m_tls_channel /\ Written(x) < MaxData(x)
  BY DEF WriteRaw, network
<1>3. Permitted(x, r)
  <2>1. emitted[x] \in Seq(Records) /\ Len(emitted[x]) \in Nat
    BY <1>1, LenProperties DEF TlsTypes
  <2>2. Written(x) \in Nat
    BY <2>1, WrittenIs, DataInType
  <2>3. r \in Records
    BY <2>2, RecordsOf
  <2> QED
    BY <1>2, <2>3 DEF Permitted
<1> HIDE DEF r
<1>4. /\ emitted' \in [Ends -> Seq(Records)] /\ m_out_buffer' \in [Ends -> Seq(Nat)]
      /\ Emission(x) /\ Same(Other(x))
  BY <1>1, <1>2, <1>3, Emitted
<1>5. step' \in [Ends -> Steps]
  BY <1>1, <1>2, StepType DEF Steps
<1>6. call' \in [Ends -> {"finish", "read", "write", "close"}]
  BY <1>1, <1>2, SetCall
<1>7. TlsTypes'
  BY <1>1, <1>2, <1>4, <1>5, <1>6 DEF TlsTypes
<1> QED
  BY <1>2, <1>4, <1>7, OneSettles, SocketStays

(* The destructor, and connect() that gets no connection.                   *)
LEMMA TlsSocketGone ==
  ASSUME TlsInv, NEW x \in Ends, NEW s \in {"closed", "null"},
         m_client' = [m_client EXCEPT ![x] = s], wire' = [wire EXCEPT ![x] = <<>>],
         EndsStream(Other(x)), UNCHANGED <<channel, buffers, step, call>>
  PROVE  TlsInv'
<1>1. TlsTypes
  BY DEF TlsInv
<1>2. /\ received' = received /\ returned' = returned /\ m_in_buffer' = m_in_buffer
      /\ emitted' = emitted /\ m_out_buffer' = m_out_buffer
      /\ m_tls_channel' = m_tls_channel /\ step' = step /\ call' = call
  BY DEF channel, buffers
<1>3. fin' \in [Ends -> {"no", "reported", "silent"}]
  BY <1>1, Pair, StreamEnds
<1>4. /\ m_client' \in [Ends -> {"open", "closed", "null"}] /\ wire' \in [Ends -> Seq(Nat)]
      /\ Kept(x) /\ Kept(Other(x))
  BY <1>1, SocketGone
<1>5. TlsTypes'
  BY <1>1, <1>2, <1>3, <1>4 DEF TlsTypes
<1>6. Emission(x) /\ Same(Other(x))
  BY <1>2 DEF Emission, Same
<1> QED
  BY <1>2, <1>4, <1>5, <1>6, OneSettles

LEMMA TlsReset ==
  ASSUME TlsInv, Reset
  PROVE  TlsInv'
<1>1. TlsTypes
  BY DEF TlsInv
<1>2. /\ received' = received /\ returned' = returned /\ m_in_buffer' = m_in_buffer
      /\ emitted' = emitted /\ m_out_buffer' = m_out_buffer /\ m_client' = m_client
      /\ m_tls_channel' = m_tls_channel /\ step' = step /\ call' = call
      /\ fin' = [x \in Ends |-> "reported"] /\ wire' = [x \in Ends |-> <<>>]
  BY DEF Reset, channel, buffers, OfBoth
<1>3. <<>> \in Seq(Nat)
  BY EmptySeq
<1>4. fin' \in [Ends -> {"no", "reported", "silent"}] /\ wire' \in [Ends -> Seq(Nat)]
  BY <1>2, <1>3
<1>5. TlsTypes'
  BY <1>1, <1>2, <1>4 DEF TlsTypes
<1>6. ASSUME NEW x \in Ends PROVE Settled(x)
  <2>1. wire'[x] = <<>> /\ ~Joined(x)'
    BY <1>2 DEF Joined
  <2> QED
    BY <1>2, <2>1 DEF Settled, Emission, Same, Quiet, Kept
<1> QED
  BY <1>5, <1>6, SettledStep

(* Botan of x understands a record: it takes its bytes, and appends the     *)
(* record when it carries user data.                                        *)
LEMMA Takes ==
  ASSUME TlsInv, NEW x \in Ends, Len(received[x]) >= RecordLen, received' = Consumed(x)
  PROVE  /\ received' \in [Ends -> Seq(Nat)]
         /\ received'[x] = SubSeq(received[x], RecordLen + 1, Len(received[x]))
         /\ received'[Other(x)] = received[Other(x)]
         /\ Record(x) \in Records
<1>1. Other(x) \in Ends /\ Other(x) # x /\ Other(Other(x)) = x
  BY Pair
<1> DEFINE s == SubSeq(received[x], RecordLen + 1, Len(received[x]))
<1>2. received \in [Ends -> Seq(Nat)] /\ received[x] \in Seq(Nat)
  BY DEF TlsInv, TlsTypes
<1>3. RecordLen \in Nat /\ Len(received[x]) \in Nat
  BY <1>2, RecordAssumption, LenProperties
<1>4. s \in Seq(Nat)
  <2>1. \A i \in RecordLen + 1 .. Len(received[x]) : received[x][i] \in Nat
    BY <1>2, <1>3, ElementOfSeq
  <2> QED
    BY <1>2, <1>3, <2>1, SubSeqProperties
<1>5. received' = [received EXCEPT ![x] = s]
  BY DEF Consumed
<1> HIDE DEF s
<1>6. /\ received' \in [Ends -> Seq(Nat)] /\ received'[x] = s
      /\ received'[Other(x)] = received[Other(x)]
  BY <1>1, <1>2, <1>4, <1>5
<1>7. Record(x) \in Records
  <2>1. PICK k \in Nat : Towards(x, k)
    BY DEF TlsInv
  <2> DEFINE e == emitted[Other(x)]
  <2>2. Numbered(e) /\ Way(e, k, received[x], wire[x])
    BY <1>1, <2>1 DEF TlsInv, EndOK, Towards
  <2> HIDE DEF e
  <2>3. k + 1 \in 1 .. Len(e) /\ ((received[x][1] - 1) \div RecordLen) + 1 = k + 1
    BY <2>2, WayUnderstood
  <2>4. e[k + 1] \in Records
    BY <2>2, <2>3, ElementOfSeq DEF Numbered
  <2> QED
    BY <2>3, <2>4 DEF Record, e
<1> QED
  BY <1>6, <1>7 DEF s

LEMMA TlsRecordReceived ==
  ASSUME TlsInv, NEW x \in Ends, RecordReceived(x)
  PROVE  TlsInv'
<1> DEFINE r == Record(x)
           y == Other(x)
<1>1. TlsTypes /\ y \in Ends /\ y # x
  BY Pair DEF TlsInv
<1>2. /\ Len(received[x]) >= RecordLen /\ received' = Consumed(x)
      /\ m_in_buffer' = [m_in_buffer EXCEPT ![x] = Append(m_in_buffer[x], r)]
      /\ m_client' = m_client /\ wire' = wire /\ fin' = fin /\ returned' = returned
      /\ emitted' = emitted /\ m_out_buffer' = m_out_buffer
      /\ m_tls_channel' = m_tls_channel /\ step' = step /\ call' = call
      /\ Record(x)[1] = "data"
  BY DEF RecordReceived, HasRecord, network
<1>3. /\ received' \in [Ends -> Seq(Nat)]
      /\ received'[x] = SubSeq(received[x], RecordLen + 1, Len(received[x]))
      /\ received'[y] = received[y] /\ r \in Records
  BY <1>2, Takes
<1>4. m_in_buffer[x] \in Seq(Records) /\ m_in_buffer \in [Ends -> Seq(Records)]
  BY <1>1 DEF TlsTypes
<1> HIDE DEF r, y
<1>5. Append(m_in_buffer[x], r) \in Seq(Records)
  BY <1>3, <1>4, AppendProperties
<1>6. /\ m_in_buffer' \in [Ends -> Seq(Records)] /\ m_in_buffer'[y] = m_in_buffer[y]
      /\ m_in_buffer'[x] = Append(m_in_buffer[x], r)
  BY <1>1, <1>2, <1>4, <1>5
<1>7. TlsTypes'
  BY <1>1, <1>2, <1>3, <1>6 DEF TlsTypes
<1>8. Kept(x) /\ Kept(y)
  BY <1>2, SocketStays DEF y
<1>9. Understands(x)
  BY <1>2, <1>3, <1>6, <1>8 DEF Understands, r
<1>10. Emission(x) /\ Same(y)
  BY <1>2 DEF Emission, Same
<1>11. Quiet(y)
  BY <1>2, <1>3, <1>6, <1>8 DEF Quiet
<1> QED
  BY <1>7, <1>9, <1>10, <1>11, UnderstandsStep DEF y

(* A record of Botan's own.                                                 *)
LEMMA OwnRecord ==
  ASSUME TlsInv, TlsTypes', NEW x \in Ends, Len(received[x]) >= RecordLen,
         received' = Consumed(x), Record(x)[1] # "data", returned' = returned,
         m_in_buffer' = m_in_buffer, Kept(x), Kept(Other(x)), Emission(x), Same(Other(x))
  PROVE  TlsInv'
<1>1. /\ received'[x] = SubSeq(received[x], RecordLen + 1, Len(received[x]))
      /\ received'[Other(x)] = received[Other(x)]
  BY Takes
<1>2. Understands(x)
  BY <1>1 DEF Understands
<1>3. Quiet(Other(x))
  BY <1>1 DEF Quiet
<1> QED
  BY <1>2, <1>3, UnderstandsStep

LEMMA TlsHandshakeReceived ==
  ASSUME TlsInv, NEW x \in Ends, HandshakeReceived(x)
  PROVE  TlsInv'
<1> DEFINE i == Record(x)[2]
<1>1. TlsTypes
  BY DEF TlsInv
<1>2. /\ Len(received[x]) >= RecordLen /\ received' = Consumed(x)
      /\ m_client' = m_client /\ wire' = wire /\ fin' = fin /\ returned' = returned
      /\ m_in_buffer' = m_in_buffer /\ call' = call
      /\ Record(x)[1] = "flight"
      /\ m_tls_channel' =
           [m_tls_channel EXCEPT ![x] = IF i > 2 THEN "active" ELSE m_tls_channel[x]]
      /\ IF i < 4 THEN Emits(x, Flight(i + 1)) /\ Goto(x, "emit")
                  ELSE UNCHANGED <<emitted, m_out_buffer, step>>
  BY DEF HandshakeReceived, HasRecord, network
<1>3. received' \in [Ends -> Seq(Nat)] /\ Record(x) \in Records
  BY <1>2, Takes
<1>4. m_tls_channel' \in [Ends -> {"handshake", "active", "closed"}]
  BY <1>1, <1>2 DEF TlsTypes
<1>5. Permitted(x, Flight(i + 1))
  <2>1. i \in Nat
    BY <1>3 DEF Records
  <2>2. Flight(i + 1) \in Records
    BY <2>1, RecordsOf
  <2>3. Flight(i + 1)[1] # "data"
    BY DEF Flight
  <2> QED
    BY <2>2, <2>3 DEF Permitted
<1>6. /\ emitted' \in [Ends -> Seq(Records)] /\ m_out_buffer' \in [Ends -> Seq(Nat)]
      /\ Emission(x) /\ Same(Other(x)) /\ step' \in [Ends -> Steps]
  <2> HIDE DEF i
  <2>1. CASE i < 4
    BY <1>1, <1>2, <1>5, <2>1, Emitted, StepType DEF Steps
  <2>2. CASE ~(i < 4)
    <3>1. UNCHANGED <<emitted, m_out_buffer, step>>
      BY <1>2, <2>2
    <3> QED
      BY <1>1, <3>1 DEF TlsTypes, Emission, Same
  <2> QED
    BY <2>1, <2>2
<1>7. TlsTypes'
  BY <1>1, <1>2, <1>3, <1>4, <1>6 DEF TlsTypes
<1>8. Kept(x) /\ Kept(Other(x)) /\ Record(x)[1] # "data"
  BY <1>2, SocketStays
<1> QED
  BY <1>2, <1>6, <1>7, <1>8, OwnRecord

LEMMA TlsCloseNotifyReceived ==
  ASSUME TlsInv, NEW x \in Ends, CloseNotifyReceived(x)
  PROVE  TlsInv'
<1>1. TlsTypes
  BY DEF TlsInv
<1>2. /\ Len(received[x]) >= RecordLen /\ received' = Consumed(x)
      /\ Record(x) = CloseNotify
      /\ m_client' = [m_client EXCEPT ![x] = "null"] /\ wire' = [wire EXCEPT ![x] = <<>>]
      /\ EndsStream(Other(x)) /\ ClosesChannel(x, CloseNotify) /\ Goto(x, "emit")
      /\ returned' = returned /\ m_in_buffer' = m_in_buffer /\ call' = call
  BY DEF CloseNotifyReceived, HasRecord
<1>3. received' \in [Ends -> Seq(Nat)] /\ Record(x)[1] # "data"
  BY <1>2, Takes DEF CloseNotify
<1>4. fin' \in [Ends -> {"no", "reported", "silent"}]
  BY <1>1, <1>2, Pair, StreamEnds
<1>5. /\ emitted' \in [Ends -> Seq(Records)] /\ m_out_buffer' \in [Ends -> Seq(Nat)]
      /\ m_tls_channel' \in [Ends -> {"handshake", "active", "closed"}]
      /\ Emission(x) /\ Same(Other(x))
  BY <1>1, <1>2, Alerts
<1>6. /\ m_client' \in [Ends -> {"open", "closed", "null"}] /\ wire' \in [Ends -> Seq(Nat)]
      /\ Kept(x) /\ Kept(Other(x))
  BY <1>1, <1>2, SocketGone
<1>7. step' \in [Ends -> Steps]
  BY <1>1, <1>2, StepType DEF Steps
<1>8. TlsTypes'
  BY <1>1, <1>2, <1>3, <1>4, <1>5, <1>6, <1>7 DEF TlsTypes
<1> QED
  BY <1>2, <1>3, <1>5, <1>6, <1>8, OwnRecord

LEMMA TlsFatalReceived ==
  ASSUME TlsInv, NEW x \in Ends, FatalReceived(x)
  PROVE  TlsInv'
<1>1. TlsTypes
  BY DEF TlsInv
<1>2. /\ Len(received[x]) >= RecordLen /\ received' = Consumed(x)
      /\ Record(x) = FatalAlert
      /\ m_tls_channel' = [m_tls_channel EXCEPT ![x] = "closed"]
      /\ m_client' = m_client /\ wire' = wire /\ fin' = fin /\ returned' = returned
      /\ m_in_buffer' = m_in_buffer /\ m_out_buffer' = m_out_buffer
      /\ emitted' = emitted /\ step' = step /\ call' = call
  BY DEF FatalReceived, HasRecord, network, buffers
<1>3. received' \in [Ends -> Seq(Nat)] /\ Record(x)[1] # "data"
  BY <1>2, Takes DEF FatalAlert
<1>4. m_tls_channel' \in [Ends -> {"handshake", "active", "closed"}]
  BY <1>1, <1>2 DEF TlsTypes
<1>5. TlsTypes'
  BY <1>1, <1>2, <1>3, <1>4 DEF TlsTypes
<1>6. Kept(x) /\ Kept(Other(x)) /\ Emission(x) /\ Same(Other(x))
  BY <1>2, SocketStays DEF Emission, Same
<1> QED
  BY <1>2, <1>3, <1>5, <1>6, OwnRecord

-----------------------------------------------------------------------------
(* A new connection: Botan's client has emitted its hello.                  *)
NewConnection ==
  /\ m_client = OfBoth("open") /\ m_tls_channel = OfBoth("handshake")
  /\ emitted = HelloOnly /\ received = OfBoth(<<>>)
  /\ m_out_buffer = HelloBytes /\ m_in_buffer = OfBoth(<<>>) /\ returned = OfBoth(<<>>)
  /\ step = OfBoth("send") /\ call = OfBoth("finish")
  /\ wire = OfBoth(<<>>) /\ fin = OfBoth("no")

LEMMA HelloNumbered ==
  /\ Numbered(<<>>) /\ Numbered(<<Flight(1)>>)
  /\ DataIn(<<>>, 0) = 0 /\ DataIn(<<Flight(1)>>, 0) = 0 /\ DataIn(<<Flight(1)>>, 1) = 0
<1>1. \A e : DataIn(e, 0) = 0
  <2>1. \A e : {i \in 1 .. 0 : e[i][1] = "data"} = {}
    OBVIOUS
  <2> QED
    BY <2>1, FS_EmptySet DEF DataIn
<1>2. Numbered(<<>>)
  BY EmptySeq DEF Numbered
<1>3. Flight(1) \in Records /\ Flight(1)[1] # "data"
  <2>1. Flight(1) \in Records
    BY RecordsOf
  <2>2. Flight(1)[1] # "data"
    BY DEF Flight
  <2> QED
    BY <2>1, <2>2
<1>4. Append(<<>>, Flight(1)) = <<Flight(1)>>
  OBVIOUS
<1>5. Numbered(<<Flight(1)>>)
  BY <1>2, <1>3, <1>4, NumberedOn
<1>6. DataIn(<<Flight(1)>>, 1) = 0
  <2>1. DataIn(<<Flight(1)>>, 0 + 1) = DataIn(<<Flight(1)>>, 0)
    <3>1. <<Flight(1)>>[0 + 1][1] # "data"
      BY <1>3
    <3> QED
      BY <3>1, DataInNext
  <2> QED
    BY <1>1, <2>1
<1> QED
  BY <1>1, <1>2, <1>5, <1>6

LEMMA TlsNew == NewConnection => TlsInv
<1> SUFFICES ASSUME NewConnection PROVE TlsInv
  OBVIOUS
<1> DEFINE h == [i \in 1 .. RecordLen |-> i]
<1>1. Follows(h, 0) /\ Len(h) = RecordLen /\ RecordLen \in Nat
  <2>1. RecordLen \in Nat
    BY RecordAssumption
  <2>2. [i \in 1 .. RecordLen |-> 0 + i] = h
    OBVIOUS
  <2> QED
    BY <2>1, <2>2, Counted
<1> HIDE DEF h
<1>2. h \in Seq(Nat) /\ <<>> \in Seq(Nat) /\ <<>> \in Seq(Records)
      /\ <<Flight(1)>> \in Seq(Records) /\ Len(<<>>) = 0 /\ Len(<<Flight(1)>>) = 1
  BY <1>1, HelloNumbered DEF Follows, Numbered
<1>3. /\ emitted = [x \in Ends |-> IF x = Connecting THEN <<Flight(1)>> ELSE <<>>]
      /\ m_out_buffer = [x \in Ends |-> IF x = Connecting THEN h ELSE <<>>]
  BY DEF NewConnection, HelloOnly, HelloBytes, h
<1>4. TlsTypes
  <2>1. /\ m_client \in [Ends -> {"open", "closed", "null"}]
        /\ m_tls_channel \in [Ends -> {"handshake", "active", "closed"}]
        /\ step \in [Ends -> Steps]
        /\ call \in [Ends -> {"finish", "read", "write", "close"}]
        /\ fin \in [Ends -> {"no", "reported", "silent"}]
    BY DEF NewConnection, OfBoth, Steps
  <2>2. m_out_buffer \in [Ends -> Seq(Nat)] /\ emitted \in [Ends -> Seq(Records)]
    BY <1>2, <1>3
  <2>3. /\ received \in [Ends -> Seq(Nat)] /\ wire \in [Ends -> Seq(Nat)]
        /\ m_in_buffer \in [Ends -> Seq(Records)] /\ returned \in [Ends -> Seq(Records)]
    BY <1>2 DEF NewConnection, OfBoth
  <2> QED
    BY <2>1, <2>2, <2>3 DEF TlsTypes
<1>5. ASSUME NEW x \in Ends
      PROVE  \/ emitted[x] = <<>> /\ m_out_buffer[x] = <<>>
             \/ emitted[x] = <<Flight(1)>> /\ m_out_buffer[x] = h
  BY <1>3
<1>6. ASSUME NEW x \in Ends PROVE EndOK(x)
  <2>1. MaxData(x) \in Nat
    BY <1>6, MaxDataAssumption DEF Ends
  <2>2. CASE emitted[x] = <<>> /\ m_out_buffer[x] = <<>>
    <3>1. Written(x) = 0
      BY <1>2, <2>2, WrittenIs, HelloNumbered
    <3> QED
      BY <1>2, <2>1, <2>2, <3>1, HelloNumbered DEF EndOK
  <2>3. CASE emitted[x] = <<Flight(1)>> /\ m_out_buffer[x] = h
    <3>1. Written(x) = 0
      BY <1>2, <2>3, WrittenIs, HelloNumbered
    <3>2. \A i \in 1 .. Len(h) : h[i] = 0 + i
      BY <1>1 DEF Follows
    <3>3. RecordLen * Len(emitted[x]) = RecordLen
      BY <1>1, <1>2, <2>3
    <3>4. \A i \in 1 .. Len(h) : h[i] \in 1 .. RecordLen
      BY <1>1, <3>2
    <3> QED
      BY <2>1, <2>3, <3>1, <3>3, <3>4, HelloNumbered DEF EndOK
  <2> QED
    BY <1>5, <2>2, <2>3
<1>7. ASSUME NEW x \in Ends PROVE Towards(x, 0)
  <2> DEFINE e == emitted[Other(x)]
             o == m_out_buffer[Other(x)]
  <2>1. Other(x) \in Ends
    BY Pair
  <2>2. (e = <<>> /\ o = <<>>) \/ (e = <<Flight(1)>> /\ o = h)
    BY <1>5, <2>1
  <2>3. /\ received[x] = <<>> /\ wire[x] = <<>> /\ returned[x] = <<>> /\ m_in_buffer[x] = <<>>
    BY DEF NewConnection, OfBoth
  <2> HIDE DEF e, o
  <2>4. /\ Len(e) \in Nat /\ RecordLen * Len(e) = Len(o) /\ Len(o) \in Nat /\ Follows(o, 0)
        /\ DataIn(e, 0) = 0
    <3>1. CASE e = <<>> /\ o = <<>>
      BY <1>1, <1>2, <3>1, EmptyFollows, HelloNumbered
    <3>2. CASE e = <<Flight(1)>> /\ o = h
      BY <1>1, <1>2, <3>2, HelloNumbered
    <3> QED
      BY <2>2, <3>1, <3>2
  <2>5. RecordLen * 0 = 0 /\ 0 + Len(<<>>) = 0 /\ 0 + Len(<<>>) + Len(<<>>) = 0
    BY <1>1, <1>2
  <2>6. Way(e, 0, <<>>, <<>>)
    BY <2>4, <2>5, EmptyFollows DEF Way
  <2>7. Whole(e, 0, <<>>, <<>>, o)
    BY <2>4, <2>5 DEF Whole
  <2>8. Plain(e, 0, <<>>, <<>>)
    BY <1>2, <2>4 DEF Plain
  <2> QED
    BY <2>3, <2>6, <2>7, <2>8 DEF Towards, e, o
<1> QED
  BY <1>4, <1>6, <1>7 DEF TlsInv

LEMMA TlsConnect ==
  ASSUME Connect
  PROVE  TlsInv'
<1>1. NewConnection'
  BY DEF Connect, NewConnection, HelloOnly, HelloBytes, OfBoth, Ends
<1> QED
  BY <1>1, TlsNew, PTL

LEMMA TlsInvariance == Init /\ [][Next]_vars => []TlsInv
<1>1. Init => TlsInv
  BY TlsNew DEF Init, NewConnection
<1>2. ASSUME TlsInv, [Next]_vars PROVE TlsInv'
  <2>1. CASE UNCHANGED vars
    <3>1. UNCHANGED <<m_client, channel, buffers, network>> /\ step' = step /\ call' = call
      BY <2>1 DEF vars
    <3> QED
      BY <1>2, <3>1, PlaceOnly DEF TlsInv, TlsTypes
  <2>2. ASSUME NEW x \in Ends, Socket(x) PROVE TlsInv'
    BY <1>2, <2>2, TlsSend, TlsPlaces, TlsSocketFails, TlsRecv DEF Socket
  <2>3. ASSUME NEW x \in Ends, Botan(x) PROVE TlsInv'
    BY <1>2, <2>3, TlsRecordReceived, TlsHandshakeReceived, TlsCloseNotifyReceived,
       TlsFatalReceived, TlsThrowsOrCloses
    DEF Botan
  <2>4. ASSUME NEW x \in Ends, Returns(x) \/ ReadRaw(x) \/ WriteRaw(x) \/ Close(x)
        PROVE  TlsInv'
    BY <1>2, <2>4, TlsPlaces, TlsRead, TlsWriteRaw, TlsThrowsOrCloses DEF Returns
  <2>5. ASSUME NEW x \in Ends, Destroy(x) PROVE TlsInv'
    BY <1>2, <2>5, TlsSocketGone DEF Destroy
  <2>6. CASE ConnectFails
    <3>1. Connecting \in Ends /\ Other(Connecting) = Accepted
      BY DEF Ends, Other
    <3> QED
      BY <1>2, <2>6, <3>1, TlsSocketGone DEF ConnectFails
  <2> QED
    BY <1>2, <2>1, <2>2, <2>3, <2>4, <2>5, <2>6, TlsConnect, TlsReset DEF Next
<1> QED
  BY <1>1, <1>2, PTL

(* User data that has arrived: records 1 to n in order, n of them written.  *)
LEMMA PlainArrived ==
  ASSUME TlsInv, NEW x \in Ends
  PROVE  LET s == returned[x] \o m_in_buffer[x] IN
         /\ s \in Seq(Records) /\ Len(s) = Len(returned[x]) + Len(m_in_buffer[x])
         /\ Len(s) <= Written(Other(x))
         /\ \A i \in 1 .. Len(s) : s[i] = Data(i)
<1> DEFINE e == emitted[Other(x)]
           ret == returned[x]
           in == m_in_buffer[x]
           s == ret \o in
<1>1. PICK k \in Nat : Towards(x, k)
  BY DEF TlsInv
<1>2. Plain(e, k, ret, in) /\ Way(e, k, received[x], wire[x])
  BY <1>1 DEF Towards
<1>3. /\ ret \in Seq(Records) /\ in \in Seq(Records) /\ Len(ret) \in Nat /\ Len(in) \in Nat
      /\ Len(ret) + Len(in) = DataIn(e, k)
      /\ \A i \in 1 .. Len(ret) : ret[i] = Data(i)
      /\ \A i \in 1 .. Len(in) : in[i] = Data(Len(ret) + i)
  BY <1>2, LenProperties DEF Plain
<1>4. DataIn(e, k) <= Written(Other(x))
  <2>1. Len(e) \in Nat /\ k \in 0 .. Len(e)
    BY <1>2, Pair, LenProperties DEF TlsInv, TlsTypes, Way
  <2>2. DataIn(e, k) <= DataIn(e, Len(e))
    BY <2>1, DataInFewer
  <2> QED
    BY <2>2, WrittenIs
<1>5. /\ s \in Seq(Records) /\ Len(s) = Len(ret) + Len(in)
      /\ \A i \in 1 .. Len(ret) + Len(in) :
           s[i] = IF i <= Len(ret) THEN ret[i] ELSE in[i - Len(ret)]
  BY <1>3, ConcatProperties
<1> HIDE DEF s, ret, in, e
<1>6. ASSUME NEW i \in 1 .. Len(s) PROVE s[i] = Data(i)
  <2>1. CASE i <= Len(ret)
    <3>1. i \in 1 .. Len(ret) + Len(in)
      BY <1>5
    <3>2. s[i] = ret[i]
      BY <1>5, <2>1, <3>1
    <3>3. i \in 1 .. Len(ret)
      BY <1>3, <2>1
    <3> QED
      BY <1>3, <3>2, <3>3
  <2>2. CASE ~(i <= Len(ret))
    <3>1. i - Len(ret) \in 1 .. Len(in) /\ Len(ret) + (i - Len(ret)) = i
      BY <1>3, <1>5, <2>2
    <3>2. in[i - Len(ret)] = Data(i)
      BY <1>3, <3>1
    <3>3. i \in 1 .. Len(ret) + Len(in)
      BY <1>5
    <3>4. s[i] = in[i - Len(ret)]
      BY <1>5, <2>2, <3>3
    <3> QED
      BY <3>2, <3>4
  <2> QED
    BY <2>1, <2>2
<1>7. Len(s) <= Written(Other(x))
  BY <1>3, <1>4, <1>5
<1> QED
  BY <1>5, <1>6, <1>7 DEF s, ret, in

LEMMA TlsTypesOK == TlsInv => TypeOK
<1> SUFFICES ASSUME TlsInv, NEW x \in Ends
             PROVE  /\ Range(m_out_buffer[x]) \subseteq 1 .. RecordLen * Len(emitted[x])
                    /\ Range(m_in_buffer[x]) \subseteq {Data(i) : i \in 1 .. MaxData(Other(x))}
  BY DEF TypeOK, TlsInv, TlsTypes
<1>1. /\ m_out_buffer[x] \in Seq(Nat) /\ m_in_buffer[x] \in Seq(Records)
      /\ returned[x] \in Seq(Records)
  BY DEF TlsInv, TlsTypes
<1>2. Range(m_out_buffer[x]) \subseteq 1 .. RecordLen * Len(emitted[x])
  <2>1. DOMAIN m_out_buffer[x] = 1 .. Len(m_out_buffer[x])
    BY <1>1, LenProperties
  <2>2. \A i \in 1 .. Len(m_out_buffer[x]) :
          m_out_buffer[x][i] \in 1 .. RecordLen * Len(emitted[x])
    BY DEF TlsInv, EndOK
  <2> QED
    BY <2>1, <2>2 DEF Range
<1>3. ASSUME NEW j \in 1 .. Len(m_in_buffer[x])
      PROVE  \E i \in 1 .. MaxData(Other(x)) : m_in_buffer[x][j] = Data(i)
  <2> DEFINE ret == returned[x]
             in == m_in_buffer[x]
             s == ret \o in
             i == Len(ret) + j
  <2>1. /\ s \in Seq(Records) /\ Len(s) = Len(ret) + Len(in)
        /\ Len(s) <= Written(Other(x)) /\ \A h \in 1 .. Len(s) : s[h] = Data(h)
    BY PlainArrived
  <2>2. Written(Other(x)) <= MaxData(Other(x)) /\ MaxData(Other(x)) \in Nat
    BY Pair, MaxDataAssumption DEF TlsInv, EndOK, Ends
  <2>3. Written(Other(x)) \in Nat
    <3>1. Len(emitted[Other(x)]) \in Nat
      BY Pair, LenProperties DEF TlsInv, TlsTypes
    <3> QED
      BY <3>1, WrittenIs, DataInType
  <2>4. Len(ret) \in Nat /\ Len(in) \in Nat /\ j \in 1 .. Len(in)
    BY <1>1, <1>3, LenProperties
  <2>5. s[i] = in[j]
    <3>1. i \in 1 .. Len(ret) + Len(in) /\ ~(i <= Len(ret)) /\ i - Len(ret) = j
      <4> DEFINE l == Len(ret)
                 m == Len(in)
      <4>1. l \in Nat /\ m \in Nat /\ j \in 1 .. m
        BY <2>4
      <4> HIDE DEF l, m
      <4>2. l + j \in 1 .. l + m /\ ~(l + j <= l) /\ (l + j) - l = j
        BY <4>1
      <4> QED
        BY <4>2 DEF l, m
    <3>2. \A h \in 1 .. Len(ret) + Len(in) :
            s[h] = IF h <= Len(ret) THEN ret[h] ELSE in[h - Len(ret)]
      BY <1>1, ConcatProperties
    <3> HIDE DEF s, i, ret, in
    <3> QED
      BY <3>1, <3>2
  <2> HIDE DEF s, ret, in
  <2>6. i \in 1 .. Len(s) /\ i \in 1 .. MaxData(Other(x))
    BY <2>1, <2>2, <2>3, <2>4
  <2>7. in[j] = Data(i)
    BY <2>1, <2>5, <2>6
  <2> QED
    BY <2>6, <2>7 DEF in
<1>4. Range(m_in_buffer[x]) \subseteq {Data(i) : i \in 1 .. MaxData(Other(x))}
  <2>1. DOMAIN m_in_buffer[x] = 1 .. Len(m_in_buffer[x])
    BY <1>1, LenProperties
  <2> QED
    BY <1>3, <2>1 DEF Range
<1> QED
  BY <1>2, <1>4

(* The bytes on their way to the other end follow each other, up to the     *)
(* last one that Botan has emitted.                                         *)
LEMMA BytesUnderWay ==
  ASSUME TlsInv, NEW x \in Ends, Joined(Other(x))
  PROVE  LET s == received[Other(x)] \o wire[Other(x)] \o m_out_buffer[x] IN
         \A i \in 1 .. Len(s) : s[i] = RecordLen * Len(emitted[x]) - Len(s) + i
<1> DEFINE y == Other(x)
           e == emitted[x]
           rec == received[y]
           w == wire[y]
           out == m_out_buffer[x]
           s == (rec \o w) \o out
<1>1. y \in Ends /\ Other(y) = x
  BY Pair
<1>2. PICK k \in Nat : Towards(y, k)
  BY <1>1 DEF TlsInv
<1>3. Way(e, k, rec, w) /\ Whole(e, k, rec, w, out) /\ Numbered(e)
  BY <1>1, <1>2 DEF Towards, TlsInv, EndOK
<1> HIDE DEF y, e, rec, w, out
<1> DEFINE p == RecordLen * k
           q == RecordLen * Len(e)
<1>4. p \in Nat /\ q \in Nat
  BY <1>3, Products, LenProperties DEF Numbered
<1>5. /\ Follows(rec, p) /\ Follows(w, p + Len(rec))
      /\ Follows(out, p + Len(rec) + Len(w)) /\ p + Len(rec) + Len(w) + Len(out) = q
  BY <1>3 DEF Way, Whole
<1>6. Len(rec) \in Nat /\ Len(w) \in Nat /\ Len(out) \in Nat
  BY <1>5, LenProperties DEF Follows
<1> HIDE DEF p, q
<1> DEFINE t == rec \o w
<1>7. Follows(t, p) /\ Len(t) = Len(rec) + Len(w)
  BY <1>4, <1>5, FollowsOn
<1> HIDE DEF t
<1>8. p + Len(t) = p + Len(rec) + Len(w)
  BY <1>4, <1>6, <1>7
<1>9. Follows(t \o out, p) /\ Len(t \o out) = Len(t) + Len(out)
  BY <1>4, <1>5, <1>7, <1>8, FollowsOn
<1> DEFINE u == t \o out
<1>10. Follows(u, p) /\ Len(u) = Len(t) + Len(out)
  BY <1>9
<1> HIDE DEF u
<1>11. p = q - Len(u)
  <2> DEFINE a == Len(rec)
             b == Len(w)
             c == Len(out)
             d == Len(t)
             l == Len(u)
  <2>1. /\ a \in Nat /\ b \in Nat /\ c \in Nat /\ d = a + b /\ l = d + c
        /\ p + a + b + c = q
    BY <1>5, <1>6, <1>7, <1>10
  <2> HIDE DEF a, b, c, d, l
  <2>2. p = q - l
    BY <1>4, <2>1
  <2> QED
    BY <2>2 DEF l
<1>12. \A i \in 1 .. Len(u) : u[i] = q - Len(u) + i
  BY <1>10, <1>11 DEF Follows
<1> QED
  BY <1>12 DEF u, t, q, y, e, rec, w, out

LEMMA CipherFromInv == TlsInv => CipherInSequence
<1>1. ASSUME TlsInv PROVE CipherInSequence
  <2>1. ASSUME NEW x \in Ends, m_client[x] = "open", m_client[Other(x)] = "open",
               fin[Other(x)] = "no"
        PROVE  Joined(Other(x))
    BY <2>1, Pair DEF Joined
  <2> QED
    BY <1>1, <2>1, BytesUnderWay, TlsTypesOK DEF CipherInSequence
<1> QED
  BY <1>1

LEMMA PlainFromInv == TlsInv => PlainInOrder
BY PlainArrived DEF PlainInOrder

(* The bytes between the two Botans follow each other                       *)
(* (tls_client.cpp:217-237, 308-311).                                       *)
THEOREM CipherCorrect == Spec => []CipherInSequence
BY CipherFromInv, TlsInvariance, PTL DEF Spec

(* What read_raw returns is what was written (tls_client.cpp:160-166,       *)
(* 322-325).                                                                *)
THEOREM PlainCorrect == Spec => []PlainInOrder
BY PlainFromInv, TlsInvariance, PTL DEF Spec

-----------------------------------------------------------------------------
(* The specification that the runs check: whichever client moves, all that  *)
(* was proved above of the three holds (mux_client.cpp:89-230,              *)
(* tls_client.cpp:80-325, http_client.cpp:138-251).                         *)
THEOREM ClientsCorrect ==
  ClientsSpec =>
    /\ []MuxTypeOK /\ []EventsAlternate
    /\ []CipherInSequence /\ []PlainInOrder
    /\ []RequestInOrder /\ []ResponseIsWhole /\ []RedirectsAsAsked
<1>1. /\ UNCHANGED muxVars => UNCHANGED Mux!vars
      /\ UNCHANGED httpVars => UNCHANGED Http!vars
  BY DEF muxVars, Mux!vars, httpVars, Http!vars, Http!options, Http!site
<1>2. [ClientsNext]_<<vars, muxVars, httpVars>> =>
        [Mux!Next]_(Mux!vars) /\ [Next]_vars /\ [Http!Next]_(Http!vars)
  <2>1. CASE UNCHANGED <<vars, muxVars, httpVars>>
    BY <1>1, <2>1
  <2>2. CASE ClientsNext
    BY <1>1, <2>2 DEF ClientsNext
  <2> QED
    BY <2>1, <2>2
<1>3. MuxInv => MuxTypeOK /\ EventsAlternate
  BY DEF MuxInv, MuxTypes, MuxTypeOK, Alternating, EventsAlternate, Mux!EventsAlternate
<1>4. TlsInv => CipherInSequence /\ PlainInOrder
  BY CipherFromInv, PlainFromInv
<1>5. HttpInv => RequestInOrder /\ ResponseIsWhole /\ RedirectsAsAsked
  BY RequestFromInv, ResponseFromInv, RedirectsFromInv
<1>6. ClientsInit => Init /\ Mux!Init /\ Http!Init
  BY DEF ClientsInit
<1> QED
  BY <1>2, <1>3, <1>4, <1>5, <1>6, MuxInvariance, TlsInvariance, HttpInvariance, PTL
  DEF ClientsSpec
==============================================================================
