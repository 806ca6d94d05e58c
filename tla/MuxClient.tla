----------------------------- MODULE MuxClient -----------------------------
(* networkio::mux::client on the connecting side: connect(), the process()  *)
(* loop with heartbeat and auto reconnect, and user threads that run call()  *)
(* and disconnect() beside it.  set_auto_reconnect() has been called with a  *)
(* positive delay.  What the packets carry is PacketProto's business; here   *)
(* a write works or finds the connection broken.                             *)
EXTENDS Integers

CONSTANTS Users,       \* threads that may exist beside the one that runs process()
          HandlerOps,  \* what event and endpoint handlers do
          UserOps,     \* what user threads do
          UsesRun      \* the loop is run(), which ends when process() fails;
                       \* FALSE for a loop that ignores the result (examples)

P == "process"         \* the thread that runs connect() and process()
Threads == Users \cup {P}

VARIABLES
  state,   \* m_connection_state
  sock,    \* the socket of m_client; "broken": the peer is gone and no call
           \* has noticed yet, is_connected() still holds
  idle,    \* more than a second has passed since m_sent_tp
  past,    \* more than the delay has passed since m_disconnect_time
  via,     \* who called the process() that runs: the loop, connect() called
           \* by the user, or connect() called for the auto reconnect
  pc,      \* where each thread is
  back,    \* where a thread goes on after handle_disconnect()
  told     \* disconnect events since the last connect event (history)

vars == <<state, sock, idle, past, via, pc, back, told>>

Init == /\ state = -1
        /\ sock = "none"
        /\ idle = FALSE
        /\ past = FALSE
        /\ via = "loop"
        /\ pc \in [Threads -> {"out", "user", "absent"}]
        /\ \A t \in Threads : pc[t] = "out" <=> t = P
        /\ back = [t \in Threads |-> "none"]
        /\ told = 1

Goto(t, l) == pc' = [pc EXCEPT ![t] = l]

(* m_client->is_connected().                                                *)
Connected == sock \in {"open", "broken"}

-----------------------------------------------------------------------------
(* handle_disconnect(), run by any thread.  The event comes before the      *)
(* state changes, with the handler's code in between.                       *)

CallHandleDisconnect(t, return) ==
  pc' = [pc EXCEPT ![t] = "event"] /\ back' = [back EXCEPT ![t] = return]

DisconnectEvent(t) ==
  /\ pc[t] = "event"
  /\ IF state > 0
       THEN told' = told + 1 /\ Goto(t, "shut") /\ UNCHANGED state
       ELSE state' = -1 /\ Goto(t, back[t]) /\ UNCHANGED told
  /\ UNCHANGED <<sock, idle, past, via, back>>

(* Mutant of ShutSession: the state is left alone.                          *)
ShutSocketOnly(t) ==
  /\ pc[t] = "shut"
  /\ sock' = "closed"
  /\ past' = FALSE
  /\ Goto(t, back[t])
  /\ UNCHANGED <<state, idle, via, back, told>>

ShutSession(t) ==
  /\ pc[t] = "shut"
  /\ sock' = "closed"
  /\ past' = FALSE
  /\ state' = -1
  /\ Goto(t, back[t])
  /\ UNCHANGED <<idle, via, back, told>>

-----------------------------------------------------------------------------
(* connect(): the socket connects, the state is 0, a new packet_proto is    *)
(* made and process() runs until the state has left 0.                      *)

NewConnection(caller) ==
  /\ sock' = "open"
  /\ state' = 0
  /\ idle' = FALSE
  /\ via' = caller
  /\ Goto(P, "begin")

ConnectOk == /\ pc[P] = "out"
             /\ NewConnection("connect")
             /\ UNCHANGED <<past, back, told>>

(* run() and the examples give up when the first connect() fails.           *)
ConnectFail == /\ pc[P] = "out"
               /\ state' = -1
               /\ Goto(P, "ended")
               /\ UNCHANGED <<sock, idle, past, via, back, told>>

(* process() has a result.  Within connect() it is ignored: connect()       *)
(* returns TRUE, and so does the process() that called it to reconnect.     *)
Return(result) ==
  /\ via' = "loop"
  /\ Goto(P, IF via = "loop" /\ ~result /\ UsesRun THEN "ended" ELSE "begin")

-----------------------------------------------------------------------------
(* process().                                                               *)

(* Mutant of ProtoFails: the auto reconnect is left out.                    *)
ProtoFailsForGood ==
  /\ pc[P] = "begin"
  /\ sock # "open"
  /\ sock' = "closed"
  /\ CallHandleDisconnect(P, "failed")
  /\ UNCHANGED <<state, idle, past, via, told>>

(* m_proto->process() fails: the socket is closed, or it is broken and      *)
(* there was something left to send.                                        *)
ProtoFails ==
  /\ pc[P] = "begin"
  /\ sock # "open"
  /\ sock' = "closed"
  /\ CallHandleDisconnect(P, "retry")
  /\ UNCHANGED <<state, idle, past, via, told>>

(* It succeeds; a new connection has its state set to 1 before the connect  *)
(* event, so that the handler can call().                                   *)
ProtoRuns ==
  /\ pc[P] = "begin"
  /\ Connected
  /\ IF state <= 0
       THEN state' = 1 /\ told' = 0 /\ Goto(P, "handler")
       ELSE UNCHANGED <<state, told>> /\ Goto(P, "reads")
  /\ UNCHANGED <<sock, idle, past, via, back>>

(* An event or endpoint handler returns.                                    *)
HandlerReturns == /\ pc[P] = "handler"
                  /\ "return" \in HandlerOps
                  /\ Goto(P, "reads")
                  /\ UNCHANGED <<state, sock, idle, past, via, back, told>>

(* call(): the write works, or it closes the connection.                    *)
CallOk(t, from, return) ==
  /\ pc[t] = from
  /\ state = 1 /\ Connected
  /\ idle' = FALSE
  /\ Goto(t, return)
  /\ UNCHANGED <<state, sock, past, via, back, told>>

CallFails(t, from, return) ==
  /\ pc[t] = from
  /\ state = 1 /\ sock # "open"
  /\ sock' = "closed"
  /\ CallHandleDisconnect(t, return)
  /\ UNCHANGED <<state, idle, past, via, told>>

CallRefused(t, from, return) ==
  /\ pc[t] = from
  /\ state # 1
  /\ Goto(t, return)
  /\ UNCHANGED <<state, sock, idle, past, via, back, told>>

Call(t, from, return) == \/ CallOk(t, from, return)
                         \/ CallFails(t, from, return)
                         \/ CallRefused(t, from, return)

HandlerCalls == "call" \in HandlerOps /\ Call(P, "handler", "reads")

(* read_packet(): a packet for an endpoint, nothing, or the end.            *)
ReadsPacket == /\ pc[P] = "reads"
               /\ sock = "open"
               /\ Goto(P, "handler")
               /\ UNCHANGED <<state, sock, idle, past, via, back, told>>

ReadsNothing == /\ pc[P] = "reads"
                /\ Goto(P, "beat")
                /\ UNCHANGED <<state, sock, idle, past, via, back, told>>

ReadsEnd == /\ pc[P] = "reads"
            /\ sock = "broken"
            /\ sock' = "closed"
            /\ Goto(P, "beat")
            /\ UNCHANGED <<state, idle, past, via, back, told>>

(* check_heartbeat(): a write when nothing was sent for a second.  A write  *)
(* on a broken connection may still be taken by the kernel.                 *)
BeatNotDue == /\ pc[P] = "beat"
              /\ ~idle
              /\ Return(TRUE)
              /\ UNCHANGED <<state, sock, idle, past, back, told>>

BeatSent == /\ pc[P] = "beat"
            /\ idle /\ Connected
            /\ idle' = FALSE
            /\ Return(TRUE)
            /\ UNCHANGED <<state, sock, past, back, told>>

(* Mutant of BeatFails: the failed heartbeat is ignored.                    *)
BeatIgnored == /\ pc[P] = "beat"
               /\ idle /\ sock # "open"
               /\ idle' = FALSE
               /\ Return(TRUE)
               /\ UNCHANGED <<state, sock, past, back, told>>

(* Mutant of BeatFails: the heartbeat is tried again.                       *)
BeatRetried == /\ pc[P] = "beat"
               /\ idle /\ sock # "open"
               /\ sock' = "closed"
               /\ CallHandleDisconnect(P, "beat")
               /\ UNCHANGED <<state, idle, past, via, told>>

BeatFails == /\ pc[P] = "beat"
             /\ idle /\ sock # "open"
             /\ sock' = "closed"
             /\ CallHandleDisconnect(P, "failed")
             /\ UNCHANGED <<state, idle, past, via, told>>

ProcessFails == /\ pc[P] = "failed"
                /\ Return(FALSE)
                /\ UNCHANGED <<state, sock, idle, past, back, told>>

(* The auto reconnect, after handle_disconnect().                           *)
RetryTooEarly == /\ pc[P] = "retry"
                 /\ ~past
                 /\ Return(FALSE)
                 /\ UNCHANGED <<state, sock, idle, past, back, told>>

RetryConnects == /\ pc[P] = "retry"
                 /\ past
                 /\ NewConnection("auto")
                 /\ UNCHANGED <<past, back, told>>

RetryFails == /\ pc[P] = "retry"
              /\ past
              /\ state' = -1
              /\ past' = FALSE
              /\ Return(FALSE)
              /\ UNCHANGED <<sock, idle, back, told>>

-----------------------------------------------------------------------------
(* User threads.                                                            *)

UserCalls(u) == "call" \in UserOps /\ sock # "none" /\ Call(u, "user", "user")

(* disconnect(): the event if connected, then the state and the socket; the *)
(* time of the disconnect is not taken.                                     *)
UserDisconnects(u) ==
  /\ "disconnect" \in UserOps
  /\ pc[u] = "user" /\ sock # "none"
  /\ told' = IF state = 1 THEN told + 1 ELSE told
  /\ Goto(u, "close")
  /\ UNCHANGED <<state, sock, idle, past, via, back>>

UserCloses(u) == /\ pc[u] = "close"
                 /\ state' = -1
                 /\ sock' = "closed"
                 /\ Goto(u, "user")
                 /\ UNCHANGED <<idle, past, via, back, told>>

(* The network and the clock.                                               *)
Break == /\ sock = "open"
         /\ sock' = "broken"
         /\ UNCHANGED <<state, idle, past, via, pc, back, told>>

SecondPasses == /\ ~idle
                /\ idle' = TRUE
                /\ UNCHANGED <<state, sock, past, via, pc, back, told>>

DelayPasses == /\ ~past
               /\ past' = TRUE
               /\ UNCHANGED <<state, sock, idle, via, pc, back, told>>

-----------------------------------------------------------------------------
Process == \/ ProtoFails \/ ProtoRuns
           \/ HandlerReturns \/ HandlerCalls
           \/ ReadsPacket \/ ReadsNothing \/ ReadsEnd
           \/ BeatNotDue \/ BeatSent \/ BeatFails \/ ProcessFails
           \/ RetryTooEarly \/ RetryConnects \/ RetryFails
           \/ DisconnectEvent(P) \/ ShutSession(P)

User(u) == \/ UserCalls(u) \/ UserDisconnects(u) \/ UserCloses(u)
           \/ DisconnectEvent(u) \/ ShutSession(u)

Environment == Break \/ SecondPasses \/ DelayPasses

Next == \/ ConnectOk \/ ConnectFail
        \/ Process
        \/ \E u \in Users : User(u)
        \/ Environment

(* The loop keeps calling process() and its handlers return; a user thread  *)
(* finishes what it has begun; time passes; the kernel does not take writes *)
(* on a broken connection for ever; a server that is asked again and again  *)
(* answers one day.                                                         *)
Fairness == /\ WF_vars(Process)
            /\ SF_vars(ReadsNothing)
            /\ SF_vars(BeatFails)
            /\ SF_vars(RetryConnects)
            /\ SF_vars(ProtoRuns)
            /\ \A u \in Users : WF_vars(\/ DisconnectEvent(u)
                                       \/ ShutSession(u)
                                       \/ UserCloses(u))
            /\ WF_vars(SecondPasses)
            /\ SF_vars(DelayPasses)

Spec == Init /\ [][Next]_vars /\ Fairness

-----------------------------------------------------------------------------
(* Properties.                                                              *)

(* The variables keep their types.                                          *)
TypeOK ==
  /\ state \in {-1, 0, 1}
  /\ sock \in {"none", "open", "broken", "closed"}
  /\ idle \in BOOLEAN /\ past \in BOOLEAN
  /\ via \in {"loop", "connect", "auto"}
  /\ pc \in [Threads -> {"out", "begin", "handler", "reads", "beat", "failed",
                         "retry", "ended", "event", "shut", "user", "close",
                         "absent"}]
  /\ back \in [Threads -> {"none", "retry", "reads", "failed", "user"}]
  /\ told \in Nat

(* No user thread shares the client with the loop.                          *)
Alone == \A u \in Users : pc[u] = "absent"

(* Connect and disconnect events alternate when one thread uses the client  *)
(* (mux_client.cpp:113-123, 195-209): a session that ended was reported     *)
(* once, a session that was not reported is up, wherever its end was        *)
(* noticed: in a handler's call(), by a read, a heartbeat or process().     *)
EventsAlternate ==
  Alone => /\ told <= 1
           /\ pc[P] \in {"begin", "ended"} => (told = 0 <=> state = 1)

(* A broken connection is noticed although neither reads nor calls may see  *)
(* it: the heartbeat does (mux_client.cpp:145, 211-230).  A user thread     *)
(* whose calls the kernel takes could put the heartbeat off for ever.       *)
BreakNoticed == (Alone /\ sock = "broken") ~> (sock # "broken")

(* mux_client.cpp:94 "auto reconnect": a client that has lost its           *)
(* connection is connected again when the delay has passed and the server   *)
(* accepts.                                                                 *)
Reconnects == (state = -1 /\ sock = "closed") ~> (state = 1)
=============================================================================
