----------------------------- MODULE HttpServer -----------------------------
(* networkio::http::server_handler on the worker threads of a server:       *)
(* process() collects a request in pieces, parses it, calls the endpoint,   *)
(* writes the response in pieces and keeps the connection or closes it.     *)
(* A byte <<c, i, k>> is byte k of the i-th request of client c; the first  *)
(* HeadLen of them are its header with the empty line that ends it.         *)
EXTENDS Integers, Sequences

CONSTANTS Clients, Workers,
          NoClient,       \* no client: an unanswered request, no owner
          Kinds,          \* the kinds of requests that clients send
          HeadLen,        \* bytes of a header
          BodyLen,        \* bytes of the body of a "post"
          ResponseLen,    \* bytes of a response
          BufLen,         \* bytes of the static receive buffer
          KeepAliveMax,   \* m_keep_alive_max, 0 for no limit
          MaxRequests,    \* bound: requests of a client
          Faults          \* connections break

(* "keep" and "post" ask for keep-alive, "last" does not, and "odd" neither *)
(* asks for it nor is a GET or a POST.                                      *)
ASSUME KindsAssumption == Kinds \subseteq {"keep", "post", "last", "odd"}
ASSUME LensAssumption == /\ HeadLen \in Nat \ {0} /\ BodyLen \in Nat
                         /\ ResponseLen \in Nat \ {0} /\ BufLen \in Nat \ {0}
                         /\ KeepAliveMax \in Nat /\ MaxRequests \in Nat
ASSUME FaultsAssumption == Faults \in BOOLEAN
ASSUME NoClientAssumption == NoClient \notin Clients /\ NoClient \notin Workers

VARIABLES
  \* the clients and the connections
  patient,   \* sends a request only when the one before is answered
  asked,     \* the requests it has sent (history)
  wire,      \* bytes on their way to the server
  peer,      \* its end of the connection: "there" or "gone"
  out,       \* bytes of responses the server's kernel took (history)
  \* the handlers
  conn,      \* "pending", "open", or "closed" and dropped by the server
  owner,     \* the worker that has the handler in its list
  request,   \* m_request
  response,  \* m_response, as the request it answers, and how much is sent
  keep,      \* m_keep_alive
  late,      \* more than m_keep_alive_timeout has passed since m_request_tp
  count,     \* m_request_count
  \* the threads
  buf,       \* the static receive buffer of process(), one for all threads
  pc, at,    \* per worker: where it is, in which handler
  rcvd       \* per worker: what read_raw has returned

clientVars == <<patient, asked>>
handlerVars == <<request, response, keep, late, count>>
threadVars == <<buf, pc, at, rcvd>>
vars == <<clientVars, wire, peer, out, conn, owner, handlerVars, threadVars>>

BodyOf(kind) == IF kind = "post" THEN BodyLen ELSE 0
LenOf(kind) == HeadLen + BodyOf(kind)
KeptAlive(kind) == kind \in {"keep", "post"}
Bytes == Clients \X (1 .. MaxRequests) \X (1 .. HeadLen + BodyLen)
NoResponse == [to |-> <<NoClient, 0>>, sent |-> 0]

Init == /\ patient \in [Clients -> BOOLEAN]
        /\ asked = [c \in Clients |-> <<>>]
        /\ wire = [c \in Clients |-> <<>>]
        /\ peer = [c \in Clients |-> "there"]
        /\ out = [c \in Clients |-> <<>>]
        /\ conn = [c \in Clients |-> "pending"]
        /\ owner = [c \in Clients |-> NoClient]
        /\ request = [c \in Clients |-> <<>>]
        /\ response = [c \in Clients |-> NoResponse]
        /\ keep = [c \in Clients |-> FALSE]
        /\ late = [c \in Clients |-> TRUE]
        /\ count = [c \in Clients |-> 0]
        /\ buf = <<>>
        /\ pc = [w \in Workers |-> "list"]
        /\ at \in [Workers -> Clients]
        /\ rcvd = [w \in Workers |-> 0]

-----------------------------------------------------------------------------
(* The clients.                                                             *)

(* All responses asked for have arrived.                                    *)
Answered(c) == Len(out[c]) = ResponseLen * Len(asked[c])

(* The client sends its next request; a patient one waits for the response  *)
(* to the one before.                                                       *)
Ask(c, kind) ==
  /\ peer[c] = "there"
  /\ Len(asked[c]) < MaxRequests
  /\ patient[c] => Answered(c)
  /\ asked' = [asked EXCEPT ![c] = Append(@, kind)]
  /\ wire' = [wire EXCEPT
       ![c] = @ \o [k \in 1 .. LenOf(kind) |-> <<c, Len(asked[c]) + 1, k>>]]
  /\ UNCHANGED <<patient, peer, out, conn, owner, handlerVars, threadVars>>

(* It goes away, and perhaps not all it sent arrives.                       *)
PeerCloses(c) ==
  /\ peer[c] = "there"
  /\ peer' = [peer EXCEPT ![c] = "gone"]
  /\ \E n \in 0 .. Len(wire[c]) :
       wire' = [wire EXCEPT ![c] = SubSeq(@, 1, n)]
  /\ UNCHANGED <<clientVars, out, conn, owner, handlerVars, threadVars>>

(* The keep-alive time passes.                                              *)
Elapse(c) ==
  /\ conn[c] = "open" /\ ~late[c]
  /\ late' = [late EXCEPT ![c] = TRUE]
  /\ UNCHANGED <<clientVars, wire, peer, out, conn, owner, request, response,
                 keep, count, threadVars>>

-----------------------------------------------------------------------------
(* The parser.                                                              *)

Ends(s) == {j \in 1 .. Len(s) : s[j][3] = HeadLen}
HeaderEnd(s) == CHOOSE j \in Ends(s) : \A i \in Ends(s) : j <= i
KindOf(b) == asked[b[1]][b[2]]

(* The text up to the empty line is a request line and header fields.       *)
IsHeader(s) == s = [k \in 1 .. HeadLen |-> <<s[1][1], s[1][2], k>>]

(* Mutant of BodyComplete: the comparison is off by one.                    *)
BodyLonger(s) == Len(s) - HeaderEnd(s) > BodyOf(KindOf(s[1]))
(* As many bytes follow the header as content-length says.                  *)
BodyComplete(s) == Len(s) - HeaderEnd(s) >= BodyOf(KindOf(s[1]))

(* request::from_string: what starts in the middle of a request is bogus as *)
(* soon as an empty line follows it.                                        *)
Parse(s) ==
  CASE Ends(s) = {} -> "again"
    [] Ends(s) # {} /\ ~IsHeader(SubSeq(s, 1, HeaderEnd(s))) -> "error"
    [] Ends(s) # {} /\ IsHeader(SubSeq(s, 1, HeaderEnd(s))) ->
         IF BodyComplete(s) THEN "success" ELSE "again"

-----------------------------------------------------------------------------
(* The handlers.                                                            *)

Goto(w, l) == pc' = [pc EXCEPT ![w] = l]
In(w, c, l) == at[w] = c /\ pc[w] = l
(* process() closes the client and returns false: the list erases it.       *)
Close(w, c) == conn' = [conn EXCEPT ![c] = "closed"] /\ Goto(w, "list")

AcceptClient(w, c) ==
  /\ pc[w] = "list"
  /\ conn[c] = "pending"
  /\ conn' = [conn EXCEPT ![c] = "open"]
  /\ owner' = [owner EXCEPT ![c] = w]
  /\ UNCHANGED <<clientVars, wire, peer, out, handlerVars, threadVars>>

Expired(c) == keep[c] /\ late[c]

(* process() finds the keep-alive time expired.                             *)
Timeout(w, c) ==
  /\ pc[w] = "list" /\ owner[c] = w /\ conn[c] = "open"
  /\ Expired(c)
  /\ Close(w, c)
  /\ UNCHANGED <<clientVars, wire, peer, out, owner, handlerVars, buf, at,
                 rcvd>>

(* process() goes on with the request, or with the response once there is   *)
(* one.                                                                     *)
Process(w, c) ==
  /\ pc[w] = "list" /\ owner[c] = w /\ conn[c] = "open"
  /\ ~Expired(c)
  /\ at' = [at EXCEPT ![w] = c]
  /\ Goto(w, IF response[c] = NoResponse THEN "read" ELSE "write")
  /\ UNCHANGED <<clientVars, wire, peer, out, conn, owner, handlerVars, buf,
                 rcvd>>

(* read_raw copies the next n bytes into the static buffer.                 *)
Read(w, c, n) ==
  /\ In(w, c, "read")
  /\ n <= Len(wire[c])
  /\ buf' = SubSeq(wire[c], 1, n) \o SubSeq(buf, n + 1, Len(buf))
  /\ wire' = [wire EXCEPT ![c] = SubSeq(@, n + 1, Len(@))]
  /\ rcvd' = [rcvd EXCEPT ![w] = n]
  /\ Goto(w, "append")
  /\ UNCHANGED <<clientVars, peer, out, conn, owner, handlerVars, at>>

(* There is nothing to read yet, or the peer is gone and errno was 0.       *)
ReadNothing(w, c) ==
  /\ In(w, c, "read")
  /\ wire[c] = <<>>
  /\ Goto(w, "list")
  /\ UNCHANGED <<clientVars, wire, peer, out, conn, owner, handlerVars, buf,
                 at, rcvd>>

(* read_raw fails, or meets the end of the stream with errno set.           *)
ReadFail(w, c) ==
  /\ In(w, c, "read")
  /\ Faults \/ peer[c] = "gone"
  /\ Close(w, c)
  /\ UNCHANGED <<clientVars, wire, peer, out, owner, handlerVars, buf, at,
                 rcvd>>

(* handle_request_get and handle_request_post: whatever the lookup under    *)
(* m_endpoints_mutex finds, a file, an endpoint, the default endpoint or    *)
(* nothing, there is one response to the request.                           *)
Answer(s) == [to |-> <<s[1][1], s[1][2]>>, sent |-> 0]

(* The bytes are appended and the request is parsed; when it is complete    *)
(* it is answered.                                                          *)
HandleRequest(w, c) ==
  /\ In(w, c, "append")
  /\ request' = [request EXCEPT ![c] = @ \o SubSeq(buf, 1, rcvd[w])]
  /\ late' = [late EXCEPT ![c] = FALSE]
  /\ LET s == request'[c] IN
       \/ /\ Parse(s) = "error"
          /\ Close(w, c)
          /\ UNCHANGED <<response, keep>>
       \/ /\ Parse(s) = "again"
          /\ Goto(w, "list")
          /\ UNCHANGED <<conn, response, keep>>
       \/ /\ Parse(s) = "success" /\ KindOf(s[1]) = "odd"
          /\ keep' = [keep EXCEPT ![c] = FALSE]
          /\ Close(w, c)
          /\ UNCHANGED response
       \/ /\ Parse(s) = "success" /\ KindOf(s[1]) # "odd"
          /\ keep' = [keep EXCEPT ![c] = KeptAlive(KindOf(s[1]))]
          /\ response' = [response EXCEPT ![c] = Answer(s)]
          /\ Goto(w, "write")
          /\ UNCHANGED conn
  /\ UNCHANGED <<clientVars, wire, peer, out, owner, count, buf, at, rcvd>>

Left(c) == ResponseLen - response[c].sent
Written(c, n) == [k \in 1 .. n |-> response[c].to \o <<response[c].sent + k>>]

(* write_raw takes some of the rest of the response.                        *)
WritePart(w, c, n) ==
  /\ In(w, c, "write")
  /\ n \in 0 .. Left(c) - 1
  /\ out' = [out EXCEPT ![c] = @ \o Written(c, n)]
  /\ response' = [response EXCEPT ![c].sent = @ + n]
  /\ Goto(w, "list")
  /\ UNCHANGED <<clientVars, wire, peer, conn, owner, request, keep, late,
                 count, buf, at, rcvd>>

(* Mutant of Reset: the answered request stays in m_request.                *)
ResetResponse(c) == /\ UNCHANGED request
                    /\ response' = [response EXCEPT ![c] = NoResponse]
Reset(c) == /\ request' = [request EXCEPT ![c] = <<>>]
            /\ response' = [response EXCEPT ![c] = NoResponse]

(* Mutant of WriteRest: one request more than m_keep_alive_max.             *)
WriteRestOneMore(w, c) ==
  /\ In(w, c, "write")
  /\ out' = [out EXCEPT ![c] = @ \o Written(c, Left(c))]
  /\ count' = [count EXCEPT ![c] = IF keep[c] THEN @ + 1 ELSE @]
  /\ IF ~keep[c] \/ (KeepAliveMax > 0 /\ count'[c] > KeepAliveMax)
       THEN /\ Close(w, c)
            /\ response' = [response EXCEPT ![c].sent = ResponseLen]
            /\ UNCHANGED request
       ELSE /\ Goto(w, "list")
            /\ Reset(c)
            /\ UNCHANGED conn
  /\ UNCHANGED <<clientVars, wire, peer, owner, keep, late, buf, at, rcvd>>

(* It takes all of it: the connection is closed unless it is kept alive for *)
(* another request, for which everything is reset.                          *)
WriteRest(w, c) ==
  /\ In(w, c, "write")
  /\ out' = [out EXCEPT ![c] = @ \o Written(c, Left(c))]
  /\ count' = [count EXCEPT ![c] = IF keep[c] THEN @ + 1 ELSE @]
  /\ IF ~keep[c] \/ (KeepAliveMax > 0 /\ count'[c] >= KeepAliveMax)
       THEN /\ Close(w, c)
            /\ response' = [response EXCEPT ![c].sent = ResponseLen]
            /\ UNCHANGED request
       ELSE /\ Goto(w, "list")
            /\ Reset(c)
            /\ UNCHANGED conn
  /\ UNCHANGED <<clientVars, wire, peer, owner, keep, late, buf, at, rcvd>>

(* write_raw fails.                                                         *)
WriteFail(w, c) ==
  /\ In(w, c, "write")
  /\ Faults \/ peer[c] = "gone"
  /\ \E n \in 0 .. Left(c) - 1 :
       out' = [out EXCEPT ![c] = @ \o Written(c, n)]
  /\ Close(w, c)
  /\ UNCHANGED <<clientVars, wire, peer, owner, handlerVars, buf, at, rcvd>>

(* read_raw is given the size of the buffer.                                *)
ReadStep(w, c) == ReadNothing(w, c) \/ \E n \in 1 .. BufLen : Read(w, c, n)
WriteStep(w, c) == \/ WriteRest(w, c) \/ WriteFail(w, c)
                   \/ \E n \in 0 .. Left(c) - 1 : WritePart(w, c, n)
Serve(w, c) == \/ Timeout(w, c) \/ Process(w, c) \/ ReadStep(w, c)
               \/ ReadFail(w, c) \/ HandleRequest(w, c) \/ WriteStep(w, c)

Next == \/ \E c \in Clients, kind \in Kinds : Ask(c, kind)
        \/ \E c \in Clients : PeerCloses(c) \/ Elapse(c)
        \/ \E w \in Workers, c \in Clients : AcceptClient(w, c) \/ Serve(w, c)

Spec == Init /\ [][Next]_vars

(* A worker comes back to each of its clients (ConcurrentServer), and the   *)
(* kernel takes bytes again and again; time passes.                         *)
FairSpec ==
  /\ Spec
  /\ \A c \in Clients :
       /\ WF_vars(Elapse(c))
       /\ SF_vars(\E w \in Workers : AcceptClient(w, c))
       /\ SF_vars(\E w \in Workers : Timeout(w, c))
       /\ SF_vars(\E w \in Workers : Process(w, c))
       /\ SF_vars(\E w \in Workers : ReadStep(w, c))
       /\ WF_vars(\E w \in Workers : HandleRequest(w, c))
       /\ SF_vars(\E w \in Workers : WriteRest(w, c) \/ WriteFail(w, c))

-----------------------------------------------------------------------------
(* The variables keep their types; the receive buffer holds no more than it *)
(* has room for.                                                            *)
TypeOK ==
  /\ patient \in [Clients -> BOOLEAN]
  /\ peer \in [Clients -> {"there", "gone"}]
  /\ conn \in [Clients -> {"pending", "open", "closed"}]
  /\ owner \in [Clients -> Workers \cup {NoClient}]
  /\ keep \in [Clients -> BOOLEAN] /\ late \in [Clients -> BOOLEAN]
  /\ count \in [Clients -> 0 .. MaxRequests]
  /\ pc \in [Workers -> {"list", "read", "append", "write"}]
  /\ at \in [Workers -> Clients]
  /\ rcvd \in [Workers -> 0 .. BufLen]
  /\ Len(buf) <= BufLen /\ \A i \in 1 .. Len(buf) : buf[i] \in Bytes
  /\ \A c \in Clients :
       /\ Len(asked[c]) <= MaxRequests
       /\ \A i \in 1 .. Len(asked[c]) : asked[c][i] \in Kinds
       /\ \A i \in 1 .. Len(wire[c]) : wire[c][i] \in Bytes
       /\ \A i \in 1 .. Len(request[c]) : request[c][i] \in Bytes
       /\ response[c].sent \in 0 .. ResponseLen

(* What a client receives are whole responses to its own requests, one      *)
(* after the other and in the order of the requests, although requests and  *)
(* responses are cut at any byte and the handler is left between the        *)
(* pieces (http_server.cpp:39-109).  A patient client gets one for each of  *)
(* its requests; of one that sends more at once, requests that arrived      *)
(* together with the one before get none.  The variables keep their types   *)
(* meanwhile.                                                               *)
ResponsesInOrder ==
  /\ TypeOK
  /\ \A c \in Clients : \A j \in 1 .. Len(out[c]) :
       LET b == out[c][j]
       IN /\ b[1] = c /\ b[2] <= Len(asked[c])
          /\ b[3] = ((j - 1) % ResponseLen) + 1
          /\ b[3] > 1 => b[2] = out[c][j - 1][2]
          /\ b[3] = 1 /\ j > 1 => b[2] > out[c][j - 1][2]
          /\ patient[c] => b[2] = ((j - 1) \div ResponseLen) + 1

(* The response to a request without keep-alive is the last that is sent,   *)
(* no connection gets more responses than m_keep_alive_max, and in both     *)
(* cases the last byte closes it (http_server.cpp:88-103).                  *)
KeepAliveEnds ==
  \A c \in Clients : \A j \in 1 .. Len(out[c]) :
    LET b == out[c][j]
        n == j \div ResponseLen
    IN b[3] = ResponseLen
         => /\ KindOf(b) = "last" => j = Len(out[c]) /\ conn[c] = "closed"
            /\ KeepAliveMax > 0 /\ n >= KeepAliveMax
                 => j = Len(out[c]) /\ conn[c] = "closed"

(* A request that was sent is answered, or the connection is closed: also   *)
(* one whose bytes were cleared with the request before it, which only the  *)
(* keep-alive time ends (http_server.cpp:15-23, 106-108).                   *)
AnsweredOrClosed ==
  \A c \in Clients : \A i \in 1 .. MaxRequests :
    Len(asked[c]) >= i
      ~> \/ <<c, i, ResponseLen>> \in {out[c][j] : j \in 1 .. Len(out[c])}
         \/ conn[c] = "closed" \/ peer[c] = "gone"
=============================================================================
