----------------------------- MODULE HttpClient -----------------------------
(* networkio::http::client: request_sync connects, sends a request in       *)
(* pieces, collects the response until it is complete, and starts again     *)
(* after a broken connection or a redirect.  A request has RequestLen       *)
(* bytes; a response is HeadLen bytes of header and its body.               *)
EXTENDS Integers, Sequences

CONSTANTS
  Urls,          \* what request_sync is called with
  Site(_),       \* the response that an address has, or Refused
  Refused, Nowhere,
  BadLine,       \* the status of a header line that is none
  Word,          \* a status that is no number
  RequestLen, HeadLen,
  MaxBreaks,     \* bound: connections that break
  MaxCalls       \* bound: calls of request_sync

VARIABLES
  m_follow_redirects, m_timeout,   \* a number, and whether there is a timeout
  pc,            \* "idle", "connect", "send", "receive" or "terminated"
  address,       \* where the request goes
  redirects,     \* the argument of process_request
  sent,          \* bytes of the request that have been sent
  respstr,       \* what has been received
  result,        \* what request_sync returned last
  connected,     \* of m_client
  hops,          \* redirects followed since the call (history)
  got,           \* bytes of the request that have reached the site
  wire,          \* bytes of its response in the kernel
  fin,           \* the end of them: "no", "reported" by read_raw, or "silent"
  breaks, calls

options == <<m_follow_redirects, m_timeout>>
site == <<got, wire, fin, breaks>>
vars == <<options, pc, address, redirects, sent, respstr, result, connected,
          hops, site, calls>>

(* response(): a 404 without a body.                                        *)
NotFound == [status |-> 404, body |-> <<>>]

Init ==
  /\ m_follow_redirects \in {0, 1} /\ m_timeout \in BOOLEAN
  /\ pc = "idle" /\ address = Nowhere /\ redirects = 0
  /\ sent = 0 /\ respstr = <<>> /\ result = NotFound /\ connected = FALSE /\ hops = 0
  /\ got = <<>> /\ wire = <<>> /\ fin = "no" /\ breaks = 0 /\ calls = 0

-----------------------------------------------------------------------------
(* build_request: a url has a scheme ("" for none), a host and a port (0 for*)
(* none); malformed ones have none of them.                                 *)
Malformed(u) == u.host = Nowhere

Address(u) ==
  <<u.host, IF u.port # 0 THEN u.port ELSE IF u.scheme = "http" THEN 80 ELSE 443>>

(* The url of a redirect is made an https one.                              *)
Redirected(u) == IF u.scheme = "http" THEN [u EXCEPT !.scheme = "https"] ELSE u

(* process_request(a, request, n), up to connect().                         *)
ProcessRequest(a, n) ==
  /\ pc' = "connect" /\ address' = a /\ redirects' = n
  /\ sent' = 0 /\ respstr' = <<>> /\ connected' = FALSE
  /\ UNCHANGED <<options, result, got, wire, fin, calls>>

(* The connection is closed, if there is one, and a response returned.      *)
Returns(r) ==
  /\ pc' = "idle" /\ result' = r /\ connected' = FALSE
  /\ UNCHANGED <<options, address, redirects, sent, respstr, hops, site, calls>>

RequestSync(u) ==
  /\ pc = "idle" /\ calls < MaxCalls /\ calls' = calls + 1
  /\ hops' = 0 /\ sent' = 0 /\ respstr' = <<>>
  /\ IF Malformed(u)
       THEN /\ result' = NotFound
            /\ UNCHANGED <<pc, address, redirects>>
       ELSE /\ pc' = "connect" /\ address' = Address(u) /\ redirects' = 0
            /\ UNCHANGED result
  /\ UNCHANGED <<options, connected, site>>

Connect ==
  /\ pc = "connect" /\ Site(address) # Refused
  /\ pc' = "send" /\ connected' = TRUE
  /\ got' = <<>> /\ wire' = <<>> /\ fin' = "no"
  /\ UNCHANGED <<options, address, redirects, sent, respstr, result, hops, breaks,
                 calls>>

ConnectFails == pc = "connect" /\ Site(address) = Refused /\ Returns(NotFound)

(* Mutant of Pieces: _header is not moved on.                               *)
PiecesFromTheStart(n) == [i \in 1 .. n |-> i]

(* n bytes of the request, from where the last write_raw ended.             *)
Pieces(n) == [i \in 1 .. n |-> sent + i]

(* write_raw takes n bytes, which get lost if the site has closed; the loop *)
(* ends with the last one.                                                  *)
Send(n) ==
  /\ pc = "send"
  /\ sent' = sent + n /\ got' = IF fin # "no" THEN got ELSE got \o Pieces(n)
  /\ pc' = IF sent' = RequestLen THEN "receive" ELSE pc
  /\ UNCHANGED <<options, address, redirects, respstr, result, connected, hops,
                 wire, fin, breaks, calls>>

SendFails == pc = "send" /\ fin # "no" /\ Returns(NotFound)

-----------------------------------------------------------------------------
(* response::from_string of what has been received.                         *)
Response == Site(address)
Header(s) == Len(s) >= HeadLen
Body(s) == SubSeq(s, HeadLen + 1, Len(s))

(* Mutant of Complete: the length of the body is not looked at.             *)
CompleteWithHeader(s) == Header(s)

(* There is a header, and as many bytes of body as its content-length says. *)
Complete(s) == Len(s) >= HeadLen + Response.content_length

(* A header line that is none is an error, a status that is no number, for  *)
(* which std::stoi throws what nobody catches, ends the process.            *)
Parse(s) ==
  CASE ~Header(s) -> "again"
    [] Header(s) /\ Response.status = BadLine -> "error"
    [] Header(s) /\ Response.status = Word -> "throws"
    [] Header(s) /\ Response.status \notin {BadLine, Word} ->
         IF Complete(s) THEN "success" ELSE "again"

(* Mutant of FollowsRedirect: also when it was not asked for.               *)
FollowsAnyRedirect == Response.status = 302 /\ Response.location.host # Nowhere

FollowsRedirect ==
  /\ Response.status = 302 /\ Response.location.host # Nowhere
  /\ redirects < m_follow_redirects

(* read_raw has n more bytes: they are appended and parsed.  redirects++    *)
(* passes on the number it was before.                                      *)
Receive(n) ==
  LET s == respstr \o SubSeq(wire, 1, n)
      to == Redirected(Response.location)
  IN
  /\ pc = "receive"
  /\ wire' = SubSeq(wire, n + 1, Len(wire))
  /\ UNCHANGED <<options, got, fin, breaks, calls>>
  /\ \/ /\ Parse(s) = "again"
        /\ respstr' = s
        /\ UNCHANGED <<pc, address, redirects, sent, result, connected, hops>>
     \/ /\ Parse(s) = "error"
        /\ pc' = "idle" /\ result' = NotFound /\ connected' = FALSE
        /\ UNCHANGED <<address, redirects, sent, respstr, hops>>
     \/ /\ Parse(s) = "throws"
        /\ pc' = "terminated"
        /\ UNCHANGED <<address, redirects, sent, respstr, result, connected, hops>>
     \/ /\ Parse(s) = "success" /\ FollowsRedirect
        /\ pc' = "connect" /\ address' = Address(to) /\ hops' = hops + 1
        /\ sent' = 0 /\ respstr' = <<>> /\ connected' = FALSE
        /\ UNCHANGED <<redirects, result>>
     \/ /\ Parse(s) = "success" /\ ~FollowsRedirect
        /\ pc' = "idle" /\ connected' = FALSE
        /\ result' = [status |-> Response.status, body |-> Body(s)]
        /\ UNCHANGED <<address, redirects, sent, respstr, hops>>

(* Mutant of Retry: the end is taken for nothing to read yet.               *)
KeepsWaiting == UNCHANGED vars

(* The request is made again, as often as that happens.                     *)
Retry == ProcessRequest(address, redirects) /\ UNCHANGED hops

(* read_raw fails, or meets the end of the stream with an errno: the bytes  *)
(* it has copied before are lost with it.  Without an errno it returns 0    *)
(* (tcp.cpp:221-228), and the loop goes on.                                 *)
ReceiveFails ==
  /\ pc = "receive" /\ fin = "reported" /\ Retry
  /\ IF wire = <<>> THEN UNCHANGED breaks
                    ELSE breaks < MaxBreaks /\ breaks' = breaks + 1

(* The time is up.                                                          *)
TimesOut == pc = "receive" /\ m_timeout /\ Returns(NotFound)

-----------------------------------------------------------------------------
Ends == fin' \in {"reported", "silent"}

(* The site answers a whole request, and closes the connection.             *)
SiteResponds ==
  /\ connected /\ Len(got) = RequestLen /\ fin = "no"
  /\ wire' = [i \in 1 .. HeadLen + Response.body |-> i] /\ Ends
  /\ UNCHANGED <<options, pc, address, redirects, sent, respstr, result, connected,
                 hops, got, breaks, calls>>

(* It breaks the connection instead, or in the middle of its response.      *)
SiteBreaks ==
  /\ connected /\ breaks < MaxBreaks /\ breaks' = breaks + 1
  /\ Ends
  /\ \E n \in 0 .. Len(wire) : wire' = SubSeq(wire, 1, n)
  /\ UNCHANGED <<options, pc, address, redirects, sent, respstr, result, connected,
                 hops, got, calls>>

Sends == SendFails \/ \E n \in 1 .. RequestLen - sent : Send(n)
Receives == ReceiveFails \/ TimesOut \/ \E n \in 1 .. Len(wire) : Receive(n)

Next ==
  \/ \E u \in Urls : RequestSync(u)
  \/ Connect \/ ConnectFails \/ Sends \/ Receives
  \/ SiteResponds \/ SiteBreaks

(* request_sync goes on, connect and write_raw get their answer, and so     *)
(* does a whole request.                                                    *)
Fairness == /\ WF_vars(Connect \/ ConnectFails) /\ WF_vars(Sends)
            /\ WF_vars(Receives) /\ WF_vars(SiteResponds)

Spec == Init /\ [][Next]_vars /\ Fairness

-----------------------------------------------------------------------------
(* The variables keep their types.                                          *)
TypeOK ==
  /\ pc \in {"idle", "connect", "send", "receive", "terminated"}
  /\ sent \in 0 .. RequestLen /\ redirects \in 0 .. m_follow_redirects
  /\ DOMAIN result = {"status", "body"}
  /\ {connected, m_timeout} \subseteq BOOLEAN
  /\ fin \in {"no", "reported", "silent"}
  /\ breaks \in 0 .. MaxBreaks /\ calls \in 0 .. MaxCalls

(* A connection carries one request: the site gets its bytes, each once and *)
(* in order, however write_raw cuts them and however often the request      *)
(* starts again, and every way out of process_request closes the connection *)
(* (http_client.cpp:149-250).  The variables keep their types meanwhile.    *)
RequestInOrder ==
  /\ TypeOK
  /\ got = [i \in 1 .. Len(got) |-> i]
  /\ pc \in {"idle", "connect"} => ~connected

(* What is returned is the 404 of a failure, or the answer of the site the  *)
(* request went to last: the beginning of its body, and all that            *)
(* content-length announces, although pieces were collected from several    *)
(* connections (http_client.cpp:170-204, http_response.cpp:221-270).        *)
ResponseIsWhole ==
  pc = "idle" /\ result # NotFound =>
    /\ result.status = Response.status
    /\ result.body = [i \in 1 .. Len(result.body) |-> HeadLen + i]
    /\ Len(result.body) >= Response.content_length

(* Redirects are followed only when that was asked for, and then a redirect *)
(* with a location is never what the caller gets (http_client.cpp:220-238). *)
RedirectsAsAsked ==
  /\ hops > 0 => m_follow_redirects > 0
  /\ (pc = "idle" /\ result.status = 302 /\ m_follow_redirects > 0) =>
       Response.location.host = Nowhere

(* request_sync returns, as long as connections break only so often and no  *)
(* site refers to itself (http_client.cpp:138-251), or it waits, without a  *)
(* timeout, for more of a stream whose end nothing reports                  *)
(* (http_client.cpp:197-199, tcp.cpp:224).                                  *)
WaitsInVain == pc = "receive" /\ fin = "silent" /\ wire = <<>> /\ ~m_timeout
RequestReturns ==
  pc = "connect" ~> (pc \in {"idle", "terminated"} \/ WaitsInVain)
=============================================================================
