------------------------------ MODULE MCClients ------------------------------
(* The clients of the library: a mux client and its loop, the two ends of a *)
(* tls connection, and an http client.  A run looks at one of them, the one *)
(* that Which names; the others stay in an initial state.                   *)
EXTENDS TlsClient

CONSTANTS
  Which,                                   \* "mux", "tls" or "http"
  Users, HandlerOps, UserOps, UsesRun,     \* of MuxClient
  Urls, Site(_), Refused, Nowhere, BadLine, Word,
  RequestLen, HeadLen, MaxBreaks, MaxCalls,  \* of HttpClient
  Addresses                                \* the addresses that Site knows

VARIABLES
  state, sock, idle, past, via, mux_pc, back, told,
  m_follow_redirects, m_timeout, pc, address, redirects, sent, respstr, result,
  connected, hops, got, http_wire, http_fin, breaks, calls

Mux == INSTANCE MuxClient WITH pc <- mux_pc
Http == INSTANCE HttpClient WITH wire <- http_wire, fin <- http_fin

ASSUME WhichAssumption == Which \in {"mux", "tls", "http"}

ASSUME MuxAssumption == /\ HandlerOps \subseteq {"return", "call"}
                        /\ UserOps \subseteq {"call", "disconnect"}
                        /\ UsesRun \in BOOLEAN

ASSUME HttpAssumption == /\ RequestLen \in Nat \ {0} /\ HeadLen \in Nat \ {0}
                         /\ MaxBreaks \in Nat /\ MaxCalls \in Nat

(* Lengths are natural numbers, and urls and redirects lead to addresses.   *)
ASSUME SiteAssumption ==
  /\ \A u \in Urls : ~Http!Malformed(u) => Http!Address(u) \in Addresses
  /\ \A a \in Addresses : Site(a) # Refused =>
       /\ Site(a).content_length \in Nat /\ Site(a).body \in Nat
       /\ Site(a).location.host # Nowhere =>
            Http!Address(Http!Redirected(Site(a).location)) \in Addresses

-----------------------------------------------------------------------------
(* Instances for TLC.  The connecting end writes two records, the accepted  *)
(* one writes none.                                                         *)
TwoAndNone(x) == IF x = Connecting THEN 2 ELSE 0

Url(scheme, host, port) == [scheme |-> scheme, host |-> host, port |-> port]

(* With and without a scheme and a port, one that refuses the connection,   *)
(* one that is malformed.                                                   *)
SomeUrls == {Url("http", "moved", 0), Url("", "moved", 8080), Url("http", "odd", 0),
             Url("https", "odd", 0), Url("https", "gone", 0), Url("", Nowhere, 0)}

SomeAddresses == {"moved", "odd", "gone"} \X {80, 81, 443, 8080}

Answer(status, location, content_length, body) ==
  [status |-> status, location |-> location, content_length |-> content_length,
   body |-> body]

NoLocation == Url("", Nowhere, 0)

(* Redirects: to an http url, which becomes https; to a port; to nowhere.   *)
(* Responses with a content-length and without one (which counts as 0),     *)
(* with a bad header line, and with a status that is no number.             *)
SomeSite(a) ==
  CASE a = <<"moved", 80>> -> Answer(302, Url("http", "moved", 0), 0, 0)
    [] a = <<"moved", 443>> -> Answer(200, NoLocation, 2, 2)
    [] a = <<"moved", 8080>> -> Answer(302, Url("https", "odd", 81), 0, 1)
    [] a = <<"odd", 81>> -> Answer(302, NoLocation, 0, 2)
    [] a = <<"odd", 80>> -> Answer(BadLine, NoLocation, 0, 0)
    [] a = <<"odd", 443>> -> Answer(Word, NoLocation, 0, 0)
    [] OTHER -> Refused

-----------------------------------------------------------------------------
muxVars == <<state, sock, idle, past, via, mux_pc, back, told>>
httpVars == <<m_follow_redirects, m_timeout, pc, address, redirects, sent, respstr,
              result, connected, hops, got, http_wire, http_fin, breaks, calls>>

ClientsInit ==
  /\ Init /\ Mux!Init /\ Http!Init
  /\ Which # "mux" => \A u \in Users : mux_pc[u] = "absent"
  /\ Which # "http" => m_follow_redirects = 0 /\ ~m_timeout

ClientsNext ==
  \/ Which = "mux" /\ Mux!Next /\ UNCHANGED <<vars, httpVars>>
  \/ Which = "tls" /\ Next /\ UNCHANGED <<muxVars, httpVars>>
  \/ Which = "http" /\ Http!Next /\ UNCHANGED <<vars, muxVars>>

ClientsSpec ==
  /\ ClientsInit
  /\ [][ClientsNext]_<<vars, muxVars, httpVars>>
  /\ Which = "mux" => Mux!Fairness
  /\ Which = "tls" => Fairness
  /\ Which = "http" => Http!Fairness

-----------------------------------------------------------------------------
(* MuxClient: the variables keep their types.                               *)
MuxTypeOK == Mux!TypeOK

(* MuxClient: connect and disconnect events (mux_client.cpp:113-123).       *)
EventsAlternate == Mux!EventsAlternate

(* MuxClient: the heartbeat finds the break (mux_client.cpp:211-230).       *)
BreakNoticed == Mux!BreakNoticed

(* MuxClient: the auto reconnect (mux_client.cpp:94).                       *)
Reconnects == Mux!Reconnects

(* HttpClient: the request that is sent (http_client.cpp:149-250).          *)
RequestInOrder == Http!RequestInOrder

(* HttpClient: the response that is returned (http_client.cpp:170-204).     *)
ResponseIsWhole == Http!ResponseIsWhole

(* HttpClient: redirects (http_client.cpp:220-238).                         *)
RedirectsAsAsked == Http!RedirectsAsAsked

(* HttpClient: an end of every request (http_client.cpp:138-251).           *)
RequestReturns == Http!RequestReturns
=============================================================================
