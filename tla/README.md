# A TLA+ verification of networkio

networkio is a C++ library of sockets, servers and small protocols.  This
directory holds TLA+ modules of its core, the TLC configurations that check
them on small instances, and proofs that TLAPS checks.  All paths below are
relative to `src/library/`.

## 1. The system

| component | state | operations | works with |
|---|---|---|---|
| `packet_proto` (src/proto/packet_proto.cpp) | out: queue of packets, the frame being sent, bytes of it sent; in: byte buffer, remembered header; one mutex per direction; one *static* receive buffer | `write_packet`, `process`, `read_packet` | reads and writes a client socket; driven by mux client and server |
| tcp sockets (src/socket/tcp.cpp) | descriptor, `m_connected` | `connect`, `accept`, `read_raw`, `write_raw`, `close` | the kernel |
| `concurrent_server` (src/socket/concurrent_server.cpp) | worker threads, their client lists, `m_threads_active` | `start`, `run`, `process`, `worker`, `shutdown` | calls the virtual `accept_client`, `process_client` of the mux and http servers |
| mux client (src/mux/mux_client.cpp) | connection state, last send, last disconnect, handlers | `connect`, `process`, `call`, `disconnect` | a packet_proto; callbacks to the user |
| mux server (src/mux/mux_server.cpp) | endpoint table and its mutex, events | `accept_client`, `process_client`, `endpoint` | concurrent_server runs it, one mux client object per connection |
| http session store (src/http/http_session_store.cpp) | map of sessions behind a shared mutex | `get` | http handlers on worker threads |
| `fifo_buffer` (src/memory/fifo_buffer.cpp) | heap block and size, mutex | `push_back`, `pop_front`, `peek`, `clear` | packet_proto, udp, tls |
| `ring_buffer` (src/memory/ring_buffer.cpp) | block, read and write offset, bytes written | `push_back`, `pop_front`, `peek` | nothing in the library |
| `packet`, `shared_buffer` (src/proto/packet.cpp, src/memory) | block, its start, read and write pointer | read, write, grow, `set_start` | mux payloads |
| unix sockets (src/socket/unix.cpp), socket base (src/socket/socket.cpp) | descriptor, modes, path of a server | as tcp | as tcp |
| udp sockets (src/socket/udp.cpp) | one socket, a client object with a byte queue per peer, list of new ones, mutex, static buffer | `accept`, `read_raw`, `write_raw`, `close` | packet_proto, concurrent_server |
| tls (src/tls) | plain and cipher buffers around Botan | `connect`, `accept`, `read_raw`, `write_raw`, `close` | tcp below, http or mux above |
| http server (src/http/http_server.cpp) | request being collected, response being sent, keep-alive time | `accept_client`, `process_client` | concurrent_server, session store |
| http client (src/http/http_client.cpp) | number of redirects, timeout | `request_sync`, `request_async` | a tcp or tls client |
| string_proto, stringutil, fnv1a, posix, mux_memory | little or none | text and hash helpers | — |

What is hard in it: several threads drive the same connection and share more
than they lock; packets cross partial reads and writes, ends of stream and
closes at any moment; clients are owned by worker threads that accept on one
listening socket; heartbeats, reconnects and handlers race with each other; the
buffers reallocate themselves.  `PROJECT.json` lists these as hazards, each at
its line, with the properties that would catch it, or a note why none does.

Properties that make the components correct: packets arrive whole, once and in
order; a stream of frames is never shifted; every connection has one owner and
is served again and again; shutdown ends; a lost peer is noticed, reported once
and reconnected; sessions are never replaced and always found; a buffer is a
queue of bytes; a datagram finds the object of its sender, of which there is one; a
descriptor has one owner and is closed once; cipher bytes keep their sequence and a
handshake ends; requests and responses of http are whole, in order, and come to an end.

## 2. The modules

| module | models | kind |
|---|---|---|
| `PacketChannel` | what a writer and a reader of packets may rely on | abstract |
| `PacketProto` | packet_proto at both ends of stream sockets, with read_raw and write_raw | detailed, refines `PacketChannel` |
| `PacketProtoProofs` | types, the stream, delivery, and that `PacketProto` implements `PacketChannel` | proofs |
| `ConcurrentServer` | the thread that calls process(), the workers, shutdown | detailed |
| `ConcurrentServerProofs` | owners and passes | proofs |
| `MuxClient` | a connecting mux client, its loop and user threads | detailed |
| `MuxServer` | accepted clients, workers, handlers and the endpoint mutex | detailed, on top of `ConcurrentServer`'s ownership |
| `MuxServerProofs` | disconnect events and the handlers after them | proofs |
| `HttpServer` | server_handler::process on worker threads, and when a request is complete | detailed |
| `HttpServerProofs` | responses in order, the end of a connection | proofs |
| `SessionStore` | session_store::get on several threads | detailed |
| `ByteQueue` | a queue of bytes | abstract |
| `FifoBuffer` | fifo_buffer | detailed, refines `ByteQueue` |
| `RingBuffer` | ring_buffer | detailed |
| `PacketCursor` | bytes that are appended and a reader with a start of its own | abstract |
| `Packet` | packet and the shared_buffer under it | detailed, its steps are those of `PacketCursor` |
| `MCStructures` | one of `FifoBuffer`, `RingBuffer`, `Packet`, `SessionStore` at a time | instance for TLC |
| `StructuresProofs` | all four: shapes, the two refinements, the ring's queue, sessions | proofs |
| `UdpServer`, `MCUdpServer` | a udp_server, its peers, and packet_proto on datagrams | detailed, instance |
| `UdpServerProofs` | one object per peer, order of delivery | proofs |
| `StreamSockets`, `MCStreamSockets` | tcp and unix servers and clients on the kernel's sockets | detailed, instance |
| `StreamSocketsProofs` | owners of descriptors, modes, signals | proofs |
| `TlsClient` | both ends of a tls connection around Botan and a socket | detailed |
| `HttpClient` | request_sync and the sites it meets | detailed |
| `MCClients` | one of `MuxClient`, `TlsClient`, `HttpClient` at a time | instance for TLC |
| `ClientsProofs` | all three: types, events, cipher and user bytes, requests and responses | proofs |

How they fit together: `PacketProto` treats `m_in_buffer` as a sequence of
bytes, which is what `FifoBuffer` shows of the implementation.  `MuxClient` and
`MuxServer` leave the content of packets out, which is `PacketProto`'s subject.
`MuxServer` gives every client one worker, which is `ConcurrentServer`'s
`OneOwner`, and assumes that a worker comes back to each of its clients, which
is `ServedAgain`.  `HttpServer` rests on the same two; an endpoint of it that asks
for its session is one request of `SessionStore`.  `TlsClient` sits on the sockets
of `StreamSockets` and holds two byte queues of `FifoBuffer`; `UdpServer` holds one per
peer, and is where packet_proto's datagram branches are.  `HttpClient` needs of its
socket that bytes arrive in order and that the stream ends, reported or not.

`MCStructures` and `MCClients` put modules side by side that do not interact, so that
their constants, properties and proofs are in one place: a constant (`Which`), or the
initial state (`which`), says which of them moves, and the others stay where they
began.  `MCClients` extends `TlsClient` and instantiates the other two.  Its
`SiteAssumption` says that what `Site` answers is well-formed: lengths are natural numbers,
and urls and redirects lead to members of `Addresses`.

### PacketProto

A byte is `<<p, i>>`, byte i of the frame of packet p, the first H bytes of a
frame being its header.  The stream between the two ends is a history of all
bytes the sending kernel took, and `taken` says how many `recv` has returned: a
partial write appends some bytes of the frame at hand, a partial read copies
any number of those that are there.  One step of a writer is one call of
`process()`, which runs under `m_out_mutex`.  A reader takes several steps:
`ReadPacket` (the test of `is_connected`), `ReadComplete` or `ReadMore` (the
parsing under `m_in_mutex`), any number of `Recv` (each turn of the loop of
`read_raw` copies into the static buffer), `RecvNothing`, `RecvFail` or
`RecvEnd`, and `Push`.  Between these steps other readers may run, also on the
same buffer.  `CloseWriter` and `CloseReader` close an end at any moment.

Abstractions: magic, size and hash of a header are abstracted to "these are the
header bytes of one frame in order"; a payload whose bytes happen to form a
valid header is not modelled.  The test of `is_connected` in `write_packet` and
the push are one step, since a close in between changes nothing that the push
reads.  Datagram sockets are in `UdpServer`.

The condition of `RecvEnd` is the errno of an earlier call (tcp.cpp:224).  When it is
not zero, `read_raw` returns -1 although earlier turns of its loop have copied bytes, and
the packet they complete is lost; the channel allows that once an end is closed, so
no property of the runs forbids it, although packet_proto.cpp:69-71 calls this close
graceful.

### ConcurrentServer

One step per call that others can see: `select`, `::accept`, the handling of one
client, the end of a pass.  The main thread runs the same pass when there are no
workers.  `process_client` is any function that answers keep or drop.  The worker
modelled is the one compiled (`MANY_CONNECTIONS` is defined at
concurrent_server.cpp:10).  `set_threads` is called before `start`, as its
comment asks.

### MuxClient, MuxServer

`state` is `m_connection_state`.  A socket is `"broken"` when the peer is gone
and the library has not noticed: a later write may still be taken by the kernel
or find the error.  `idle` says that the heartbeat is due, `past` that the
reconnect delay has passed (the code measures it with `clock()`, processor time
of the process; the model only says that it passes).  `UsesRun` says that the loop is
`run()`, which ends when `process()` returns false: then the client never reconnects
(mux_client.cpp:109), and `Reconnects` fails.  The run below has the loop of the
examples, which ignores the result.  In the client,
`handle_disconnect` takes two steps, because handlers and other threads run
between the event and the change of state.  Handlers are limited by `HandlerOps`:
a disconnect handler that calls `call()` or `disconnect()` re-enters
`handle_disconnect`, without end while the connection stays broken, and is not
modelled.  `RegisterIn` says which handlers call `server::endpoint()` before they
return.  A handler of the connect event may: it waits for `m_endpoints_mutex`
(`RegisterBegin`, `Register`).  A handler of an endpoint is called with that mutex held
(mux_server.cpp:105-116) and waits for its own thread: with "endpoint" in `RegisterIn`,
`MutexReleased` fails, and soon all workers wait.  The run has {"connect"}, because
no text of the repository says whether a callback may register endpoints.

### HttpServer

A byte is `<<c, i, k>>`, byte k of request i of client c; a header is `HeadLen`
bytes of which the last stands for the empty line.  `request` and `response` are
`m_request` and the rest of `m_response`; `response` is `NoResponse` exactly while
`m_request_complete` is false.  A call of `process()` takes the steps `Process`,
`Read` and `HandleRequest`, then a write; between `Read` and `HandleRequest` the
bytes are in the static buffer.  `late` says that more than the keep-alive time
has passed since the last byte was read.  What the parser is given in the middle of
a request, after the start of it was cleared with the request before, is bogus as
soon as an empty line follows; a body that looks like a request is not modelled.
The endpoint is any function that fills in a response; one that is not found gets a
response too, the untouched one of the connection object, which is a 404 as well.

### SessionStore, FifoBuffer

`SessionStore` has a step per lock operation, lookup and insertion, so requests
interleave between unlock_shared and lock.  `TryNext` is the search for a free id: as
long as generate_session_id() returns a constant it never ends once that id is in use,
and the thread keeps the exclusive lock (http_session_store.cpp:40, :89), so the runs
check safety only.  `FifoBuffer` has a step per operation,
each under `m_mutex`.  `clear()` of a buffer that is not empty leaves `m_buffer`
pointing to freed memory (fifo_buffer.cpp:80), although tls_client.cpp:87 and udp.cpp:213
call it in order to go on: the next `push_back` or `clear` hands that memory to the
allocator again, which sets `broken`, and the model ends there.

### RingBuffer, Packet

`RingBuffer` keeps a block and two offsets, and beside them the queue of bytes that a
user of it would expect.  Two calls lose the order and set `disordered`: a growth at
a time when the bytes do not fill the block to its end (ring_buffer.cpp:112 moves the
write offset by the old size whatever it was), and `peek` (ring_buffer.h:45 restores the
offset and not the count).  `Place` is the three branches of ring_buffer.cpp:39-50, not a
remainder: after such a growth the write offset may be the end of the block, and stay
there.  On a ring of 3, push 1, pop 1 and push 4 make the block 4 and lead to offset
4; the next growth moves it to 8 in a block of 5, and the length memcpy gets is
negative.  A push from past the end of the block has no step.

`Packet` keeps the block, its start `m_offset` and the two pointers as positions.
A block that grows may move, which leaves `m_read_pointer` behind: `moved` says so, and
nothing is read until `begin_read` sets it anew.  `PacketCursor` is what mux and the
users rely on.  Three calls are not steps of it and are excepted by name in
`StepsOfCursor`: a second `set_start` (packet.h:53 passes a distance from the start to a
function that counts from the beginning of the block), a `set_start` at the end of the
block, and a copy of a block with bytes to spare, whose rest the copy counts as
written (packet.cpp:42).

### UdpServer

A datagram is empty, as the one of `connect()`, or a whole frame.  `up` is the set of all
datagrams a peer has sent: each may arrive at any time, again, or never.  A call of
`accept()` or of `read_packet()` on an object takes the steps `Receive` (the mutex,
recvfrom into the static buffer), `File` and `Add` (the search of the peers and what
follows), and `TakeNew`/`TakeNone` or `TakeBytes` (the list of new objects, or the
object's byte queue and the size test of packet_proto.cpp:74-90).  An object is its
index in `m_clients`, which never shrinks.  `CloseObject` closes the descriptor the
object shares with the server (udp.cpp:223): nobody receives any more.  `arrived` is the
history that `DeliveredAsArrived` is about.

Three losses are in the model and allowed by its properties, since datagrams may
be lost: the datagram that introduces a peer is not queued (udp.cpp:144), datagrams that
are queued together fail the size test and are all dropped (udp.cpp:137), and what is
addressed to a closed object is filed and never read.  The reader of a peer
has `packet_proto`'s own static buffer to itself here; that two readers do not is what
packets_shared_buffer shows.

### StreamSockets

The kernel's sockets have numbers, the lowest unused one is handed out next, and an
object's `m_sockfd` is such a number.  One name, a port or a path, is all that servers
compete for.  `bind` takes two steps, the second of which may fail; `connect` succeeds,
fails in the kernel or before it gets there.  `asked` and `lost` are histories: the
user has set the non-blocking mode and nopipe, and a bind or a connect has failed since.
What the two families do differently is in the model: a tcp object creates no second
socket, a unix object closes the first (tcp.cpp:33, unix.cpp:29); after a failed connect the
tcp socket stays open in blocking mode, the unix socket is closed and the object
remembers blocking mode; a unix server unlinks its path on close and on bind, whoever is
bound to it by then (unix.cpp:126).

### TlsClient

Botan is external: it emits records of `RecordLen` bytes, understands a record when its
bytes follow each other, and fails for good when they do not.  Byte i of an end is
byte i of all that its Botan has emitted, so `m_out_buffer`, the kernel and Botan's
incomplete record hold numbers.  `step` and `call` say where the thread of an end is in
`finish_connection`, `read_raw`, `write_raw` or `close`.  The handshake has four flights;
alerts are `CloseNotify` and `FatalAlert`.  `fin` is the end of a stream: reported by
read_raw, or silent when errno is 0 (tcp.cpp:224).  What the code leaves open: a partial
write's rest is sent only when Botan emits again (tls_client.cpp:233); `finish_connection`
returns true for a channel that became closed; bytes `_send` has popped are gone when the
socket fails (`SocketFails`); `read_raw` of a closed connection returns
-1 although `m_in_buffer` holds data.  A second `connect()` on buffers that are not empty
meets the freed memory of `clear()`; the model connects with empty buffers or a new
object.  Each end is used by one thread.
`PlainInOrder` says of the records returned and still held that they are records 1, 2, 3 ... of
user data, and that the other end has written at least as many.

### HttpClient

The request and the response are numbers of bytes; what a response says is what the
constant `Site` gives an address.  `redirects` is the argument of `process_request`, which
calls itself for a redirect and after a broken connection, both times with the value
from before `redirects++` (http_client.cpp:196, 237): neither is bounded by
`m_follow_redirects`, which only switches redirects on.  `fin` is as in `TlsClient`: with a
reported end the bytes read last are lost and the request is made again, with a silent
one the loop goes on for ever unless there is a timeout.  A status that is no number
throws what nobody catches (`"terminated"`); a response without content-length is
complete with its header.  The static receive buffer, shared by all threads
(http_client.cpp:173), is not in the model, which has one.

## 3. The runs

| run | instance | shows |
|---|---|---|
| packets_stream | 1 connection, 2 writers, 2 readers, 2 packets with payloads of 0 or 1 byte, 2-byte headers, 3-byte buffer, breaking connections | `TypeOK`, `StreamIsFrames`, `DeliveredInOrder`, refinement of `PacketChannel`, `EventuallyDelivered` |
| packets_shared_buffer | 2 connections, 2 readers | **violated**: packets change connection |
| server_workers | 0 to 2 workers, 3 clients | ownership, passes, no starvation |
| server_shutdown | 1 worker | **violated**: shutdown does not return |
| client_loop | a loop that ignores the result of process(), alone or with a user thread | events alternate and breaks are noticed when it is alone, reconnect |
| mux_events | 2 workers, 2 clients, handlers that return, call and disconnect; those of the connect event register endpoints too | drops are reported, no handler after the disconnect event, broken clients are dropped, the mutex is released |
| http_requests | 1 worker, 1 client, 3 requests of any kind, 2-byte headers, 1-byte body, 2-byte responses, at most 2 kept alive | responses whole, in order and one per request of a patient client; the last one closes; nothing waits for ever |
| structures | fifo_buffer: 2 byte values, 4 bytes, pops of -1 to 5; ring: 5 bytes, started with 0 or 3; packet: 4 bytes written from a block of 2; sessions: 3 requests, 2 foreign cookies | refinement of `ByteQueue`, size and block agree; the ring is a queue; steps of `PacketCursor`; exclusion, no session replaced |
| udp_peers | 2 peers, 2 threads, 2 packets of one peer, 3 arrivals, queue reads of 3 bytes, frames of 2 | one object per peer, whole packets in order of arrival, acceptance, nothing stays queued |
| stream_sockets | 2 servers, 1 client, 1 accepted object, 4 kernel sockets, tcp and unix | descriptors are owned, modes kept, connections real, the name leads to a listener, no unexpected SIGPIPE |
| tls_stream | 2 ends, 2-byte records, 2 records of data one way, 2 connects | cipher bytes in sequence, user data in order, handshakes end |
| http_client | 6 urls and 6 sites, requests of 3 bytes, headers of 2, 2 breaks, 2 calls, 0 or 1 redirects, with and without a timeout | whole requests and responses, redirects as asked for, closed in between, an end |

Why the bounds suffice: a header of two bytes and a buffer of three are the
smallest for which a read ends inside a header, inside a payload, at a frame's end
and inside the next frame's header; the second packet is the one a shift would
damage.  Two workers and three clients give the lost race for a connection and a
list from which an element in the middle is erased.  Two requests suffice for the
race on a session, the third waits behind the exclusive lock.  Handlers of one worker
share only the receive buffer, which is consumed before the next handler runs, so one
client shows what one worker does; with two workers `ResponsesInOrder` fails, because
the buffer of http_server.cpp:38 is shared as the one of packet_proto.cpp:64 is, which
packets_shared_buffer shows.  Three requests are a first, one cut by what was cleared
with the first, and one that follows it.  A buffer of four
bytes with pops up to five covers the empty, the partial and the complete pop.  A ring of
three that grows to five wraps before and after its growth.  Four bytes in a packet of
two give a block that grows once or twice, before and after `set_start`.  Two threads
and two peers give the race for the first datagram, three arrivals a repeated one, or
two of a peer in its queue at once; a queue read of three bytes cuts the second of them.
Two servers, a client and an accepted object are the owners among whom a number can
be closed and handed out again; four kernel sockets are as many as they can have.
Records of two bytes can be cut in the kernel and in either buffer.  Two calls of the
http client show what one leaves behind for the next, two breaks an end that comes
while sending and one while receiving.

Fairness.  Threads are scheduled.  Strong fairness is used where progress depends
on something that comes and goes: the kernel makes room again and again (a send
loop that is never given room makes no progress in the code either), a reader
comes back to a connection, a mutex that is free again and again is obtained, a
heartbeat on a broken connection is refused one day, a socket reports one day the
end of a stream that is not silent, a thread gets the mutex of the udp_server, which is
held for one receive.  A site answers a whole request, or breaks.  Nothing forces a peer to
send, a user to call, or an end to close.  `EventuallyDelivered` speaks of
packets with a payload or with a successor, because the code parses a header only
when something follows it (packet_proto.cpp:37).

Each module has a type invariant.  Where no run names it as a property of its own
(`TypeOK` of packets_stream, `MuxTypeOK`, `StructuresTypeOK`) it is a conjunct of one that
does (`OneObjectPerPeer`, `DescriptorsOwned`, `CipherInSequence`, `RequestInOrder`,
`ResponsesInOrder`, `DropIsTold`) or proved (`ConcurrentServer`).

The two runs that are violated are disagreements between the code and its own
comments; `PROJECT.json` quotes them under `findings`.

## 4. Proofs

Every invariant and every action property of the passing runs, and the three refinements,
are theorems for every value of the constants, under the named assumptions of the modules and,
for four of them, a hypothesis given below.  Each rests on an inductive invariant; the lemmas of
a module show, one per action, that it is kept.

| module | theorem | property | inductive invariant |
|---|---|---|---|
| `PacketProtoProofs` | `TypeCorrect` | `TypeOK` | `TypeInv` |
| | `StreamCorrect` | `StreamIsFrames` | `SendInv` |
| | `DeliveryCorrect` | `DeliveredInOrder`, under `OneBuffer` | `RecvInv` |
| | `Refinement` | `ImplementsChannel`, under `OneBuffer` | `RecvInv` |
| `ConcurrentServerProofs` | `OwnersCorrect`, `PassesCorrect` | `OneOwner`, `EachOncePerPass` | `ServerInv` |
| `MuxServerProofs` | `EventsCorrect`, `HandlersCorrect` | `DropIsTold`, `NoHandlerAfterDisconnect` | `ClientInv`, `WorkerInv` |
| `HttpServerProofs` | `ResponsesCorrect`, `KeepAliveCorrect` | `ResponsesInOrder`, `KeepAliveEnds`, under `OneWorker` | `HandlerInv` |
| `UdpServerProofs` | `ObjectsCorrect`, `DatagramsCorrect` | `OneObjectPerPeer`, `DeliveredAsArrived` | `ServerInv` |
| `StreamSocketsProofs` | `SocketsCorrect`, `ModesCorrect`, `SignalsCorrect` | `DescriptorsOwned`, `ModeKept`, `KilledUnprotected` | `SocketsInv` |
| `StructuresProofs` | `BufferCorrect`, `StructuresCorrect` | `StructuresTypeOK` | `StructuresInv` |
| | `QueueRefinement`, `PacketCorrect` | `ImplementsByteQueue`, `StepsOfCursor` | `BufferInv`, `PacketInv` |
| | `RingCorrect`, `SessionsCorrect` | `RingIsQueue`, `NeverReplaced` | `RingInv`, `StoreInv` |
| `ClientsProofs` | `MuxTypesCorrect`, `EventsCorrect` | `MuxTypeOK`, `EventsAlternate` | `MuxInv` |
| | `CipherCorrect`, `PlainCorrect` | `CipherInSequence`, `PlainInOrder` | `TlsInv` |
| | `RequestsCorrect`, `ResponsesCorrect`, `RedirectsCorrect` | `RequestInOrder`, `ResponseIsWhole`, `RedirectsAsAsked` | `HttpInv` |
| | `ClientsCorrect` | all seven, of `ClientsSpec` | the three |

### PacketProto

`TypeCorrect` is `Spec => []TypeOK`.  `TypeOK` alone is not
inductive: that a reader counts no further than the receive buffer, and that what
it appends to `m_in_buffer` are bytes of a frame, needs `Readings` (a reader
between calls has counted nothing; one in a call works on a connection; what it
counted was written).  `TypeInv == TypeOK /\ Readings` is inductive; `TypeInvInit`
and `TypeInvStep` show it, with one step per action.

`StreamCorrect` is `Spec => []StreamIsFrames`: whoever calls
`process()`, and however the kernel cuts the writes, the stream is the frames of
the accepted packets in order.  The inductive invariant `SendInv` adds three facts:
frames follow each other without a gap (`Chained`), the queue is the accepted
packets less those whose frame has gone out (`Queued`), and on an open connection
the stream ends exactly `m_out_data_sent` bytes into the frame of the packet at
the front of the queue (`Sending`).  The last is the reason: `process()` sends from
`m_out_data_sent` of a buffer that is the front packet's frame (`NextBytes`), so
what it adds continues the stream (`StreamGrows`).  After a write that failed the
position is unknown and nothing is sent any more, which is why `Sending` speaks of
open connections only.

`DeliveryCorrect` says: under `OneBuffer`, `Spec =>
[]DeliveredInOrder`, that is, what `read_packet` has returned are the payloads of the
accepted packets, whole, once and in order.  `OneBuffer` says that no two readers of
different connections share the static receive buffer; without it the property is
false, which packets_shared_buffer shows.  The inductive invariant is `RecvInv`, on top
of `TypeInv` and `SendInv`:

- `HeaderNext`: a remembered header is that of the packet whose turn it is;
- `Buffered`: `m_in_buffer` is the part of the stream that starts at `Base`, the end of
  the frames returned plus the header that was popped;
- `BufferHolds`: what a reader at work has in the receive buffer are the bytes that
  follow those in `m_in_buffer`;
- `Exclusive`: at most one reader of a connection is past the lock, and it is the only
  one at the receive buffer.

`StreamIsFrames` turns positions of the stream into bytes of packets (`FrameByte`,
`StreamByte`); since a buffer that starts at a frame starts with its header, the loop
that looks for a header skips nothing (`NothingSkipped`) and the size it finds is the
one of the next packet (`Parsing`).

`Refinement` says: under `OneBuffer`, `Spec =>
ImplementsChannel`.  `write_packet` is the channel's accept, a `read_packet` that
returns a packet its deliver, and every other step changes neither history.

Assumptions: the named ones of `PacketProto` (headers have at least one byte, sizes
are natural numbers, the receive buffer is not empty, `NoConn` is no connection).
`MaxPackets` is arbitrary, so the bound of the runs is none of the proofs.

### Servers

`ConcurrentServerProofs` proves, for any clients and any number of workers, `OwnersCorrect`
(`TypeOK` and `OneOwner`) and `PassesCorrect` (`EachOncePerPass`).  The inductive invariant `ServerInv` has four parts.  `Owned` adds to
`OneOwner` that only clients who have connected are in a list (`OnlyArrived`), so that one who
connects is in none.  `PassInv` says that in a pass the clients handled are those before the
iterator: that is what makes both `iter = erase(iter)` and `++iter` right
(concurrent_server.cpp:163-170), keeps the iterator inside the list when it is used, and
gives `EachOncePerPass` together with `OneOwner`.  `Places` says which thread can be where;
no worker runs before `start()`.
`Removal` and `Moved` say what `erase` and the step from the backlog to a list do to lists.

`MuxServerProofs` proves `EventsCorrect` (`DropIsTold`) and `HandlersCorrect`
(`NoHandlerAfterDisconnect`) for any clients, workers and handlers.  `DropIsTold` is not
inductive: that the server's own disconnect event is at most the second one needs
`ClientInv`, which lists the four situations of a client (not accepted, up and unreported,
closed by its own object and reported once, dropped); that nobody reports a client between
the read of its packet and the handler, while its worker waits for the endpoint mutex,
needs `WorkerInv`: a worker handles a client of its own list only.  `Framed` shows once that a
step about one client disturbs nothing of the others.

`HttpServerProofs` has the hypothesis `OneWorker`: with several workers the static buffer of
http_server.cpp:38 mixes the requests of their clients, and `ResponsesInOrder` is false.  What
has to be seen is that the requests come in order although they are cut and merged, and a
part of a request may be thrown away with the one before it (http_server.cpp:105-109).  `Line` is
what the handler has of the requests of a client, what the worker has read and not appended,
and what the kernel holds.  `LineInv` says that these are bytes of requests of that client, later
ones after earlier ones and those of one request without a gap (`Ordered`), all after the
request that was answered last.  A request that is complete is then the next one that can be
answered (`NextRequest`).  `ServedInv` counts: a connection was sent `count` whole responses and the
first part of one to a later request.  `AnswerInv` is what a byte of the responses has to be, with the
end of a connection that is not kept alive; `OutInv` says it of all bytes sent.

`UdpServerProofs` proves that a peer has one object although several threads may have met its
first datagram: the search and the insertion are under one mutex (`LockInv`: who holds it has
the last arrival of its peer in the buffer; who is about to add found nobody), so addresses are
distinct (`ObjectsInv`).  `QueuesInv` gives every packet read, and every byte queued, the arrival
it came from: `InQueue` says that these arrivals are in order, that the rest of each is queued in one
piece, and that what was read came before what is queued.  Dropping the whole queue when
the size test fails (`QueueDrop`) and cutting it anywhere (`QueueTake`) keep that.

### Sockets

`SocketsInv` says that different objects have different descriptors, that a kernel socket in use has
an object (`Owners`), that only what is pending refers to a listening socket (`Links`), that the name leads
to a listener (`NameInv`), and of each object that its socket has the mode it remembers and that a
bind in progress remembers what the user asked for (`ObjectInv`).  `OneObject` shows once that a step
of one object that keeps the sockets of the others (`Keeps`) keeps all of it.

### Structures

`BufferCorrect`: the size is the length of the block and the pointer is valid exactly when it is
positive (`BlockFits`).  `QueueRefinement`: each operation of fifo_buffer is the queue's with the same
argument (`TakenBytes` says that both take the same bytes), and the step that is undefined after
`clear()` changes nothing the queue sees.  `RingInv` says that until the order is lost the write
offset is the read offset plus the bytes, modulo the size, so that it is inside the block and `Place`
is the remainder (`RingInOrder`, `PlaceIs`); growth and wrap-around are cases of `RingPush`.  Of a
ring that has lost its order the theorems say no more than that the write offset has not passed the end.  `PacketInv` orders the four pointers of a packet; each operation is then one of the cursor
(`PacketStep`).  `StoreInv` adds to the types that the exclusive lock excludes.

### Clients

`MuxInv` adds to the types that a thread in `handle_disconnect` has a place to return to, and,
while `Alone` holds, which no step establishes, that `told = 0` and `state = 1` are the same, except between
the event and the change of the state, and that a connection is made only from state -1
(`Alternating`).

`HttpInv` says that the site has got exactly what was sent while it still listens (`Sending`),
that what was received and what the kernel holds follow each other from byte 1 and are there only after
the site has ended its response (`Receiving`), and that what is returned is the tail of such bytes
after the header (`Returning`).

`TlsInv` says of each direction that there is a number `k`, the records which the receiving
Botan has understood, such that (`Towards`):

- `Way`: Botan's incomplete record goes on after the first `k` records and what the kernel
  holds goes on after that, both within what was emitted;
- `Plain`: what `read_raw` has returned and `m_in_buffer` are the user data of the first `k` records;
- `Whole`, while nothing was dropped (`Joined`): the rest is in `m_out_buffer` of the sender, to
  the last byte.

`Way` holds for ever, which makes `PlainInOrder` true across every way a connection breaks;
`Whole` is `CipherInSequence`.  Three kinds of steps cover most actions: an end emits a record or
none, or loses what it had not sent when its socket fails (`Loses`), and nobody receives (`SettledStep`), Botan understands a record and may answer
(`UnderstandsStep`); `_send`, `_recv` and the end of `read_raw` have lemmas of their own (`TlsSend`,
`TlsRecv`, `TlsRead`).  `EndOK` numbers the records of user data, which makes the bound of
`m_in_buffer` in `TypeOK` true.

`ClientsCorrect` puts the three together for `ClientsSpec`, the specification of the runs.

### Assumptions and what is left to TLC

The assumptions on constants are the named ones of the modules: bounds and lengths are natural
numbers and, where something is counted in them, positive; sizes asked of fifo_buffer are integers;
objects of different kinds are different; `Free`, `NoConn`, `Nobody`, `NoSocket` are none of what they stand
beside.  The bounds themselves (`MaxPackets`, `MaxRequests`, `MaxSockets`, `RingMax`, `Capacity`, `MaxWritten`,
`MaxData`, `MaxConnects`, `MaxBreaks`, `MaxCalls` ...) are arbitrary, so what the runs show up to a bound the
theorems say for every one.

Only model-checked: the twelve liveness properties (`EventuallyDelivered`, `PendingAccepted`,
`ServedAgain`, `BreakNoticed`, `Reconnects`, `BrokenIsDropped`, `MutexReleased`, `AnsweredOrClosed`,
`PeerAccepted`, `QueueTaken`, `HandshakeEnds`, `RequestReturns`), which need fairness and ENABLED, out of
the prover's reach; and the two violated runs, which are counterexamples.

## 5. Not modelled

- Text: `string_proto`, `stringutil`, cookies and parameters of http messages, url
  decoding, the formatting of requests and responses.  They keep no state that outlives a
  call; what they decide (complete, incomplete, bogus; host and port of a url) is in
  the http modules.
- `fnv1a`, `posix`, `types`: stateless helpers.  `mux_memory`: one thread copies one
  structure to another.
- Everything inside Botan: cryptography, certificates, the random generator.
- The branch of `worker` that is compiled out, and `write_raw_blocked`, which nothing calls.
- Exceptions of the http parsers that nobody catches and that only end the process: a
  content-length or a port that is no number, a `substr` past the end of a text.  The one
  that the http client meets before it has a whole response is in `HttpClient`.
- Undefined behaviour beyond what the modules name: unsynchronised writes of a std::map
  (http_session_store.cpp:32), reads through the stale pointer of a packet, the life of
  objects whose destructor joins the threads that use them (concurrent_server.cpp:28).
- What the table of endpoints holds, `request_async`, and several worker threads
  below `HttpServer`: the shared buffers (http_server.cpp:38, http_client.cpp:173) break them
  in the way packets_shared_buffer shows.
