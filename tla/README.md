# TLA+ models of HTTP_on_TCP

The repository holds two copies of Simple-Web-Server 2.1.1 (`Simple-Web-Server-2.1.1`, changed for a
Wi-Fi/5G handover experiment, and `Simple-Web-Server2-2.1.1`, close to the original) and the programs
that use them. Its own logic is in four headers: a server and a client for HTTP/1.1 over Boost.Asio,
and their HTTPS variants. This directory models that logic in TLA+, checks it with TLC on small
instances and proves what matters most with TLAPS.

## The system

| Part | State | Operations | Interacts through |
|---|---|---|---|
| Server, a connection (`server_http.hpp:246-449`) | socket, the pending operation, its timer, the shared `Response` and `Request` | read header, read content, find and call the resource, send, final send, read again | handlers on the io_service's threads; user code through `resource`, `on_error`, `on_upgrade` |
| Server, lifecycle (`:200-244`, `:471-490`) | acceptor, threads, io_service, the chain of accepts | `start`, `stop`, `accept` | two user threads, the pool |
| HTTPS server (`server_https.hpp`) | TLS stream | handshake before the first read | the same handlers |
| Client (`client_http.hpp`) | socket behind a mutex, an io_service of its own, timers | `request` (connect, write, read), `close`, timeouts | one caller; `close` from any thread; exceptions |
| HTTPS client (`client_https.hpp`) | TLS stream | proxy CONNECT and handshake | as the client |
| Parsers | stream buffers | request line, headers, query string, response header, chunks | called by the handlers |
| Handover experiment (`http_examples_client.cpp`) | time stamps, the route table | request, change of route, request | two threads, shell commands |
| Example resources (`http_examples_server.cpp`) | files, a static buffer | send a file in parts, answer from a thread | hold the `Response` |
| `crypto.hpp` | none | Base64, hex, digests | OpenSSL |

What is hard here: operations, timers, user threads and `close`/`stop` of other threads interleave
without a strand; a timer that has expired can no longer be cancelled; the end of a response is the
end of a reference count; exceptions leave through `run()` and leave handlers queued; connections
are reused after failures; buffers carry bytes from one read to the next. PROJECT.json lists each
hazard at its line, with the properties that would catch it, or the reason why none does: most often
that the code is exposed to it and nothing in the repository says that it is not.

What makes each part correct:

* connection: phases never overlap, one answer per request, each wait is timed, buffers outlive writes;
* lifecycle: it accepts as long as it listens, `start` returns after `stop` and only then;
* client: `request` ends, leaves no handler and no unusable connection behind, never reads another
  request's answer;
* parsers and chunk reader: the fields and the body are what the sender meant, for any split of the input;
* file resource: no bytes of another connection, and exactly as many as announced;
* handover: time stamps are read after they are written, the host always has a route, and the second
  request takes the new one.

## Modules

### ServerConnection (and RequestCycle, MCServerConnection, ServerConnectionProofs)

One connection object per member of `Conns`. `io[c][op]` is the state of each asynchronous operation:
idle, pending, or completed (`ok`, `failed`) with its handler queued. `armed[c]` are timers that wait,
`due[c]` those that expired and whose handler is queued. `holders[c]` is the reference count of the
`Response`: the handler that calls the resource, a thread it was moved to, the callback of a `send`.
The actions are the handlers (`HandshakeDone`, `HeaderDone`, `HeaderFailed`, `ContentDone`,
`FinalDone`, `SendDone`, `TimeoutHandler`), the user's code (`ResourceReturns`, `HandOff`,
`WorkerReturns`, `Send`) and the environment (`Complete`, `Expire`). A handler needs a free thread;
a resource function occupies one until it returns.

`RequestCycle` is the abstract promise: requests are taken one after the other, each called once and
answered at most once before the next is read. `ServerConnection` implements it; the stage of a
connection is a function of its operations and holders (`StageOf`).

Abstractions: a request is what the handlers test (accepted by the parser, `Connection`, version,
`Content-Length` against the bytes read, the resource found). The close of a socket fails what is
pending on it. A second expiry of a timer of the same kind is merged with one that is still queued,
which changes nothing as either closes the socket. `send` is used as its comment says, for the parts
of one message one after the other. Exceptions other than `std::exception` in user code are not
modelled. Two handlers of one connection running at the same instant on two threads are a data race
in the code and are modelled one after the other.

### ServerLifecycle (and ServerLifecycleProofs)

`start` in three steps (reset the io_service; open; bind, listen and the first accept), its threads and
their join, `stop` in its two steps, and the chain of accepts. An accept's handler is taken from the
queue and run in two steps, so that `stop` may fall between them. `ready` counts completed accepts by
result; what is still queued when the io_service stops is there at the next `start`, as
`io_service::reset` keeps it. A connection is only work for the io_service. With `own` (chosen at the
beginning) `thread_pool_size` is 0 and the io_service the user's: `start` and `stop` return at once, the
user's threads run the io_service while it has work, and `stop` leaves it running. `stop` may come at
any moment after the acceptor was made; `early` remembers one that came before `start` had opened it,
which `start` overtakes. The owner calls `start` again after `stop` has returned.

### ClientEngine (and MCClientEngine, ClientEngineProofs)

A request is up to three `run()`s of the client's io_service. `op`/`result` is the one operation
under way, `queue` the ready handlers in their order, `armed` the operation's timer. A handler that
throws ends `request` and leaves the rest of the queue to the next one. `Close` is another thread's.
`sock` tells a socket bound to the interface's address (the experiment's copy) from a connected one,
and a connected one from one whose TLS handshake is done. `setting`, chosen at the beginning, is what
the client is built with and what its peer sends: TLS or not, a proxy, the two timeouts, whether
`bind` fails, and the responses. With `secure` it is `Client<HTTPS>`: `connect` has up to three more
`run()`s, the proxy's CONNECT, its answer (which may be a refusal) and the handshake. The HTTPS
actions are mapped to the copy in `Simple-Web-Server2-2.1.1`; the other one has the same text but calls
a constructor that its `client_http.hpp` no longer has. `unread` remembers that an exchange on this
socket was not read to its end. Both `request` functions (content as a second write, or in one) and
both copies of `connect` are covered; with `bindFails = FALSE` the model is the original's.
`FailureDropsConnection`, `NoStaleAnswer` and `TimeoutFindsNothing` are about `Orderly` settings
(well-formed responses, a `bind` that does not fail): the code does not keep them otherwise, as
finding 3 shows. The memory safety properties hold for every setting.

### ResponseRead (and ParserProofs)

The byte arithmetic of `request_read` and `request_read_chunked`: one response, `wire` the bytes on
their way, `buffer` the response's stream buffer, `need` what `async_read` still has to transfer,
`assembled` the second stream buffer of the chunks. `Receive` delivers any portion that the read under
way may take. The data of a body may look like the end of a line or like the line of a chunk, lines
may carry an extension, and the peer may break off anywhere. The header is one symbol and its blank
line. A peer that sends trailers after the last chunk, or bytes behind its response, is left out: the
code leaves such bytes in front of the body and says nothing of them. Chunks are shorter than ten
bytes, so a length is one digit.

### HttpExchange (and HttpCalls, MCHttpExchange, HttpExchangeProofs)

A client and a server and the connections between them, one operation and its handler per action.
`client` and `server` are the ends of each connection, `up` and `down` the parts of messages on their
way, `silent` a network that delivers nothing any more. The client uses a connection again while its
own end is open; either end is closed by errors, timers (of the operation under way or late ones) and
`close`. `HttpCalls` is the abstract promise: calls one after the other, each executed at most once,
also after the client has given it up, and answered by its own answer. `HttpExchange` implements it.

### RequestRead (and QueryString, MCRequestRead, ParserProofs)

The other side of the same question, for the server: `wire` and `buffer` as above, for a plan of one or
two requests on a connection. `Parsed` is `parse_request` on what the buffer holds (`getline`, `find`,
`substr` on a sequence of symbols), `HeaderDone` and `ContentDone` are the handlers, `delivered` is what
`find_resource` was given. An `async_read_until` completes once its blank line is there; of the portions
before only the end of the last one matters to a handler, so that is what `ReceiveHeader` chooses. Every
Request has a buffer of its own: what a client sends before it has the answer (pipelining) is lost to
the next request, and the properties say so. Names are compared as they are sent, a length is one digit.

`QueryString` is `parse_query_string` on character codes: the matches of the regular expression
`([\w+%]+)=?([^&]*)` and the decoding in place, against the pairs that the sender means, for every
spelling of each character (itself, `+` for a space, an escape).

### FileSender (and MCFileSender, FileSenderProofs)

The default resource of the examples and `default_resource_send`. The connections of a server share the
static `buffer`; `ReadPart` and `WritePart` are its two uses, with a step between them in which another
thread may do the same. `streambuf` and `sent` hold the bytes of the body, each tagged with its file
and place; the callback of a full part needs a thread, and the rest goes out with the final send.
Files may be written to while they are sent. The comment in the code ("Safe when server is running on
one thread") is the assumption `Threads = 1` of the run and of the theorems; with more, `PartsInOrder`
fails (its mutant). `None` stands for no path and is assumed not to be one.

### Handover (and HandoverProofs)

`main`, the handover thread and the time stamps that both use, and `NetworkChange`: the reading of
`/proc/net/route` and the four `route` commands, one action each, on the kernel's set of default routes.
A trial is one run of the program; the next may start from the routes that the last one left (no restart
of the NetworkManager), in either direction, with interfaces that are down. External, and modelled by
what the code relies on: a connection takes the route of lowest metric; `route add` fails for a route
that exists or a gateway that is not on the interface (an uninitialised one); `route del` takes the first
match. The code waits 100 ms and hopes that `main` has gone on meanwhile: `prompt` says whether it has,
and `StampsInOrder` is about the runs in which it has. `NeverCutOff`, `HandsOver` and `ComesBack` need
`MetricFree`: a repeat in the same direction without a restart adds a route that is already there and
then deletes it.

### Base64

The sizes that `Crypto::Base64` computes before OpenSSL writes into its strings, with the theorems about
them. It has no state and no run.

## Runs

| Run | What it shows | Bounds and why they are enough |
|---|---|---|
| `server_connection` | phases, timers, reference count and refinement of `RequestCycle`, over TLS | one connection (connections share only threads), three requests on it so that a leftover of the first can meet the third, one request for each way through the handlers, four threads so that threads never hide an interleaving |
| `server_live` | waits and held responses end | one thread, the worst case, and two requests |
| `server_timeout` | violation: a queued timeout of the header closes the socket while the content is read | one request |
| `server_lifecycle` | accepts, restarts, the end of `start` and of the accepts | three threads, two starts, two connections: a leftover of the first start, a handler in progress and a new accept can coexist |
| `server_stop` | violation: an accept is started after the io_service stopped | one start |
| `client_engine` | memory safety, the end of requests and the state of the connection after failures, for five settings: plain, malformed with a failing bind, no timeout, TLS with and without a proxy | three requests, two chunks: a request after a failure after a success |
| `client_timeout` | violation: a timeout closes another request's connection | two requests |
| `response_read` | the body is put together from any portions | bodies of up to two chunks of two bytes over `1`, CR, LF, as chunks, by length and until the close: every way a delimiter, a digit and the data can meet at a boundary of portions, and a second chunk after a buffered or a partly read first one |
| `http_exchange` | refinement of `HttpCalls`, no mutual waiting, connections are freed | two requests, so that the second may use the first's connection, its leftovers included, or a new one while the server still works on the first |
| `request_read` | requests reach their resources as they were sent; query strings are taken apart as they were meant | one or two requests of eight kinds (contents that look like line ends or fields, an empty value, a bad length, a bad line), pipelined or not; up to two pairs and two characters of values, over the characters that mean something to the parser |
| `file_sender` | no mixed bytes, the announced length, the end of the sending | two connections, parts of two bytes, files of two parts, of one and a half and of none, one change of a file |
| `handover` | the host keeps a route, the second connection changes the interface, the stamps are in order | two interfaces (the code names two), four metrics (those the code and the scripts use), three trials: there, back and there again |

Deadlock is not checked: a connection, a server or a client may really have nothing left to do.

Fairness. The io_service runs what is queued (`WF`/`SF` of the handlers; strong where a busy thread
disables them for a while, as the io_service serves them in turn), timers expire, `stop` and resource
functions return, `getaddrinfo` returns (it has limits of its own, and the client puts no timer on
it). In `ResponseRead`, `RequestRead` and `HttpExchange` sent bytes arrive, unless the connection is cut or silent, and
`CallEnds` holds without any timer: only the timers of the server on a silent connection are fair,
for `ServerFrees`. The user runs an io_service of its own while it has work. `Handover` assumes no fairness: its
properties are safety. Otherwise nothing is assumed of peers, of threads that hold a `Response`, or of the user's calls.

## Findings

1. `server_timeout`: `timer->cancel()` does not stop a timer whose handler is queued. With all threads
   busy until the timeout, a header that arrived in time is handled after its timer has expired: the read
   of the content begins, and the header's timer closes the socket under it. `TimeoutConfined` is about
   the step that closes a socket still in use (`InUse`), so a timer that finds the connection over is
   none of its business.
2. `server_stop`: an accept is started after `stop` when a connection was accepted before it. The
   failed accept stays queued, and after a restart the server has two chains of accepts
   (`AcceptsBounded` shows that there are never more than one per start).
3. `client_timeout`: a response with a bad `Content-Length` makes `request` throw with the connection
   open and possibly with a timeout queued, which then closes the connection during the next request.

## Proofs

`ServerConnectionProofs` proves for any sets of connections and requests, any number of threads and
any timeouts that `ServerConnection` keeps `TypeOK`, `OnePhase`, `SendHoldsResponse`,
`ArmedForPhase` and `WaitIsTimed`. The assumptions are those on the constants. None of the last four
is inductive alone: a read may only start when nobody holds the `Response`, and a write of a part is
timed only because the timer of `write_response` is kept until the final send. The inductive
invariant `IInv` is the conjunction, for every connection, of `Exclusive` (the phases, without sets),
`NewIsIdle`, `SendHolds`, `Armed`, `Timed` and `ServingIsTimed`. One lemma per helper of the handlers
(`ReturnKeeps`, `ContinueKeeps`, `WriteResponseKeeps`, `FindResourceKeeps`, `ReleaseKeeps`) shows
that it keeps the invariant of the connection it works on, `OthersKeep` that of the others, and
`CoreInvStep` goes through the actions.

Its second part proves, on the same assumptions, that `ServerConnection` implements `RequestCycle`
(`ImplementsCycle`) and from that `AnswersFollowCalls`. `StageOf` is a list of cases in order; `StageIs`
says, with `IInv`, that the cases exclude each other, and `SameStage`, `ReturnEnds`, `ContinueReceives`,
`WriteResponseCalls` and `ReleaseReplies` what each kind of handler does to the stage. One more invariant
is needed, `NewIsNotDue`: no timer handler is queued for a socket that `accept` has not filled yet; it
would end a connection that never began. `AnswersFollowCalls` is not inductive: `Counts` says how the
two counters differ in each stage.

`ServerLifecycleProofs` proves for any finite pool, and any number of starts and connections, that
`ServerLifecycle` keeps `TypeOK`, `KeepsAccepting`, `AcceptsBounded` and `ReturnsStopped`. The inductive
invariant `LifecycleInv` strengthens each. An aborted accept counts as outstanding but its handler adds
none, so `KeepsAccepting` needs one that is not aborted (`Chain`). The bound on connections needs one on
everything that may still become a connection (`Load`). `ReturnsStopped` needs that the io_service is
stopped, from the call of `start` on, only by a `stop` that closed the acceptor or came before `open`
(`Stopping`); with `Chain`, a pool never runs out of work while it listens. `CountStep` says
what a step of one thread does to the number of threads in given states.

`ClientEngineProofs` proves for any settings, and any number of requests and of chunks, that
`ClientEngine` keeps `TypeOK`, `NoNullSocket`, `NoOrphanHandler`, `FailureDropsConnection`,
`NoStaleAnswer`, `TimeoutFindsNothing` and `HandshakeFirst`. The properties speak of the socket; what
decides them is the order of the queue, as a handler that throws leaves those behind it to the next
`run()`. `QueueInv` lists the shapes that the queue can have: at most one handler of an operation, and
at most two timeouts, of which only the first can be left over from another operation. The inductive
invariant `EngineInv` adds which operations a `run()` performs (`RunInv`), when the socket is there and
secured (`SocketInv`) and what a failed request leaves (`FailureInv`: with well-formed responses, no
open socket while a leftover is queued). Each handler is shown to do one of seven things to the
connection (`Dials`, `Drops`, `Leaves`, `Opens`, `Secures`, `Ends`, `Continues`), and each of these,
with an expiry, `Close` and the beginning of a `run()`, to keep the invariant.

`HttpExchangeProofs` proves, for any kinds of requests, timeouts and number of requests, `TypeOK` and that
`HttpExchange` implements `HttpCalls` (`ImplementsCalls`): every step is a step of the calls or leaves
them alone. The inductive invariant `ExchangeInv` says that each connection is in one of six conditions
(`Idle`, `Written`, `Taken`, `Executing`, `Answered`, `Dead`) with one request (`ConnInv`), that no two
connections carry the same request before its resource is called (`OnceInv`: so none is executed twice,
although the client may give a call up and close), and that the client's own connection carries the
request in hand (`CurrentInv`: so the answer it reads is its own). That a kept connection is idle
before the next request is written is what needs all of them.

`FileSenderProofs` proves `TypeOK` for any constants and, for one thread and any connections, files and
size of a part, `PartsInOrder` and `KeptWhenComplete`. `Threads = 1` is what the code's comment asks for,
and the theorems do not hold without it. `OneRunning` turns the count of busy threads into the exclusion
of any other connection between the reading of a part and its writing; `FlowFile` says what is sent at
each phase, and that the buffer holds the part that is next. Steps of other connections, which are many
here, are one lemma (`OtherFlows` with `StepIsLocal`). Files grow and shrink in the model: `SizeKept`
says that one nobody writes to has the length that was announced.

`HandoverProofs` proves for any interfaces, metrics and number of trials `TypeOK`, `NeverCutOff`,
`ComesBack` and `StampsInOrder` of `Handover`. Each interface has an invariant of its own: `ToKept` (the
second one has its old route until it has the new one, which the deletion of the old one spares because
its metric differs) and `FromRestored` (what was read of the first one is its own gateway, so that its
route comes back). `StampInv` orders the stamps by where the two threads are. `HandsOver` is proved for
the two interfaces that the code names (`Interfaces = {"eth0", "wlo1"}`), as the second connection takes
the route of lowest metric of the whole table: a third interface could have one that is as good.
`TableInv` says that an interface has no two default routes over all the trials, so that `route del`
deletes the one that is meant.

`Base64` proves `EncodeFits` and `DecodeFits` for every length, by division with remainder.

`ParserProofs` proves `TypeOK` and `BodyDelivered` of `ResponseRead` for every framing, any number,
lengths (of one digit, as modelled) and contents of chunks, and any portions in which the bytes arrive. The invariant `Inv` says
that the bytes in the stream buffer, followed by those on their way and those that were lost when the
peer broke off, are what the reader has still to see of the response (`Ahead`): the header and all
behind it, the rest of a content, the line of a chunk and all chunks behind it, or the rest of a
chunk's data, while `assembled` with what is ahead makes the body. `DelimiterThere` and
`DelimiterAfter` show that a delimiter is found where it was written, wherever the portions were cut,
and not in what comes before it; the data of a chunk may hold anything, as it is taken by its length.
What a body's chunks make together is a recursive function of the community modules (`FlattenSeq`);
its facts are proved by induction as the least counterexample among the natural numbers
(`LeastNatural`, `Induction`), which needs no operator as a parameter.

Its second part proves `QueryDecoded` of `QueryString`, for any number of pairs, keys of word
characters, values of printable characters and spellings of each character (`QuerySpec`, whose sender
goes on with a key or a character, or begins another path; the run's specification adds the steps of a
connection that forget the path). `ListExists` and `WalkLists` say what a recursive function returns
that walks from place to place through a text, in terms of the places it meets; `Decode` and `Matches`
are such walks (`DecodeIs`, `MatchesIs`). The invariant `QueryInv` says that the path is `/`, or `/?` and
the pairs that are meant laid out one behind the other, each with its places for the key and the value
(`LaidOut`), and each value with the places of its characters (`Spells`). `PairIs` shows that the
expression matches exactly at those places, `DecodesTo` that a value comes back: a decoded character
is not looked at again, which is why `%2B`, `%25` and `%26` are safe. `KeyKept` and `CharacterKept` show
that what the sender appends leaves the pairs before it where they are.

Only model-checked: `DeliveredExactly` of `RequestRead`. Its requests are any that a run's `Plans` names,
malformed ones among them, and what the loop over the fields makes of any text would have to be stated
before it could be proved. Liveness is beyond the prover (`WaitEnds`, `ResponseBounded`, `StopEnds`,
`RequestEnds`, `Finishes`, `CallEnds`, `ServerFrees`, `TransferEnds`, `EveryRequestDelivered`).

## Not modelled

* TLS and OpenSSL (external), and the digests of `crypto.hpp`, which only call it.
* Regular expressions of resources; the resources that only write an answer from a request.
* The text of a response's header and `host:port` in the client's constructors.
* A `set_option` that throws in the server's accept handler (`server_http.hpp:483`, `server_https.hpp:67`):
  the exception leaves `run()` and, in a thread of the pool, ends the process.
* A TLS read that succeeds on a closed socket from what the stream had decrypted before: in `ClientEngine`
  it fails.
* In `HttpExchange`: an answer that is sent in parts (it is sent whole or not at all), and a request that
  finds no resource or is upgraded (`ServerConnection` has these).
* The destruction of a `Server` or `Client` while threads still use it: the code makes no provision for it.
* Data races proper: handlers of one connection on two threads run one after the other here, as do the
  two threads of the experiment on their time stamps.
* A clock: timers expire at any moment, so nothing is said of how long anything takes.
* The text generator, build files, certificates and test inputs. PROJECT.json gives the reason for each
  component.

## Plan

Done: all modules above. Next, in this order:

1. Proofs: `DeliveredExactly` of `RequestRead`, for requests whose line and fields are well-formed; what
   `HttpCalls` and `RequestCycle` imply, stated of the detailed modules.
2. The text of a response's header and `host:port` as functions over symbols.
