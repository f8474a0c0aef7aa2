# A TLA+ model of mwebserver

mwebserver is a small HTTP server in C: a reactor over epoll, an acceptor that
deals connections to worker threads, a timer list, and a web layer that answers
one request at a time with a file. This directory models its core in TLA+. TLC
checks the models on small instances and TLAPS proves the safety results for
every value of the constants. File and line numbers refer to `src/`.

Contents: [1 the system](#1-the-system), [2 modules](#2-modules),
[3 runs](#3-what-the-runs-check), [4 bounds and fairness](#4-bounds-and-fairness),
[5 proofs](#5-what-is-proved), [6 disagreements](#6-where-the-code-and-its-comments-disagree),
[7 what is not modelled](#7-what-is-not-modelled), [8 plan](#8-plan).

## 1. The system

| component | source | state | operations | correct when |
|---|---|---|---|---|
| connection | `mevent/connection.c` | `connection_t`: `state`, two ring buffers, callbacks, its event; the socket | readable and writable callbacks, `connection_send_buffer`, active, passive and postponed close | output is sent once and in order; a close waits for it and does come; nothing is touched after the free |
| event, reactor | `mevent/event.c`, `epoll.c`, `event_loop.c` | `event_t`: interest flags, `active_event`, `is_working`, `epoll_fd` | dispatch, enable and disable writing, register, free | each ready event is handled; no handler runs on a closed connection or on one that is not ready; flags and kernel agree |
| ring buffer | `mevent/ring_buffer.c` | `start`, `end`, `cap`, the block | push, release, queries; `readv` straight into it | a byte queue inside its block |
| http request | `web/http_request.c`, `http_server.c` | `request`: parser archive, the open file and its size, `keep_alive` | `http_request`: reset, request line, headers, body, answer, close | one answer per request, in order, and about that request; a connection is kept or closed as its client was told; no file stays open |
| http response | `web/http_response.c` | the tables of types and reason phrases | append header lines to the write buffer | head before body, once; type and length are the file's |
| http parser | `web/http_parser.c` | `parse_archive`: state, marks, version, URL | request line, header line, body | accepts exactly the request and header lines, cuts them right, fails no assert |
| dict | `web/dict.c` | hash buckets | put, get | finds what was put, whatever collides |
| start-up | `mevent/servermanager.c`, `listener.c` | `g_loops`, `started_loop`, the spin lock, the round-robin index | create threads, wait for them, listen, accept | all loops exist before connections are dealt out, evenly |
| timers | `mevent/timer.c`, `servermanager.c` | two arrays, size, capacity, the top pointer and its index | push, pop, update, the timed loop | the nearest timer is at the top; each fires, none early |
| str, config, logger, main | `web/`, `misc/`, `example/` | options | string helpers, parsing of options | - |
| tcpclient | `mevent/tcpclient.c` | a client socket | connect, send | used by nothing here |

How they interact. The main thread creates the workers (`server_manager_create`)
and waits on a counter under a spin lock. It then listens; `event_accept_callback`
creates a connection and a request and registers the connection's event with a
worker's epoll instance, or with its own if there are no workers. From then on one
thread owns the connection. `epoller_dispatch` copies the ready mask into the event
and calls `event_handler`, which calls the error, the read and the write handler of
the connection. The read handler fills the read buffer and calls the message
callback, `http_request`, which parses, releases the buffer, appends a head to the
write buffer, sends what the socket takes, and sends the file with `sendfile`,
which bypasses the write buffer. What the socket did not take waits for EPOLLOUT.

What is hard about it: partial sends and `EAGAIN` at any point; peers that split,
pipeline, half-close, reset or do not read; a close that waits for output while
more events arrive; memory freed by one handler and used by the next one or by the
reactor; a counter and a lock shared by starting threads; time that is counted in
rounds of a loop. `PROJECT.json` lists these hazards one by one with their lines.

## 2. Modules

### Connection and HttpConnection

`Connection` has the state of the connections and their sockets and one operator
per function of `connection.c`. `HttpConnection` extends it with the event loop
thread, `http_request`, the clients and the network, and has the specification.

* `mem[c]` is the life of the heap objects: `unborn`, `live`, `freed` (by
  `connection_free`) or `leaked` (by `event_error_handler`, which frees the event
  only). `state[c]` is `conn->state`. `State_Closed` is written by the code only into
  memory it has just freed, so it is no value of `state`.
* `want[c]` is EPOLLOUT in the event's flags. `event_add_flag` ends in `epoll_ctl`,
  so the flags and the kernel's interest agree and are one variable.
* `rbuf`, `wbuf` hold the readable content of the two ring buffers; `inq`, `room`,
  `wire` are the kernel's side of the socket. Data is counted in *units*: a request
  is two units (so that it can be split once), a head `HeadLen` lines, each a unit that
  is pushed by itself, a file or an error page `BodyLen`. The unit carries the number of
  its request or answer, from which the properties tell order, loss and repetition.
* `block[c]` is the place of the write buffer in its block, `start` and `cap`.
  `PushData` pushes as `ring_buffer_push_data` does, with a room test that counts the
  released bytes in front (`Placed`). When the copy then goes behind the block
  (`Outside`) the buffer may later give back something else for that unit (`foreign`,
  in `Pushed`), or the process may end (`pc = "down"`). Everything the handlers do
  later is modelled on top of that.
* `pc`, `cur`, `out` are the position of the loop thread, the connection it handles
  and EPOLLOUT of the mask in hand; `pushed` counts the lines of the head in hand. A
  step of the thread is the code between two system calls on the socket, or one push
  into the write buffer; the peer and the kernel may move between any two.
* `Parse` stands for the three request handlers, which `HttpRequest` has in full. Its outcomes are those that
  `http_request` distinguishes: ok, an error (`fail`: 404 and the like), `again`
  (incomplete) and `bad` (the second half of a request that was split). Only the
  first request in the buffer is looked at, and all of the buffer is released
  (`Consumed`). The file descriptor of a request is in `HttpRequest` only.
* After the read handler the reactor tests `ev->active_event` again (event.c:30). If
  the handler has closed the connection, that is a read of freed memory, and
  `AfterRead` lets it yield either answer. The write handler that may run then finds
  an empty write buffer in the stale connection; the ring buffer's struct is not
  freed (ring_buffer.c:14-19), so that is what it reads.

### ByteQueue and RingBuffer

`ByteQueue` says what the connection expects of a buffer: bytes come out in the order
they were handed over. `RingBuffer` is `ring_buffer.c` with `cap` cells and 0-based
positions, and the `readv` of `read_buffer`, which writes at the readable start.
Cells beyond the block are lost when written and `Foreign` when read. `Disciplined`
restricts the callers to what keeps the buffer sound: push only while nothing at the
front has been released, `readv` only into an empty buffer. The read buffer obeys it:
every call of `http_request` releases all of it. The write buffer obeys it while
clients await their answers (WithinBlock of `HttpConnection`); a pipelining client
breaks it (see 6), which `HttpConnection` models and this module states for every
caller (`OverrunCorrect`). With `Disciplined` the module refines `ByteQueue` with
`queue <- Content(rb)`.

### Startup

`server_manager_create`, `spawn_thread`, `listener_create` and the dealing of
connections, one step per access to shared memory: `started_loop++` is a `Load` and a
`Store`. `CanFail` lets `event_loop_create`, `pthread_create` and `listener_create`
fail. `down` is the death of the process by a null pointer (`event_loop_run(NULL)`,
`connection_start` with a null loop, `listener_create` with a null manager).

### TimerManager

`timer.c` and the timed loop of `server_manager_run`. A timer is an address of `Block`;
`m` is the manager with its two arrays, what remains in their unused places included;
`out`, `left`, `type` are the fields of the timers. A removal copies all other
timers to the other array and searches the nearest among them (`Pop`, `Nearest`); a
push at the capacity makes two new arrays and copies the active one (`Enlarged`).
Time passes in units of 1/`Milli` millisecond and only inside a round (`Tick`), and
`Passed` drops the rest of a millisecond as `diff / 1000` does. Timers are added
before the loop starts, by timer callbacks and, if `AddWhileWaiting`, by the event
handlers that a round runs. `age` is a history variable for NotEarly.

### HttpParser

The two line automata of `http_parser.c`. A step is one iteration of the `for` loop:
it takes the next symbol of the buffer, chosen then, or finds none and returns AGAIN.
So a run reads every buffer over its alphabet, not a list of examples. A symbol is a
character or a run of letters that the automata cannot tell from one: `proto` is HTTP
in any case, which the code reads in four states, `method` a run that `parse_method`
knows. `RequestMoves` and `HeaderMoves` are the switch statements as relations, `Sets`
the pointers that a step stores, `Refused` the returns of INVALID_REQUEST behind a
symbol that the state does accept. A pointer is a position in the line at hand, 0 when
it is null or points into an earlier line. `SplitUrl` and `Extension` are `parse_url`.
Between two header lines the code keeps the old pointers; all of them lie in front of the
new line and in order, so `NextHeader` makes them 0.
`IsRequestLine`, `IsHeader` and `IsEmptyLine` say what the lines are without the automata.

Seen in the model: a bare line feed in a value leads to a state that no case handles, so
the rest of the buffer is passed over and the call returns AGAIN; `parse_url` ends a path
or a query only at a space, so behind a tab, which the line automaton takes as well, it
stays unset (`UrlSplit` states both). The branch of `S_URL_END` is dead.

### Dict, HttpRequest and Persistence

`Dict` is the chained table for any hash function (`Hash` is a constant); `PutAll` fills it from a
static list, one `Put` after another. `HttpRequest` is
any number of calls of `http_request` on one connection; `pc` names the handler to run
next, and each handler is an action, `request_handle_headers` one action per line. The
buffer is chosen as the handlers come to it: a line as `parse_request_line` judges it,
header lines, what ends them, the bytes behind. `keep`, `length`, `ext`, `status`, `fd` and
`size` are the fields of `request_t` that survive a handler; `Reset` clears those that
`http_request_handle_reset` clears, which leaves `size`. `head` is the answer of this call.

* A header handler that refuses its value makes `request_handle_headers` return OK with the
  handler unchanged (259-261). `http_request` calls it again, and it goes on behind that
  line: the refusal is lost. `HeaderLine` shows it as going on. That is all that a
  `Transfer-Encoding` header does; `transfer_encoding` itself is never set, so that the
  default branch of `request_handle_body` is dead.
* `ssstr_caseequal` compares as many characters as its constant has (str.h:39-41): a
  value stands for all values that begin with it.
* The reset of `resource_size` is missing, so the head of an error answer announces the
  size of the last file (`AssembleError`); an incomplete request is answered with the
  status AGAIN, that is 1.
* A URL that a tab ends leaves `abs_path` unset, and the search for its end (191-192) reads
  the null pointer: for a file of kind `nopath` `RequestLine` goes to `down`, the end of the
  process.
* An empty error.html is opened and not closed (432-435): `lost` counts it.
* A connection older than `connect_time_limit` is told to close and kept open.
* `Unint` may read a `request_t` that the close has just freed: it may then miss the file.

`Persistence` is what a client may rely on when it reuses a connection: one head for each
request taken up, which says whether the connection stays, and no close but behind a
head that announced it or after the client ended its side. `HttpRequest` implements it
(`Persistent`, `Persists`) with `phase` from `pc` and `head`, and `close <- head.close`.

How it meets `HttpConnection`: `HttpConnection` has the same calls with the parse outcomes
as a choice and all of the socket; `HttpRequest` has all of the outcomes and of the socket
only whether the write buffer is empty and the connection is closing. The status 200
corresponds to ok, AGAIN to again, the others to fail and bad.

### Handoff

A connection from `accept` on the main thread to the loop that serves it. `main` is the
main thread in `event_accept_callback`: it creates the connection and the event, whose
`is_working` and `epoll_fd` have any value (`event_create` leaves what malloc gave), calls
`onConnection`, makes the buffers, registers the event (`EpollAdd`) and then stores the
two fields, in either order (plain stores, no barrier). `task[l]` is the thread of loop
`l` inside `event_modify_flag` (`Modify`, `Ctl`), `event_stop` (`Stop`, `Del`) or
`event_free` (`Close`), one step per access to the shared fields. Without threads
(`g_loops = {}`) the main loop's own thread is the only one and the two take turns.
`Known` is when `epoll_ctl` succeeds: the descriptor is that of the loop that has the
event; otherwise `debug_sys` ends the process (`down`). A close takes the socket from the
kernel's list even when `event_stop` did not. `corrupt` records that the main thread
stored into an event that the worker had freed. `early` is a history variable: some field
was read while the main thread was storing.

Definitions whose comment says *Mutant of X* are wrong variants of X, one for
each property, used to confirm that the property notices such a mistake. No
specification uses them.

## 3. What the runs check

| run | checks | what it shows |
|---|---|---|
| `http_pipelined` | `TypeOK`, `ClosingArmed`, `FlushedBeforeFree`, `HeadsConserved`, `StreamInOrder`, `RestArmed`, `NothingAfterClose` | safety with one client that pipelines and splits requests, resets, half-closes and reads slowly, a send queue of 2 units for answers of 3, and heads of two lines that a send can cut and the next push can put behind the block |
| `http_served` | `AnswersMatchRequests`, `WithinBlock`, `RequestsServed`, `ClosingEventuallyClosed` | two well-behaved clients on one loop are answered in order and in full, no head leaves its block, and every connection to be closed is closed, whatever the other client does |
| `ring_disciplined` | `InBounds`, `IsQueue` | a byte queue within its block |
| `startup` | `TypeOK`, `LockAlive`, `EventuallyServing` | under every interleaving and failure no thread touches the lock outside its life; without a failure the server comes to serve |
| `timers` | `TypeOK`, `NoneLost`, `TopIsNearest`, `BoundedWait`, `NotEarly`, `RoundEnds` | 711,332 states: the arrays, the top pointer and its index, with timers added from everywhere and rounds of 0 to 3 half milliseconds; the firing loop ends |
| `parser` | `TypeOK`, `AssertsHold`, `RequestLineExact`, `UrlSplit`, `HeaderExact` | 458,696 states: every line over the alphabets, symbol by symbol, is judged and cut as the definition of a line says |
| `request` | `TypeOK`, `StatusRight`, `KeepRight`, `FileRight`, `FilesClosed`, `CallEnds`, `Persists` | 785,677 states: any number of calls on one connection, each answered for what it is; refinement of `Persistence` |
| `handoff` | `TypeOK`, `RunsAfterConnection`, `AgreeUnlessEarly`, `UnharmedUnlessEarly`, `Flushed` | 157,762 states: two connections, one being accepted while the other is served, or both by the main loop |
| `http_stuck`, `timers_rests`, `request_body`, `handoff_early` | one property each, expected to fail | see section 6 |

What the central properties say:

* **ClosingArmed**: a connection in `State_Closing` that still exists waits for EPOLLOUT.
  That alone does not show that it is closed: **ClosingEventuallyClosed** does.
* **RestArmed**: when the loop waits, output that was sent in part waits for EPOLLOUT.
  (Output of which nothing was taken does not, see 6.)
* **WithinBlock**: with clients that await their answers every head finds an emptied
  buffer at the front of its block, whatever was sent in part before.
* **FlushedBeforeFree**, **HeadsConserved**, **StreamInOrder**: through partial sends, the
  write handler and the postponed close no part of a head is lost, repeated or
  overtaken by a file, and a free leaves nothing unsent. HeadsConserved is about streams
  of which no unit was changed behind the block; StreamInOrder about all. Error pages are excluded from
  the order: the code sends them before their own head.
* **NothingAfterClose**: no step changes or sends anything on a connection that is freed
  or leaked, with the mask read from freed memory included.
* **LockAlive**: nobody uses the spin lock before its initialisation or after its
  destruction; the main thread leaves its wait only when every worker has let go of it.
  (That no increment is lost, that every worker is counted and that connections are
  dealt evenly are the theorems `CountCorrect`, `AllStartedCorrect`, `BalancedCorrect`.)
* **TopIsNearest**, **NoneLost**: `top` is the nearest of `size` distinct timers and
  `top_index` is its place. A wrong index would free one timer and drop another.
* **NotEarly**: a timer is due only after its milliseconds, counted from its addition or,
  if an event handler added it, from the start of that round.

* **RequestLineExact**, **HeaderExact**: a line is accepted when it is one, at its last symbol;
  it is refused only when no continuation can make it one. **AssertsHold**: `HEADER_SET`
  runs on the marks of earlier lines at the empty line; they are in order all the same.
* **RoundEnds**: the firing loop ends although repeated timers are put back while it runs.
* **StatusRight**, **FileRight**: the answer of a call depends on that call's request only,
  though calls share a `request_t` that is cleared in part. A request in order gets 200; 200
  needs the whole head and a file; an invalid line, a later version and a missing file get
  400, 500 and 404. What is not promised is left open: what an incomplete request or a
  refused header is answered, and that a body is there (BodyComplete, which fails).
  **CallEnds**: a call ends, and only a URL without a path ends the process. **KeepRight**: the decision to
  close, taken in four handlers, agrees with the head that was sent.
* **RunsAfterConnection**: `onMessage` runs "after onConnection" (http_server.c:18), in
  whatever thread: a registered event has its request, its closing callback and buffers.
* **AgreeUnlessEarly**, **UnharmedUnlessEarly**, **Flushed**: the window between the
  registration and the two stores is the only way to a kernel list that does not match
  `event_flag`, to a refused `epoll_ctl`, to a store into freed memory or to output that
  nobody waits for; and without worker threads there is no such window.

## 4. Bounds and fairness

Bounds that the modules name: `MaxRequests` (requests per connection), `SndBuf`,
`HeadLen`, `BodyLen` (units), `MaxPush`, `MaxCap` (bytes), `MaxConns` (connections dealt
to a worker), `MaxElapsed` (length of a round), the size of `Block`.

* Two requests on a connection are enough for everything that one answer can do to the
  next: a head appended behind a partial one, a keep-alive request behind a close, a
  second half parsed as a request. A send queue of 2 against 3 units of answer makes
  every send partial, full or refused, and heads of two lines leave one line buffered, in
  front of which a unit of the block is released when the next head is pushed: the case
  of the overrun. Two connections share nothing but the loop
  thread, and two suffice for one to hold up the other.
* `MaxPush = 3` with blocks up to 9 goes through the first allocation, growth, and
  release of a part; two byte values tell which byte is where.
* `MaxLoop = 4` is the code's constant. The options are too few, none, some, all and
  too many; two connections per worker make the index wrap.
* Three timers and an initial capacity of 1 grow each of the two arrays while it is
  the active one. Delays of 0 and 2 milliseconds have timers due at once and later, and
  rounds of up to 3 half milliseconds drop a rest. The view of the run (`Readable`) takes
  for one state those that differ only in the memory of freed timers and in the unused
  places of the arrays, which no operator reads before it has written them; of the
  properties only TypeOK looks there.
* In `http_served` a head is one unit, for the sake of two connections; the theorems
  `AnswersMatchCorrect` and `WithinBlockCorrect` have heads of every length.

* `MaxUrl` is the length of a URL, `MaxSlack` the number of other symbols that leave the
  automaton's state as it is. They bound the repetitions; every state, every change of
  state and every refusal is reached with each symbol. Four symbols of URL have a
  directory, a question mark, two dots and a slash in every order.
* `MaxHeaders = 3` header lines have two of a name with a third of another handler
  between; `MaxBody = 2` with declared lengths of 4 and 6 is less than, as much as and more
  than what a request has. The calls are not bounded, `lost` is (`MaxLeaks`). In the run all
  the names that have a handler share a bucket. The kinds of file are those the code
  tells apart: missing, plain, a directory with and without index.html, no path at all.
* One worker and two connections: the main thread accepts one while the worker, or the
  main loop, has the other. More workers share no event. `Junk` stands for every
  descriptor that is no loop's.

`CHECK_DEADLOCK FALSE` stands where the modelled system may stop: all connections
closed and no client left, the process dead, all bounded connections dealt.

Fairness, and why the code has it:

* `HttpConnection`: `WF(Handler)`, the thread never blocks inside a handler (sockets are
  non-blocking). `SF(Dispatch(c))`: `epoll_wait` returns up to 32 ready descriptors and
  the kernel rotates its ready list, so a descriptor that is ready again and again is
  not passed over for ever. `WF(Drain(c))`: a peer that has not gone away reads; without
  it no server could promise progress. Clients ask, shut down and reset when they like.
* `Startup`: each thread runs (`WF`). `SF(WorkerLock(w))`: a spin lock promises no
  fairness, but the main thread releases it between any two of its tests, and a worker
  that finds it free again and again gets it.
* `TimerManager`: `WF(Loop)`, the main thread runs; `SF(Tick)`, a clock that moves while
  the loop goes round. Callbacks return.

* `HttpRequest`: `WF(Call)`, a handler that has begun runs on.
* `Handoff`: `WF` of the accepting and of each loop's handlers, for the same reason.
  `SF(Write(l, c))`: a socket that the kernel watches for room is reported when it has
  some, and a peer that goes on reading makes room for all that is left again and again.

`RequestsServed` is checked with `AwaitResponse` and a send queue that holds an answer, and
needs both: the file after a partial head is never sent (http_request.c:388-393),
`sendfile` is called once (400), requests that arrive together are dropped (114).
`RoundEnds` is about runs in which from some point on no timer with `time_out = 0` is in the
manager: a repeated one keeps the firing loop running for ever.
`AnswersMatchRequests` and `WithinBlock` need `AwaitResponse` and `WholeRequests`: what
becomes of split and pipelined requests is modelled in `http_pipelined` and promised by
nothing.

## 5. What is proved

TLAPS proves these for every set of connections, every queue length, answer length,
number of requests, byte set, push size, capacity, number of workers, set of timers and
delay, from the constants' assumptions (`SndBufAssumption`, `HttpAssumption`,
`RingAssumption`, `StartupAssumption`, `TimerAssumption`, `ParserAssumption`,
`RequestAssumption`, `HandoffAssumption`), which TLC evaluates in every
run.

* `HttpConnectionProofs`: `TypeCorrect`, `ClosingArmedCorrect`, `FlushedCorrect`,
  `RestArmedCorrect`, `NothingAfterCloseCorrect`. The invariant `IInv` adds to the
  properties what links the program counter to the connection in hand: which
  handler runs on a live connection and which may run on a freed one, and that a
  freed connection has nothing buffered, which is what makes the write handler on
  stale memory harmless.
* `HttpStreamProofs`, on top of it: `HeadsConservedCorrect`, `StreamInOrderCorrect`, and for
  clients that send whole requests and await each answer (`AwaitResponse`,
  `WholeRequests`) `AnswersMatchCorrect` and `WithinBlockCorrect`. The *stream* of a
  connection is what the kernel has taken followed by what is still buffered. A step leaves
  it alone (a partial send moves units from one part to the other), or appends a line of a
  head, changed or not, or puts a part of the file or an error page behind what the kernel
  has, a file only when nothing is buffered. `SInv` then counts: of each head exactly the
  lines pushed so far (`Written`), or fewer when some were changed behind the block, of each
  file or page at most `BodyLen`; and heads and files are in the order of their numbers.
  `HeadsConservedCorrect` is about the streams in which none was changed; no assumption
  excludes the overrun. For the other two, `Turn` says that at most one request is on its
  way, in the kernel's queue or in the read buffer, and that the send queue is then
  empty. The client's own rule gives it: it asks when it has counted
  `HeadLen + BodyLen` units of each answer, and by `SInv` that leaves none unsent. So the
  write buffer is empty and at the front of its block when a head is pushed (`InBlock`),
  and the pushes of one head stay within it. Nothing is assumed of the length of the send
  queue.
* `RingBufferProofs`: whatever the callers do, positions are ordered
  (`PositionsCorrect`), an empty buffer is at the front (`EmptyIsResetCorrect`), the
  first overrun needs released bytes (`OverrunCorrect`) and the second branch is dead
  (`ShiftIsDeadCorrect`). Under `Disciplined`, `SoundCorrect` (each readable cell holds a
  byte of data), `InBoundsCorrect`, and `QueueCorrect`: every step of the ring buffer is a
  step of `ByteQueue`.
* `StartupProofs`: `TypeCorrect`, `CountCorrect`, `LockAliveCorrect`, `AllStartedCorrect`, `BalancedCorrect`
  whatever fails, and `LoopsCreatedCorrect` if nothing can. The invariant needs mutual
  exclusion (`Exclusive`), that a worker's copy of the counter is current (`Current`), and
  that the counted workers are exactly those past the increment, a cardinality
  argument; then `started = loop_num` means that all are.
* `TimerManagerProofs`: `TypeCorrect`, `TopIsNearestCorrect`, `NoneLostCorrect`,
  `BoundedWaitCorrect`, `NotEarlyCorrect`. The invariant is that the manager is `Sound`: the active array
  holds distinct timers, and `top` and `top_index` name the nearest, or nothing when
  there is none (`timer_manager_push` compares with `top` alone, so it must be right
  already). `PushSound` and `PopSound` keep it so; the second needs that the scan of
  `Nearest` finds something, and so that a finite set of numbers has a minimum
  (`NearestExists`). `Timely` adds that between the end of the firing loop and the
  next wait nothing is overdue. `NoneLost` follows because places and entries are then
  in bijection. For `NotEarly`, `Charged` bounds what a timer has been charged by its age: the
  milliseconds that a round subtracts are at most those it lasted (the division drops a
  rest, so it errs on the late side), and a timer added in the round is charged the whole
  round, which its age counts too.

* `HttpParserProofs`: for lines of every length over any alphabet, `TypeCorrect` (with the range of the
  version numbers: the first digit is not tested, so `VersionFresh` says that the number is 0
  before it), `AssertsNeverFail`, `HeaderLinesExact`, `RequestLinesExact` and `UrlSplitCorrect`.
  One half says what is known of the line so far in each state of the automaton
  (`LineShape`, `RequestShape`), and that a mark is behind its partner only while the
  line is between the two. The other half, that nothing which could become a line is refused, would be an
  induction over the rest of the line. The invariants `HeaderLed` and `RequestLed` avoid it: *of
  every line at once* they say that while the text read begins that line, the automaton is in
  the state that the line prescribes at this place (`OnHeader`, `OnRequest`). Each step then
  compares one symbol. `UrlSplit` is carried by `UrlCut`: the URL was cut when its last symbol
  was read, and the search for the question mark and for the last dot is put into terms of
  `SplitUrl` by the lemmas `LeastIn`, `GreatestIn`, `SplitAround`.
* `HttpRequestProofs`: `HandlersFound` (the four puts of the handler table and a lookup, for
  every hash function), `TypeCorrect`, `StatusIsRight`, `KeepIsRight`, `FilesAreClosed`,
  `FileIsRight` and `PersistenceImplemented`. The invariant relates `keep` and `length` to the headers read so
  far, `Wanted` and `Declared`, and each stage to the fields that its predecessors set; `Given` is the status
  that the handlers come to, for incomplete requests too, and `StatusIsRight` follows from it.
  `FileIsRight` needs that no type in the table
  of types is the null that `dict_get` returns for a missing one (part of `RequestAssumption`;
  the types are the string literals of the mime table), whatever the table's length and hash function.
  That `PutAll` is such a function at all is `PutsExist`, by the least length without one.
* `HandoffProofs`: `TypeCorrect`, `RunsAfterConnectionCorrect`, `AgreeCorrect`,
  `UnharmedCorrect`. An event belongs to its loop's thread from its registration on (`Owned`)
  and to the main thread before (`Private`), so two threads meet in the two stores only;
  a thread past a test made in that window has left its mark (`Marked`), and without a
  mark the event has what was stored (`FieldsStored`, `Watched`).

Every safety property of the runs expected to pass is a theorem (HeadsConserved with its
condition), and so are the action property and both refinements. Model-checked only is the liveness: `RequestsServed`,
`ClosingEventuallyClosed`, `EventuallyServing`, `RoundEnds`, `CallEnds` and `Flushed` rest on fairness, that is on ENABLED, which the prover does not handle. The
counterexamples of section 6 are TLC's too.

## 6. Where the code and its comments disagree

Four are runs whose counterexample is the code's own behaviour.

* `http_stuck`: told that the peer has shut down its side, a connection with data to send
  "waits until it is sent, then closes the socket" (connection.c:163). If a later
  keep-alive request flushes that output itself, the write handler finds nothing to
  send, never reaches `connection_free`, and EPOLLOUT keeps firing.
* `timers_rests`: a timer is "handled once" when its time is out (timer.h:9), but
  `diff / 1000` drops the rest of every round (servermanager.c:133-137): while events keep
  the rounds shorter than a millisecond no timer gets older, and none fires.
* `request_body`: "full data recv" (http_parser.c:480), but `body_received` grows by the
  length of the whole buffer, request line and headers included (475-476): a request
  whose head is longer than its body is answered before any of the body has come.
* `handoff_early`: `is_working` tells "whether the event is in an epoll" (event.c:104), but
  `event_add_io` registers the event before it stores the field (67-69), which holds
  anything until then (40-55): the worker skips the change or the removal, or makes it
  with a wrong descriptor.

The models hold further ones; the properties are stated so that they are visible.

* The parser's comments promise to continue when more data comes (http_parser.h:162,
  http_parser.c:483). `http_request` resets the parser and answers an incomplete request
  with an error (http_request.c:106-125): status `again` in `HttpConnection`, AGAIN in
  `HttpRequest`. StatusRight leaves open what it should be.
* "writing must be enabled for it to be sent" (connection.c:203), but after `EAGAIN` it is
  not enabled (197-198): `SendBuffer` of `Connection` with result -1. `RestArmed` is about
  sends that took a part; an answer of which the full queue took nothing waits for the next
  request or a close.
* "not enough room" (ring_buffer.c:27) counts the released bytes at the front as room and
  then copies behind the end (51); a partial send followed by the next head of a pipelining
  client gets there: `Outside` in `http_pipelined`, whose HeadsConserved speaks only of
  streams that are intact. `OverrunCorrect` is the theorem about it, `WithinBlockCorrect`
  says which clients never meet it.
* A header that its handler refuses with 400 or 501 (http_request.c:318, 329, 346) is
  passed over, and the request answered as if the handler had not minded.
* A URL that a tab ends has no path, and the process dies of the null pointer (191-192).
* "wait until all event loops are created" (servermanager.c:60); a worker without a loop
  is counted too (21-23): `Startup` with `CanFail`, against `LoopsCreatedCorrect` without.
* A timer that is handled once (timer.h:9) and is the last one leaves a null `top`, which
  the loop follows (servermanager.c:94, 85): the action `Crash` of `TimerManager`.
* `SendPage` gives the error page to the socket before its head, and a timer added by an
  event handler is charged for the round it was added in (`Sofar` in `TimerManager`).

## 7. What is not modelled

* Of the heads: Date, Server, the Keep-Alive line and the reason phrases, wording that no
  other state depends on.
* What else a write behind the block of the write buffer damages: the model has the unit
  itself changed or the process ended, not the neighbours of the block.
* Which descriptor a close through a freed request hits (http_request.c:127): `Unint` has it
  missed or made, not made on a stranger's.
* Failures of `malloc` in the running server, of `fstat` and `fcntl`.
* Reuse of freed memory by the allocator before the reactor's last look at it, beyond
  the mask (event.c:30).
* `timer_manager_free`, `timer_new` and `dict_free`, which nothing calls; the hash function
  (any is allowed) and the string helpers; config, logger, main, tcpclient: sequential,
  output only or unused. `web/Untitled-1.cpp` is not built.

## 8. Plan

Done: `Connection` and `HttpConnection` (the core), `ByteQueue`/`RingBuffer` and
`Persistence`/`HttpRequest` with their refinements, `Startup`, `TimerManager`, `HttpParser`,
`Handoff`; the proofs of section 5.

What is left, in this order:

1. The safety side of the liveness properties: the measure that each step of a call, of a
   round or of a close makes smaller, as theorems beside `CallEnds`, `RoundEnds` and
   `ClosingEventuallyClosed`.
2. `HttpRequest` and `HttpConnection` as one composition, with `Parse` as its abstraction.
3. `RingBuffer` as the buffers of `HttpConnection`, in place of `Placed` and `Released`.
