# A TLA+ model of call_lesson

The repository is a collection of C++ programs: a multi-threaded reactor
library (`Reactor_http/source/server.hpp`), an online gobang game (`game/source`) on
the websocketpp library kept in the repository (`websocketpp-master`), an HTTP
server (`my_Http`), smaller servers and exercises (`lesson*`, `lesson_IO`) and
re-implementations of standard containers (`Algorithm`). This directory models
the parts whose correctness depends on the order in which threads, callbacks,
timers, pages and peers act, or on how a stream is cut and a buffer is filled;
checks the models with TLC on small instances; and proves the central results
with TLAPS for every value of the constants.

Line numbers below are those of `Reactor_http/source/server.hpp` unless another
file is named. `PROJECT.json` gives, definition by definition, the lines each one
models.

## 1. Inventory

| Component | State | Operations | Hard part | What makes it correct |
|---|---|---|---|---|
| `TimerTask`, `TimerWheel` (443-568) | `_tick`, `_wheel` (slots of `shared_ptr`), `_timers` (`weak_ptr` per id), the timerfd | add, refresh, cancel, `HasTimer`, one tick | callbacks run in a destructor in the middle of `clear()` and use the wheel again; the slot is taken modulo 60; a refresh only pushes one more pointer | a callback runs once, exactly `timeout` ticks after the last add or refresh, never if cancelled; `_timers` names the object that will fire |
| `EventLoop` (571-676) | `_tasks`, `_event_fd`, the batch being run | `RunInLoop`, `QueueInLoop`, `Start`, `RunAllTask` | other threads push while a batch runs; the wake-up is written outside the lock | each task once, in order, and eventually |
| `Channel`, `Poller` (324-441) | `_events`, `_revents`, `_channels` | enable and disable bits, `HandleEvent`, `Poll` | `HandleEvent` runs several callbacks of an object the first one may destroy | only channels that exist and are open are served |
| `Connection` (807-1021) | `_statu`, buffers, `_enable_inactive_release`, the timer | `Send`, `Shutdown`, `HandleRead/Write/Close`, inactive release, `EsTablished` | peer, timer and other threads in any order; callbacks that shut down from inside; who keeps the object alive | released once, output flushed, nothing monitored after close, timers never outlive it |
| `TcpServer`, `Acceptor` (1023-1156) | `_conns`, `_next_id` | `NewConnection`, `RemoveConnection`, `RunAfter` | removal is immediate on one loop and a task on another | a released connection leaves `_conns` |
| `LoopThread`, `LoopThreadPool` | the loop pointer, its mutex and condition variable | `GetLoop`, `NextLoop` | hand-over of the loop between threads | `GetLoop` returns a loop that exists and runs |
| `match_queue`, `matcher` (`game/source/matcher.hpp`) | three queues, three threads | `add`, `del`, `handle_match` | users leave, stop and ask again between two steps of the thread; `size` and `wait` lock separately | nobody who waits is forgotten, unless an `add` of him fails; a request leads to one room at most |
| `room`, `room_manager` (`game/source/room.hpp`) | `_rooms`, `_users`, `_next_rid`, status and player count | `create_room`, `handle_request`, `handle_exit`, `remove_room_user` | leaving, returning, reloading, a second page, a new match while an old room lives | user entries lead to the user's own room; results and status agree |
| `online_game` (`game/source/online.hpp`) | two maps from users to connections | enter, exit, lookups | reads without the mutex | at most one hall and one room connection per user |
| `gobang_server` (`game/source/server.hpp`) | none of its own | HTTP handlers; open, close and message of `/hall` and `/room` | a close handler runs for refused connections too | handlers keep the tables above consistent |
| `session_manager` (`game/source/session.hpp`) | sessions with their expiry timers | create, append, `set_session_expire_time` | cancelling a timer removes the session and a second timer puts it back | a session exists while a page is open, and expires afterwards |
| `user_table` (`game/source/db.hpp`) | the `user` table | insert, login, win, lose | two updates per game, either may fail | a result is written for both players |
| `Buffer` of the reactor | a vector with a read and a write offset | write, read, ensure space, lines | compaction and growing at the edge of the vector | holds what was written and not yet taken, in order |
| `my_Http` | a request per connection, a thread pool, pipes to CGI children | the phases of `EndPoint`, `Push_task`, `ThreadRoutine` | a fork copies the pipe ends of other requests; a signal after the unlock; errors between phases | one answer per request, as long as announced; a request ends or waits for a peer that neither sends nor hangs up; no pipe end stays open |
| `lesson_IO` Reactor | connections with their buffers, edge-triggered | accept, receive, send, except | an edge comes once; `errno` of an earlier call decides | every request is answered, in order; nothing is left unread |
| `lesson_IO` select, poll, epoll servers | a table of descriptors | wait, accept, receive | descriptors closed and reused within one round; a full table; blocking sockets | the thread never waits for input; it waits only to write an answer to a client that has not read earlier ones; each connection is watched once |
| calculator of `lesson10` | processes that share descriptors | fork twice, serve, ask | either fork may fail; copies of descriptors | a client sees the answers to its own questions, whatever the others do |
| `lesson6` `BlockQueue`, `lesson7` `RingQueue` | bounded buffers, condition variables, semaphores | push, pop | waiting and signalling with several producers and consumers | bounded FIFO buffers; every task gets through |
| `AVLTree`, `RBTree` (`Algorithm`) | nodes with three pointers and a balance factor or a colour | `insert`, iterators | rotations pointer by pointer, recolouring that climbs | a set; balance, colours and parent pointers right after every order of inserts |
| `HashTable.hpp` (`Algorithm`) | slots with a state, or buckets of nodes; a counter | `insert`, `erase`, `find`, iterator | growing, deleted slots on the way of a search, a counter that erase forgets | a set; every key is found where it is, searches end |
| `Vector`, `List`, `String`, `shared_ptr` (`Algorithm`) | storage and sizes, rings of nodes, shared counters | growing, shifting, splicing, copying | position 0 with an unsigned index, the terminating zero, assignment to oneself | the plain sequence; an object is deleted once |
| websocketpp `connection` | session and internal state, timers, send queue, read and write under way | both handshakes, frames, ping and pong, `close`, `terminate` | completions already queued when a timer is cancelled; sends of other threads; a peer that hangs up anywhere | one open or fail, one close (unless the end of the connection overtakes a `close`); sends in order; every opening and closing ends |
| websocketpp asio transport | an operation and a timer per stage; the acceptor | resolve, connect, proxy, tls, shutdown; accept | completion and expiry both queued | one callback per stage, and it comes; the accept loop goes on, unless a connection cannot be created |
| websocketpp processors and parsers | a frame, a message or a header under way | `consume`, `prepare_data_frame`, handshake validation | chunks of any size, limits, fragments with control frames between | what is read is what was sent |
| websocketpp negotiation (permessage-deflate, handshake, uri, close codes, settings) | what each end takes to be agreed | offers, answers, codes | each end derives it from its own side | both ends agree |
| websocketpp codecs (UTF-8, masking, base64, md5, sha1) | words and buffers | | pieces that end anywhere, padding, byte order | what the standard says, however the input is cut |
| the rest | course exercises, prototypes, examples, web pages, logging | | | not modelled, see section 8 |

How they interact. A `TcpServer` owns the base loop and a pool of loops; each
`Connection` belongs to one loop, and every operation on it from another thread
becomes a task of that loop (`RunInLoop`). The loop's `Poller` returns channels, whose
`HandleEvent` calls the connection's handlers, which call the user's callbacks.
The loop's `TimerWheel` is a channel too (a timerfd) and calls back into
connections. In the game, the websocketpp thread runs the handlers of
`gobang_server` one at a time; three matcher threads take users from the match
queues and call `room_manager::create_room`; all of them share `online_game` and
`room_manager` under mutexes. websocketpp's connection runs its handlers
in a strand of the asio transport; it reads by the processor of the protocol
version, which uses the parsers, the codecs and the negotiated extension.

## 2. Modules

| Module | Models | Role |
|---|---|---|
| `TimerService`, `TaskQueue`, `KeySet`, `BoundedBuffer` | the promise of the timers, of `RunInLoop`, of the containers, of the queues | abstract specifications |
| `TimerWheel` | `TimerTask`, `TimerWheel` | implements `TimerService` |
| `EventLoop` | `EventLoop`, the calling threads, eventfd and timerfd | implements `TaskQueue`; holds its own theorems |
| `Connection` | one `Connection` with `Channel`, timer, loop, `_conns` and base loop | composition of what the reactor does to one connection |
| `LoopPool` | `LoopThread`, `LoopThreadPool`, ids and `_conns` of `TcpServer` | several connections on several loops |
| `Buffer` | `Buffer` | against the bytes written |
| `Matcher` | `match_queue`, `matcher`, `create_room`'s checks, hall handlers | |
| `RoomManager` | `room`, `room_manager`, `online_game`, hall and room handlers | |
| `Game` | the board of a room; `user_table` with the queues chosen by score; `session_manager` with the pages that use it | three machines |
| `SearchTree`, `AVLTree`, `RBTree` | nodes, search and rotations; the two AVL trees of `AVLTree.hpp`; the red-black tree with its iterators | implement `KeySet` |
| `HashTable` | the two hash tables, chained and with open addressing | two machines; implement `KeySet` |
| `AlgorithmSequences`, `SharedPtr` | list, vector and string, three machines; the counted pointer of `Algorithm` | against plain sequences and sets |
| `WebSocket` | websocketpp's `connection`: two ends, or one end against any peer | composition of connection, strand and transport |
| `AsioTransport` | the stages of an asio connection with their timers; the accept loop | two machines |
| `Iostream` | the iostream transport, reading and writing | two machines |
| `Hybi13`, `Hybi00`, `Utf8` | frames and messages of the two protocols; the UTF-8 validator | against whole frames, texts and the grammar |
| `HttpParser` | the HTTP parsers; the parser of parameter lists | two machines |
| `Deflate`, `Handshake`, `EndpointSettings` | the negotiation of permessage-deflate; the opening handshake, uris and close codes; settings and their copies | what two ends agree on |
| `Codecs` | masking, base64, the block handling of md5 and sha1 | |
| `HttpServer` | `my_Http`: thread pool and `EndPoint` | two machines |
| `LessonQueues` | `BlockQueue` and `ring_queue` | implement `BoundedBuffer` |
| `CalcProtocol`, `IoServers`, `ForkServer` | the calculator's framing; the servers of `lesson_IO`; the forking server of `lesson10` | |
| `Servers` | | puts `HttpServer` and `ForkServer` side by side, with what they promise together |
| `MC...` | | small instances for TLC; `MCContainers`, `MCSequential` and `MCConcurrent` put several components next to each other, one per behaviour |
| `TimerWheelProofs`, `ConnectionProofs`, `RoomManagerProofs`, `MatcherProofs`, `GameProofs`, `WebSocketProofs` | | theorems about the module of that name |
| `ConcurrentProofs` | | theorems about `AsioTransport`, `LessonQueues`, `LoopPool` and `Servers` |

A module with several machines models components of one program that share no
state here; each machine has its own `...Init`, `...Next` and variables, under a
heading of its own. A definition called a variant in its comment is an altered
form of the next one, kept to see that the properties notice the alteration.

### TimerWheel

`tick`, `wheel`, `timers` are `_tick`, `_wheel`, `_timers`; `task` holds the fields of each
`TimerTask` object and `alive` the objects whose destructor has not finished. A
slot is a set of objects: several pointers of one object in one slot make no
difference, because a slot is only cleared as a whole. One tick is several
steps, because callbacks run inside it: `OnTime` (read the timerfd, advance the
hand), `Drop(t)` (one pointer goes; if it was the last, either the destructor
calls back - `dying` - or the object was cancelled and goes), `Finish` (the callback
has returned, `Remove(id)`), `EndClear`. `TimerAdd`, `TimerRefresh`, `TimerCancel` can
happen between ticks and while a callback runs. `Second` is the kernel's clock.
`age` (ticks since the last push of an object) and `lag` (expirations the hand
missed) are history variables.

Preconditions taken over from the callers: `TimerAdd` happens for ids without a
timer (`EnableInactiveReleaseInLoop` asks `HasTimer`; `RunAfter` uses fresh ids); a
callback does not refresh its own timer (the code would dereference a null
pointer); inside `clear()` nothing is pushed into the slot being cleared
(`SafePush`; in C++ that is a `push_back` on a vector during its own `clear`).

### EventLoop

The loop's thread is at `poll`, `handle`, `swap` or `run`. A push and a swap are one
critical section of `_mutex` each, so one step each; `WeakUpdateFd` is outside the
lock, so a step of its own. The value it writes is that of the code, 0
(`WakeValue`), which leaves an eventfd unreadable. `Poll` is enabled when a
descriptor is readable; `PollInterrupted` is the return on `EINTR`. `TypeOK` includes that
the batch is empty outside `run`, which `RunAllTask` relies on when it swaps. `MaxCalls` bounds the model only; the guard of a call names it.

### Connection

The record `conn` is the object; each handler is an operator from record to
record, so that nested calls (`HandleRead` calls the message callback, which calls
`Send` and `Shutdown`, which may release) compose as in C++. Data is counted in
units. `HandleEvent` is two steps, `HandleEventRead` and `HandleEventRest`, with the base
loop's `RemoveConnectionInLoop` possibly between them; `HandleEventDangling` is the same
code running on a destroyed channel (it crashes, or finds the old bits).
`Exists` says that some `shared_ptr` is left. The message callback may wait for
more, answer, or answer and shut down (`EchoServer::OnMessage`). `recv` fails on a
closed descriptor and on a reset. At the end of the stream it returns 0 and leaves `errno`,
which `Socket::Recv` (231-242) then reads: with a stale `EAGAIN` or `EINTR` it reports "no
data" and `HandleRead` goes on. `errno` is therefore a variable that other calls of the thread
set as they please, and `FinReleases` is claimed of behaviours in which it does not keep
such a value. `send` takes part of
the output, or fails on a closed descriptor or when the peer has gone. Other
threads may call `Send`, `Shutdown`, `EnableInactiveRelease`, `CancelInactiveRelease`; such
a thread keeps its `PtrConnection` (without it the queued task would hold a
dangling `this`). The timer may fire at any moment once it is armed, but not before
the connection is established: that would need a loop that is busy for the
whole timeout.

### Matcher

One step per critical section: `Size`, `Wait`, `Pop1`, `Pop2`, `Conn1`, `Conn2` are the
calls of `handle_match`, `Hall1`, `Hall2`, `Create` those inside `create_room`, `Add` the users
put back. `add` looks the user up first and may fail (`matcher.hpp` 127-131), in `match_start`
and in `Add`, and no caller looks at the result; `failed` remembers of whom. The server's handlers run between any two of them. The tier of a user
is a constant (`TierOf`). Sessions are valid. The hall page sends `match_start` only
when it is not searching and `match_stop` only when it is
(`wwwroot/game_hall.html`). `match_queue::push` has no return statement although
its type is `bool`; the makefile builds without optimisation and no caller uses
the value, so it is taken to return.

### RoomManager

Handlers run one after another, and `create_room` is one critical section, so each is
one action. `page` records which room an accepted room page was opened for, and
`refused` the users with a connection that was refused but not yet closed, because
the close handler runs for it as well. A move is refused, changes nothing that
matters, or wins (`ChessWinners`); the board itself is in `Game`.
Any two users in the hall may be matched, and so may one user with himself, as
`Matcher` shows that he can be.

### Containers

A node is named by its key, a tree is a record of functions from keys
(`left`, `right`, `parent`, and `bf` or `col`). `insert` takes one step per iteration of its
two loops, so that the termination of the loops is a property and not an
assumption; rotations are composed of the same pointer assignments as the
code, in the same order. `Reached`, `Longest` and `Below` read a tree off its child
pointers and serve the properties. A bucket of the chained table of `HashTable` is the sequence of the
keys on its list; growing takes nodes from the head of a list and puts them at
the head of another, hence `Reverse`. With open addressing a search is described by the
slots where it would stop; if there is none, the call never returns (`Hang`).
`MCContainers` puts the five next to each other, one per behaviour.

### LoopPool and Buffer

The main thread creates a `LoopThread`, waits in `GetLoop` for the pointer its thread
sets under the mutex, and goes on to the next; then connections get a loop by the
round robin of `NextLoop`. `conn_id` is the one counter that connections and `RunAfter`
timers take ids from. A connection ends on its loop, which queues
`RemoveConnectionInLoop` on the base loop. A server with `_thread_count` 0 has no threads to
share connections between: `NextLoop` returns the base loop (743) and everything runs on it, which is
`OnBase` of `Connection`; `LoopPool` takes at least one thread. `CONNECTED` stands for
`DISCONNECTING` too, and a release may run again on a connection already `DISCONNECTED`, as it
does after a reset, which queues the removal once more. Tasks are first-in first-out: that a loop
keeps this promise is `EventLoop`'s refinement of `TaskQueue`. In `Buffer` byte n is the n-th
byte ever written, so losing, doubling or reordering one shows.

### Game

The board is checked against all rows of stones, on a smaller board with a shorter
row. The users' table has rows with name, password, score and counts; each
query is atomic and may fail; `tier` is chosen by the score read at the moment of the
call, which is what makes a request untraceable when the score has changed
meanwhile. The matching thread takes its users in steps of their own (`Size`, `Pop`, `Pair`,
`AddBack`), so that users stop, ask again and win or lose while it holds them. A score
becomes a `UInt64` (`db.hpp` 157) and is read by `asInt`, which throws for a negative
one; nobody catches it (`down`). `StopForgets` excepts the users whose score `moved` and the
users their last stop `missed`, because a thread held them or their row could not be read. Sessions
have the removal timers that `set_session_expire_time` sets: cancelling a websocketpp
timer makes its callback ready instead of dropping it, so a re-timed session is
erased first and put back by a 0 ms timer, and any handler may run between.

### WebSocket and AsioTransport

A handler of `connection_impl.hpp` is an operator from the connection's record to
the record it leaves; the strand makes it one step. `send` of another thread is two steps, the
check and the push, as it takes two locks. `close` is two steps as well (`CheckClose`, `Close`):
it looks at the state (`connection_impl.hpp` 317) and changes it (2124) under one lock, but
neither `terminate` (1698-1748) nor `send_close_ack` takes that lock, so the connection may be
closing or closed by then; `closer` is then `overtaken`. The statements of `terminate`
itself are taken as one step. Timers are `live`
until they expire and `due` until their handler has run; cancelling one that is
due does not stop it. A peer may write any item, hang up anywhere, or be another
websocketpp end. One read hands a batch of items to the loop of `handle_read_frame`;
`consumed` is that loop as a recursive function of how many items it has passed,
stopping as the code does at an item the processor refuses.
In `AsioTransport` every stage has an operation and a timer
(`pending`, `aborted`, `done`; `running`, `past`), and the handler that finds
itself overtaken leaves the callback to the other. A pre-init that fails calls back
and goes on (`asio/connection.hpp` 483-485, reached from `tls.hpp` 245-251): `sni` counts the
runs of what follows and the callbacks they add. `start_accept` that cannot create a
connection (`server_endpoint.hpp` 130-133, 186-189) ends its loop of accepts (`halted`).

### Frames, parsers, codecs

Readers are fed chunks of every size. `Hybi13` keeps the iterations of
`consume` with header, extended length, key and payload each possibly cut; its
length limits are scaled so that all three encodings occur with payloads of up to
four bytes. A compressed frame inflates to more bytes than it has on the wire, and the limit
is compared with the latter, as in the code (`hybi13.hpp` 439, 457). A stream that `Iostream` reads
from may go bad, which completes the read twice (`iostream/connection.hpp` 622-630). A line of `HttpParser` is one cell for its text and one each for CR and
LF. A masked byte is the index of the key byte it met (`Codecs`, `Hybi13`), a UTF-8
byte is its type in the validator's own table, and a digest is the sequence of
blocks given to the compression function, whose rounds are left out.

### Negotiations

`Deflate` derives windows and contexts on each side from offer and answer as
`enabled.hpp` does, numbers cut to eight bits included, and zlib inflates only against
the history it was given. `Handshake` lets the client be this library's or one that
leaves something out, and an intermediary answer with a response to another key;
its hashes are injective. Its second machine follows a uri from the client's text
through the Host header to the server, its third the close codes from `close` over the
wire to both reports. `EndpointSettings` lets `create_connection` read one setting at
a time while setters change others.

### Servers

`HttpServer` has the double-checked `getinstance`, the signal after the unlock in
`Push_task` and, per request, the phases of `EndPoint` with every error between them. `recv` has
no timeout: a peer in `Silent` holds its worker for ever, and a request whose text is not all
there `Waits` until its peer quits, which it need not do. Where the peer's line ends are bare
CRs, `ReadLine` looks at the byte after one (`Util.hpp` 15-24) and takes a body's LF with it (`feeds`
says which bytes of the body are LF); a negative length is read to the end of the input
(`Protocol.hpp` 180). Files are taken to be smaller than 2 GiB, as `size` is an `int`. `pipes`
are the ends open in the server and `child[t].holds` those a CGI process inherited, of
whichever request. `IoServers` has a kernel with the lowest free descriptor first; a round
receives and then writes the answer on a blocking socket, two steps, and a client holds
at most `MaxUnread` answers it has not read; end of stream and errors are branches of their own; the
calculator of its second machine reads `errno` as the last failing call left it.
`ForkServer` follows server, child and grandchild with their copies of the socket.
`LessonQueues` steps through critical sections (`BlockQueue`) or statements (`ring_queue`).

## 3. Runs

| Run | Instance | Distinct states | Shows |
|---|---|---|---|
| `TimerWheel` | 2 ids, 2 objects, 3 slots, delays 1..3, up to 2 pending expirations | 94 860 | `TypeOK`, `MapMatchesWheel`, `NoneOverdue`, `FiresOnTime`, `ImplementsService`, `EveryTimerResolves` |
| `EventLoop` | 2 threads, 2 calls each | 7 177 | `TypeOK`, `NoneLostOrReordered`, `ImplementsQueue`, `EveryTaskRuns` |
| `Connection_close` | base loop or another, peer closes, other threads send; 2 calls, 2 units | 5 872 | `TypeOK`, `ReleasedAtMostOnce`, `WatchedAsNeeded`, `CloseFlushes`, `FinReleases` |
| `Connection_inactive` | the same with inactivity timer, resets, `Shutdown` and `Cancel` | 61 918 | `ArmedTimerHasTarget` |
| `Matcher` | 3 users of one tier, 2 requests each | 1 896 448 | `NoPlayerForgotten`, `OneRoomPerStart`, `HandsAreEmptied` |
| `RoomManager` | 3 users, 2 rooms, 2 results per room | 2 891 008 | `EntryLeadsToOwnRoom`, `OverWhenSettled` |
| `Containers` | three trees with 8 keys inserted in any order; hash tables with 6 keys in 5 slots that grow to 10 and 20 | 591 069 | `TreesSound`, `TablesSound`, `InsertReturns`, `ImplementsSet` |
| `WebSocket` | two websocketpp ends of which one sends twice and both close; a server, and a client, against a peer that writes up to two items | 345 556 | `ReportsAgree`, `SendsInOrder`, `ConnectionsEnd` |
| `Sequential` | 26 machines of the protocol, game, `lesson_IO` and `Algorithm` modules, bounds in `MCSequential` | 2 500 268 | `CodecsFaithful`, `ReadAsSent`, `GetsFurther`, `PeersAgree`, `ServesAll`, `GameConsistent`, `SequencesHold` |
| `Concurrent` | two asio connections, one with TLS and one through a proxy; an acceptor; 5 threads on two queues of 2; a ring of 2; two acceptors with pools of 2 and three peers, one of them silent; two requests to `my_Http`, bodies that begin with LF and a negative length among them; two loops and 4 ids; two clients of `lesson10` | 164 825 | `TransportSound`, `ServedRight`, `LoopsConsistent`, `ImplementsBuffers`, `WorkEnds` |
| `Connection_dangling` | one loop, one unit, no other thread | violation | `HandlerHasChannel` fails |
| `RoomManager_destroyed` | 2 users, 1 room | violation | `RoomOutlivesItsPlayers` fails |

The properties of the runs over several components are conjunctions of what each
component's module states under its own name, with a comment that says what it is
about: `CodecsFaithful` of `AcceptsUtf8`, `MaskAligned`, `DecodesToItself`,
`PiecesDoNotMatter` and `DigestsPadded`, and so on.

Why the bounds are enough. The wheel: with three slots a delay can be shorter
than, equal to and wrapping around the ring; two ids let a callback act on
another timer; two pending expirations are what makes the hand miss a second. The
loop: with two calls of two threads, pushes fall before, into and after a
batch. The connection: two units allow a partial read and a partial write; two
calls allow a request before and one after the release. The matcher: with three
users one pair can be matched while a third waits; two requests let a user come
back while his first entry is queued. Rooms: three users and two rooms let a
player be matched again while his old room lives. Containers: eight keys allow a
recolouring followed by a rotation further up and all double rotations with
subtrees; a table of five grows within six keys, and the counter that only
goes up (`MaxCount` bounds it at 11) makes the chained one grow twice.
WebSocket: two sends let a message wait behind a write under way, and two items of
the peer a fragment or an error after the handshake. Frames: four
bytes of payload reach all three length encodings and leave room for a control
frame between fragments; chunks of one and two bytes cut every field. UTF-8: five
bytes are a longest character and the start of another. Masking: calls of up to 11
bytes and payloads of 14 pass a word of eight and end inside one. Digests: lengths
up to 200 pass the padding that needs a block of its own three times, and words of
11 bits make the bit count carry. Close codes are those around every bound the code
tests. Queues of two are full and empty with five threads. Requests: two, so that one
may inherit the pipes of the other, with each of the three line ends. One silent peer takes
one of two workers, and the only one if the second could not be created. Strings of up to three
characters, zeros included, grow past a buffer filled by `resize`. One unread answer
(`MaxUnread`) is enough for the next to block. The descriptor table has a slot less than there
are descriptors, so it is full. `Capacity`, the numbers of ids, threads, users,
rooms and calls are arbitrary in the theorems of section 5.

Deadlock is checked in the runs of `TimerWheel`, `EventLoop`, `Matcher` and
`RoomManager`. The other systems may stop: a released connection whose peer has gone,
a closed websocket, a parser at the end of its input, a search of an open hash
table that never ends.

## 4. Fairness

- `TimerWheel`: weak fairness of the clock, of `OnTime` and of the end of
  callbacks: the timerfd is periodic (484-499), `Start` loops for ever and callbacks
  return.
- `EventLoop`: weak fairness of the loop's thread and of the timerfd. None of
  sockets, signals or callers. `EveryTaskRuns` holds because of the timerfd alone,
  since the wake-up does not work (section 6): without `WF(TimerExpires)` it fails.
- `Connection`: weak fairness of the loop's thread and of the base loop. None of the
  peer, the timer or other threads, and none of `errno`: that it does not stay at a
  stale value is a premise of `FinReleases`, stated in it.
- `Matcher`: weak fairness of each matcher thread. None of the users, and none of
  spurious wake-ups.
- Containers: weak fairness of the iterations of `insert`, a sequential loop.
- `WebSocket`: weak fairness of each end that is active: the `io_service` runs its
  handlers, the kernel moves bytes or reports the loss, clocks advance. None of the
  application or of a raw peer.
- `AsioTransport`: weak fairness of the handlers and the clock of each connection.
- `LessonQueues`, `HttpServer`, `ForkServer`: weak fairness of each thread or
  process, taken singly, as the kernel schedules them; CGI programs end. None of
  clients that could connect, none of peers, which need neither send nor quit, and none of
  spurious wake-ups. What is claimed is accordingly that a request ends or waits for its
  peer, and that a connection is handled or silent peers hold every worker.
- `LoopPool`: weak fairness of the main thread until it runs, of each loop's thread
  and of its tasks.
- The machines of `Sequential` have safety properties only, and need none.

## 5. Proofs

| Theorem | Says | From |
|---|---|---|
| `TypeCorrect` (TimerWheelProofs) | `Spec => []TypeOK` | the assumptions on the constants only |
| `WheelMapSound` | `[]MapMatchesWheel` | `InRange`: delays are in 1..Capacity |
| `WheelSafe` | `[]NoneOverdue` | `InRange` |
| `FiringIsExact` | `FiresOnTime` | `InRange` |
| `WheelImplementsService` | `Spec => ImplementsService` | `InRange` |
| `LoopTypeCorrect` (`EventLoop`) | `Spec => []TypeOK`, the batch included | any threads, any number of calls |
| `LoopImplementsQueue` | `Spec => ImplementsQueue` | the same |
| `LoopKeepsEveryCall` | `[]NoneLostOrReordered` | the same |
| `RoomsConsistent` (RoomManagerProofs) | `[](TypeOK /\ EntryLeadsToOwnRoom)` | any users, any number of rooms and results |
| `RoomsSettled` | `[]OverWhenSettled` | the same |
| `PlayersRemembered` (MatcherProofs) | `[]NoPlayerForgotten`, of users no `add` of whom failed | any users, tiers and requests |
| `RequestsNotMultiplied` | `[]OneRoomPerStart` | the same |
| `ConnTypeCorrect` (ConnectionProofs) | `Spec => []TypeOK` | any peer, callbacks and requests |
| `ConnTimerHasTarget` | `[]ArmedTimerHasTarget` | no other thread calls `EnableInactiveRelease` |
| `ConnReleasedOnce` | `[]ReleasedAtMostOnce` | `Graceful`: peers close and do not reset, other threads only send or cancel, no inactive release |
| `ConnWatched` | `[]WatchedAsNeeded` | `Graceful` |
| `ConnCloseFlushes` | `Spec => CloseFlushes` | `Graceful` |
| `LoopsStayConsistent` (ConcurrentProofs) | `[]LoopsConsistent` | `Pool`: at least one loop; any number of ids |
| `BlockQueuesAreBuffers` (ConcurrentProofs) | `BlockSpec => BlocksAreBuffers` | `Pipeline`: a capacity, and every thread runs one routine; any threads and tasks |
| `RingQueueIsBuffer` | `RingSpec => RingIsBuffer` | `Ring`: a capacity; any number of items |
| `QueuesAreBuffers` | `BlockSpec /\ RingSpec => ImplementsBuffers` | `Pipeline`, `Ring` |
| `AttemptsCallBackOnce` (ConcurrentProofs) | `AttemptSpec => []CalledBackOnce`, init excepted where a pre-init failed | any connections, with TLS, a proxy, both or neither |
| `EndpointKeepsAccepting` | `ListenSpec => []KeepsAccepting`, loops excepted that a failed creation ended | any number of listens |
| `TransportStaysSound` | `AttemptSpec /\ ListenSpec => []TransportSound` | the same |
| `PoolHandlesOnce` (ConcurrentProofs) | `PoolSpec => []HandledOnce` | `PoolAssumed`: finitely many threads accept, and names differ; any pools, workers and connections |
| `RequestsAnswered` | `EndSpec => [](RequestAsSent /\ BodyAsAnnounced /\ EndsReturned)`, but of a `Swallowed` body | `EndAssumed`: a line ends in LF, CR or CRLF, and sizes are numbers; any threads and requests, negative lengths and bodies with LF included |
| `QuestionsAnswered` | `ForkSpec => [](ShownOwnAnswers /\ HeldByOne)` | `ForkAssumed`: `recv` returns some number of bytes, and each client has a list of questions; any clients |
| `ServersServeRight` | all three together `=> []ServedRight` | the three hypotheses |
| `HandlersCalledOnce` (WebSocketProofs) | `Spec /\ []Timely => [](HandlersAgree /\ OneWrite /\ TerminalIsLast)` | no response that fails the extension negotiation; any peer, calls, messages |
| `ReportsAlwaysAgree` | `Spec /\ []Timely => []ReportsAgree` | the same, and codes an application may close with |
| `AlwaysInOrder` | `Spec /\ []Timely => []SendsInOrder` | no such response, and ends that do not call `resume_reading` |
| `SessionsKept` (GameProofs) | `SessionSpec => [](NotLost /\ OneTimer)` | `SessionAssumed`: ssids count from 1; any users, timers and pages |
| `UsersServed` | `UserSpec => [](RegisteredCanLogin /\ StopForgets /\ ResultsBalance)` | `UserAssumed`: the points of a game are a number; any names and persons; `StopForgets` with its exceptions `moved` and `missed` |
| `WinnersHaveRows` | `BoardSpec => []WinnerHasRow` | `BoardAssumed`: a board of any size, a row of any length but 0 |
| `GameStaysConsistent` | all three together `=> []GameConsistent` | the three hypotheses |

A hypothesis such as `Graceful` is a formula about constants, and the constants of
the run that checks the same property satisfy it: the run shows the property on an
instance of what the theorem covers. The hypotheses about `WebSocket` are what the code
needs: a response that fails the extension negotiation makes the client call both
fail and open (`NeverBoth`, section 6); `prepare_close` of `hybi13.hpp` refuses the
codes for which `close::status::invalid` holds, so an application closes with none of them;
and a `resume_reading` while a read is still pending starts a second read that
shares `m_buf` with the first, after which nothing can be said about order. `Timely` says
that no `close` has been overtaken by the end of its connection: an overtaken one calls
`terminate` a second time (`ClosedOnce`, section 6). The `WebSocket` run has no such premise:
overtaken closes are among its behaviours, and its properties say themselves what they
except.

**The wheel.** That a task fires on time says nothing about where its pointers
are, so it is not inductive. The invariant relates time to place. The time left of
a task, `Rest(t)`, is its timeout minus the ticks since the last push. `NewestHeld`:
the slot `Rest(t)` ahead of the hand holds the task. `NoneLater`: every slot that
holds it is at most that far ahead, so the last pointer goes exactly when
`Rest(t)` is 0. `RestInv` keeps `Rest` within one turn, with the two boundary cases (a
whole turn only while the hand rests, zero only while it moves); this is where
`InRange` and `SafePush` are needed. `DyingInv` says that an object whose callback
runs is on no slot. With them, `Drop` of the last pointer happens at age = timeout,
and every action maps to one step of `TimerService` or to a stutter (`TickStep`,
`DropStep`, `FinishStep`, `AddStep`, `RefreshStep`, `CancelStep`).

**The loop.** The abstract queue is the unfinished batch followed by the pool.
`Swap` overwrites the batch, so it matters that outside `run` the
batch is empty (`BatchInv`, a part of `TypeOK`). Each step is then an append, the removal of the head, or a stutter.
`NoneLostOrReordered` speaks of one sequence, `Handed`: what was executed, the rest of
the batch and the pool, in this order. It says that the calls of each thread are in it
once each and in their order; a step leaves it alone or appends the caller's next call.

**Rooms.** The two properties are inductive together with `UnusedInv`: ids not yet given
out have neither a room nor a result. `create_room` needs it for the fresh id,
`remove_room_user` needs that a destroyed room takes every entry leading to it
along.

**The matcher.** Both properties come from one count. `HeldBy(u, t)` is how often `u`
occurs in the queue of `t`, in the hands of its thread and among those it still has to
add back; `Seats` is how often in the rooms made. The invariant says that a player who
waits, and no `add` of whom failed, is held at least once by the thread of his tier, and that holdings and seats
together do not exceed his requests. Every step of `handle_match` moves an occurrence
and makes none, a failed `add` drops one (`CountAppend` and its companions say what the operations of the list do to
the count). `HandInv` says what the thread holds at each of its steps, `TierInv` that it
meets only users of its own tier, so that the count of one tier is all there is.

**Connection.** `Kept(c)` is what every handler preserves on a connection that is set
up: in `_conns` while its socket is open, and a timer armed only while it is.
One lemma per handler, composed as the handlers call each other. `SettingUp` covers
the time before `EsTablishedInLoop`: not in the poller, and no task but
`NewConnection`'s own. The assumption about `EnableInactiveRelease` is needed: a
task that enables it, queued before and run after the release, arms a timer
for a connection that has gone. Under `Graceful` the same lemmas are taken further:
`Sound(c)` adds that an open connection is in the poller, monitored for writing exactly
when it has output, and that a closed one was released once and is out of it.
The write half of `HandleEvent` is the delicate case: the descriptor it was given
may have been released by the read half, and it must then find nothing to write.
`Graceful` is needed as well: section 6 says which schedules release twice without it.

**The pool of loops.** That the loads differ by at most one is not inductive: it does
not say whose turn it is. `EvenInv` does: all loops have the same load, except that the
ones the round robin has passed since it last came to the first have one more.
`StartInv` is the hand-over of the loop pointers, `IdInv` what each id is used for, `QueueInv`
where the tasks of a connection stand: establishing is queued at most once, on its own
loop, removing on the base loop, once or more often, and each only in the state it belongs to;
a connection that has ended and is still in `_conns` has its removal queued.

**The queues of the lessons.** A `BlockQueue` is the abstract buffer itself; what has to be
kept is its bound, which the loops around the two waits give, and that a worker
pushes a task it has. For the ring the buffer is what lies between the
consumer's and the producer's positions modulo the capacity. `Counted` says that the two
semaphores count the slots that are neither full nor in a thread's hands, and
`Placed` that each thread's index is the number of its items modulo the capacity, or about
to be wrapped. A push writes a slot outside what is held, which is the lemma about
remainders (`Division`, `Remainder`) that the proof rests on.

**Asio.** Per connection: a timer's handler is due exactly when the timer has passed and
nobody has dealt with it (`Timed`; `Ending` for the shutdown), and each stage has called
back what came before it (`Called`). The handler of the operation and that of the timer
both look at this, and the second one finds itself overtaken. The lemmas are per
handler; `handle_resolve_timeout` touches other connections too, as all share one resolver. A
failed pre-init leaves the connection shut down, and the runs it left behind change only how
often init called back, and whether an operation of the shutdown is cancelled.

**The servers.** *The pool* (`PoolInv`): a connection is in one place at a time, not yet accepted,
in an acceptor's hands, in a queue, with a worker, or done; `AtOnePlace` says so by a
map from connections to places, `LockHeld` that whoever is past the lock finds the one
pool made. *The phases of `EndPoint`* (`EndInv`): `ReadOk` says that what is still to be
read is the text of the request from a known position on, in each phase another one, so a
line is read whole or not at all wherever the input ends, and a body from its first byte on,
or from its second if the blank line took the first; `SendOk` that what was
written agrees with the length announced; `EndsOk` which pipe ends a request holds, by phase.
*The forking server* (`ForkInv`): of a client's question and its answer exactly one is on its way, in
the socket, in the worker's buffer or back (`Quiet`, `InFlight`); `HeldOk` who holds a
copy of the socket while the two forks are under way.

**The websocket connection.** Handlers are nested operators on a record of some thirty
fields, so each is first described once, as a relation between the record it got and
the one it leaves (`Terminated`, `ReadsFrames` and so on), and the steps of `Next` use these only.
The loop over a batch of items keeps an invariant of its own, by induction over the items
passed (`InductionOver`). `EndsInv` is one conjunction per end: `Flags` and `Phased` (which timers,
reads and writes belong to which state), `Lists`, `Handled` (open, fail and close calls
against the state) and `Sending` (one write under way, and a terminal frame is the last of the
queue). `CodesInv` adds `Announced`: a close frame anywhere between two ends, in a queue, on the
wire or in a buffer, carries the code its sender reports. `FlowInv` follows the messages:
what the application got, followed by what is left of the batch, of the read buffer, of the
wire, of the write not yet taken over and of the queue, is what the other application
sent (`Carries`, with `Counts`, `Arriving` and `Departing` for the cuts between them). `Greeted` and `Own` keep
the handshake apart from the messages.

**The game.** *Sessions*: `NotLost` needs `OneTimer` and `IdleTimed`: a session whose
timeout ran out still has its timer in `_tp`, so the next request takes the branch
that cancels and appends, and not the one that only arms. A cancelled timer's removal is
ready before the 0 ms timer that puts the session back has even expired, and `Safe`
says of one session what each handler does to this order. *Users*: names are unique among the rows
(`NamesInv`), and who waits in a queue other than that of his score has moved
(`TierInv`), which is why `del` finds the others; `KeptInv` says the same of the users a thread
holds as `StopForgets` of those who wait, so that `AddBack` brings back no one else; the sums are functions by recursion over
positions, and a result changes two summands. *Board*: `Run` is the length of an
initial segment of stones, so two runs in opposite directions and the last stone make a line of as many
cells (`FiveHasRow`), and conversely a full line that was not there before passes through the
last stone, where one of the four directions, or its reverse, finds it.

Only model-checked, and why:

- all liveness properties (`EveryTimerResolves`, `EveryTaskRuns`, `FinReleases`, `HandsAreEmptied`,
  `InsertReturns`, `ConnectionsEnd`, `WorkEnds`): fairness is beyond the prover;
- `TreesSound`, `TablesSound` and `ImplementsSet`: reading a tree or a table is
  recursive, and what a recursive definition computes for every tree needs induction over data;
- what is fed in chunks or built by folds in `Sequential` (`CodecsFaithful`, `ReadAsSent`,
  `SequencesHold`): induction over data too. Where a recursion runs over positions of a
  sequence (the batches of `WebSocket`, the sums and the queues of `Game`) the set of
  the positions at which a claim fails has a least element, and the proofs argue with
  that (`LeastOf`, `InductionOver`); folds with an operator parameter leave no such hold;
- `PeersAgree`, `ServesAll` and `GetsFurther`: not proved so far.

No module declares a RECURSIVE operator.

## 6. Where the code and its comments disagree

Two runs show a disagreement between a comment and the code; `PROJECT.json` quotes the
comments.

- `HandleEvent` continues on a channel that the read callback has destroyed (355):
  `Connection_dangling`.
- A player who leaves twice (by returning, or by closing a second page that was
  refused) destroys the room his opponent is in (`room.hpp` 304):
  `RoomManager_destroyed`.

The following are stated in the modules, as what a comment or document promises, and
do not hold either; TLC refutes each when it is added to its component's run, with
other constants where that is said.

- `PendingTaskWakes` (`EventLoop`): the eventfd is written with 0, so a task handed over
  while the loop sleeps waits for the next one-second tick (613). `EveryTaskRuns`
  still holds.
- `BlockedOnlyBelowTwo` (`Matcher`): a thread can block on a queue with two users,
  because `size` and `wait` lock separately (`matcher.hpp` 75).
- `RoomHasTwoUsers` (`Matcher`): a user who reloads the hall page and asks again is
  matched with himself (`server.hpp` 305 of the game).
- `StoppedMeansUnqueued` (`Matcher`): a user who stops while the thread has him in
  hand is put back.
- `PermanentInHall` (`Game`): `session.hpp` 62 says that a session is permanent while its
  user is in the hall or in a room; `info` (`server.hpp` 165) sets a timeout whoever the
  session belongs to.
- `ClosedOnce` (`WebSocket`): `connection.hpp` 66 says that the close handler is called
  exactly once; `close` may find the state open (`connection_impl.hpp` 317), be overtaken
  by `terminate` (1698-1748), which does not take its lock, and set the state back to closing
  (2124), and the connection ends a second time.
- `WithinLimit` (`Hybi13`): `connection.hpp` 552-553 promise `message_too_big` at the maximum
  message size; `hybi13.hpp` 439 and 457 compare the compressed size, and 812-819 and 530 append
  what it inflates to.
- `CompletedWhileReading` (`Iostream`): the comment at `iostream/connection.hpp` 661 says that
  `complete_read` must not be called when nothing is being read; after `in.bad()`
  (622-625) it is called a second time.
- `InitedOnce` (`AsioTransport`): `handle_pre_init` calls back with the error and does not
  return (`asio/connection.hpp` 483-485), and `tls.hpp` 245-251 call it twice.
- `AlwaysAccepting` (`AsioTransport`): when `create_connection` returns null (`endpoint_impl.hpp`
  86-90), `start_accept` gives up (`server_endpoint.hpp` 130-133, 186-189) and the endpoint listens and
  accepts no more.
- `BodyAsSent` (`HttpServer`): after bare CR line ends, `ReadLine` swallows the LF with which a
  body begins (`Util.hpp` 18-24).
- `EveryLinkIsServed` (`HttpServer`): `recv` has no timeout (`Util.hpp` 15 and, to look past a bare
  CR, 20; `Protocol.hpp` 182), so as many silent peers as there are workers stop the server.
- `NeverBlocks` (`IoServers`): the answer is written on a blocking socket (`selectServer.hpp` 80,
  `pollServer.hpp` 90, `epollServer.hpp` 71), so a client that does not read stops the one thread.
- `ZerosKept` (`AlgorithmSequences`): `resize(n)` fills up with `'\0'` (`String.hpp` 181-199), and the
  next `reserve` copies with `strcpy` (173) what is before it.
- `NeverBoth` (`WebSocket`, with `Responses <- AllResponses`): `docs/handlers.dox` 77 says "Either
  open or fail will be called for each connection. Never both."; after a failed
  extension negotiation the client calls `terminate` and goes on to call the open
  handler (`connection_impl.hpp` 1629). The `WebSocket` run leaves that response out, so
  that its properties speak of everything else.
- `TextEndsOnCodePoint` (`Hybi13`): `finalize_message` looks at the opcode of the last frame
  (`hybi13.hpp` 537), which is `CONTINUATION` when a text came in several, and skips its
  UTF-8 test then.
- `RefusedForItsSize` (`HttpParser`): the bytes of an unfinished line are counted again
  with every chunk, so a header below the limit is refused if it comes in many.
- `LimitsOnlyIfOffered` (`Deflate`): a server may answer with a client window that the
  client did not offer to limit.
- `SubprotocolIsKnown` (`Handshake`): the client does not keep the subprotocol that the
  server chose.
- `TimeoutIsDelay` (`TimerWheel`, with a delay longer than the ring in `Timeouts`): the slot is
  taken modulo the capacity at 527, so they fire early; the theorems assume
  `InRange`. `HandKeepsTime`: several expirations read at once move the hand
  by one slot only.
- `InactiveHasTimer` (`Connection`, with `"Enable"` in `UserTasks`): enable, cancel and
  enable again leaves the cancelled task on the wheel.
- `OneResultPerGame` and `NewRoomIsRegistered` (`RoomManager`): a move after the end of
  the game settles again; `insert` keeps an old entry of `_users`.

Observations that a property is restricted by, or that stay outside the models:

- `ReleasedAtMostOnce` holds for a peer that closes in an orderly way and fails for
  resets (a failed read releases, and the second half of `HandleEvent` releases
  again) and for a `Shutdown` of another thread that is run after a release; hence
  the constants of `Connection_close`.
- The open hash table counts only the keys it holds when it decides to grow (`HashTable.hpp` 57), so
  insertions and deletions can use up the empty slots and `find` then goes round for
  ever: `Hang` is reached in `Containers`, and `SearchEnds` is claimed for tables without deleted
  slots only. `zhc_hash::HashTable::insert` answers `false` for a new key too (528), and its
  `erase` and `_reverse_iterator::operator--` of `RBTree.hpp` do not compile when used.
- `Socket::Recv` reads `errno` when `recv` returned 0 (231-242), so an end of stream is taken for
  "no data" as long as a stale `EAGAIN` or `EINTR` stands there; the level-triggered poller
  reports it again. `FinReleases` has this as its premise.
- `matcher::add` does nothing when it cannot read the user (`matcher.hpp` 127-131), and neither
  `handle_match` (85, 90, 95, 100-101) nor the server notices: the player waits for nothing.
  `NoPlayerForgotten` excepts him.
- `matcher::del` looks in the queue of the user's present score and misses a request
  made with another one, or of a user whom the thread has in hand and puts back. A
  negative score, written as `UInt64` (`db.hpp` 157), makes `asInt` throw.
- A negative `Content-Length` lets `my_Http` read to the end of the input and drop the request
  (`Protocol.hpp` 180). The length header it sends is spelt `Conten-Length` (367), and the size of a file is
  an `int` (491-492), wrong from 2 GiB on.
- `close` cuts a long reason at a byte, perhaps inside a character
  (`connection_impl.hpp` 312), and the codes `omit_handshake` and `force_tcp_drop` of
  `close.hpp` are refused as invalid before they can take effect.
- The brackets of an IPv6 host are lost on the way through the Host header.
- `sha1` counts the bits of a message in one word; `DigestsPadded` is bounded below that.
- `bitset::test` masks with the complement of the bit (`BitSet.hpp`), so it answers for
  the other bits of the byte.
- If the second fork of `lesson10` fails the child serves the connection itself, while
  the server waits for the child.
- `shared_mutex_ptr` (`SmartPtr.hpp` 175, "the locked smart pointer") locks when it increments
  its count and not when it decrements and tests it (198, 214).

## 7. Plan

What is left, in this order.

1. Proofs: `Buffer` holds what was written; what two ends agree on in `EndpointSettings`
   and the close codes of `Handshake`.
2. The composition of sessions, matcher and rooms as one server, with a tier that
   follows the score.
3. `UpgradeInLoop`, and two connections that reuse one descriptor number.
4. Interrupts of websocketpp connections, and `run`, `stop` and `perpetual` of its endpoint.

Runs that show a disagreement gave way to runs of new components; their statements
stay in the modules and in section 6.

## 8. Not modelled

In the reactor: creating and binding sockets, `Any` (a type-erased value),
`UpgradeInLoop`, several connections sharing descriptor numbers, a connected callback
that shuts down (no program of the repository has one), tasks that hold a bare
`this` after the last `shared_ptr` has gone (callers are taken to keep theirs). In the
game: the data race of `online_game`'s unlocked lookups (`online.hpp` 35), which are
taken as atomic; the construction of `matcher`, whose threads start before its last
members are initialised; SQL and JSON texts; static pages; logging. In websocketpp:
the rounds of md5 and sha1 (the map names the lines around them), an interleaving inside
`terminate`, zlib and OpenSSL (external), logging, message and random
objects, the debug and stub transports of its tests, its examples. The thread pools of
`lesson8` and `lesson9` change a `std::queue` without the lock their workers take, so that
any outcome is possible; the same pool with the lock is in `HttpServer`. `SIGPIPE`, raised by a
write to a socket that was already reset, is left out of the servers of the lessons. Fixed
`char buffer[1024]`s of the lessons are bounds of the models, not contents. The bit set
and the Bloom filter keep no state that a sequence of calls could get wrong beyond
what section 6 notes. `auto_ptr`, `unique_ptr` and `weak_ptr` have no count of their own.
The exercises of `lesson1`-`lesson5` and `lesson9` are one-shot demonstrations of system
calls; `Reactor_http/Test*`, `game/example`, `WebSocket` and `Https_` are drafts and
examples. `PROJECT.json` lists every component with its status and every hazard with
the properties that would catch it.
