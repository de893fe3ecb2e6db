----------------------------- MODULE Connection -----------------------------
(***************************************************************************)
(* The life of one Connection of Reactor_http/source/server.hpp (807-1021) *)
(* with its Channel, the loop that owns it, its inactivity timer and the   *)
(* TcpServer that keeps it alive in _conns.                                *)
(*                                                                         *)
(* The loop's thread runs one task, timer or event at a time, but          *)
(* Channel::HandleEvent is two steps: after the read callback it goes on   *)
(* to test the other bits of _revents, and by then the connection may have *)
(* been released, even destroyed - at once when the server has one loop,   *)
(* by the base loop's thread when it has several.  An event also waits in  *)
(* the batch of epoll_wait while earlier channels, the timer's among them, *)
(* are served.                                                             *)
(*                                                                         *)
(* Data is counted in units; what a handler does to the connection is an   *)
(* operator on the record conn, so that nested calls compose as in C++.    *)
(***************************************************************************)
EXTENDS Naturals, Sequences, FiniteSets

CONSTANTS OnBase,       \* whether its loop may be _base_loop, another, or either
          Inactivity,   \* TRUE: TcpServer::EnableInactiveRelease was called
          PeerEnds,     \* how the peer may end: subset of {"fin", "reset"}
          Callbacks,    \* what the message callback may do, see Message
          UserTasks,    \* what other threads may ask for, see RunTask
          MaxCalls,     \* bound on those requests
          MaxData       \* bound on the data the peer sends

ASSUME OnBaseAssumption == OnBase \subseteq BOOLEAN
ASSUME InactivityAssumption == Inactivity \in BOOLEAN
ASSUME PeerEndsAssumption == PeerEnds \subseteq {"fin", "reset"}
ASSUME CallbacksAssumption == Callbacks \subseteq {"ignore", "reply", "echo"}
ASSUME UserTasksAssumption == UserTasks \subseteq {"Send", "Shutdown", "Enable", "Cancel"}
ASSUME BoundsAssumption == MaxCalls \in Nat /\ MaxData \in Nat

VARIABLES conn,     \* the Connection object, a record
          tasks,    \* _tasks of its loop: the tasks bound to this connection
          pc,       \* where the loop's thread is: "idle", "polled" or "rest" of
                    \* Channel::HandleEvent, or "crashed"
          revents,  \* _revents of the batch being served
          peer,     \* "none", "open", "fin" or "reset"
          unread,   \* data in the socket's receive buffer
          sent,     \* data the peer has sent
          calls,    \* requests other threads have made
          errno     \* of the loop's thread: "AGAIN" (EAGAIN or EINTR) or "other"

vars == <<conn, tasks, pc, revents, peer, unread, sent, calls, errno>>

Status == {"DISCONNECTED", "CONNECTING", "CONNECTED", "DISCONNECTING"}

ConnType ==
  [base : BOOLEAN,                          \* _loop is &_base_loop
   statu : Status,
   in : Nat, out : Nat,                     \* _in_buffer, _out_buffer
   events : SUBSET {"IN", "OUT"},           \* _channel._events
   added : BOOLEAN,                         \* in the poller's _channels
   open : BOOLEAN,                          \* the socket
   inactive : BOOLEAN,                      \* _enable_inactive_release
   timer : {"none", "armed", "cancelled"},  \* its entry in the wheel
   managed : BOOLEAN,                       \* in _conns
   removing : Nat,                          \* RemoveConnectionInLoop tasks
   releases : Nat]                          \* history: ReleaseInLoop calls

TypeOK ==
  /\ conn \in ConnType
  /\ tasks \in Seq({"Establish", "Send", "Shutdown", "Enable", "Cancel"})
  /\ pc \in {"idle", "polled", "rest", "crashed"}
  /\ revents \subseteq {"IN", "OUT", "ERR", "HUP"}
  /\ peer \in {"none", "open", "fin", "reset"}
  /\ unread \in 0 .. MaxData
  /\ sent \in 0 .. MaxData
  /\ calls \in 0 .. MaxCalls
  /\ errno \in {"AGAIN", "other"}

Init ==
  /\ \E base \in OnBase :
       conn = [base |-> base, statu |-> "CONNECTING", in |-> 0, out |-> 0, events |-> {},
               added |-> FALSE, open |-> TRUE, inactive |-> FALSE, timer |-> "none",
               managed |-> FALSE, removing |-> 0, releases |-> 0]
  /\ tasks = <<>>
  /\ pc = "idle"
  /\ revents = {}
  /\ peer = "none"
  /\ unread = 0
  /\ sent = 0
  /\ calls = 0
  /\ errno = "other"

\* Somebody holds a shared_ptr: _conns, a RemoveConnectionInLoop task, or the
\* thread that has made a request (it keeps its PtrConnection).
Exists == conn.managed \/ conn.removing > 0 \/ calls > 0

-----------------------------------------------------------------------------
\* The handlers, as operators from a connection to a connection.

\* Channel::EnableRead, EnableWrite, DisableWrite: set the bit and Update.
Enable(c, bit) == [c EXCEPT !.events = @ \union {bit}, !.added = TRUE]
DisableWrite(c) == [c EXCEPT !.events = @ \ {"OUT"}, !.added = TRUE]

EsTablishedInLoop(c) == Enable([c EXCEPT !.statu = "CONNECTED"], "IN")

\* RemoveConnection at the end of ReleaseInLoop: immediate on the base loop,
\* a task in its queue, holding a shared_ptr, otherwise.
RemoveConnection(c) ==
  IF c.base THEN [c EXCEPT !.managed = FALSE] ELSE [c EXCEPT !.removing = @ + 1]

\* CancelInactiveReleaseInLoop: the task stays on the wheel, marked.
CancelInactiveRelease(c) ==
  [c EXCEPT !.inactive = FALSE,
            !.timer = IF @ = "none" THEN "none" ELSE "cancelled"]

\* Variant: the timer is left armed.
ReleaseInLoopKeepsTimer(c) ==
  RemoveConnection([c EXCEPT !.statu = "DISCONNECTED", !.added = FALSE, !.open = FALSE,
                             !.releases = @ + 1])

ReleaseInLoop(c) ==
  LET closed == [c EXCEPT !.statu = "DISCONNECTED", !.added = FALSE, !.open = FALSE,
                          !.releases = @ + 1]
  IN  RemoveConnection(IF c.timer = "none" THEN closed ELSE CancelInactiveRelease(closed))

\* EnableInactiveReleaseInLoop: an entry that is there is only refreshed.
EnableInactiveRelease(c) ==
  [c EXCEPT !.inactive = TRUE,
            !.timer = IF @ = "none" THEN "armed" ELSE @]

SendInLoop(c) ==
  IF c.statu = "DISCONNECTED" THEN c
  ELSE LET d == [c EXCEPT !.out = @ + 1]
       IN  IF "OUT" \in d.events THEN d ELSE Enable(d, "OUT")

\* Variant: whatever is left is dropped.
FlushOrReleaseNow(c) == ReleaseInLoop(c)

\* The end of ShutdownInLoop: send what is left, or release.
FlushOrRelease(c) ==
  IF c.out = 0 THEN ReleaseInLoop(c)
  ELSE IF "OUT" \in c.events THEN c ELSE Enable(c, "OUT")

Disconnecting(c) == [c EXCEPT !.statu = "DISCONNECTING"]

\* The message callback of the user, called when there is input: it may wait
\* for more, answer, or answer and shut down as EchoServer::OnMessage does.
\* Having consumed the input, its own Shutdown calls no callback again.
Message(c, cb) ==
  LET answered == SendInLoop([c EXCEPT !.in = 0]) IN
  CASE c.in = 0 \/ cb = "ignore" -> c
    [] c.in > 0 /\ cb = "reply"  -> answered
    [] c.in > 0 /\ cb = "echo"   -> FlushOrRelease(Disconnecting(answered))

ShutdownInLoop(c, cb) == FlushOrRelease(Message(Disconnecting(c), cb))

HandleClose(c, cb) == ReleaseInLoop(Message(c, cb))

\* Variant: the end of the stream is taken for "no data yet".
HandleReadFailedIgnored(c, cb) == c

\* HandleRead after recv gave n units, and after it failed.
HandleRead(c, n, cb) == Message([c EXCEPT !.in = @ + n], cb)
HandleReadFailed(c, cb) == ShutdownInLoop(c, cb)

\* Variants: one more than was sent leaves the buffer; a pending close does not
\* wait for the rest; write monitoring stops after the first send.
HandleWriteTooMuch(c, n) ==
  LET d == [c EXCEPT !.out = @ - n - 1] IN
  IF d.out = 0 /\ d.statu = "DISCONNECTING" THEN ReleaseInLoop(DisableWrite(d)) ELSE d
HandleWriteOnce(c, n) ==
  LET d == [c EXCEPT !.out = @ - n] IN
  IF d.statu = "DISCONNECTING" THEN ReleaseInLoop(DisableWrite(d))
  ELSE IF d.out > 0 THEN d ELSE DisableWrite(d)
HandleWriteDisables(c, n) ==
  LET d == DisableWrite([c EXCEPT !.out = @ - n]) IN
  IF d.out = 0 /\ d.statu = "DISCONNECTING" THEN ReleaseInLoop(d) ELSE d

\* HandleWrite after send took n units, and after it failed.
HandleWrite(c, n) ==
  LET d == [c EXCEPT !.out = @ - n] IN
  IF d.out > 0 THEN d
  ELSE IF d.statu = "DISCONNECTING" THEN ReleaseInLoop(DisableWrite(d))
  ELSE DisableWrite(d)
HandleWriteFailed(c, cb) == ReleaseInLoop(Message(c, cb))

-----------------------------------------------------------------------------
\* TcpServer::NewConnection, on the base loop: callbacks, the inactivity timer
\* and EsTablished through RunInLoop, then _conns.
NewConnection ==
  /\ peer = "none"
  /\ peer' = "open"
  /\ LET c == [conn EXCEPT !.managed = TRUE] IN
     IF conn.base
       THEN /\ conn' = EsTablishedInLoop(IF Inactivity THEN EnableInactiveRelease(c) ELSE c)
            /\ UNCHANGED tasks
       ELSE /\ conn' = c
            /\ tasks' = (IF Inactivity THEN <<"Enable">> ELSE <<>>) \o <<"Establish">>
  /\ UNCHANGED <<pc, revents, unread, sent, calls, errno>>

\* The peer sends, closes or resets.
PeerSends ==
  /\ peer = "open"
  /\ sent < MaxData
  /\ sent' = sent + 1
  /\ unread' = unread + 1
  /\ UNCHANGED <<conn, tasks, pc, revents, peer, calls, errno>>

PeerEndsWith(how) ==
  /\ peer = "open"
  /\ peer' = how
  /\ unread' = IF how = "reset" THEN 0 ELSE unread
  /\ UNCHANGED <<conn, tasks, pc, revents, sent, calls, errno>>

\* Another thread, holding a PtrConnection of its own, calls Send, Shutdown,
\* EnableInactiveRelease or CancelInactiveRelease.
UserCalls(task) ==
  /\ conn.managed \/ calls > 0
  /\ conn.statu # "CONNECTING"
  /\ calls < MaxCalls
  /\ calls' = calls + 1
  /\ tasks' = Append(tasks, task)
  /\ UNCHANGED <<conn, pc, revents, peer, unread, sent, errno>>

-----------------------------------------------------------------------------
\* RunAllTask of the connection's loop.
RunTask ==
  /\ pc = "idle"
  /\ tasks # <<>>
  /\ tasks' = Tail(tasks)
  /\ \/ Head(tasks) = "Establish" /\ conn' = EsTablishedInLoop(conn)
     \/ Head(tasks) = "Send" /\ conn' = SendInLoop(conn)
     \/ Head(tasks) = "Shutdown" /\ \E cb \in Callbacks : conn' = ShutdownInLoop(conn, cb)
     \/ Head(tasks) = "Enable" /\ conn' = EnableInactiveRelease(conn)
     \/ Head(tasks) = "Cancel" /\ conn' = CancelInactiveRelease(conn)
  /\ UNCHANGED <<pc, revents, peer, unread, sent, calls, errno>>

\* The timer's channel is served, alone or before this connection's channel in
\* the same batch.  The timeout is longer than the gap between the two tasks
\* of NewConnection.  ~TimerTask removes the entry when the callback is done.
TimerFires ==
  /\ pc \in {"idle", "polled"}
  /\ conn.timer = "armed"
  /\ conn.statu # "CONNECTING"
  /\ conn' = [ReleaseInLoop(conn) EXCEPT !.timer = "none"]
  /\ UNCHANGED <<tasks, pc, revents, peer, unread, sent, calls, errno>>

CancelledTimerGoes ==
  /\ pc \in {"idle", "polled"}
  /\ conn.timer = "cancelled"
  /\ conn' = [conn EXCEPT !.timer = "none"]
  /\ UNCHANGED <<tasks, pc, revents, peer, unread, sent, calls, errno>>

\* What epoll reports: level-triggered, errors and hang-ups unasked.
Ready ==
  {e \in {"IN", "OUT", "ERR", "HUP"} :
     \/ e = "IN" /\ "IN" \in conn.events /\ (unread > 0 \/ peer \in {"fin", "reset"})
     \/ e = "OUT" /\ "OUT" \in conn.events
     \/ e \in {"ERR", "HUP"} /\ peer = "reset"}

Poll ==
  /\ pc = "idle"
  /\ conn.added /\ conn.open
  /\ Ready # {}
  /\ revents' = Ready
  /\ pc' = "polled"
  /\ UNCHANGED <<conn, tasks, peer, unread, sent, calls, errno>>

\* A call that the thread makes for another channel fails, or epoll_wait is
\* interrupted: errno is EAGAIN or EINTR, or another error takes its place.
\* A call that succeeds leaves it.
ErrnoChanges ==
  /\ pc # "crashed"
  /\ errno' \in {"AGAIN", "other"}
  /\ UNCHANGED <<conn, tasks, pc, revents, peer, unread, sent, calls>>

\* Socket::Recv gives -1 on a closed descriptor and on a reset, which set errno.
\* At the end of the stream recv gives 0 and leaves errno: Socket::Recv looks
\* at it all the same, and takes the end for "no data yet" when it is EAGAIN
\* or EINTR from an earlier call.
RecvFails ==
  \/ ~conn.open
  \/ unread = 0 /\ (peer = "reset" \/ (peer = "fin" /\ errno = "other"))

\* What it gives otherwise, IN being reported.
Received == IF unread = 0 THEN {0} ELSE 1 .. unread

\* What send takes, OUT being reported.
Sent(out) == IF out = 0 THEN {0} ELSE 1 .. out

\* Channel::HandleEvent, first part: the read callback.
HandleEventRead ==
  /\ pc = "polled"
  /\ Exists
  /\ pc' = "rest"
  /\ \/ /\ "IN" \notin revents
        /\ UNCHANGED <<conn, unread, errno>>
     \/ /\ "IN" \in revents
        /\ RecvFails
        /\ \E cb \in Callbacks : conn' = HandleReadFailed(conn, cb)
        /\ errno' = "other"
        /\ UNCHANGED unread
     \/ /\ "IN" \in revents
        /\ ~RecvFails
        /\ \E n \in Received, cb \in Callbacks :
             conn' = HandleRead(conn, n, cb) /\ unread' = unread - n
        /\ UNCHANGED errno
  /\ UNCHANGED <<tasks, revents, peer, sent, calls>>

\* Channel::HandleEvent, second part: one of the write, error and close
\* callbacks.
HandleEventRest ==
  /\ pc = "rest"
  /\ Exists
  /\ pc' = "idle"
  /\ revents' = {}
  /\ \/ /\ "OUT" \in revents
        /\ conn.open
        /\ \E n \in Sent(conn.out) : conn' = HandleWrite(conn, n)
        /\ UNCHANGED errno
     \/ /\ "OUT" \in revents
        /\ ~conn.open \/ peer # "open"
        /\ \E cb \in Callbacks : conn' = HandleWriteFailed(conn, cb)
        /\ errno' = "other"
     \/ /\ "OUT" \notin revents
        /\ revents \intersect {"ERR", "HUP"} # {}
        /\ \E cb \in Callbacks : conn' = HandleClose(conn, cb)
        /\ UNCHANGED errno
     \/ /\ revents \intersect {"OUT", "ERR", "HUP"} = {}
        /\ UNCHANGED <<conn, errno>>
  /\ UNCHANGED <<tasks, peer, unread, sent, calls>>

\* HandleEvent of a Channel that has been destroyed.  Calling one of its
\* callbacks ends in the bad_weak_ptr of shared_from_this or in worse; reading
\* _revents alone may find the old bits, or any others.
HandleEventDangling ==
  /\ pc \in {"polled", "rest"}
  /\ ~Exists
  /\ \/ pc' = "crashed"
     \/ pc = "rest" /\ revents \intersect {"OUT", "ERR", "HUP"} = {} /\ pc' = "idle"
  /\ revents' = {}
  /\ UNCHANGED <<conn, tasks, peer, unread, sent, calls, errno>>

\* The base loop, when it is another thread, runs the task of RemoveConnection.
RemoveConnectionInLoop ==
  /\ conn.removing > 0
  /\ conn' = [conn EXCEPT !.removing = @ - 1, !.managed = FALSE]
  /\ UNCHANGED <<tasks, pc, revents, peer, unread, sent, calls, errno>>

-----------------------------------------------------------------------------
\* What the two threads do on their own.
LoopStep ==
  \/ RunTask
  \/ Poll
  \/ HandleEventRead
  \/ HandleEventRest
  \/ HandleEventDangling

Next ==
  \/ NewConnection
  \/ PeerSends
  \/ \E how \in PeerEnds : PeerEndsWith(how)
  \/ \E t \in UserTasks : UserCalls(t)
  \/ TimerFires
  \/ CancelledTimerGoes
  \/ ErrnoChanges
  \/ LoopStep
  \/ RemoveConnectionInLoop

Spec == Init /\ [][Next]_vars

\* EventLoop::Start never stops polling and running tasks; so does the base
\* loop.  Nothing is assumed of the peer, of other threads or of the timer.
FairSpec == Spec /\ WF_vars(LoopStep) /\ WF_vars(RemoveConnectionInLoop)

-----------------------------------------------------------------------------
\* ReleaseInLoop runs at most once in the life of a connection (so the user's
\* closed callback does, and Channel::Remove never meets a descriptor number
\* that has been given to another connection).
ReleasedAtMostOnce == conn.releases <= 1

\* The poller watches what it has to, whichever of Send, Shutdown, HandleRead
\* and HandleWrite came in which order: no output is stranded, for while the
\* connection lives and _out_buffer is not empty its socket is open and
\* monitored for writing; and a closed descriptor is not in the poller, while a
\* live one always is, so the number in _channels is never that of somebody
\* else's socket.
WatchedAsNeeded ==
  /\ conn.out > 0 /\ conn.statu # "DISCONNECTED" =>
       conn.open /\ conn.added /\ "OUT" \in conn.events
  /\ conn.statu # "CONNECTING" => (conn.added <=> conn.open)

\* While the peer is there the connection is released only when all output
\* has been sent: Shutdown is graceful.
CloseFlushes ==
  [][conn'.releases > conn.releases /\ peer = "open" => conn'.out = 0]_vars

\* The timer's callback is ReleaseInLoop bound to a bare this: as long as it
\* is armed the connection exists and has not been released.
ArmedTimerHasTarget == conn.timer = "armed" => Exists /\ conn.open

\* When the peer closes, the connection is released and leaves _conns, unless
\* errno keeps (or keeps getting) a value that Socket::Recv takes for "no data
\* yet": an end of stream that was misread once is reported again, and read
\* right as soon as errno is another.
FinReleases ==
  <>[](errno = "other") =>
    (peer = "fin" ~> pc = "crashed" \/ (conn.releases > 0 /\ ~conn.managed))

\* What comments of the code promise and the code does not keep:

\* While HandleEvent runs, its Channel exists.
HandlerHasChannel == pc \in {"polled", "rest"} => Exists

\* A connection with inactive release enabled has a timer that will release it.
InactiveHasTimer == conn.inactive /\ conn.open => conn.timer = "armed"

=============================================================================
