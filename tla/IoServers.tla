----------------------------- MODULE IoServers ------------------------------
(***************************************************************************)
(* The servers of lesson_IO: the echo servers on select, poll and epoll,   *)
(* and the calculator on the Reactor, machines that share no state.        *)
(***************************************************************************)
EXTENDS Integers, Sequences, FiniteSets, FiniteSetsExt, CalcProtocol

-----------------------------------------------------------------------------
(***************************************************************************)
(* The echo servers of lesson_IO on select, poll and epoll: one thread and *)
(* blocking sockets, read only when the kernel says they are readable.     *)
(* select and poll keep a table of slots, of which the first is the        *)
(* listening socket's.  The kernel gives the lowest free descriptor.       *)
(***************************************************************************)
CONSTANTS Fdnum,      \* slots of the table: 1024 for select, 2048 for poll
          MaxFd,      \* bound on the descriptors
          MaxBytes,   \* bound on the bytes waiting in a socket
          MaxUnread   \* answers the kernel holds for a client that does not read

VARIABLES kind,       \* which of the three servers
          kern,       \* the kernel: open sockets, what waits in them and for their clients, connections to accept
          srv,        \* fdarray or _rfds, the answer of the wait, the loop's position
          blocked,    \* the thread waits in recv or accept
          refused     \* history: sockets accepted when the table was full
echoVars == <<kind, kern, srv, blocked, refused>>

Listen == 1                       \* _sock
Fds == Listen .. MaxFd
Free == -1
SlotNumbers == 1 .. Fdnum

Readable(f) == f \in kern.open /\ IF f = Listen THEN kern.backlog > 0 ELSE kern.bytes[f] > 0 \/ kern.eof[f]

EchoInit ==
  /\ kind \in {"select", "poll", "epoll"}
  /\ kern = [open |-> {Listen}, backlog |-> 0, bytes |-> [f \in Fds |-> 0], eof |-> [f \in Fds |-> FALSE],
             unread |-> [f \in Fds |-> 0]]
  /\ srv = [table |-> [s \in SlotNumbers |-> IF s = 1 THEN Listen ELSE Free],
            revents |-> [s \in SlotNumbers |-> FALSE],   \* poll
            rfds |-> {},                                 \* select and, as _revs, epoll
            watched |-> {Listen},                        \* epoll
            answering |-> 0,                             \* the socket whose answer is to be written
            at |-> 0]                                    \* 0 when waiting
  /\ blocked = FALSE /\ refused = {}

-----------------------------------------------------------------------------
\* The clients.
Connect ==
  /\ kern.backlog < 2
  /\ kern' = [kern EXCEPT !.backlog = @ + 1]
  /\ UNCHANGED <<kind, srv, blocked, refused>>

Send(f) ==
  /\ f \in kern.open \ {Listen} /\ ~kern.eof[f] /\ kern.bytes[f] < MaxBytes
  /\ kern' = [kern EXCEPT !.bytes[f] = @ + 1]
  /\ UNCHANGED <<kind, srv, blocked, refused>>

\* Closed or reset by the client: recv returns 0 or -1, with the same effect.
Quit(f) ==
  /\ f \in kern.open \ {Listen} /\ ~kern.eof[f]
  /\ kern' = [kern EXCEPT !.eof[f] = TRUE]
  /\ UNCHANGED <<kind, srv, blocked, refused>>

ReadAnswers(f) ==
  /\ kern.unread[f] > 0
  /\ kern' = [kern EXCEPT !.unread[f] = 0]
  /\ UNCHANGED <<kind, srv, blocked, refused>>

-----------------------------------------------------------------------------
\* The kernel's side of accept and close.
NewFd == Min(Fds \ kern.open)
Accepted == [kern EXCEPT !.open = @ \union {NewFd}, !.backlog = @ - 1,
                         !.bytes[NewFd] = 0, !.eof[NewFd] = FALSE, !.unread[NewFd] = 0]
Closed(f) == [kern EXCEPT !.open = @ \ {f}, !.unread[f] = 0]
Read(f) == [kern EXCEPT !.bytes[f] = 0]

FreeSlots == {s \in SlotNumbers : srv.table[s] = Free}

\* write and send wait for room while the client is there.
CanWrite(f) == kern.unread[f] < MaxUnread \/ kern.eof[f]
Wrote(f) == [kern EXCEPT !.unread[f] = IF kern.eof[f] THEN 0 ELSE @ + 1]

\* recv of a socket with nothing in it, accept without a connection.
Block == blocked' = TRUE /\ UNCHANGED <<kind, kern, srv, refused>>

Go(k, s) == kern' = k /\ srv' = s /\ UNCHANGED <<kind, blocked, refused>>
Step(s) == [s EXCEPT !.at = (@ + 1) % (Fdnum + 1)]
Runs == srv.at > 0 /\ ~blocked /\ srv.answering = 0

-----------------------------------------------------------------------------
\* SelectServer
SelectWait ==
  LET rfds == {f \in {srv.table[s] : s \in SlotNumbers} : Readable(f)} IN
    /\ kind = "select" /\ srv.at = 0 /\ rfds # {}
    /\ Go(kern, [srv EXCEPT !.rfds = rfds, !.at = 1])

SelectAccept ==
  LET s == Min(FreeSlots) IN
    IF FreeSlots = {}
    THEN /\ kern' = Accepted /\ srv' = Step(srv) /\ refused' = refused \union {NewFd}
         /\ UNCHANGED <<kind, blocked>>
    ELSE Go(Accepted, Step([srv EXCEPT !.table[s] = NewFd]))

\* recv gave something; the answer is written next.
SelectRecver(f) ==
  IF kern.bytes[f] > 0 THEN Go(Read(f), [srv EXCEPT !.answering = f])
  ELSE Go(Closed(f), Step([srv EXCEPT !.table[srv.at] = Free]))

SelectWrite ==
  LET f == srv.answering IN
    /\ kind = "select" /\ f # 0 /\ CanWrite(f)
    /\ Go(Wrote(f), Step([srv EXCEPT !.answering = 0]))

SelectHandler ==
  LET f == srv.table[srv.at] IN
    /\ kind = "select" /\ Runs
    /\ \/ f \notin srv.rfds /\ Go(kern, Step(srv))
       \/ f \in srv.rfds /\ ~Readable(f) /\ Block
       \/ f \in srv.rfds /\ Readable(f) /\ f = Listen /\ Fds # kern.open /\ SelectAccept
       \/ f \in srv.rfds /\ Readable(f) /\ f # Listen /\ SelectRecver(f)

-----------------------------------------------------------------------------
\* pollServer
PollWait ==
  LET revents == [s \in SlotNumbers |-> srv.table[s] # Free /\ Readable(srv.table[s])] IN
    /\ kind = "poll" /\ srv.at = 0 /\ \E s \in SlotNumbers : revents[s]
    /\ Go(kern, [srv EXCEPT !.revents = revents, !.at = 1])

PollAccept ==
  LET s == Min(FreeSlots) IN
    IF FreeSlots = {}
    THEN /\ kern' = Accepted /\ srv' = Step(srv) /\ refused' = refused \union {NewFd}
         /\ UNCHANGED <<kind, blocked>>
    ELSE Go(Accepted, Step([srv EXCEPT !.table[s] = NewFd]))

PollRecver(f) ==
  IF kern.bytes[f] > 0 THEN Go(Read(f), [srv EXCEPT !.answering = f])
  ELSE Go(Closed(f), Step([srv EXCEPT !.table[srv.at] = Free, !.revents[srv.at] = FALSE]))

PollWrite ==
  LET f == srv.answering IN
    /\ kind = "poll" /\ f # 0 /\ CanWrite(f)
    /\ Go(Wrote(f), Step([srv EXCEPT !.answering = 0]))

PollHandler ==
  LET f == srv.table[srv.at] IN
    /\ kind = "poll" /\ Runs
    /\ \/ (f = Free \/ ~srv.revents[srv.at]) /\ Go(kern, Step(srv))
       \/ f # Free /\ srv.revents[srv.at] /\ ~Readable(f) /\ Block
       \/ f = Listen /\ srv.revents[srv.at] /\ Readable(f) /\ Fds # kern.open /\ PollAccept
       \/ f \notin {Free, Listen} /\ srv.revents[srv.at] /\ Readable(f) /\ PollRecver(f)

-----------------------------------------------------------------------------
\* epollServer: the events come in any order, and not always all of them.
EpollWait ==
  \E rfds \in SUBSET {f \in srv.watched : Readable(f)} \ {{}} :
    /\ kind = "epoll" /\ srv.at = 0
    /\ Go(kern, [srv EXCEPT !.rfds = rfds, !.at = 1])

EpollTook(f) == [srv EXCEPT !.rfds = @ \ {f}, !.at = IF srv.rfds = {f} THEN 0 ELSE 1]
EpollAccept == Go(Accepted, [EpollTook(Listen) EXCEPT !.watched = @ \union {NewFd}])
EpollReader(f) ==
  IF kern.bytes[f] > 0 THEN Go(Read(f), [srv EXCEPT !.answering = f])
  ELSE Go(Closed(f), [EpollTook(f) EXCEPT !.watched = @ \ {f}])

EpollSend ==
  LET f == srv.answering IN
    /\ kind = "epoll" /\ f # 0 /\ CanWrite(f)
    /\ Go(Wrote(f), [EpollTook(f) EXCEPT !.answering = 0])

EpollHandler ==
  /\ kind = "epoll" /\ Runs
  /\ \E f \in srv.rfds :
       \/ ~Readable(f) /\ Block
       \/ Readable(f) /\ f = Listen /\ Fds # kern.open /\ EpollAccept
       \/ Readable(f) /\ f # Listen /\ EpollReader(f)

EchoNext ==
  \/ Connect \/ \E f \in Fds : Send(f) \/ Quit(f) \/ ReadAnswers(f)
  \/ SelectWait \/ SelectHandler \/ SelectWrite \/ PollWait \/ PollHandler \/ PollWrite
  \/ EpollWait \/ EpollHandler \/ EpollSend

EchoSpec == EchoInit /\ [][EchoNext]_echoVars

-----------------------------------------------------------------------------
(* The only thread never waits for input: what it reads or accepts is      *)
(* there, although descriptors are closed and given again between the wait *)
(* and the use (handler, Recver, Accept).  It may wait to write an answer, *)
(* and then only for a connected client that has not read earlier ones.    *)
WaitsOnlyToAnswer ==
  /\ ~blocked
  /\ srv.answering # 0 => srv.answering \in kern.open \ refused

(* That the thread never waits for one client is false of the code: write  *)
(* and send are called on blocking sockets (Recver, reader), and a client  *)
(* that does not read its answers stops the server for all.                *)
NeverBlocks == ~blocked /\ (srv.answering # 0 => CanWrite(srv.answering))

(* Every open connection is watched, once, and nothing else is; but a      *)
(* connection accepted when the table is full is neither watched nor       *)
(* closed (Accept, Recver).                                                *)
EachWatchedOnce ==
  LET connected == kern.open \ refused IN
    IF kind = "epoll" THEN srv.watched = connected
    ELSE /\ {srv.table[s] : s \in SlotNumbers} \ {Free} = connected
         /\ Cardinality(FreeSlots) = Fdnum - Cardinality(connected)

-----------------------------------------------------------------------------
(***************************************************************************)
(* The calculator on lesson_IO/Reactor: one thread, edge-triggered epoll,  *)
(* buffers per connection (TcpServer.hpp, main.cc).  Receiving and sending *)
(* go through kernel buffers that fill and drain while the loop runs, and  *)
(* errno is shared by all connections, as the code reads it after calls    *)
(* that did not set it.                                                    *)
(***************************************************************************)
CONSTANTS Clients, Requests,
          MaxAsked,   \* bound on the requests of each client
          MaxRecv,    \* sizeof(buffer) of Recver, 1024 in the code
          SndBuf      \* room in the kernel's send buffer

VARIABLES conn,       \* the connections: _connections, their buffers and the kernel's
          loop,       \* the connection Recver works on, or "wait"
          errno,      \* as the last failing call left it
          freed,      \* calculate went on with a connection that was deleted
          asked,      \* history: the requests of each client
          faults      \* history: some call failed with another error than EAGAIN
calcVars == <<conn, loop, errno, freed, asked, faults>>

New == [st |-> "none", wire |-> <<>>, rcv |-> <<>>, inbuffer |-> <<>>, outbuffer |-> <<>>,
        snd |-> <<>>, got |-> <<>>, edge |-> FALSE, eof |-> FALSE, reset |-> FALSE]

CalcInit ==
  /\ conn = [c \in Clients |-> New]
  /\ loop = "wait" /\ errno = "none" /\ freed = FALSE
  /\ asked = [c \in Clients |-> <<>>]
  /\ faults = FALSE

-----------------------------------------------------------------------------
\* The clients and the network.
Ask(c, req) ==
  /\ conn[c].st = "open" /\ ~conn[c].eof /\ ~conn[c].reset /\ Len(asked[c]) < MaxAsked[c]
  /\ asked' = [asked EXCEPT ![c] = Append(@, req)]
  /\ conn' = [conn EXCEPT ![c].wire = @ \o enLength(SerializeRequest(req))]
  /\ UNCHANGED <<loop, errno, freed, faults>>

Arrive(c) ==
  \E k \in {1, Len(conn[c].wire) - 1, Len(conn[c].wire)} :
    /\ conn[c].st = "open" /\ k >= 1 /\ k <= Len(conn[c].wire)
    /\ conn' = [conn EXCEPT ![c].rcv = @ \o SubSeq(conn[c].wire, 1, k),
                            ![c].wire = SubSeq(@, k + 1, Len(@)), ![c].edge = TRUE]
    /\ UNCHANGED <<loop, errno, freed, asked, faults>>

\* The client reads what was sent to it.
Take(c) ==
  /\ conn[c].snd # <<>>
  /\ conn' = [conn EXCEPT ![c].got = @ \o conn[c].snd, ![c].snd = <<>>]
  /\ UNCHANGED <<loop, errno, freed, asked, faults>>

\* The client's close arrives, after all that it sent.
HangUp(c) ==
  /\ conn[c].st = "open" /\ ~conn[c].eof /\ conn[c].wire = <<>>
  /\ conn' = [conn EXCEPT ![c].eof = TRUE, ![c].edge = TRUE]
  /\ UNCHANGED <<loop, errno, freed, asked, faults>>

\* EPOLLERR and EPOLLHUP are turned into EPOLLIN.
Reset(c) ==
  /\ conn[c].st = "open" /\ ~conn[c].reset
  /\ conn' = [conn EXCEPT ![c].reset = TRUE, ![c].edge = TRUE]
  /\ UNCHANGED <<loop, errno, freed, asked, faults>>

-----------------------------------------------------------------------------

\* Accepter accepts until EAGAIN, or until another error (EMFILE).
Accepter(c, e) ==
  /\ loop = "wait" /\ conn[c].st = "none"
  /\ conn' = [conn EXCEPT ![c].st = "open"]
  /\ errno' = e /\ faults' = (faults \/ e # "EAGAIN")
  /\ UNCHANGED <<loop, freed, asked>>

\* Sender: send until the buffer is empty or the kernel's is full.  A send of
\* nothing returns 0, and the errno read then is that of an earlier call.
Sent(k) ==
  LET n == IF Len(k.outbuffer) <= SndBuf - Len(k.snd) THEN Len(k.outbuffer) ELSE SndBuf - Len(k.snd) IN
    [k EXCEPT !.snd = @ \o SubSeq(k.outbuffer, 1, n), !.outbuffer = SubSeq(@, n + 1, Len(@))]
ErrnoAfterSend(k, e) == IF Sent(k).outbuffer # <<>> THEN "EAGAIN" ELSE e

\* Excepter: out of epoll and of _connections, closed, deleted.
Excepter(k) == [k EXCEPT !.st = "closed", !.edge = FALSE]

\* calculate: all packages that are whole are answered, then sent.
Answered(k) ==
  LET step(b) == LET p == ParseOnePackage(b.inbuffer) IN
                   IF p.ok THEN [b EXCEPT !.inbuffer = p.rest, !.outbuffer = @ \o Answer(p.text)] ELSE b
      after[i \in 0 .. Len(k.inbuffer)] == IF i = 0 THEN k ELSE step(after[i - 1]) IN
    after[Len(k.inbuffer)]

\* Loop takes an event; the edge is used up.
Wait(c) ==
  /\ loop = "wait" /\ conn[c].st = "open" /\ conn[c].edge
  /\ loop' = c /\ conn' = [conn EXCEPT ![c].edge = FALSE]
  /\ UNCHANGED <<errno, freed, asked, faults>>

\* Variant of Recver: one recv per event.
RecverOnce(c) ==
  LET k == conn[c]
      n == IF Len(k.rcv) < MaxRecv THEN Len(k.rcv) ELSE MaxRecv
      in == Answered([k EXCEPT !.inbuffer = @ \o SubSeq(k.rcv, 1, n), !.rcv = SubSeq(@, n + 1, Len(@))]) IN
    /\ loop = c /\ ~freed /\ ~k.reset /\ k.rcv # <<>>
    /\ conn' = [conn EXCEPT ![c] = Sent(in)]
    /\ loop' = "wait"
    /\ UNCHANGED <<errno, freed, asked, faults>>

\* One round of Recver: s > 0.  EnableEeadWrite re-arms the descriptor.
Recver(c) ==
  LET k == conn[c]
      n == IF Len(k.rcv) < MaxRecv THEN Len(k.rcv) ELSE MaxRecv
      in == Answered([k EXCEPT !.inbuffer = @ \o SubSeq(k.rcv, 1, n), !.rcv = SubSeq(@, n + 1, Len(@))])
      e == ErrnoAfterSend(in, errno)
      out == [Sent(in) EXCEPT !.edge = in.rcv # <<>> \/ in.eof] IN
    /\ loop = c /\ ~freed /\ ~k.reset /\ k.rcv # <<>>
    /\ errno' = e
    /\ conn' = [conn EXCEPT ![c] = IF e = "EAGAIN" THEN out ELSE Excepter(out)]
    /\ freed' = (e # "EAGAIN")
    /\ UNCHANGED <<loop, asked, faults>>

\* The round that ends the loop with EAGAIN; then Loop calls the sender, on
\* EPOLLIN.
RecverDone(c) ==
  LET k == conn[c] IN
    /\ loop = c /\ ~freed /\ ~k.reset /\ k.rcv = <<>> /\ ~k.eof
    /\ errno' = "EAGAIN" /\ loop' = "wait"
    /\ conn' = [conn EXCEPT ![c] = Sent(k)]
    /\ UNCHANGED <<freed, asked, faults>>

\* The round that reads the client's close: no call fails, errno stays.
RecverQuits(c) ==
  LET k == conn[c] IN
    /\ loop = c /\ ~freed /\ ~k.reset /\ k.rcv = <<>> /\ k.eof
    /\ conn' = [conn EXCEPT ![c] = Excepter(k)] /\ loop' = "wait"
    /\ UNCHANGED <<errno, freed, asked, faults>>

\* The round that fails: the sender finds no connection any more.
RecverFails(c) ==
  /\ loop = c /\ ~freed /\ conn[c].reset
  /\ errno' = "ECONNRESET" /\ faults' = TRUE /\ loop' = "wait"
  /\ conn' = [conn EXCEPT ![c] = Excepter(@)]
  /\ UNCHANGED <<freed, asked>>

CalcNext ==
  \E c \in Clients :
    \/ \E req \in Requests : Ask(c, req)
    \/ Arrive(c) \/ Take(c) \/ HangUp(c) \/ Reset(c)
    \/ \E e \in {"EAGAIN", "EMFILE"} : Accepter(c, e)
    \/ Wait(c) \/ Recver(c) \/ RecverDone(c) \/ RecverQuits(c) \/ RecverFails(c)

CalcSpec == CalcInit /\ [][CalcNext]_calcVars

-----------------------------------------------------------------------------
(* However the requests are cut into chunks, every one that has been taken *)
(* from the input has its answer, in order and in whole, in what was sent  *)
(* or is left to send; nothing between is lost; and no whole request is    *)
(* left lying when the loop waits (ParseOnePackage, calculate, Sender).    *)
AnswersInOrder ==
  \A c \in Clients :
    LET k == conn[c]
        left == k.inbuffer \o k.rcv \o k.wire IN
      /\ \E n \in 0 .. Len(asked[c]) :
           /\ Asked(SubSeq(asked[c], n + 1, Len(asked[c]))) = left
           /\ Expected(SubSeq(asked[c], 1, n)) = k.got \o k.snd \o k.outbuffer
      /\ loop # c => Total(k.inbuffer) = 0

(* Events are edge-triggered, yet nothing is forgotten: bytes that arrived *)
(* and a client's close are being read, or an event is still to come       *)
(* (Recver reads until EAGAIN, Loop).                                      *)
NothingForgotten ==
  \A c \in Clients :
    conn[c].st = "open" /\ loop # c => (conn[c].rcv # <<>> \/ conn[c].eof => conn[c].edge)

(* A connection is only used after its deletion when some call had failed  *)
(* before: the errno a send of 0 bytes leaves in place is EAGAIN otherwise *)
(* (Sender, calculate).                                                    *)
FreedOnlyAfterFault == freed => faults
=============================================================================
