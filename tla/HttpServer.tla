----------------------------- MODULE HttpServer -----------------------------
(***************************************************************************)
(* The HTTP server my_Http: its thread pool, and what a thread of the pool *)
(* does with a connection, machines that share no state.                   *)
(***************************************************************************)
EXTENDS Sequences, FiniteSets, Integers

-----------------------------------------------------------------------------
(***************************************************************************)
(* ThreadPool of my_Http/ThreadPool.hpp with HttpServer::Loop, which       *)
(* pushes every accepted socket: the double-checked getinstance, the       *)
(* creation of the threads, Push_task, whose signal comes after the        *)
(* unlock, and the loop of ThreadRoutine.  Accepting threads are a         *)
(* parameter: main starts one, and getinstance is written for several.     *)
(***************************************************************************)
CONSTANTS Acceptors,   \* threads in HttpServer::Loop
          Socks,       \* connections accepted, one task each
          Silent,      \* those whose peer neither sends a request nor hangs up
          Num          \* num, the threads of the pool

VARIABLES ts,          \* pools made by getinstance; the last one is ts
          my_lock,     \* holder of getinstance's mutex, or "free"
          created,     \* threads started in each pool
          failed,      \* pools whose pthread_create failed
          task_queue,  \* of each pool
          apc, sock,   \* of each acceptor: next statement, socket in hand
          wpc,         \* of each worker <<pool, i>>: "loop", "wait" or a task
          fresh,       \* connections not accepted yet
          done         \* sockets whose Process_on has run, in order

poolVars == <<ts, my_lock, created, failed, task_queue, apc, sock, wpc, fresh, done>>

Pools == 1 .. Cardinality(Acceptors)
PoolThreads == Pools \X (1 .. Num)

PoolInit ==
  /\ ts = 0 /\ my_lock = "free"
  /\ created = [p \in Pools |-> 0] /\ failed = {}
  /\ task_queue = [p \in Pools |-> <<>>]
  /\ apc = [a \in Acceptors |-> "accept"] /\ sock = [a \in Acceptors |-> "none"]
  /\ wpc = [w \in PoolThreads |-> "loop"]
  /\ fresh = Socks /\ done = <<>>

Goto(a, label) == apc' = [apc EXCEPT ![a] = label]

-----------------------------------------------------------------------------
\* HttpServer::Loop; an accept that fails is tried again.
Accept(a) ==
  /\ apc[a] = "accept"
  /\ \E s \in fresh : fresh' = fresh \ {s} /\ sock' = [sock EXCEPT ![a] = s]
  /\ Goto(a, "check")
  /\ UNCHANGED <<ts, my_lock, created, failed, task_queue, wpc, done>>

\* The second test, under my_lock.  The pointer is set before the threads
\* are made.
Locked(a) ==
  /\ apc[a] = "locked"
  /\ IF ts = 0 THEN ts' = ts + 1 /\ Goto(a, "create") /\ UNCHANGED my_lock
               ELSE my_lock' = "free" /\ Goto(a, "push") /\ UNCHANGED ts
  /\ UNCHANGED <<created, failed, task_queue, sock, wpc, fresh, done>>

\* The first test, without the lock, and the lock.
getinstance(a) ==
  \/ /\ apc[a] = "check"
     /\ Goto(a, IF ts = 0 THEN "lock" ELSE "push")
     /\ UNCHANGED <<ts, my_lock, created, failed, task_queue, sock, wpc, fresh, done>>
  \/ /\ apc[a] = "lock" /\ my_lock = "free"
     /\ my_lock' = a /\ Goto(a, "locked")
     /\ UNCHANGED <<ts, created, failed, task_queue, sock, wpc, fresh, done>>
  \/ Locked(a)

\* One round of its loop, or its end; a pthread_create that fails ends it,
\* and getinstance does not look at the result.
ThreadPool_Init(a) ==
  /\ apc[a] = "create"
  /\ \/ /\ created[ts] < Num
        /\ created' = [created EXCEPT ![ts] = @ + 1]
        /\ UNCHANGED <<my_lock, failed, apc>>
     \/ /\ created[ts] < Num
        /\ failed' = failed \union {ts}
        /\ my_lock' = "free" /\ Goto(a, "push") /\ UNCHANGED created
     \/ /\ created[ts] = Num
        /\ my_lock' = "free" /\ Goto(a, "push") /\ UNCHANGED <<created, failed>>
  /\ UNCHANGED <<ts, task_queue, sock, wpc, fresh, done>>

Push_task(a) ==
  /\ apc[a] = "push"
  /\ task_queue' = [task_queue EXCEPT ![ts] = Append(@, sock[a])]
  /\ Goto(a, "signal")
  /\ UNCHANGED <<ts, my_lock, created, failed, sock, wpc, fresh, done>>

Waiters == {w \in PoolThreads : w[1] = ts /\ wpc[w] = "wait"}

\* Variant of ThreadWakeup: it is forgotten.
NoWakeup(a) ==
  /\ apc[a] = "signal"
  /\ UNCHANGED wpc
  /\ Goto(a, "accept") /\ sock' = [sock EXCEPT ![a] = "none"]
  /\ UNCHANGED <<ts, my_lock, created, failed, task_queue, fresh, done>>

\* pthread_cond_signal wakes one waiting thread, if there is one.
ThreadWakeup(a) ==
  /\ apc[a] = "signal"
  /\ IF Waiters = {} THEN UNCHANGED wpc
                     ELSE \E w \in Waiters : wpc' = [wpc EXCEPT ![w] = "loop"]
  /\ Goto(a, "accept") /\ sock' = [sock EXCEPT ![a] = "none"]
  /\ UNCHANGED <<ts, my_lock, created, failed, task_queue, fresh, done>>

-----------------------------------------------------------------------------
Exists(w) == w[2] <= created[w[1]]

\* The critical section of ThreadRoutine: Pop_task, or ThreadWait.
Take(w) ==
  /\ Exists(w) /\ wpc[w] = "loop"
  /\ IF task_queue[w[1]] = <<>>
       THEN wpc' = [wpc EXCEPT ![w] = "wait"] /\ UNCHANGED task_queue
       ELSE /\ wpc' = [wpc EXCEPT ![w] = Head(task_queue[w[1]])]
            /\ task_queue' = [task_queue EXCEPT ![w[1]] = Tail(@)]
  /\ UNCHANGED <<ts, my_lock, created, failed, apc, sock, fresh, done>>

\* It serves the connection, described below, and ends unless the peer is
\* silent: recv waits for it without a timeout, and the thread with it.
Process_on(w) ==
  /\ wpc[w] \in Socks \ Silent
  /\ done' = Append(done, wpc[w])
  /\ wpc' = [wpc EXCEPT ![w] = "loop"]
  /\ UNCHANGED <<ts, my_lock, created, failed, task_queue, apc, sock, fresh>>

ThreadRoutine(w) == Take(w) \/ Process_on(w)

\* pthread_cond_wait may return without a signal.
PoolSpuriousWakeup(w) ==
  /\ wpc[w] = "wait"
  /\ wpc' = [wpc EXCEPT ![w] = "loop"]
  /\ UNCHANGED <<ts, my_lock, created, failed, task_queue, apc, sock, fresh, done>>

Loop(a) ==
  Accept(a) \/ getinstance(a) \/ ThreadPool_Init(a) \/ Push_task(a) \/ ThreadWakeup(a)

PoolNext ==
  \/ \E a \in Acceptors : Loop(a)
  \/ \E w \in PoolThreads : ThreadRoutine(w) \/ PoolSpuriousWakeup(w)

\* The kernel runs every thread; connections need not arrive.
PoolFairness ==
  /\ \A a \in Acceptors : WF_poolVars(Loop(a) /\ ~Accept(a))
  /\ \A w \in PoolThreads : WF_poolVars(ThreadRoutine(w))

PoolSpec == PoolInit /\ [][PoolNext]_poolVars /\ PoolFairness

-----------------------------------------------------------------------------
(* No connection is handled twice, and while the acceptors race there is   *)
(* one pool (getinstance, Pop_task).                                       *)
HandledOnce ==
  /\ ts <= 1
  /\ \A i, j \in DOMAIN done : done[i] = done[j] => i = j

\* Every thread the pool will ever have waits for a silent peer; so does a
\* pool that has none.
Starved ==
  /\ ts # 0 /\ (ts \in failed \/ created[ts] = Num)
  /\ \A i \in 1 .. created[ts] : wpc[<<ts, i>>] \in Silent

IsHandled(s) == \E i \in DOMAIN done : done[i] = s
Holding(s) == \E a \in Acceptors : sock[a] = s

(* Every connection pushed, of a peer that is not silent, is handled as    *)
(* long as silent peers leave the pool a thread: the signal after the      *)
(* unlock reaches a waiting thread, and a thread that was working finds    *)
(* the task itself (Push_task, ThreadRoutine).                             *)
EveryLinkIsHandled == \A s \in Socks \ Silent : Holding(s) ~> (IsHandled(s) \/ Starved)

(* The same without the exception, which the code does not ensure: as many *)
(* silent peers as the pool has threads stop the server (Process_on).      *)
EveryLinkIsServed == \A s \in Socks \ Silent : Holding(s) ~> IsHandled(s)

-----------------------------------------------------------------------------
(***************************************************************************)
(* EndPoint of my_Http/Protocol.hpp, driven by CallBack::HandlerRequest on *)
(* the threads of the pool, with ReadLine of Util.hpp: read the request,   *)
(* build the response from a file or a CGI program, send it, close.        *)
(*                                                                         *)
(* Threads share the process's table of descriptors: a fork copies every   *)
(* pipe end that is open in any thread at that moment, so another          *)
(* request's program may hold the write end a thread waits on.             *)
(*                                                                         *)
(* A byte string is a sequence of tokens: line ends are tokens of their    *)
(* own, what stands between them is one token per line, and a body has one *)
(* token per byte, LF where the body has one.  recv has no timeout: what   *)
(* has not come is waited for until the peer quits.  The CGI program is    *)
(* external: it does not read its standard input (cgi/test_cgi.cc), writes *)
(* some bytes and ends.                                                    *)
(***************************************************************************)
CONSTANTS HttpThreads,   \* threads of the pool that serve a connection
          Requests,   \* for each thread, the requests its peer may send
          FileSize, PageSize, MaxOutput,  \* sizes of resource, 404 page, output
          SizeMod     \* 2^64: size_t wraps

VARIABLES endpoint,  \* the EndPoint of each thread
          pipes,     \* pipe ends open in the server: <<thread, pipe, end>>
          child      \* the CGI process of each thread

endVars == <<endpoint, pipes, child>>

Cr == <<"CR">>
Lf == <<"LF">>

\* The bytes of a request's body, of which those at r.feeds are LF.
ByteOf(r, i) == IF i \in r.feeds THEN Lf ELSE <<"byte", i>>
Body(r, n) == [i \in 1 .. n |-> ByteOf(r, i)]

\* A request as the peer means it, and the bytes it sends for it.  A length
\* of -1 is no Content-Length; below it are the negative values of one.
Text(r) ==
  <<(<<"request", r.method, r.uri>>)>> \o r.eol
    \o (IF r.length = -1 THEN <<>> ELSE <<(<<"length", r.length>>)>> \o r.eol)
    \o r.eol \o Body(r, r.body)

-----------------------------------------------------------------------------
Ends(in) == {i \in DOMAIN in : in[i] \in {Cr, Lf}}

\* The next line without its end, what is left to read, and the length
\* returned, 0 at the end of the input.  CR, LF and CR LF all end a line.
ReadLine(in) ==
  LET n == CHOOSE i \in Ends(in) : \A j \in Ends(in) : i <= j IN
    IF Ends(in) = {} THEN [line |-> in, rest |-> <<>>, size |-> Len(in)]
    ELSE [line |-> SubSeq(in, 1, n - 1), size |-> n,
          rest |-> IF in[n] = Cr /\ n < Len(in) /\ in[n + 1] = Lf
                     THEN SubSeq(in, n + 2, Len(in)) ELSE SubSeq(in, n + 1, Len(in))]

\* ReadLine need not wait: a line end came, and after CR the byte it peeks at.
LineCame(in) == \E n \in Ends(in) : in[n] = Lf \/ n < Len(in)

\* isnedd_recv_http_request_body
BodyLength(method, length) == IF method = "POST" /\ length # -1 THEN length ELSE 0

-----------------------------------------------------------------------------
NoChild == [state |-> "none", output |-> 0, status |-> "none", holds |-> {}]

Idle(r, in) ==
  [pc |-> "line", sent |-> r, in |-> in, req |-> [stop |-> TRUE], cgi |-> FALSE,
   line |-> <<>>, header |-> <<>>, code |-> 200, fd |-> FALSE, size |-> 0, output |-> 0,
   length |-> 0, wire |-> 0, total |-> 0, gone |-> FALSE, failed |-> FALSE, quits |-> FALSE]

\* All that the peer will send: it may stop anywhere.
Arrived(t) == UNION {{Idle(r, SubSeq(Text(r), 1, n)) : n \in 0 .. Len(Text(r))} : r \in Requests[t]}

EndInit ==
  /\ endpoint \in [HttpThreads -> UNION {Arrived(t) : t \in HttpThreads}]
  /\ \A t \in HttpThreads : endpoint[t] \in Arrived(t)
  /\ pipes = {}
  /\ child = [t \in HttpThreads |-> NoChild]

Own(t) == {<<t, p, e>> : p \in {"input", "output"}, e \in {"r", "w"}}

recv_http_request_line(t) ==
  /\ endpoint[t].pc = "line"
  /\ endpoint[t].quits \/ LineCame(endpoint[t].in)
  /\ LET read == ReadLine(endpoint[t].in) IN
       endpoint' = [endpoint EXCEPT ![t].line = read.line, ![t].in = read.rest,
                        ![t].pc = IF read.size > 0 THEN "header" ELSE "close"]
  /\ UNCHANGED <<pipes, child>>

\* One round of its loop: the end of the input, the blank line or a header.
recv_http_request_header(t) ==
  /\ endpoint[t].pc = "header"
  /\ endpoint[t].quits \/ LineCame(endpoint[t].in)
  /\ LET read == ReadLine(endpoint[t].in) IN
       endpoint' = [endpoint EXCEPT ![t].in = read.rest,
                        ![t].pc = IF read.size = 0 THEN "close"
                                  ELSE IF read.line = <<>> THEN "body" ELSE @,
                        ![t].header = @ \o read.line]
  /\ UNCHANGED <<pipes, child>>

\* pares_http_request_header: the value of Content-Length, -1 without one.
ContentLength(header) ==
  LET found == {k \in DOMAIN header : header[k][1] = "length"} IN
    IF found = {} THEN -1 ELSE header[CHOOSE k \in found : TRUE][2]

\* The bytes of the body came; the loop counts a negative length down and
\* reads all that the peer ever sends.
BodyCame(need, in) == 0 <= need /\ need <= Len(in)

\* pares_http_request_line and the body, unless the input ends before it does.
recv_http_request_body(t) ==
  LET line == endpoint[t].line[1]
      length == ContentLength(endpoint[t].header)
      need == BodyLength(line[2], length) IN
    /\ endpoint[t].pc = "body"
    /\ endpoint[t].quits \/ BodyCame(need, endpoint[t].in)
    /\ endpoint' = [endpoint EXCEPT ![t] =
         IF ~BodyCame(need, endpoint[t].in) THEN [@ EXCEPT !.pc = "close"]
         ELSE [@ EXCEPT !.pc = "build",
                 !.req = [stop |-> FALSE, method |-> line[2], uri |-> line[3],
                          length |-> length, body |-> SubSeq(endpoint[t].in, 1, need)]]]
    /\ UNCHANGED <<pipes, child>>

\* The thread is in a recv and what it needs has not come.
Waits(t) ==
  /\ endpoint[t].pc \in {"line", "header", "body"} /\ ~endpoint[t].quits
  /\ IF endpoint[t].pc # "body" THEN ~LineCame(endpoint[t].in)
     ELSE ~BodyCame(BodyLength(endpoint[t].line[1][2], ContentLength(endpoint[t].header)),
                    endpoint[t].in)

\* The peer closes its end; only a recv that waits can tell.
PeerQuits(t) ==
  /\ Waits(t)
  /\ endpoint' = [endpoint EXCEPT ![t].quits = TRUE]
  /\ UNCHANGED <<pipes, child>>

recv_http_request(t) ==
  recv_http_request_line(t) \/ recv_http_request_header(t) \/ recv_http_request_body(t)

\* The resource is executable; so is a directory without an index page,
\* whose second stat fails and leaves the mode of the directory.
Executable(uri) == uri.res \in {"program", "bare directory"}

\* build_http_response up to the choice between a file and a program.  The
\* size is an int: FileSize is that of a file below 2^31 bytes.
build_http_response(t) ==
  LET req == endpoint[t].req
      asks == req.method = "POST" \/ req.uri.query \/ Executable(req.uri) IN
    /\ endpoint[t].pc = "build"
    /\ endpoint' = [endpoint EXCEPT ![t] =
         IF req.method \notin {"GET", "POST"} THEN [@ EXCEPT !.code = 400, !.pc = "helper"]
         ELSE IF req.uri.res = "none"
           THEN [@ EXCEPT !.code = 404, !.pc = "helper",
                          !.cgi = req.method = "POST" \/ req.uri.query]
         ELSE [@ EXCEPT !.cgi = asks, !.size = FileSize,
                        !.pc = IF asks THEN "input" ELSE "file"]]
    /\ UNCHANGED <<pipes, child>>

\* open may fail though stat did not.
process_Non_cgi(t) ==
  /\ endpoint[t].pc = "file"
  /\ \E open \in BOOLEAN :
       endpoint' = [endpoint EXCEPT ![t].fd = open, ![t].code = IF open THEN 200 ELSE 404,
                        ![t].pc = "helper"]
  /\ UNCHANGED <<pipes, child>>

\* One of the two pipe() calls of process_cgi, named as the pc; when the
\* second one fails the first pipe is not closed.
Pipe(t) ==
  /\ endpoint[t].pc \in {"input", "output"}
  /\ \/ /\ pipes' = pipes \union {<<t, endpoint[t].pc, "r">>, <<t, endpoint[t].pc, "w">>}
        /\ endpoint' = [endpoint EXCEPT ![t].pc = IF @ = "input" THEN "output" ELSE "fork"]
     \/ /\ endpoint' = [endpoint EXCEPT ![t].code = 500, ![t].pc = "helper", ![t].failed = TRUE]
        /\ UNCHANGED pipes
  /\ UNCHANGED child

\* The child keeps every end that is open in the server but the two it closes.
ForkCgi(t) ==
  /\ endpoint[t].pc = "fork"
  /\ \/ /\ child' = [child EXCEPT ![t] =
              [NoChild EXCEPT !.state = "running",
                              !.holds = pipes \ {<<t, "input", "r">>, <<t, "output", "w">>}]]
        /\ endpoint' = [endpoint EXCEPT ![t].pc = "close ends"]
     \/ /\ endpoint' = [endpoint EXCEPT ![t].code = 404, ![t].pc = "helper", ![t].failed = TRUE]
        /\ UNCHANGED child
  /\ UNCHANGED pipes

\* The server closes the program's ends.  What it then writes for POST is
\* taken from the response body, which is empty: nothing.
CloseEnds(t) ==
  /\ endpoint[t].pc = "close ends"
  /\ pipes' = pipes \ {<<t, "input", "w">>, <<t, "output", "r">>}
  /\ endpoint' = [endpoint EXCEPT ![t].pc = "read"]
  /\ UNCHANGED child

\* execl fails for what is no program; otherwise the program writes and ends.
ChildEnds(t) ==
  /\ child[t].state = "running"
  /\ \E n \in 0 .. MaxOutput, status \in {"zero", "nonzero", "killed"} :
       /\ endpoint[t].req.uri.res # "program" => n = 0 /\ status = "nonzero"
       /\ child' = [child EXCEPT ![t] =
                      [state |-> "ended", output |-> n, status |-> status, holds |-> {}]]
  /\ UNCHANGED <<endpoint, pipes>>

\* No process has the write end of the pipe: a read returns 0.
AtEof(end) == end \notin pipes /\ \A u \in HttpThreads : end \notin child[u].holds

Result(t) ==
  [endpoint EXCEPT ![t].output = child[t].output, ![t].pc = "helper",
             ![t].code = CASE child[t].status = "zero" -> 200
                           [] child[t].status = "nonzero" -> 400
                           [] child[t].status = "killed" -> 500]

\* Variant of ReadAndWait: the end meant for the program's input stays open.
ReadAndWaitLeaks(t) ==
  /\ endpoint[t].pc = "read"
  /\ AtEof(<<t, "input", "w">>) /\ child[t].state = "ended"
  /\ endpoint' = Result(t)
  /\ pipes' = pipes \ {<<t, "input", "r">>}
  /\ UNCHANGED child

\* The read loop, which ends at end of file, and waitpid.
ReadAndWait(t) ==
  /\ endpoint[t].pc = "read"
  /\ AtEof(<<t, "input", "w">>) /\ child[t].state = "ended"
  /\ endpoint' = Result(t)
  /\ pipes' = pipes \ {<<t, "input", "r">>, <<t, "output", "w">>}
  /\ UNCHANGED child

process_cgi(t) == Pipe(t) \/ ForkCgi(t) \/ CloseEnds(t) \/ ReadAndWait(t)

\* Build_OK_Response, or Handler_Error, whose page may be missing.
build_http_response_helper(t) ==
  /\ endpoint[t].pc = "helper"
  /\ \E page \in BOOLEAN :
       endpoint' = [endpoint EXCEPT ![t] =
         IF endpoint[t].code = 200
           THEN [@ EXCEPT !.length = IF endpoint[t].cgi THEN endpoint[t].output ELSE endpoint[t].size,
                          !.pc = "send"]
           ELSE [@ EXCEPT !.cgi = FALSE, !.fd = page, !.pc = "send",
                          !.size = IF page THEN PageSize ELSE endpoint[t].size,
                          !.length = IF page THEN PageSize ELSE 0]]
  /\ UNCHANGED <<pipes, child>>

\* The body by sendfile, from the file that is open if any; or one round of
\* the loop around send, whose result -1 is kept in a size_t.
send_http_response(t) ==
  LET e == endpoint[t] IN
  /\ e.pc = "send"
  /\ \/ ~e.cgi /\ \E n \in {0, IF e.fd THEN e.size ELSE 0} :
          endpoint' = [endpoint EXCEPT ![t].wire = n, ![t].fd = FALSE, ![t].pc = "close",
                           ![t].gone = e.fd /\ n # e.size]
     \/ e.cgi /\ e.total >= e.output /\ endpoint' = [endpoint EXCEPT ![t].pc = "close"]
     \/ e.cgi /\ e.total < e.output /\ ~e.gone /\ \E n \in 1 .. (e.output - e.total) :
          endpoint' = [endpoint EXCEPT ![t].wire = @ + n, ![t].total = @ + n]
     \/ e.cgi /\ e.total < e.output /\
          endpoint' = [endpoint EXCEPT ![t].gone = TRUE, ![t].total = (@ + SizeMod - 1) % SizeMod]
  /\ UNCHANGED <<pipes, child>>

\* delete ep, which closes the socket.
Close(t) ==
  /\ endpoint[t].pc = "close"
  /\ endpoint' = [endpoint EXCEPT ![t].pc = "done"]
  /\ UNCHANGED <<pipes, child>>

HandlerRequest(t) ==
  \/ recv_http_request(t) \/ build_http_response(t) \/ process_Non_cgi(t) \/ process_cgi(t)
  \/ build_http_response_helper(t) \/ send_http_response(t) \/ Close(t)

EndNext == \E t \in HttpThreads : HandlerRequest(t) \/ ChildEnds(t) \/ PeerQuits(t)

\* Threads and programs are run by the kernel; the programs end.  A peer
\* need not quit.
EndFairness == \A t \in HttpThreads : WF_endVars(HandlerRequest(t)) /\ WF_endVars(ChildEnds(t))

EndSpec == EndInit /\ [][EndNext]_endVars /\ EndFairness

-----------------------------------------------------------------------------
\* A peer that ends its lines with CR and begins its body with LF: ReadLine
\* takes that LF for part of the blank line.
Swallowed(r) == r.eol = <<Cr>> /\ 1 \in r.feeds

(* A request is acted on only if all of it arrived, and then as it was     *)
(* meant, whichever line end the peer uses, except for the body of which   *)
(* the blank line swallows a byte (ReadLine, recv_http_request).           *)
RequestAsSent ==
  \A t \in DOMAIN endpoint : ~endpoint[t].req.stop =>
    LET req == endpoint[t].req
        r == endpoint[t].sent IN
      /\ <<req.method, req.uri, req.length>> = <<r.method, r.uri, r.length>>
      /\ ~Swallowed(r) => req.body = Body(r, BodyLength(r.method, r.length))

(* The same of every body, which the code does not ensure (ReadLine).      *)
BodyAsSent ==
  \A t \in DOMAIN endpoint : ~endpoint[t].req.stop =>
    LET r == endpoint[t].sent IN
      endpoint[t].req.body = Body(r, BodyLength(r.method, r.length))

(* Unless the connection breaks, the body sent is as long as the length    *)
(* announced, and never longer (build_http_response_helper and             *)
(* send_http_response, whose loop counts with an unsigned size).           *)
BodyAsAnnounced ==
  \A t \in DOMAIN endpoint : LET e == endpoint[t] IN
    /\ e.pc = "send" => e.wire <= e.length
    /\ e.pc = "close" /\ ~e.req.stop /\ ~e.gone => e.wire = e.length

(* A request leaves no pipe end open in the server, unless the second pipe *)
(* or the fork failed (process_cgi).                                       *)
EndsReturned ==
  \A t \in DOMAIN endpoint : endpoint[t].pc = "done" /\ ~endpoint[t].failed => Own(t) \intersect pipes = {}

(* Every request comes to its end, or waits for its peer as long as that   *)
(* does not quit: the end of file a thread waits for arrives even if other *)
(* programs inherited the write end of its pipe, and the loop of send ends *)
(* after an error (process_cgi, send_http_response).                       *)
EveryRequestEnds ==
  \A t \in HttpThreads :
    (endpoint[t].pc = "line" \/ endpoint[t].quits) ~> (endpoint[t].pc = "done" \/ Waits(t))
=============================================================================
