------------------------------ MODULE WebSocket ------------------------------
(***************************************************************************)
(* connection of websocketpp (connection.hpp, impl/connection_impl.hpp) on *)
(* its asio transport with plain sockets, the way the game server uses it. *)
(* con[e] is the connection object of end e.  A handler is an operator     *)
(* from that record to the record it leaves behind; the strand makes each  *)
(* one a step.  Calls of the application come from other threads, between  *)
(* any two handlers.  In mode "pair" both ends are websocketpp; in modes   *)
(* "server" and "client" one end is and its peer writes what it likes.     *)
(* A frame is one item of the wire (see Hybi13 for its bytes).             *)
(***************************************************************************)
EXTENDS Integers, Sequences, SequencesExt, FiniteSets

CONSTANTS Modes,      \* the kinds of run wanted, a set of the three above
          Calls,      \* Calls[mode][e]: what the application calls at end e, and
                      \* "time" where timeouts may pass
          Responses,  \* what a peer of a client may answer
          Codes,      \* the codes the application closes with
          MaxSends,   \* bound on an application's sends, pings and resumes per end
          MaxPeer     \* bound on the items a raw peer sends

Ends == {"server", "client"}
Other(e) == CHOOSE f \in Ends : f # e

ASSUME ModesAssumption == Modes \subseteq {"pair", "server", "client"}
ASSUME CallsAssumption == \A m \in Modes : Ends = DOMAIN Calls[m]
ASSUME BoundsAssumption == MaxSends \in [Modes -> Nat] /\ MaxPeer \in Nat

VARIABLES mode, con,
          wire,   \* wire[e]: items on their way to e, or in its socket
          peer    \* raw peer: how many items it sent, whether it may send
                  \* frames, whether it has hung up
vars == <<mode, con, wire, peer>>

States == {"connecting", "open", "closing", "closed"}
InternalStates ==
  {"USER_INIT", "TRANSPORT_INIT", "READ_HTTP_REQUEST", "WRITE_HTTP_REQUEST",
   "READ_HTTP_RESPONSE", "WRITE_HTTP_RESPONSE", "PROCESS_HTTP_REQUEST", "PROCESS_CONNECTION"}

Item(k, v) == [k |-> k, v |-> v, terminal |-> FALSE]

\* The connection a constructor makes; start begins the transport's init.
connection(server) ==
  [is_server |-> server, state |-> "connecting", istate |-> "USER_INIT",
   http |-> "init", is_http |-> FALSE, status |-> "uninitialized", ec |-> "none",
   lcode |-> "abnormal", rcode |-> "abnormal", clean |-> FALSE,
   queue |-> <<>>, current |-> <<>>, wflag |-> FALSE, rflag |-> TRUE, rest |-> <<>>,
   \* the transport: posted write_frames, reads and writes under way, m_buf
   posted |-> 0, reads |-> <<>>, writes |-> <<>>, buf |-> <<>>, shut |-> FALSE,
   \* timers: the one m_handshake_timer names, those running, those whose
   \* expiry is queued already and can no longer be cancelled
   timer |-> "none", live |-> {}, due |-> {},
   \* a call of the application that has passed its check of the state; the
   \* same of close, "overtaken" if the state changed before it went on
   call |-> "none", sends |-> 0, closer |-> "none",
   \* history: handlers called, data received and sent, the last of the stream
   opens |-> 0, fails |-> 0, closes |-> 0, got |-> <<>>, sent |-> <<>>,
   report |-> <<>>, tail |-> "frames"]

-----------------------------------------------------------------------------
\* The transport, as the connection uses it.
\* A timer that is replaced keeps running, and nothing can cancel it.
set_timer(c, k) ==
  [c EXCEPT !.timer = k, !.live = @ \union {k} \union (IF k \in @ THEN {"orphan"} ELSE {})]
cancel(c) == [c EXCEPT !.timer = "none", !.live = @ \ {c.timer}]
async_read(c, h) == [c EXCEPT !.reads = Append(@, [h |-> h, r |-> "pending"])]
async_write(c, h, items) ==
  [c EXCEPT !.writes = Append(@, [h |-> h, items |-> items, r |-> "pending"])]

write_push(c, m) ==
  [c EXCEPT !.queue = Append(@, m), !.posted = IF c.wflag THEN @ ELSE @ + 1]

handle_terminate(c, tstat) ==
  IF tstat = "failed"
  THEN [c EXCEPT !.fails = IF c.ec = "http_connection_ended" THEN @ ELSE @ + 1]
  ELSE [c EXCEPT !.closes = @ + 1,
                 !.report = [l |-> c.lcode, r |-> c.rcode, clean |-> c.clean]]

\* terminate without its return for a connection that is closed already.
TerminateAgain(c, ec) ==
  handle_terminate([cancel(c) EXCEPT !.state = "closed", !.shut = TRUE],
                   IF c.state = "connecting" THEN "failed" ELSE "closed")

\* With plain sockets async_shutdown shuts the socket down and calls
\* handle_terminate before it returns.
terminate(c, ec) ==
  LET d == [cancel(c) EXCEPT !.ec = IF ec = "none" THEN @ ELSE ec,
                             !.lcode = IF ec = "none" THEN @ ELSE "abnormal",
                             !.http = IF c.is_http THEN "closed" ELSE @]
  IN  IF c.state = "closed" THEN d
      ELSE handle_terminate([d EXCEPT !.state = "closed", !.shut = TRUE],
                            IF c.state = "connecting" THEN "failed" ELSE "closed")

-----------------------------------------------------------------------------
\* The closing handshake.  Codes: valid ones, "blank" (none given), and what
\* the peer may send besides.
terminal(code) == code = "protocol_error"
invalid(code) == code = "invalid"

\* send_close_frame that starts no timer.
SendCloseNoTimer(c, code, ack) ==
  write_push([c EXCEPT !.lcode = "normal", !.state = "closing", !.clean = @ \/ ack],
             [Item("close", "normal") EXCEPT !.terminal = ack /\ c.is_server])

send_close_frame(c, code, ack) ==
  LET l == IF code # "blank" THEN code
           ELSE IF ~ack THEN "no_status"
           ELSE IF c.rcode = "no_status" THEN "normal" ELSE c.rcode
      m == [Item("close", l) EXCEPT
              !.terminal = IF ack THEN c.is_server ELSE terminal(code)]
  IN  write_push(set_timer([c EXCEPT !.lcode = l, !.state = "closing",
                                     !.clean = @ \/ ack], "close"), m)

send_close_ack(c, code) == send_close_frame(c, code, TRUE)

close(c, code) == send_close_frame(c, code, FALSE)

pong(c) == write_push(c, Item("pong", ""))

handle_close_frame(c) ==
  LET d == [c EXCEPT !.clean = TRUE]
  IN  IF invalid(c.rcode) THEN send_close_ack(c, "protocol_error")
      ELSE CASE c.state = "open" -> send_close_ack(c, "blank")
             [] c.state = "closing" /\ ~c.clean -> IF c.is_server THEN terminate(d, "none") ELSE d
             [] OTHER -> c

process_control_frame(c, m) ==
  IF c.state = "closed" \/ (m.k # "close" /\ c.state # "open") THEN c
  ELSE CASE m.k = "ping" -> pong(c)
         [] m.k = "pong" -> [c EXCEPT !.live = @ \ {"ping"}]
         [] m.k = "close" -> handle_close_frame([c EXCEPT !.rcode = m.v])

-----------------------------------------------------------------------------
\* Reading frames.
read_frame(c) == IF c.rflag THEN async_read(c, "frame") ELSE c

\* What a frame does in the loop of handle_read_frame; a frame that consume
\* refuses ends the loop and the reading.
consume(s, m) ==
  IF s.stop THEN s
  ELSE CASE m.k = "data" ->
              [s EXCEPT !.c.got = IF s.c.state = "open" THEN Append(@, m.v) ELSE @]
         [] m.k \in {"ping", "pong", "close"} -> [s EXCEPT !.c = process_control_frame(s.c, m)]
         [] OTHER ->
              [stop |-> TRUE, c |-> IF s.c.state = "open" THEN close(s.c, "protocol_error")
                                    ELSE terminate(s.c, "invalid_state")]

\* consumed(c, items)[i]: after the first i items.
consumed(c, items) ==
  LET s[i \in 0 .. Len(items)] ==
        IF i = 0 THEN [c |-> c, stop |-> FALSE] ELSE consume(s[i - 1], items[i])
  IN  s

handle_read_frame(c, r, items) ==
  LET ecm == IF r # "ok" THEN r
             ELSE IF c.istate # "PROCESS_CONNECTION" THEN "invalid_state" ELSE "none"
      s == consumed(c, items)[Len(items)]
  IN  CASE ecm = "none" -> IF s.stop THEN s.c ELSE read_frame(s.c)
        [] ecm \in {"eof", "invalid_state"} /\ c.state = "closed" -> c
        [] ecm = "eof" /\ c.state = "closing" /\ ~c.is_server -> terminate(c, "none")
        [] OTHER -> terminate(c, ecm)

\* Writing frames: all that is queued, up to a terminal message.
write_pop(q) ==
  LET ends == {i \in DOMAIN q : q[i].terminal}
  IN  IF ends = {} THEN Len(q) ELSE CHOOSE i \in ends : \A j \in ends : i <= j

\* write_frame that does not look at the write flag.
WriteFrameUnguarded(c) ==
  LET n == write_pop(c.queue)
  IN  IF n = 0 THEN [c EXCEPT !.posted = @ - 1]
      ELSE async_write([c EXCEPT !.posted = @ - 1, !.queue = SubSeq(@, n + 1, Len(@)),
                                 !.current = SubSeq(c.queue, 1, n)],
                       "frames", SubSeq(c.queue, 1, n))

write_frame(c) ==
  LET n == write_pop(c.queue)
      d == [c EXCEPT !.posted = @ - 1]
  IN  IF c.wflag \/ n = 0 THEN d
      ELSE async_write([d EXCEPT !.queue = SubSeq(@, n + 1, Len(@)), !.wflag = TRUE,
                                 !.current = SubSeq(c.queue, 1, n)],
                       "frames", SubSeq(c.queue, 1, n))

handle_write_frame(c, r) ==
  LET d == [c EXCEPT !.current = <<>>]
  IN  CASE r = "error" -> terminate(d, "error")
        [] r = "ok" /\ Last(c.current).terminal -> terminate(d, "none")
        [] OTHER -> [d EXCEPT !.wflag = FALSE,
                              !.posted = IF d.queue # <<>> THEN @ + 1 ELSE @]

-----------------------------------------------------------------------------
\* The opening handshake of a server.
\* Requests: "ws" asks for an upgrade, "http" does not, "early" is refused
\* while it is parsed or for its version, "invalid" while it is processed,
\* "partial" is the beginning of another.
Requests == {"ws", "http", "early", "invalid", "partial"}

\* Every handler of the opening handshake first looks at the state.
\* "go": it may proceed; "ignore": the connection is closed.
Stage(c, r, istate) ==
  CASE r \in {"ok", "eof"} /\ c.state = "closed" -> "ignore"
    [] r = "ok" /\ c.state # "closed" ->
         IF c.state = "connecting" /\ c.istate = istate THEN "go" ELSE "invalid_state"
    [] OTHER -> r

\* start that goes on to a state it has no name for.
StartElsewhere(c) == [c EXCEPT !.istate = "INIT"]

start(c) == [c EXCEPT !.istate = "TRANSPORT_INIT"]

read_handshake(c) == async_read(set_timer(c, "open"), "handshake")

write_http_response(c, ec) ==
  LET d == IF c.status = "uninitialized"
           THEN [c EXCEPT !.status = "error", !.ec = "general"]
           ELSE [c EXCEPT !.ec = ec]
  IN  async_write(d, "response", <<Item("response", d.status)>>)

write_http_response_error(c, ec) ==
  IF c.istate # "READ_HTTP_REQUEST" THEN terminate(c, "invalid_state")
  ELSE write_http_response([c EXCEPT !.istate = "PROCESS_HTTP_REQUEST"], ec)

\* The response is the application's between the request and its answer.
set_status(c, status) ==
  IF c.istate = "PROCESS_HTTP_REQUEST" THEN [c EXCEPT !.status = status] ELSE c

defer_http_response(c) == [cancel(c) EXCEPT !.http = "deferred"]

\* What the http handler, or for an upgrade the validate handler, may do.
http_handler(c, app) ==
  CASE app = "respond" -> set_status(c, "ok")
    [] app = "defer" -> defer_http_response(c)
    [] app = "end" -> terminate(c, "rejected")
    [] OTHER -> c

\* The connection and the error it returns.
process_handshake_request(c, req, app) ==
  CASE req = "http" /\ app = "none" ->   \* no http handler is set
         [c |-> set_status(c, "error"), ec |-> "upgrade_required"]
    [] req = "http" /\ app # "none" ->
         LET d == http_handler([c EXCEPT !.is_http = TRUE], app)
         IN  [c |-> d, ec |-> IF d.state = "closed" THEN "http_connection_ended" ELSE "none"]
    [] req = "ws" /\ app # "reject" -> [c |-> set_status(c, "101"), ec |-> "none"]
    [] OTHER -> [c |-> set_status(c, "error"), ec |-> "rejected"]

\* m_request.consume: the first whole request or response in the bytes read
\* so far, and what is left.
Whole(items) == {i \in DOMAIN items : ~(items[i].k \in {"request", "response"} /\ items[i].v = "partial")}
Parsed(items) ==
  LET n == CHOOSE i \in Whole(items) : \A j \in Whole(items) : i <= j
  IN  IF Whole(items) = {} THEN <<>> ELSE SubSeq(items, n, Len(items))

handle_read_handshake(c, r, items, app) ==
  LET stage == Stage(c, r, "READ_HTTP_REQUEST")
      left == Parsed(items)
      req == Head(left).v
      p == process_handshake_request(
             [c EXCEPT !.istate = "PROCESS_HTTP_REQUEST", !.rest = Tail(left)], req, app)
  IN  CASE stage = "ignore" -> c
        [] stage \notin {"ignore", "go"} -> terminate(c, stage)
        [] stage = "go" /\ left = <<>> -> async_read(c, "handshake")
        [] stage = "go" /\ left # <<>> /\ req = "early" ->
             write_http_response_error([c EXCEPT !.status = "error"], "http_parse_error")
        [] OTHER -> IF p.ec # "http_connection_ended" /\ (~p.c.is_http \/ p.c.http = "init")
                    THEN write_http_response(p.c, p.ec) ELSE p.c

handle_write_http_response(c, r) ==
  LET stage == Stage(c, r, "PROCESS_HTTP_REQUEST")
      d == [cancel(c) EXCEPT !.istate = "PROCESS_CONNECTION", !.state = "open",
                             !.opens = @ + 1, !.rest = <<>>]
      ec == IF c.is_http THEN "http_connection_ended" ELSE c.ec
  IN  CASE stage = "ignore" -> c
        [] stage \notin {"ignore", "go"} -> terminate(c, stage)
        [] stage = "go" /\ c.status # "101" -> terminate([cancel(c) EXCEPT !.ec = ec], ec)
        [] OTHER -> handle_read_frame(d, "ok", c.rest)

send_http_response(c) == write_http_response([c EXCEPT !.http = "body_written"], "none")

-----------------------------------------------------------------------------
\* The opening handshake of a client.
send_http_request(c) ==
  async_write(set_timer(c, "open"), "request", <<Item("request", "ws")>>)

handle_send_http_request(c, r) ==
  LET stage == Stage(c, r, "WRITE_HTTP_REQUEST")
  IN  CASE stage = "ignore" -> c
        [] stage = "go" -> async_read([c EXCEPT !.istate = "READ_HTTP_RESPONSE"], "response")
        [] OTHER -> terminate(c, stage)

\* Negotiation that fails terminates the connection, and then goes on.
handle_read_http_response(c, r, items) ==
  LET stage == Stage(c, r, "READ_HTTP_RESPONSE")
      left == Parsed(items)
      d == IF Head(left) = Item("response", "badext") THEN terminate(cancel(c), "extension_neg_failed")
           ELSE cancel(c)
  IN  CASE stage = "ignore" -> c
        [] stage \notin {"ignore", "go"} -> terminate(c, stage)
        [] stage = "go" /\ left = <<>> -> async_read(c, "response")
        [] stage = "go" /\ left # <<>> /\ Head(left).v \notin {"101", "badext"} ->
             terminate(cancel(c), "general")
        [] OTHER -> handle_read_frame(
                      [d EXCEPT !.istate = "PROCESS_CONNECTION", !.state = "open",
                                !.opens = @ + 1], "ok", Tail(left))

handle_transport_init(c, r) ==
  IF r = "error" THEN terminate(c, "error")
  ELSE IF c.is_server THEN read_handshake([c EXCEPT !.istate = "READ_HTTP_REQUEST"])
  ELSE send_http_request([c EXCEPT !.istate = "WRITE_HTTP_REQUEST"])

-----------------------------------------------------------------------------
Active == IF mode = "pair" THEN Ends ELSE {mode}

Init ==
  /\ mode \in Modes
  /\ con = [e \in Ends |-> start(connection(e = "server"))]
  /\ wire = [e \in Ends |-> <<>>]
  /\ peer = [n |-> 0, frames |-> FALSE, gone |-> "no"]

\* What the end at the other side has done to the stream.
Finished(e) == IF mode = "pair" THEN con[Other(e)].shut ELSE peer.gone # "no"

Step(e, c) == con' = [con EXCEPT ![e] = c] /\ UNCHANGED <<mode, peer>>
Local(e, c) == Step(e, c) /\ UNCHANGED wire

TransportInit(e) ==
  /\ con[e].istate = "TRANSPORT_INIT" /\ con[e].state = "connecting"
  /\ \E r \in {"ok", "error"} : Local(e, handle_transport_init(con[e], r))

\* The oldest read under way gets what is there, or the end of the stream,
\* into m_buf; its handler runs later.  Reads share m_buf.
Pending(ops) == {i \in DOMAIN ops : ops[i].r = "pending"}
Oldest(ops) == CHOOSE i \in Pending(ops) : \A j \in Pending(ops) : i <= j

Receive(e) ==
  LET c == con[e]
  IN  /\ Pending(c.reads) # {}
      /\ \/ \E n \in 1 .. Len(wire[e]) :
              /\ Step(e, [c EXCEPT !.reads[Oldest(c.reads)].r = "ok",
                                   !.buf = SubSeq(wire[e], 1, n)])
              /\ wire' = [wire EXCEPT ![e] = SubSeq(@, n + 1, Len(@))]
         \/ /\ wire[e] = <<>> /\ (Finished(e) \/ c.shut)
            /\ Local(e, [c EXCEPT !.reads[Oldest(c.reads)].r =
                            IF peer.gone = "reset" THEN "error" ELSE "eof"])

\* A frame that is refused is answered by close, and a ping by pong: both wait
\* for m_connection_state_lock (frames may always be read one by one).
Lockless(items) == \A i \in DOMAIN items : items[i].k \in {"data", "pong", "close"}

ReadDone(e) ==
  LET c == con[e]
      d == [c EXCEPT !.reads = Tail(@), \* m_buf is forgotten once no handler needs it
                     !.buf = IF \A i \in 2 .. Len(c.reads) : i \in Pending(c.reads)
                             THEN <<>> ELSE @]
      r == Head(c.reads).r
  IN  /\ c.reads # <<>> /\ r # "pending"
      /\ c.closer = "checked" => Lockless(c.buf)
      /\ CASE Head(c.reads).h = "handshake" ->
                \E app \in {"respond", "defer", "end", "silent", "none", "reject"} :
                  Local(e, handle_read_handshake(d, r, c.buf, app))
           [] Head(c.reads).h = "response" -> Local(e, handle_read_http_response(d, r, c.buf))
           [] Head(c.reads).h = "frame" -> Local(e, handle_read_frame(d, r, c.buf))

\* A write puts its items on the wire, or fails once the socket is shut down
\* at this end or gone at the other; its handler runs later.
Sent(c, items) ==
  LET ends == {i \in DOMAIN items : items[i].terminal}
  IN  IF c.tail # "frames" \/ (ends # {} /\ Len(items) \notin ends) THEN "more"
      ELSE IF ends = {} THEN "frames" ELSE "terminal"

Transmit(e) ==
  LET c == con[e]
      i == Oldest(c.writes)
      items == c.writes[i].items
  IN  /\ Pending(c.writes) # {}
      /\ \/ /\ ~c.shut
            /\ Step(e, [c EXCEPT !.writes[i].r = "ok", !.tail = Sent(c, items)])
            /\ wire' = [wire EXCEPT ![Other(e)] = IF Other(e) \in Active THEN @ \o items ELSE @]
         \/ /\ c.shut \/ Finished(e)
            /\ Local(e, [c EXCEPT !.writes[i].r = "error"])

WriteDone(e) ==
  LET c == con[e]
      d == [c EXCEPT !.writes = Tail(@)]
      w == Head(c.writes)
  IN  /\ c.writes # <<>> /\ w.r # "pending"
      /\ Local(e, CASE w.h = "response" -> handle_write_http_response(d, w.r)
                    [] w.h = "request" -> handle_send_http_request(d, w.r)
                    [] w.h = "frames" -> handle_write_frame(d, w.r))

WriteFrame(e) == con[e].posted > 0 /\ Local(e, write_frame(con[e]))

\* Time passes: a timer that runs comes due.  Its handler is queued then, and
\* cancel no longer reaches it.  Where "time" is not among the calls, a timer
\* is slower than everything else that is under way at its end.
Expire(e) ==
  /\ "time" \in Calls[mode][e] \/ (con[e].posted = 0 /\ con[e].reads = <<>> /\ con[e].writes = <<>>)
  /\ \E k \in con[e].live :
    Local(e, [con[e] EXCEPT !.live = @ \ {k}, !.due = @ \union {k}])

handle_open_handshake_timeout(c) == terminate(c, "open_handshake_timeout")
handle_close_handshake_timeout(c) == terminate(c, "close_handshake_timeout")
handle_pong_timeout(c) == c

Timeout(e) ==
  \E k \in con[e].due :
    LET c == [con[e] EXCEPT !.due = @ \ {k}]
    IN  Local(e, CASE k = "open" -> handle_open_handshake_timeout(c)
                   [] k = "ping" -> handle_pong_timeout(c)
                   [] OTHER -> handle_close_handshake_timeout(c))

-----------------------------------------------------------------------------
\* The application, from other threads, by handle.  It keeps a pointer to a
\* connection it has paused or deferred; every other one lives as long as
\* some operation of it is under way.
Busy(c) ==
  \/ c.posted > 0 \/ c.reads # <<>> \/ c.writes # <<>> \/ c.live # {} \/ c.due # {}
  \/ c.istate = "TRANSPORT_INIT" /\ c.state = "connecting"

get_con_from_hdl(e, f) ==
  /\ f \in Calls[mode][e]
  /\ Busy(con[e]) \/ ~con[e].rflag \/ con[e].http = "deferred"

\* send, ping and pong look at the state under one lock, and queue their
\* message under another.
Check(e, f) ==
  /\ get_con_from_hdl(e, f)
  /\ con[e].state = "open" /\ con[e].call = "none" /\ con[e].sends < MaxSends[mode]
  /\ con[e].closer # "checked"
  /\ Local(e, [con[e] EXCEPT !.call = f, !.sends = @ + 1])

send(c) ==
  write_push([c EXCEPT !.sent = Append(@, ToString(c.sends))], Item("data", ToString(c.sends)))
ping(c) == write_push([c EXCEPT !.live = @ \union {"ping"}], Item("ping", ""))

Push(e) ==
  LET c == [con[e] EXCEPT !.call = "none"]
  IN  /\ con[e].call # "none"
      /\ Local(e, CASE con[e].call = "send" -> send(c)
                    [] con[e].call = "ping" -> ping(c)
                    [] con[e].call = "pong" -> pong(c))

\* close looks at the state and changes it under one lock, which terminate and
\* send_close_ack do not take: the state may be another by then.
CheckClose(e) ==
  /\ get_con_from_hdl(e, "close") /\ con[e].state = "open" /\ con[e].closer = "none"
  /\ Local(e, [con[e] EXCEPT !.closer = "checked"])

Close(e) ==
  LET c == [con[e] EXCEPT !.closer = IF con[e].state = "open" THEN "none" ELSE "overtaken"]
  IN  /\ con[e].closer = "checked"
      /\ \E code \in Codes : Local(e, close(c, code))

handle_pause_reading(c) == [c EXCEPT !.rflag = FALSE]
handle_resume_reading(c) == read_frame([c EXCEPT !.rflag = TRUE])

Pause(e) ==
  /\ get_con_from_hdl(e, "pause") /\ con[e].state = "open" /\ con[e].rflag
  /\ Local(e, handle_pause_reading(con[e]))

Resume(e) ==
  /\ get_con_from_hdl(e, "resume") /\ con[e].opens = 1 /\ con[e].sends < MaxSends[mode]
  /\ Local(e, handle_resume_reading([con[e] EXCEPT !.sends = @ + 1]))

SendHttpResponse(e) ==
  /\ get_con_from_hdl(e, "send_http_response") /\ con[e].http = "deferred"
  /\ \E status \in {"ok", "uninitialized"} :
       Local(e, send_http_response(set_status(con[e], status)))

\* A raw peer speaks HTTP and then frames, and stops when it likes.
PeerItems ==
  IF peer.frames
  THEN {Item("data", "1"), Item("ping", ""), Item("pong", ""), Item("bad", "")} \union
       {Item("close", v) : v \in {"normal", "no_status", "invalid"}}
  ELSE IF mode = "server" THEN {Item("request", v) : v \in Requests}
  ELSE {Item("response", v) : v \in Responses}

PeerSend ==
  /\ mode # "pair" /\ peer.n < MaxPeer /\ peer.gone = "no"
  /\ \E m \in PeerItems :
       /\ wire' = [wire EXCEPT ![mode] = Append(@, m)]
       /\ peer' = [peer EXCEPT !.n = @ + 1, !.frames = @ \/ m.v \in {"ws", "101", "badext"}]
  /\ UNCHANGED <<mode, con>>

PeerGone ==
  /\ mode # "pair" /\ peer.gone = "no"
  /\ \E how \in {"closed", "reset"} : peer' = [peer EXCEPT !.gone = how]
  /\ UNCHANGED <<mode, con, wire>>

\* What the machine does by itself: asio runs what is ready, and time passes.
Machine(e) ==
  \/ TransportInit(e) \/ Receive(e) \/ ReadDone(e) \/ Transmit(e)
  \/ WriteDone(e) \/ WriteFrame(e) \/ Expire(e) \/ Timeout(e) \/ Push(e) \/ Close(e)

Application(e) ==
  \/ \E f \in {"send", "ping", "pong"} : Check(e, f)
  \/ CheckClose(e) \/ Pause(e) \/ Resume(e) \/ SendHttpResponse(e)

Next == (\E e \in Active : Machine(e) \/ Application(e)) \/ PeerSend \/ PeerGone

Spec == Init /\ [][Next]_vars

\* As long as an end has something to do it does it: the io_service runs its
\* handlers, the kernel moves bytes, clocks advance, a call that has passed its
\* check goes on.
FairSpec == Spec /\ \A e \in Ends : WF_vars(e \in Active /\ Machine(e))

-----------------------------------------------------------------------------
\* The open handler or the fail handler is called, never both, and the close
\* handler exactly once for a connection that was open and is closed, however
\* timeouts, errors and both closing handshakes race (terminate).  A response
\* whose extensions cannot be negotiated is the exception of NeverBoth, a close
\* that was overtaken the one of ClosedOnce.
HandlersAgree ==
  \A e \in Ends :
    LET c == con[e]
    IN  /\ c.opens + c.fails <= 1
        /\ c.closer # "overtaken" => c.closes = IF c.opens = 1 /\ c.state = "closed" THEN 1 ELSE 0
        /\ c.state \in {"open", "closing"} => c.opens = 1

\* What the message handler of one end gets is a beginning of what the other
\* end's application sent, in its order (send, write_frame, handle_read_frame).
FifoDelivery == mode = "pair" => \A e \in Ends : IsPrefix(con[e].got, con[Other(e)].sent)

\* There is never a second transport write under way, so handle_write_frame
\* always finds the messages it is about (m_write_flag).
OneWrite ==
  \A e \in Ends :
    LET c == con[e]
    IN  /\ Len(c.writes) <= 1
        /\ (c.writes # <<>> /\ c.writes[1].h = "frames") <=> c.current # <<>>

\* Nothing follows a terminal frame on the wire (write_frame stops at it and
\* handle_write_frame keeps the write flag).
TerminalIsLast == \A e \in Ends : con[e].tail # "more"

\* When both ends report a clean close, and neither was cut short nor its close
\* overtaken, each reports as the remote code what the other reports as its own.
CleanCodesAgree ==
  mode = "pair" /\ (\A e \in Ends : con[e].report # <<>> /\ con[e].closer # "overtaken") =>
    LET s == con["server"].report
        c == con["client"].report
    IN  s.clean /\ c.clean /\ "abnormal" \notin {s.l, c.l} => s.l = c.r /\ s.r = c.l

(* The handlers of an end are called as the state of its connection says,  *)
(* and the codes that the two ends report agree.                           *)
ReportsAgree == HandlersAgree /\ CleanCodesAgree

(* What an application sends goes out by one write at a time, arrives in   *)
(* its order, and nothing follows the close frame.                         *)
SendsInOrder == FifoDelivery /\ OneWrite /\ TerminalIsLast

\* "Either open or fail will be called for each connection.  Never both."
\* It does not hold: README, section 6.
NeverBoth == \A e \in Ends : con[e].opens = 0 \/ con[e].fails = 0

\* "close is called exactly once" for an open connection (connection.hpp 66).
\* It does not hold: README, section 6.
ClosedOnce == \A e \in Ends : con[e].closes <= 1

\* An opening handshake ends, unless the application has deferred the answer.
HandshakeEnds ==
  \A e \in Ends : (e \in Active /\ con[e].state = "connecting")
                     ~> (con[e].state # "connecting" \/ con[e].http = "deferred")

\* A connection that is closing or closed comes to rest, whatever the peer does:
\* it ends closed, with no timer, read or write left that holds it.
ClosingEnds ==
  \A e \in Ends : con[e].state \in {"closing", "closed"}
                     ~> (con[e].state = "closed" /\ ~Busy(con[e]))

(* Opening and closing come to their end under every order of completions, *)
(* expiries and losses (handle_open_handshake_timeout, terminate).         *)
ConnectionsEnd == HandshakeEnds /\ ClosingEnds
=============================================================================
