--------------------------- MODULE WebSocketProofs ---------------------------
(***************************************************************************)
(* Proofs about WebSocket, for any calls of the applications, any number   *)
(* of messages and whatever a raw peer sends: the handlers of a connection *)
(* are called as its state says, the codes two ends report agree, and what *)
(* is sent arrives in its order by one write at a time.                    *)
(***************************************************************************)
EXTENDS WebSocket, SequenceTheorems, FiniteSetTheorems, WellFoundedInduction, TLAPS

Kinds == {"data", "ping", "pong", "close", "bad", "request", "response"}

\* What an item may carry: an answer or a request, a code, or data.
Values ==
  {"", "1", "ok", "error", "101", "uninitialized", "normal", "no_status", "invalid",
   "protocol_error", "abnormal", "blank"} \union Requests
Payload == Values \union {ToString(n) : n \in Nat} \union Codes \union Responses

Items ==
  {m \in [k : Kinds, v : Payload, terminal : BOOLEAN] : m.k = "response" => m.v # "badext"}

Fields ==
  {"is_server", "state", "istate", "http", "is_http", "status", "ec", "lcode", "rcode", "clean",
   "queue", "current", "wflag", "rflag", "rest", "posted", "reads", "writes", "buf", "shut",
   "timer", "live", "due", "call", "sends", "closer", "opens", "fails", "closes", "got",
   "sent", "report", "tail"}

Up(c) == c.istate = "PROCESS_CONNECTION"

\* The handlers of the reads and of the writes that may be under way.
Reading(istate) ==
  CASE istate = "READ_HTTP_REQUEST" -> {"handshake"}
    [] istate = "READ_HTTP_RESPONSE" -> {"response"}
    [] istate = "PROCESS_CONNECTION" -> {"frame"}
    [] OTHER -> {}
Writing(istate) ==
  CASE istate = "PROCESS_HTTP_REQUEST" -> {"response"}
    [] istate = "WRITE_HTTP_REQUEST" -> {"request"}
    [] istate = "PROCESS_CONNECTION" -> {"frames"}
    [] OTHER -> {}

Flags(c) ==
  /\ c.is_server \in BOOLEAN /\ c.is_http \in BOOLEAN /\ c.clean \in BOOLEAN
  /\ c.wflag \in BOOLEAN /\ c.rflag \in BOOLEAN /\ c.shut \in BOOLEAN
  /\ c.state \in States
  /\ c.status \in {"uninitialized", "ok", "error", "101"}
  /\ c.posted \in Nat /\ c.sends \in Nat /\ c.opens \in Nat /\ c.fails \in Nat /\ c.closes \in Nat
  /\ c.rcode \in Payload

ReadOps == [h : {"handshake", "response", "frame"}, r : {"pending", "ok", "eof", "error"}]
WriteOps == [h : {"request", "response", "frames"}, items : Seq(Items), r : {"pending", "ok", "error"}]

Lists(c) ==
  /\ c.queue \in Seq(Items) /\ c.current \in Seq(Items) /\ c.rest \in Seq(Items) /\ c.buf \in Seq(Items)
  /\ c.reads \in Seq(ReadOps) /\ c.writes \in Seq(WriteOps)
  /\ c.got \in Seq(Payload) /\ c.sent \in Seq(Payload)

Handled(c) ==
  /\ c.state # "closed" => (Up(c) <=> c.state # "connecting")
  /\ c.opens = IF Up(c) THEN 1 ELSE 0
  /\ c.closes = IF Up(c) /\ c.state = "closed" THEN 1 ELSE 0
  /\ c.fails \in {0, 1} /\ (Up(c) \/ c.state # "closed" => c.fails = 0)

Phased(c) ==
  /\ \A i \in DOMAIN c.reads : c.reads[i].h \in Reading(c.istate)
  /\ \A i \in DOMAIN c.writes : c.writes[i].h \in Writing(c.istate)
  /\ Len(c.writes) <= 1
  /\ ~Up(c) => Len(c.reads) <= 1
  /\ c.http = "deferred" => c.istate = "PROCESS_HTTP_REQUEST" /\ c.writes = <<>>
  /\ c.call \in {"none", "send", "ping", "pong"}
  /\ ~Up(c) => /\ c.queue = <<>> /\ c.posted = 0 /\ c.call = "none" /\ ~c.wflag
               /\ c.current = <<>> /\ c.tail = "frames" /\ c.sent = <<>> /\ c.got = <<>>

TerminalAtEnd(items) == \A i \in DOMAIN items : items[i].terminal => i = Len(items)

Sending(c) ==
  /\ c.writes = <<>> => c.current = <<>>
  /\ c.writes # <<>> => TerminalAtEnd(c.writes[1].items)
  /\ c.writes # <<>> /\ Up(c) => c.wflag /\ c.current = c.writes[1].items /\ c.current # <<>>
  /\ c.writes # <<>> /\ ~Up(c) => \A i \in DOMAIN c.writes[1].items : ~c.writes[1].items[i].terminal
  /\ c.tail \in {"frames", "terminal"}
  /\ c.tail = "terminal" =>
       c.wflag /\ (c.writes # <<>> => c.writes[1].r = "ok" /\ c.current[Len(c.current)].terminal)

ConInv(c) == DOMAIN c = Fields /\ Flags(c) /\ Lists(c) /\ Handled(c) /\ Phased(c) /\ Sending(c)

EndsInv ==
  /\ mode \in {"pair", "server", "client"}
  /\ DOMAIN con = Ends /\ DOMAIN wire = Ends
  /\ \A e \in Ends : ConInv(con[e]) /\ con[e].is_server = (e = "server") /\ wire[e] \in Seq(Items)

\* d is c with nothing changed but the fields of ch.
Sets(c, d, ch) == DOMAIN d = Fields /\ \A k \in Fields \ ch : d[k] = c[k]

(* The parts of the invariant depend on some fields each.                  *)
LEMMA ListsStay ==
  ASSUME NEW c, NEW d, NEW ch, Sets(c, d, ch), Lists(c),
         ch \intersect {"queue", "current", "rest", "buf", "reads", "writes", "got", "sent"} = {}
  PROVE  Lists(d)
BY DEF Sets, Lists, Fields

LEMMA SendingStays ==
  ASSUME NEW c, NEW d, NEW ch, Sets(c, d, ch), Sending(c),
         ch \intersect {"istate", "writes", "current", "wflag", "tail"} = {}
  PROVE  Sending(d)
<1>1. /\ d.istate = c.istate /\ d.writes = c.writes /\ d.current = c.current
      /\ d.wflag = c.wflag /\ d.tail = c.tail
  BY DEF Sets, Fields
<1>2. QED BY <1>1 DEF Sending, Up

LEMMA PhasedStays ==
  ASSUME NEW c, NEW d, NEW ch, Sets(c, d, ch), Phased(c), d.http \in {c.http, "closed"},
         ch \intersect {"istate", "reads", "writes", "queue", "posted", "call", "wflag",
                        "current", "tail", "sent", "got"} = {}
  PROVE  Phased(d)
<1>1. /\ d.istate = c.istate /\ d.writes = c.writes /\ d.reads = c.reads /\ d.queue = c.queue
      /\ d.posted = c.posted /\ d.call = c.call /\ d.current = c.current
      /\ d.wflag = c.wflag /\ d.tail = c.tail /\ d.sent = c.sent /\ d.got = c.got
  BY DEF Sets, Fields
<1>2. QED BY <1>1 DEF Phased, Up

LEMMA HandledStays ==
  ASSUME NEW c, NEW d, NEW ch, Sets(c, d, ch), Handled(c),
         ch \intersect {"state", "istate", "opens", "fails", "closes"} = {}
  PROVE  Handled(d)
<1>1. /\ d.istate = c.istate /\ d.state = c.state /\ d.opens = c.opens
      /\ d.fails = c.fails /\ d.closes = c.closes
  BY DEF Sets, Fields
<1>2. QED BY <1>1 DEF Handled, Up

LEMMA FlagsStay ==
  ASSUME NEW c, NEW d, NEW ch, Sets(c, d, ch), Flags(c),
         ch \intersect {"is_server", "is_http", "clean", "wflag", "rflag", "shut", "state", "status",
                        "posted", "sends", "opens", "fails", "closes", "rcode"} = {}
  PROVE  Flags(d)
<1>1. /\ d.is_server = c.is_server /\ d.is_http = c.is_http /\ d.clean = c.clean
      /\ d.wflag = c.wflag /\ d.rflag = c.rflag /\ d.shut = c.shut /\ d.state = c.state
      /\ d.status = c.status /\ d.posted = c.posted /\ d.sends = c.sends /\ d.opens = c.opens
      /\ d.fails = c.fails /\ d.closes = c.closes /\ d.rcode = c.rcode
  BY DEF Sets, Fields
<1>2. QED BY <1>1 DEF Flags

-----------------------------------------------------------------------------
(* What the operations of the transport and of terminate do.               *)
LEMMA cancelSets ==
  ASSUME NEW c, DOMAIN c = Fields
  PROVE  Sets(c, cancel(c), {"timer", "live"})
BY DEF cancel, Sets, Fields

Terminated(c, d, ec) ==
  /\ Sets(c, d, {"timer", "live", "ec", "lcode", "http", "state", "shut", "fails", "closes", "report"})
  /\ d.state = "closed"
  /\ d.lcode = IF ec = "none" THEN c.lcode ELSE "abnormal"
  /\ d.http \in {c.http, "closed"}
  /\ c.state = "closed" => /\ d.shut = c.shut /\ d.fails = c.fails /\ d.closes = c.closes
                           /\ d.report = c.report
  /\ c.state = "connecting" => /\ d.shut = TRUE /\ d.fails \in {c.fails, c.fails + 1}
                               /\ d.closes = c.closes /\ d.report = c.report
  /\ c.state \in {"open", "closing"} =>
       /\ d.shut = TRUE /\ d.fails = c.fails /\ d.closes = c.closes + 1
       /\ d.report = [l |-> d.lcode, r |-> c.rcode, clean |-> c.clean]

LEMMA terminateSets ==
  ASSUME NEW c, DOMAIN c = Fields, Flags(c), NEW ec
  PROVE  Terminated(c, terminate(c, ec), ec)
<1> DEFINE d == [cancel(c) EXCEPT !.ec = IF ec = "none" THEN @ ELSE ec,
                             !.lcode = IF ec = "none" THEN @ ELSE "abnormal",
                             !.http = IF c.is_http THEN "closed" ELSE @]
           f == [d EXCEPT !.state = "closed", !.shut = TRUE]
           tstat == IF c.state = "connecting" THEN "failed" ELSE "closed"
<1>1. /\ Sets(c, d, {"timer", "live", "ec", "lcode", "http"})
      /\ d.lcode = (IF ec = "none" THEN c.lcode ELSE "abnormal")
      /\ d.http \in {c.http, "closed"}
  BY cancelSets, ZenonT(60) DEF Sets, Fields
<1>2. terminate(c, ec) = IF c.state = "closed" THEN d ELSE handle_terminate(f, tstat)
  BY DEF terminate
<1> HIDE DEF d
<1>3. CASE c.state = "closed"
  BY <1>1, <1>2, <1>3 DEF Terminated, Sets, Fields
<1>4. ASSUME c.state # "closed"
      PROVE  /\ Sets(c, f, {"timer", "live", "ec", "lcode", "http", "state", "shut"})
             /\ f.lcode = (IF ec = "none" THEN c.lcode ELSE "abnormal")
             /\ f.http \in {c.http, "closed"} /\ f.state = "closed" /\ f.shut = TRUE
  BY <1>1 DEF Sets, Fields
<1> HIDE DEF f
<1>5. CASE c.state = "connecting"
  <2>1. terminate(c, ec) = [f EXCEPT !.fails = IF f.ec = "http_connection_ended" THEN @ ELSE @ + 1]
    BY <1>2, <1>5 DEF handle_terminate
  <2>2. c.fails \in Nat
    BY DEF Flags
  <2>3. DOMAIN f = Fields /\ f.fails = c.fails
    BY <1>4, <1>5 DEF Sets, Fields
  <2>4. Sets(f, terminate(c, ec), {"fails"}) /\ terminate(c, ec).fails \in {c.fails, c.fails + 1}
    BY <2>1, <2>2, <2>3 DEF Sets, Fields
  <2>5. QED BY <2>4, <1>4, <1>5 DEF Terminated, Sets, Fields
<1>6. CASE c.state \in {"open", "closing"}
  <2>1. terminate(c, ec) = [f EXCEPT !.closes = @ + 1,
                 !.report = [l |-> f.lcode, r |-> f.rcode, clean |-> f.clean]]
    BY <1>2, <1>6 DEF handle_terminate
  <2>2. c.closes \in Nat
    BY DEF Flags
  <2>3. DOMAIN f = Fields /\ f.closes = c.closes /\ f.rcode = c.rcode /\ f.clean = c.clean
    BY <1>4, <1>6 DEF Sets, Fields
  <2>4. /\ Sets(f, terminate(c, ec), {"closes", "report"})
        /\ terminate(c, ec).closes = c.closes + 1
        /\ terminate(c, ec).report = [l |-> f.lcode, r |-> c.rcode, clean |-> c.clean]
    BY <2>1, <2>2, <2>3 DEF Sets, Fields
  <2>5. QED BY <2>4, <1>4, <1>6, ZenonT(60) DEF Terminated, Sets, Fields
<1>7. QED BY <1>3, <1>5, <1>6 DEF States, Flags

LEMMA TerminatedKeeps ==
  ASSUME NEW c, NEW d, NEW ec, ConInv(c), Terminated(c, d, ec)
  PROVE  ConInv(d)
<1>1. /\ Sets(c, d, {"timer", "live", "ec", "lcode", "http", "state", "shut", "fails", "closes", "report"})
      /\ DOMAIN d = Fields
  BY DEF Terminated, Sets
<1>2. Lists(d) /\ Sending(d)
  BY <1>1, ListsStay, SendingStays DEF ConInv
<1>3. /\ d.istate = c.istate /\ d.opens = c.opens
  BY <1>1 DEF Sets, Fields
<1>4. Flags(d)
  <2>1. /\ d.is_server = c.is_server /\ d.is_http = c.is_http /\ d.clean = c.clean
        /\ d.wflag = c.wflag /\ d.rflag = c.rflag /\ d.status = c.status
        /\ d.posted = c.posted /\ d.sends = c.sends /\ d.rcode = c.rcode /\ d.opens = c.opens
    BY <1>1 DEF Sets, Fields
  <2>2. d.state = "closed" /\ d.shut \in BOOLEAN /\ d.fails \in Nat /\ d.closes \in Nat
    <3>1. /\ c.state \in States /\ c.shut \in BOOLEAN /\ c.fails \in Nat /\ c.closes \in Nat
      BY DEF ConInv, Flags
    <3>2. ASSUME c.state = "closed"
          PROVE  d.shut = c.shut /\ d.fails = c.fails /\ d.closes = c.closes
      BY <3>2 DEF Terminated
    <3>3. ASSUME c.state = "connecting"
          PROVE  d.shut = TRUE /\ d.fails \in {c.fails, c.fails + 1} /\ d.closes = c.closes
      BY <3>3 DEF Terminated
    <3>4. ASSUME c.state \in {"open", "closing"}
          PROVE  d.shut = TRUE /\ d.fails = c.fails /\ d.closes = c.closes + 1
      BY <3>4 DEF Terminated
    <3>5. d.shut \in BOOLEAN
      <4>1. d.shut = c.shut \/ d.shut = TRUE
        BY <3>1, <3>2, <3>3, <3>4, Zenon DEF States
      <4>2. CASE d.shut = c.shut
        BY <3>1, <4>2, Zenon
      <4>3. CASE d.shut = TRUE
        BY <4>3
      <4>4. QED BY <4>1, <4>2, <4>3, Zenon
    <3>6. d.fails \in Nat /\ d.closes \in Nat
      <4>1. d.fails \in {c.fails, c.fails + 1} /\ d.closes \in {c.closes, c.closes + 1}
        BY <3>1, <3>2, <3>3, <3>4, Zenon DEF States
      <4>2. c.fails \in Nat /\ c.closes \in Nat
        BY <3>1
      <4>3. QED BY <4>1, <4>2
    <3>7. d.state = "closed"
      BY DEF Terminated
    <3>8. QED BY <3>5, <3>6, <3>7
  <2>3. QED BY <2>1, <2>2 DEF Flags, ConInv, States
<1>5. Handled(d)
  <2>1. Handled(c) /\ c.state \in States
    BY DEF ConInv, Flags
  <2>2. CASE c.state = "closed"
    BY <2>1, <2>2, <1>3 DEF Handled, Terminated, Up
  <2>3. CASE c.state = "connecting"
    BY <2>1, <2>3, <1>3 DEF Handled, Terminated, Up
  <2>4. CASE c.state \in {"open", "closing"}
    BY <2>1, <2>4, <1>3 DEF Handled, Terminated, Up
  <2>5. QED BY <2>1, <2>2, <2>3, <2>4 DEF States
<1>6. Phased(d)
  BY <1>1, PhasedStays DEF ConInv, Terminated
<1>7. QED BY <1>1, <1>2, <1>4, <1>5, <1>6 DEF ConInv

LEMMA terminateKeeps ==
  ASSUME NEW c, ConInv(c), NEW ec
  PROVE  ConInv(terminate(c, ec)) /\ Terminated(c, terminate(c, ec), ec)
BY terminateSets, TerminatedKeeps DEF ConInv

LEMMA set_timerSets ==
  ASSUME NEW c, DOMAIN c = Fields, NEW k
  PROVE  Sets(c, set_timer(c, k), {"timer", "live"})
BY DEF set_timer, Sets, Fields

(* Timers, and what else no part of the invariant looks at.                *)
LEMMA QuietKeeps ==
  ASSUME NEW c, ConInv(c), NEW d, Sets(c, d, {"timer", "live", "due", "ec", "lcode", "report"})
  PROVE  ConInv(d)
<1>1. DOMAIN d = Fields /\ d.http = c.http
  BY DEF Sets, Fields
<1>2. Flags(d)
  BY FlagsStay DEF ConInv
<1>3. Lists(d)
  BY ListsStay DEF ConInv
<1>4. Handled(d)
  BY HandledStays DEF ConInv
<1>5. Phased(d)
  BY <1>1, PhasedStays DEF ConInv
<1>6. Sending(d)
  BY SendingStays DEF ConInv
<1>7. QED BY <1>1, <1>2, <1>3, <1>4, <1>5, <1>6 DEF ConInv

LEMMA SetsTwice ==
  ASSUME NEW c, NEW d, NEW f, NEW ch, NEW ci, Sets(c, d, ch), Sets(d, f, ci)
  PROVE  Sets(c, f, ch \union ci)
BY DEF Sets

LEMMA SetsMore ==
  ASSUME NEW c, NEW d, NEW ch, NEW ci, Sets(c, d, ch), ch \subseteq ci
  PROVE  Sets(c, d, ci)
BY DEF Sets

LEMMA async_readKeeps ==
  ASSUME NEW c, ConInv(c), NEW h \in Reading(c.istate), h \in {"handshake", "response", "frame"},
         Up(c) \/ c.reads = <<>>
  PROVE  /\ ConInv(async_read(c, h)) /\ Sets(c, async_read(c, h), {"reads"})
         /\ async_read(c, h).reads = Append(c.reads, [h |-> h, r |-> "pending"])
<1> DEFINE d == async_read(c, h)
           op == [h |-> h, r |-> "pending"]
<1>1. Sets(c, d, {"reads"}) /\ d.reads = Append(c.reads, op)
  BY DEF async_read, ConInv, Sets, Fields
<1>2. op \in ReadOps
  BY DEF ReadOps
<1> HIDE DEF d, op
<1>3. /\ DOMAIN d = Fields /\ d.http = c.http /\ d.istate = c.istate
  BY <1>1 DEF Sets, Fields
<1>4. Flags(d) /\ Handled(d) /\ Sending(d)
  BY <1>1, FlagsStay, HandledStays, SendingStays DEF ConInv
<1>5. c.reads \in Seq(ReadOps)
  BY DEF ConInv, Lists
<1>6. Lists(d)
  <2>1. /\ d.queue = c.queue /\ d.current = c.current /\ d.rest = c.rest /\ d.buf = c.buf
        /\ d.writes = c.writes /\ d.got = c.got /\ d.sent = c.sent
    BY <1>1 DEF Sets, Fields
  <2>2. d.reads \in Seq(ReadOps)
    BY <1>1, <1>2, <1>5
  <2>3. QED BY <2>1, <2>2 DEF Lists, ConInv
<1>7. Phased(d)
  <2>1. /\ d.istate = c.istate /\ d.writes = c.writes /\ d.queue = c.queue
        /\ d.posted = c.posted /\ d.call = c.call /\ d.current = c.current
        /\ d.wflag = c.wflag /\ d.tail = c.tail /\ d.sent = c.sent /\ d.got = c.got
    BY <1>1 DEF Sets, Fields
  <2>2. ASSUME NEW i \in DOMAIN d.reads PROVE d.reads[i].h \in Reading(c.istate)
    <3>1. i \in 1 .. Len(c.reads) + 1 /\ Len(c.reads) \in Nat
      BY <1>1, <1>2, <1>5
    <3>2. CASE i = Len(c.reads) + 1
      BY <3>2, <1>1, <1>2, <1>5 DEF op
    <3>3. CASE i \in 1 .. Len(c.reads)
      <4>1. d.reads[i] = c.reads[i] /\ i \in DOMAIN c.reads
        BY <3>3, <1>1, <1>2, <1>5
      <4>2. QED BY <4>1 DEF ConInv, Phased
    <3>4. QED BY <3>1, <3>2, <3>3
  <2>3. ASSUME ~Up(d) PROVE Len(d.reads) <= 1
    <3>1. c.reads = <<>>
      BY <2>3, <1>3 DEF Up
    <3>2. QED BY <3>1, <1>1, <1>2, <1>5
  <2>4. QED BY <2>1, <2>2, <2>3, <1>3 DEF Phased, ConInv, Up
<1>8. QED BY <1>1, <1>3, <1>4, <1>6, <1>7 DEF ConInv, d, op

\* A message that is queued, and the write that it asks for.
Pushed(c, d, m) ==
  /\ Sets(c, d, {"queue", "posted"})
  /\ d.queue = Append(c.queue, m) /\ d.posted \in Nat

LEMMA write_pushKeeps ==
  ASSUME NEW c, ConInv(c), Up(c), NEW m \in Items
  PROVE  ConInv(write_push(c, m)) /\ Pushed(c, write_push(c, m), m)
<1> DEFINE d == write_push(c, m)
<1>1. Sets(c, d, {"queue", "posted"}) /\ d.queue = Append(c.queue, m) /\ d.posted \in Nat
  <2>1. DOMAIN c = Fields /\ c.posted \in Nat
    BY DEF ConInv, Flags
  <2>2. CASE c.wflag
    BY <2>1, <2>2 DEF write_push, Sets, Fields
  <2>3. CASE ~c.wflag
    <3>1. d = [c EXCEPT !.queue = Append(@, m), !.posted = @ + 1]
      BY <2>3 DEF write_push
    <3>2. Sets(c, d, {"queue", "posted"}) /\ d.queue = Append(c.queue, m) /\ d.posted = c.posted + 1
      BY <2>1, <3>1 DEF Sets, Fields
    <3>3. QED BY <3>2, <2>1
  <2>4. QED BY <2>2, <2>3
<1> HIDE DEF d
<1>2. /\ DOMAIN d = Fields /\ d.http = c.http /\ d.istate = c.istate
  BY <1>1 DEF Sets, Fields
<1>3. Handled(d) /\ Sending(d)
  BY <1>1, HandledStays, SendingStays DEF ConInv
<1>4. Flags(d)
  <2>1. /\ d.is_server = c.is_server /\ d.is_http = c.is_http /\ d.clean = c.clean
        /\ d.wflag = c.wflag /\ d.rflag = c.rflag /\ d.shut = c.shut /\ d.state = c.state
        /\ d.status = c.status /\ d.sends = c.sends /\ d.opens = c.opens
        /\ d.fails = c.fails /\ d.closes = c.closes /\ d.rcode = c.rcode
    BY <1>1 DEF Sets, Fields
  <2>2. QED BY <2>1, <1>1 DEF Flags, ConInv
<1>5. Lists(d)
  <2>1. /\ d.reads = c.reads /\ d.current = c.current /\ d.rest = c.rest /\ d.buf = c.buf
        /\ d.writes = c.writes /\ d.got = c.got /\ d.sent = c.sent
    BY <1>1 DEF Sets, Fields
  <2>2. d.queue \in Seq(Items)
    BY <1>1 DEF ConInv, Lists
  <2>3. QED BY <2>1, <2>2 DEF Lists, ConInv
<1>6. Phased(d)
  <2>1. /\ d.istate = c.istate /\ d.writes = c.writes /\ d.reads = c.reads /\ d.call = c.call
    BY <1>1 DEF Sets, Fields
  <2>2. QED BY <2>1, <1>2 DEF Phased, ConInv, Up
<1>7. QED BY <1>1, <1>2, <1>3, <1>4, <1>5, <1>6 DEF ConInv, Pushed, d

-----------------------------------------------------------------------------
(* Reading frames.                                                         *)
LEMMA Strings == Values \subseteq Payload
BY DEF Payload

LEMMA ItemIn ==
  ASSUME NEW k \in Kinds, NEW v \in Payload, NEW b \in BOOLEAN, k # "response"
  PROVE  [Item(k, v) EXCEPT !.terminal = b] \in Items /\ Item(k, v) \in Items
BY DEF Item, Items

\* The close frame that is queued, and the code it carries.
ClosingWith(c, d, code, ack) ==
  /\ Sets(c, d, {"lcode", "state", "clean", "timer", "live", "queue", "posted", "closer"})
  /\ d.state = "closing" /\ (d.clean <=> c.clean \/ ack)
  /\ d.lcode \in Payload
  /\ d.lcode \in {x \in {code} : x # "blank"} \union {"no_status", "normal"} \union {x \in {c.rcode} : ack}
  /\ \E m \in Items : m.k = "close" /\ m.v = d.lcode /\ d.queue = Append(c.queue, m)

LEMMA send_close_frameKeeps ==
  ASSUME NEW c, ConInv(c), c.state \in {"open", "closing"}, NEW code \in Payload, NEW ack \in BOOLEAN
  PROVE  ConInv(send_close_frame(c, code, ack)) /\ ClosingWith(c, send_close_frame(c, code, ack), code, ack)
<1> DEFINE l == IF code # "blank" THEN code
                ELSE IF ~ack THEN "no_status"
                ELSE IF c.rcode = "no_status" THEN "normal" ELSE c.rcode
           b == IF ack THEN c.is_server ELSE terminal(code)
           m == [Item("close", l) EXCEPT !.terminal = b]
           f == [c EXCEPT !.lcode = l, !.state = "closing", !.clean = @ \/ ack]
           g == set_timer(f, "close")
           d == write_push(g, m)
<1>1. d = send_close_frame(c, code, ack)
  BY DEF send_close_frame
<1>2. /\ l \in Payload
      /\ l \in {x \in {code} : x # "blank"} \union {"no_status", "normal"} \union {x \in {c.rcode} : ack}
  <2>1. c.rcode \in Payload /\ "no_status" \in Payload /\ "normal" \in Payload
    <3>1. c.rcode \in Payload
      BY DEF ConInv, Flags
    <3>2. QED BY <3>1, Strings DEF Values
  <2>2. QED BY <2>1
<1> HIDE DEF l
<1>3. m \in Items /\ m.k = "close" /\ m.v = l
  <2>1. b \in BOOLEAN
    <3>1. c.is_server \in BOOLEAN /\ terminal(code) \in BOOLEAN
      BY DEF ConInv, Flags, terminal
    <3>2. QED BY <3>1, Zenon
  <2> HIDE DEF b
  <2>2. m \in Items
    <3>1. "close" \in Kinds /\ "close" # "response"
      BY DEF Kinds
    <3>2. QED BY <2>1, <3>1, <1>2, ItemIn
  <2>3. QED BY <2>2 DEF Item
<1> HIDE DEF m, b
<1>4. /\ Sets(c, f, {"lcode", "state", "clean"}) /\ f.state = "closing" /\ f.lcode = l
      /\ (f.clean <=> c.clean \/ ack) /\ f.clean \in BOOLEAN
  BY DEF ConInv, Sets, Fields
<1> HIDE DEF f
<1>5. ConInv(f) /\ Up(f)
  <2>1. /\ DOMAIN f = Fields /\ f.istate = c.istate /\ f.http = c.http
        /\ f.opens = c.opens /\ f.closes = c.closes /\ f.fails = c.fails
    BY <1>4 DEF Sets, Fields
  <2>2. Lists(f) /\ Phased(f) /\ Sending(f)
    BY <2>1, <1>4, ListsStay, PhasedStays, SendingStays DEF ConInv
  <2>3. Flags(f)
    <3>1. /\ f.is_server = c.is_server /\ f.is_http = c.is_http
          /\ f.wflag = c.wflag /\ f.rflag = c.rflag /\ f.shut = c.shut
          /\ f.status = c.status /\ f.sends = c.sends /\ f.opens = c.opens /\ f.posted = c.posted
          /\ f.fails = c.fails /\ f.closes = c.closes /\ f.rcode = c.rcode
      BY <1>4 DEF Sets, Fields
    <3>2. QED BY <3>1, <1>4 DEF Flags, ConInv, States
  <2>4. Handled(f) /\ Up(f)
    BY <2>1, <1>4 DEF Handled, ConInv, Up
  <2>5. QED BY <2>1, <2>2, <2>3, <2>4 DEF ConInv
<1>6. ConInv(g) /\ Up(g) /\ Sets(f, g, {"timer", "live"})
  <2>1. Sets(f, g, {"timer", "live"})
    BY <1>5, set_timerSets DEF ConInv
  <2>2. Sets(f, g, {"timer", "live", "due", "ec", "lcode", "report"})
    BY <2>1, SetsMore
  <2>3. QED BY <2>1, <2>2, <1>5, QuietKeeps DEF Up, Sets, Fields
<1> HIDE DEF g
<1>7. ConInv(d) /\ Pushed(g, d, m)
  BY <1>3, <1>6, write_pushKeeps
<1> HIDE DEF d
<1>8. /\ Sets(c, d, {"lcode", "state", "clean", "timer", "live", "queue", "posted", "closer"})
      /\ d.lcode = l /\ d.state = "closing" /\ d.clean = f.clean /\ d.queue = Append(c.queue, m)
  <2>1. Sets(g, d, {"queue", "posted"}) /\ d.queue = Append(g.queue, m)
    BY <1>7 DEF Pushed
  <2>2. QED BY <2>1, <1>4, <1>6 DEF Sets, Fields
<1>9. ClosingWith(c, d, code, ack)
  BY <1>2, <1>3, <1>4, <1>8 DEF ClosingWith
<1>10. QED BY <1>1, <1>7, <1>9

\* What a control frame m does to a connection.
Answers(c, d, m) ==
  \/ Sets(c, d, {"live"})
  \/ \E x \in Items : x.k = "pong" /\ Pushed(c, d, x)
  \/ /\ m.k = "close" /\ c.state \in {"open", "closing"}
     /\ \E f : /\ Sets(c, f, {"rcode"}) /\ f.rcode = m.v
               /\ \/ invalid(m.v) /\ ClosingWith(f, d, "protocol_error", TRUE)
                  \/ ~invalid(m.v) /\ c.state = "open" /\ ClosingWith(f, d, "blank", TRUE)
                  \/ /\ ~invalid(m.v) /\ c.state = "closing"
                     /\ \E g : /\ Sets(f, g, {"clean"}) /\ g.clean = TRUE
                               /\ d = g \/ Terminated(g, d, "none")
                  \/ c.state = "closing" /\ c.clean = TRUE /\ d = f

LEMMA RcodeKeeps ==
  ASSUME NEW c, ConInv(c), NEW d, Sets(c, d, {"rcode"}), d.rcode \in Payload
  PROVE  ConInv(d)
<1>1. /\ DOMAIN d = Fields /\ d.http = c.http
      /\ d.is_server = c.is_server /\ d.is_http = c.is_http /\ d.clean = c.clean
      /\ d.wflag = c.wflag /\ d.rflag = c.rflag /\ d.shut = c.shut /\ d.state = c.state
      /\ d.status = c.status /\ d.posted = c.posted /\ d.sends = c.sends /\ d.opens = c.opens
      /\ d.fails = c.fails /\ d.closes = c.closes
  BY DEF Sets, Fields
<1>2. Flags(d)
  BY <1>1 DEF Flags, ConInv
<1>3. Lists(d) /\ Handled(d) /\ Sending(d)
  BY ListsStay, HandledStays, SendingStays DEF ConInv
<1>4. Phased(d)
  BY <1>1, PhasedStays DEF ConInv
<1>5. QED BY <1>1, <1>2, <1>3, <1>4 DEF ConInv

LEMMA CleanKeeps ==
  ASSUME NEW c, ConInv(c), NEW d, Sets(c, d, {"clean"}), d.clean = TRUE
  PROVE  ConInv(d)
<1>1. /\ DOMAIN d = Fields /\ d.http = c.http
      /\ d.is_server = c.is_server /\ d.is_http = c.is_http /\ d.rcode = c.rcode
      /\ d.wflag = c.wflag /\ d.rflag = c.rflag /\ d.shut = c.shut /\ d.state = c.state
      /\ d.status = c.status /\ d.posted = c.posted /\ d.sends = c.sends /\ d.opens = c.opens
      /\ d.fails = c.fails /\ d.closes = c.closes
  BY DEF Sets, Fields
<1>2. Flags(d)
  BY <1>1 DEF Flags, ConInv
<1>3. Lists(d) /\ Handled(d) /\ Sending(d)
  BY ListsStay, HandledStays, SendingStays DEF ConInv
<1>4. Phased(d)
  BY <1>1, PhasedStays DEF ConInv
<1>5. QED BY <1>1, <1>2, <1>3, <1>4 DEF ConInv

LEMMA SetsItself ==
  ASSUME NEW c, DOMAIN c = Fields, NEW ch PROVE Sets(c, c, ch)
BY DEF Sets

LEMMA process_control_frameAnswers ==
  ASSUME NEW c, ConInv(c), Up(c), NEW m \in Items, m.k \in {"ping", "pong", "close"}
  PROVE  /\ Answers(c, process_control_frame(c, m), m)
         /\ ConInv(process_control_frame(c, m)) /\ Up(process_control_frame(c, m))
<1> DEFINE p == process_control_frame(c, m)
           d == [c EXCEPT !.rcode = m.v]
           g == [d EXCEPT !.clean = TRUE]
<1>1. DOMAIN c = Fields /\ c.state \in States /\ m.v \in Payload
  BY DEF ConInv, Flags, Items
<1>2. CASE c.state = "closed" \/ (m.k # "close" /\ c.state # "open")
  <2>1. p = c
    BY <1>2 DEF process_control_frame
  <2>2. QED BY <2>1, <1>1, SetsItself DEF Answers
<1>3. CASE c.state = "open" /\ m.k = "ping"
  <2>1. p = write_push(c, Item("pong", ""))
    BY <1>3 DEF process_control_frame, pong
  <2>2. Item("pong", "") \in Items /\ Item("pong", "").k = "pong"
    <3>1. "pong" \in Kinds /\ "" \in Payload /\ TRUE \in BOOLEAN /\ "pong" # "response"
      BY Strings DEF Kinds, Values
    <3>2. Item("pong", "") \in Items
      BY <3>1, ItemIn
    <3>3. QED BY <3>2 DEF Item
  <2>3. ConInv(p) /\ Pushed(c, p, Item("pong", ""))
    BY <2>1, <2>2, write_pushKeeps
  <2>4. Up(p)
    BY <2>3 DEF Up, Pushed, Sets, Fields
  <2>5. QED BY <2>2, <2>3, <2>4 DEF Answers
<1>4. CASE c.state = "open" /\ m.k = "pong"
  <2>1. p = [c EXCEPT !.live = @ \ {"ping"}]
    BY <1>4 DEF process_control_frame
  <2>2. Sets(c, p, {"live"})
    BY <2>1, <1>1 DEF Sets, Fields
  <2> HIDE DEF p
  <2>3. Sets(c, p, {"timer", "live", "due", "ec", "lcode", "report"})
    BY <2>2, SetsMore
  <2>4. ConInv(p)
    BY <2>3, QuietKeeps
  <2>5. Up(p)
    BY <2>2 DEF Up, Sets, Fields
  <2>6. QED BY <2>2, <2>4, <2>5 DEF Answers, p
<1>5. CASE c.state \in {"open", "closing"} /\ m.k = "close"
  <2>1. p = handle_close_frame(d)
    BY <1>5 DEF process_control_frame
  <2>2. Sets(c, d, {"rcode"}) /\ d.rcode = m.v
    BY <1>1 DEF Sets, Fields
  <2>3. DOMAIN d = Fields
    BY <2>2 DEF Sets
  <2>4. Sets(d, g, {"clean"}) /\ g.clean = TRUE
    BY <2>3 DEF Sets, Fields
  <2> HIDE DEF p, d, g
  <2>5. ConInv(d) /\ Up(d) /\ d.state = c.state /\ d.clean = c.clean
    <3>1. ConInv(d)
      BY <2>2, <1>1, RcodeKeeps
    <3>2. QED BY <3>1, <2>2 DEF Up, Sets, Fields
  <2>6. ConInv(g) /\ Up(g)
    <3>1. ConInv(g)
      BY <2>4, <2>5, CleanKeeps
    <3>2. QED BY <3>1, <2>4, <2>5 DEF Up, Sets, Fields
  <2>7. "protocol_error" \in Payload /\ "blank" \in Payload
    BY Strings DEF Values
  <2>8. CASE invalid(m.v)
    <3>1. p = send_close_frame(d, "protocol_error", TRUE)
      BY <2>1, <2>2, <2>8 DEF handle_close_frame, send_close_ack
    <3>2. ConInv(p) /\ ClosingWith(d, p, "protocol_error", TRUE)
      BY <3>1, <2>5, <2>7, <1>5, send_close_frameKeeps
    <3>3. Up(p)
      BY <3>2, <2>5 DEF ClosingWith, Up, Sets, Fields
    <3>4. Answers(c, p, m)
      BY <3>2, <2>2, <2>8, <1>5 DEF Answers
    <3>5. QED BY <3>2, <3>3, <3>4 DEF p
  <2>9. CASE ~invalid(m.v) /\ c.state = "open"
    <3>1. p = send_close_frame(d, "blank", TRUE)
      BY <2>1, <2>2, <2>5, <2>9 DEF handle_close_frame, send_close_ack
    <3>2. ConInv(p) /\ ClosingWith(d, p, "blank", TRUE)
      BY <3>1, <2>5, <2>7, <1>5, send_close_frameKeeps
    <3>3. Up(p)
      BY <3>2, <2>5 DEF ClosingWith, Up, Sets, Fields
    <3>4. Answers(c, p, m)
      BY <3>2, <2>2, <2>9, <1>5 DEF Answers
    <3>5. QED BY <3>2, <3>3, <3>4 DEF p
  <2>10. CASE ~invalid(m.v) /\ c.state = "closing" /\ ~c.clean
    <3>1. p = IF d.is_server THEN terminate(g, "none") ELSE g
      BY <2>1, <2>2, <2>5, <2>10 DEF handle_close_frame, g
    <3>2. ConInv(p) /\ (p = g \/ Terminated(g, p, "none"))
      BY <3>1, <2>6, terminateKeeps
    <3>3. Up(p)
      BY <3>2, <2>6 DEF Terminated, Up, Sets, Fields
    <3>4. Answers(c, p, m)
      BY <3>2, <2>2, <2>4, <2>10, <1>5 DEF Answers
    <3>5. QED BY <3>2, <3>3, <3>4 DEF p
  <2>11. CASE ~invalid(m.v) /\ c.state = "closing" /\ c.clean
    <3>1. p = d
      BY <2>1, <2>2, <2>5, <2>11 DEF handle_close_frame
    <3>2. c.clean = TRUE
      BY <2>11 DEF ConInv, Flags
    <3>3. Answers(c, p, m)
      BY <3>1, <3>2, <2>2, <2>11, <1>5, Zenon DEF Answers
    <3>4. QED BY <3>1, <3>3, <2>5 DEF p
  <2>12. QED BY <2>8, <2>9, <2>10, <2>11, <1>5, Zenon
<1>6. \/ c.state = "closed" \/ (m.k # "close" /\ c.state # "open")
      \/ c.state = "open" /\ m.k = "ping"
      \/ c.state = "open" /\ m.k = "pong"
      \/ c.state \in {"open", "closing"} /\ m.k = "close"
  <2>1. c.state # "connecting"
    BY DEF ConInv, Handled
  <2>2. QED BY <2>1, <1>1 DEF States
<1>7. QED BY <1>2, <1>3, <1>4, <1>5, <1>6, Zenon

\* What one frame does, and whether it ends the loop.
Takes(c, d, m) ==
  \/ m.k = "data" /\ c.state = "open" /\ Sets(c, d, {"got"}) /\ d.got = Append(c.got, m.v)
  \/ m.k = "data" /\ c.state # "open" /\ Sets(c, d, {})
  \/ m.k \in {"ping", "pong", "close"} /\ Answers(c, d, m)
  \/ m.k \notin {"data", "ping", "pong", "close"} /\ c.state = "open" /\ ClosingWith(c, d, "protocol_error", FALSE)
  \/ m.k \notin {"data", "ping", "pong", "close"} /\ c.state # "open" /\ Terminated(c, d, "invalid_state")

LEMMA GotKeeps ==
  ASSUME NEW c, ConInv(c), Up(c), NEW d, Sets(c, d, {"got"}), d.got \in Seq(Payload)
  PROVE  ConInv(d) /\ Up(d)
<1>1. /\ DOMAIN d = Fields /\ d.http = c.http /\ d.istate = c.istate /\ d.call = c.call
      /\ d.writes = c.writes /\ d.reads = c.reads /\ d.queue = c.queue
      /\ d.current = c.current /\ d.rest = c.rest /\ d.buf = c.buf /\ d.sent = c.sent
  BY DEF Sets, Fields
<1>2. Flags(d) /\ Handled(d) /\ Sending(d)
  BY FlagsStay, HandledStays, SendingStays DEF ConInv
<1>3. Lists(d)
  BY <1>1 DEF Lists, ConInv
<1>4. Phased(d)
  BY <1>1 DEF Phased, ConInv, Up
<1>5. QED BY <1>1, <1>2, <1>3, <1>4 DEF ConInv, Up

LEMMA consumeTakes ==
  ASSUME NEW c, ConInv(c), Up(c), NEW m \in Items
  PROVE  \E d, b : /\ consume([c |-> c, stop |-> FALSE], m) = [c |-> d, stop |-> b] /\ b \in BOOLEAN
                   /\ Takes(c, d, m) /\ ConInv(d) /\ Up(d)
                   /\ b = TRUE => d.state # "open"
<1> DEFINE s == [c |-> c, stop |-> FALSE]
<1>1. m.k \in Kinds /\ m.v \in Payload /\ DOMAIN c = Fields /\ c.got \in Seq(Payload)
  BY DEF Items, ConInv, Lists
<1>2. CASE m.k = "data" /\ c.state = "open"
  <2> DEFINE d == [c EXCEPT !.got = Append(@, m.v)]
  <2>1. consume(s, m) = [c |-> d, stop |-> FALSE]
    BY <1>2 DEF consume
  <2>2. Sets(c, d, {"got"}) /\ d.got = Append(c.got, m.v)
    BY <1>1 DEF Sets, Fields
  <2>3. d.got \in Seq(Payload)
    BY <2>2, <1>1
  <2> HIDE DEF d
  <2>4. ConInv(d) /\ Up(d)
    BY <2>2, <2>3, GotKeeps
  <2>5. Takes(c, d, m)
    BY <2>2, <1>2 DEF Takes
  <2>6. FALSE \in BOOLEAN
    OBVIOUS
  <2>7. QED BY <2>1, <2>4, <2>5, <2>6
<1>3. CASE m.k = "data" /\ c.state # "open"
  <2> DEFINE d == [c EXCEPT !.got = @]
  <2>1. consume(s, m) = [c |-> d, stop |-> FALSE]
    BY <1>3 DEF consume
  <2>2. Sets(c, d, {}) /\ Sets(c, d, {"got"}) /\ d.got = c.got
    BY <1>1 DEF Sets, Fields
  <2> HIDE DEF d
  <2>3. ConInv(d) /\ Up(d)
    BY <2>2, <1>1, GotKeeps
  <2>4. Takes(c, d, m)
    BY <2>2, <1>3 DEF Takes
  <2>5. FALSE \in BOOLEAN
    OBVIOUS
  <2>6. QED BY <2>1, <2>3, <2>4, <2>5
<1>4. CASE m.k \in {"ping", "pong", "close"}
  <2> DEFINE d == process_control_frame(c, m)
  <2>1. consume(s, m) = [c |-> d, stop |-> FALSE]
    BY <1>4 DEF consume
  <2>2. Answers(c, d, m) /\ ConInv(d) /\ Up(d)
    BY <1>4, process_control_frameAnswers
  <2> HIDE DEF d
  <2>3. Takes(c, d, m)
    BY <2>2, <1>4 DEF Takes
  <2>4. FALSE \in BOOLEAN
    OBVIOUS
  <2>5. QED BY <2>1, <2>2, <2>3, <2>4
<1>5. CASE m.k \notin {"data", "ping", "pong", "close"} /\ c.state = "open"
  <2> DEFINE d == send_close_frame(c, "protocol_error", FALSE)
  <2>1. consume(s, m) = [c |-> d, stop |-> TRUE]
    BY <1>5 DEF consume, close
  <2>2. "protocol_error" \in Payload
    BY Strings DEF Values
  <2>3. ConInv(d) /\ ClosingWith(c, d, "protocol_error", FALSE)
    BY <2>2, <1>5, send_close_frameKeeps
  <2> HIDE DEF d
  <2>4. Takes(c, d, m) /\ Up(d)
    BY <2>3, <1>5 DEF Takes, Up, ClosingWith, Sets, Fields
  <2>5. TRUE \in BOOLEAN /\ d.state # "open"
    BY <2>3 DEF ClosingWith
  <2>6. QED BY <2>1, <2>3, <2>4, <2>5
<1>6. CASE m.k \notin {"data", "ping", "pong", "close"} /\ c.state # "open"
  <2> DEFINE d == terminate(c, "invalid_state")
  <2>1. consume(s, m) = [c |-> d, stop |-> TRUE]
    BY <1>6 DEF consume
  <2>2. ConInv(d) /\ Terminated(c, d, "invalid_state")
    BY terminateKeeps
  <2> HIDE DEF d
  <2>3. Takes(c, d, m) /\ Up(d)
    BY <2>2, <1>6, ZenonT(60) DEF Takes, Up, Terminated, Sets, Fields
  <2>4. TRUE \in BOOLEAN /\ d.state # "open"
    BY <2>2 DEF Terminated
  <2>5. QED BY <2>1, <2>2, <2>3, <2>4
<1>7. QED BY <1>2, <1>3, <1>4, <1>5, <1>6, Zenon

LEMMA LeastOf ==
  ASSUME NEW B, B \subseteq Nat, B # {}
  PROVE  \E m \in B : \A k \in B : m <= k
<1> DEFINE T == {0 .. n : n \in B}
<1>1. T \subseteq FiniteSubsetsOf(Nat)
  <2>1. ASSUME NEW n \in Nat PROVE 0 .. n \in SUBSET Nat /\ IsFiniteSet(0 .. n)
    BY FS_Interval
  <2>2. QED BY <2>1 DEF FiniteSubsetsOf
<1>2. T # {} OBVIOUS
<1> HIDE DEF T
<1>3. PICK x \in T : \A y \in T : ~(<<y, x>> \in StrictSubsetOrdering(Nat))
  BY <1>1, <1>2, WFMin, FS_StrictSubsetOrderingWellFounded, Zenon
<1>4. PICK m \in B : x = 0 .. m BY DEF T
<1>5. ASSUME NEW k \in B, k < m PROVE FALSE
  <2>1. 0 .. k \in T BY DEF T
  <2>2. /\ 0 .. k \in SUBSET Nat /\ 0 .. m \in SUBSET Nat
        /\ 0 .. k \subseteq 0 .. m
    BY <1>5
  <2>3. 0 .. k # 0 .. m
    <3>1. m \in 0 .. m /\ m \notin 0 .. k BY <1>5
    <3>2. QED BY <3>1
  <2>4. <<0 .. k, 0 .. m>> \in StrictSubsetOrdering(Nat)
    BY <2>2, <2>3 DEF StrictSubsetOrdering
  <2>5. QED BY <2>1, <2>4, <1>3, <1>4
<1>6. QED BY <1>5

(* Induction, over a set.                                                  *)
LEMMA InductionOver ==
  ASSUME NEW P, 0 \in P, \A n \in Nat : n \in P => n + 1 \in P
  PROVE  Nat \subseteq P
<1> DEFINE B == {n \in Nat : n \notin P}
<1>1. SUFFICES ASSUME B # {} PROVE FALSE OBVIOUS
<1>2. PICK m \in B : \A k \in B : m <= k BY <1>1, LeastOf
<1>3. m # 0 OBVIOUS
<1>4. m - 1 \in Nat /\ m - 1 \notin B BY <1>2, <1>3
<1>5. QED BY <1>4

(* The loop of handle_read_frame is the recursion it is written as.        *)
Loops(s, c, items) ==
  /\ s[0] = [c |-> c, stop |-> FALSE]
  /\ \A i \in 1 .. Len(items) : s[i] = consume(s[i - 1], items[i])

LEMMA consumedLoops ==
  ASSUME NEW c, NEW items \in Seq(Items)
  PROVE  Loops(consumed(c, items), c, items)
<1> DEFINE N == Len(items)
           a == [c |-> c, stop |-> FALSE]
           P == {n \in Nat : n <= N => \E s : /\ s = [i \in 0 .. n |-> s[i]] /\ s[0] = a
                                              /\ \A i \in 1 .. n : s[i] = consume(s[i - 1], items[i])}
<1>1. N \in Nat
  OBVIOUS
<1> HIDE DEF N, a
<1>2. 0 \in P
  <2> DEFINE s == [i \in 0 .. 0 |-> a]
  <2>1. s = [i \in 0 .. 0 |-> s[i]] /\ s[0] = a /\ \A i \in 1 .. 0 : s[i] = consume(s[i - 1], items[i])
    OBVIOUS
  <2>2. QED BY <2>1
<1>3. ASSUME NEW n \in Nat, n \in P PROVE n + 1 \in P
  <2>1. SUFFICES ASSUME n + 1 <= N
                 PROVE  \E s : /\ s = [i \in 0 .. n + 1 |-> s[i]] /\ s[0] = a
                               /\ \A i \in 1 .. n + 1 : s[i] = consume(s[i - 1], items[i])
    OBVIOUS
  <2>2. PICK s : /\ s = [i \in 0 .. n |-> s[i]] /\ s[0] = a
                 /\ \A i \in 1 .. n : s[i] = consume(s[i - 1], items[i])
    BY <2>1, <1>1, <1>3
  <2> DEFINE v == consume(s[n], items[n + 1])
             t == [i \in 0 .. n + 1 |-> IF i = n + 1 THEN v ELSE s[i]]
  <2> HIDE DEF v
  <2>3. t = [i \in 0 .. n + 1 |-> t[i]] /\ t[0] = a /\ t[n + 1] = v /\ \A i \in 0 .. n : t[i] = s[i]
    BY <2>2
  <2> HIDE DEF t
  <2>4. ASSUME NEW i \in 1 .. n + 1 PROVE t[i] = consume(t[i - 1], items[i])
    <3>1. CASE i = n + 1
      <4>1. i - 1 = n /\ n \in 0 .. n
        BY <3>1
      <4>2. t[n] = s[n]
        BY <4>1, <2>3
      <4>3. QED BY <4>1, <4>2, <3>1, <2>3 DEF v
    <3>2. CASE i \in 1 .. n
      <4>1. i \in 0 .. n /\ i - 1 \in 0 .. n
        BY <3>2
      <4>2. t[i] = s[i] /\ t[i - 1] = s[i - 1]
        BY <4>1, <2>3
      <4>3. QED BY <4>2, <3>2, <2>2
    <3>3. QED BY <3>1, <3>2
  <2>5. QED BY <2>3, <2>4
<1>4. Nat \subseteq P
  <2> HIDE DEF P
  <2>1. QED BY <1>2, <1>3, InductionOver
<1>5. PICK s : /\ s = [i \in 0 .. N |-> s[i]] /\ s[0] = a
               /\ \A i \in 1 .. N : s[i] = consume(s[i - 1], items[i])
  BY <1>1, <1>4
<1> DEFINE G(f) == [i \in 0 .. N |-> IF i = 0 THEN a ELSE consume(f[i - 1], items[i])]
<1>6. \E f : f = G(f)
  <2>1. s = [i \in 0 .. N |-> s[i]]
    BY <1>5
  <2>2. ASSUME NEW i \in 0 .. N PROVE s[i] = IF i = 0 THEN a ELSE consume(s[i - 1], items[i])
    BY <1>1, <1>5
  <2>3. s = G(s)
    BY <2>1, <2>2, Zenon
  <2>4. QED BY <2>3
<1> DEFINE f == CHOOSE f : f = G(f)
<1>7. f = G(f)
  BY <1>6, Zenon
<1>8. consumed(c, items) = f
  BY DEF consumed, N, a
<1> HIDE DEF f
<1>9. f[0] = a /\ \A i \in 1 .. N : f[i] = consume(f[i - 1], items[i])
  <2>1. 0 \in 0 .. N /\ \A i \in 1 .. N : i \in 0 .. N /\ i # 0
    BY <1>1
  <2>2. QED BY <2>1, <1>7
<1>10. QED BY <1>8, <1>9 DEF Loops, N, a

\* k[i]: the connection after i frames.
TakesOrStops(c, d, m) == Takes(c, d, m) \/ (c.state # "open" /\ d = c)
Runs(k, c, items) ==
  /\ k[0] = c
  /\ \A i \in 0 .. Len(items) : ConInv(k[i]) /\ Up(k[i])
  /\ \A i \in 1 .. Len(items) : TakesOrStops(k[i - 1], k[i], items[i])

Going(s) ==
  /\ s = [c |-> s.c, stop |-> s.stop] /\ s.stop \in BOOLEAN
  /\ ConInv(s.c) /\ Up(s.c) /\ (s.stop = TRUE => s.c.state # "open")

LEMMA consumeGoes ==
  ASSUME NEW s, Going(s), NEW m \in Items
  PROVE  Going(consume(s, m)) /\ TakesOrStops(s.c, consume(s, m).c, m)
<1>1. s.stop \in BOOLEAN
  BY DEF Going
<1>2. CASE s.stop = TRUE
  <2>1. consume(s, m) = s
    BY <1>2 DEF consume
  <2>2. QED BY <2>1, <1>2 DEF Going, TakesOrStops
<1>3. CASE s.stop = FALSE
  <2>1. s = [c |-> s.c, stop |-> FALSE] /\ ConInv(s.c) /\ Up(s.c)
    BY <1>3, Zenon DEF Going
  <2>2. PICK d, b : /\ consume([c |-> s.c, stop |-> FALSE], m) = [c |-> d, stop |-> b] /\ b \in BOOLEAN
                    /\ Takes(s.c, d, m) /\ ConInv(d) /\ Up(d)
                    /\ b = TRUE => d.state # "open"
    BY <2>1, consumeTakes
  <2>3. consume(s, m) = [c |-> d, stop |-> b]
    BY <2>1, <2>2, Zenon
  <2>4. consume(s, m).c = d /\ consume(s, m).stop = b
    BY <2>3
  <2>5. Going(consume(s, m))
    BY <2>2, <2>3, <2>4, Zenon DEF Going
  <2>6. QED BY <2>2, <2>4, <2>5 DEF TakesOrStops
<1>4. QED BY <1>1, <1>2, <1>3, Zenon

LEMMA consumedRuns ==
  ASSUME NEW c, ConInv(c), Up(c), NEW items \in Seq(Items)
  PROVE  \E k : /\ Runs(k, c, items)
                /\ consumed(c, items)[Len(items)].c = k[Len(items)]
<1> DEFINE s == consumed(c, items)
           N == Len(items)
           P == {n \in Nat : n <= N => Going(s[n])}
<1>1. Loops(s, c, items)
  BY consumedLoops
<1>2. N \in Nat /\ \A i \in 1 .. N : items[i] \in Items
  OBVIOUS
<1> HIDE DEF s
<1>3. 0 \in P
  <2>1. s[0] = [c |-> c, stop |-> FALSE]
    BY <1>1 DEF Loops
  <2>2. s[0].c = c /\ s[0].stop = FALSE
    BY <2>1
  <2>3. Going(s[0])
    BY <2>1, <2>2, Zenon DEF Going
  <2>4. QED BY <2>3
<1>4. ASSUME NEW n \in Nat, n \in P PROVE n + 1 \in P
  <2>1. SUFFICES ASSUME n + 1 <= N PROVE Going(s[n + 1])
    OBVIOUS
  <2>2. n + 1 \in 1 .. N /\ n + 1 - 1 = n /\ Going(s[n])
    BY <2>1, <1>2, <1>4
  <2>3. s[n + 1] = consume(s[n], items[n + 1])
    BY <2>2, <1>1 DEF Loops
  <2>4. items[n + 1] \in Items
    BY <2>2, <1>2
  <2>5. QED BY <2>2, <2>3, <2>4, consumeGoes
<1>5. Nat \subseteq P
  <2> HIDE DEF P
  <2>1. QED BY <1>3, <1>4, InductionOver
<1>6. \A i \in 0 .. N : Going(s[i])
  BY <1>2, <1>5
<1> DEFINE k == [i \in 0 .. N |-> s[i].c]
<1>7. \A i \in 0 .. N : k[i] = s[i].c /\ ConInv(k[i]) /\ Up(k[i])
  BY <1>6 DEF Going
<1>8. k[0] = c
  <2>1. s[0].c = c /\ 0 \in 0 .. N
    BY <1>1, <1>2 DEF Loops
  <2>2. QED BY <2>1, <1>7
<1> HIDE DEF k
<1>9. ASSUME NEW i \in 1 .. N PROVE TakesOrStops(k[i - 1], k[i], items[i])
  <2>1. i - 1 \in 0 .. N /\ i \in 0 .. N /\ items[i] \in Items
    BY <1>2
  <2>2. s[i] = consume(s[i - 1], items[i])
    BY <1>1 DEF Loops
  <2>3. TakesOrStops(s[i - 1].c, s[i].c, items[i])
    BY <2>1, <2>2, <1>6, consumeGoes
  <2>4. QED BY <2>1, <2>3, <1>7
<1>10. Runs(k, c, items)
  BY <1>7, <1>8, <1>9 DEF Runs
<1>11. s[N].c = k[N]
  BY <1>2, <1>7
<1>12. QED BY <1>10, <1>11 DEF s

\* What handle_read_frame does: it takes the frames, and then reads on or
\* not; or it terminates or ignores the end of the stream.
ReadsFrames(c, d, r, items) ==
  \/ r = "ok" /\ \E k : /\ Runs(k, c, items)
                        /\ \/ d = k[Len(items)]
                           \/ /\ Sets(k[Len(items)], d, {"reads"})
                              /\ d.reads = Append(k[Len(items)].reads, [h |-> "frame", r |-> "pending"])
  \/ r # "ok" /\ c.state = "closed" /\ d = c
  \/ r # "ok" /\ \E ec : Terminated(c, d, ec)

LEMMA handle_read_frameKeeps ==
  ASSUME NEW c, ConInv(c), Up(c), NEW r \in {"ok", "eof", "error"}, NEW items \in Seq(Items)
  PROVE  ConInv(handle_read_frame(c, r, items)) /\ ReadsFrames(c, handle_read_frame(c, r, items), r, items)
<1> DEFINE d == handle_read_frame(c, r, items)
<1>1. CASE r # "ok"
  <2>1. (c.state = "closed" /\ d = c) \/ \E ec : d = terminate(c, ec)
    <3> DEFINE s == consumed(c, items)[Len(items)]
    <3>1. d = CASE r = "none" -> IF s.stop THEN s.c ELSE read_frame(s.c)
        [] r \in {"eof", "invalid_state"} /\ c.state = "closed" -> c
        [] r = "eof" /\ c.state = "closing" /\ ~c.is_server -> terminate(c, "none")
        [] OTHER -> terminate(c, r)
      BY <1>1 DEF handle_read_frame
    <3>2. r # "none"
      OBVIOUS
    <3> HIDE DEF d
    <3>3. (c.state = "closed" /\ d = c) \/ d = terminate(c, "none") \/ d = terminate(c, r)
      BY <3>1, <3>2
    <3>4. QED BY <3>3
  <2>2. QED BY <2>1, <1>1, terminateKeeps DEF ReadsFrames
<1>2. CASE r = "ok"
  <2> DEFINE s == consumed(c, items)[Len(items)]
  <2>1. d = IF s.stop THEN s.c ELSE read_frame(s.c)
    BY <1>2 DEF handle_read_frame, Up
  <2>2. PICK k : Runs(k, c, items) /\ s.c = k[Len(items)]
    BY consumedRuns
  <2> HIDE DEF s
  <2>3. Len(items) \in 0 .. Len(items)
    OBVIOUS
  <2>4. ConInv(s.c) /\ Up(s.c)
    BY <2>2, <2>3 DEF Runs
  <2>5. d = s.c \/ d = async_read(s.c, "frame")
    BY <2>1 DEF read_frame
  <2>6. CASE d = s.c
    BY <2>2, <2>4, <2>6, <1>2 DEF ReadsFrames
  <2>7. CASE d = async_read(s.c, "frame")
    <3>1. "frame" \in Reading(s.c.istate)
      BY <2>4 DEF Up, Reading
    <3>2. /\ ConInv(d) /\ Sets(s.c, d, {"reads"})
          /\ d.reads = Append(s.c.reads, [h |-> "frame", r |-> "pending"])
      BY <3>1, <2>4, <2>7, async_readKeeps
    <3>3. ReadsFrames(c, d, r, items)
      <4>1. /\ Sets(k[Len(items)], d, {"reads"})
            /\ d.reads = Append(k[Len(items)].reads, [h |-> "frame", r |-> "pending"])
        BY <3>2, <2>2
      <4> HIDE DEF d
      <4>2. QED BY <4>1, <2>2, <1>2 DEF ReadsFrames
    <3>4. QED BY <3>2, <3>3
  <2>8. QED BY <2>5, <2>6, <2>7
<1>3. QED BY <1>1, <1>2

-----------------------------------------------------------------------------
(* Writing frames.                                                         *)
LEMMA write_popFirst ==
  ASSUME NEW q \in Seq(Items)
  PROVE  /\ write_pop(q) \in 0 .. Len(q) /\ (q # <<>> => write_pop(q) > 0)
         /\ TerminalAtEnd(SubSeq(q, 1, write_pop(q)))
<1> DEFINE ends == {i \in DOMAIN q : q[i].terminal}
<1>1. Len(q) \in Nat /\ DOMAIN q = 1 .. Len(q) /\ ends \subseteq 1 .. Len(q) /\ (q # <<>> => Len(q) > 0)
  OBVIOUS
<1>2. CASE ends = {}
  <2>1. write_pop(q) = Len(q)
    BY <1>2 DEF write_pop
  <2>2. SubSeq(q, 1, Len(q)) = q
    BY <1>1
  <2>3. TerminalAtEnd(q)
    BY <1>2 DEF TerminalAtEnd
  <2>4. TerminalAtEnd(SubSeq(q, 1, write_pop(q)))
    BY <2>1, <2>2, <2>3, Zenon
  <2>5. write_pop(q) \in 0 .. Len(q) /\ (q # <<>> => write_pop(q) > 0)
    BY <2>1, <1>1
  <2>6. QED BY <2>4, <2>5
<1>3. CASE ends # {}
  <2>1. \E n \in ends : \A j \in ends : n <= j
    <3>1. ends \subseteq Nat
      BY <1>1
    <3> HIDE DEF ends
    <3>2. QED BY <3>1, <1>3, LeastOf
  <2> DEFINE n == CHOOSE i \in ends : \A j \in ends : i <= j
  <2>2. n \in ends /\ \A j \in ends : n <= j
    BY <2>1
  <2>3. write_pop(q) = n
    BY <1>3 DEF write_pop
  <2> HIDE DEF n
  <2>4. n \in 1 .. Len(q)
    BY <2>2, <1>1
  <2> DEFINE p == SubSeq(q, 1, n)
  <2>5. Len(p) = n /\ DOMAIN p = 1 .. n /\ \A i \in 1 .. n : p[i] = q[i]
    BY <2>4, <1>1
  <2>6. ASSUME NEW i \in DOMAIN p, p[i].terminal PROVE i = Len(p)
    <3>1. i \in 1 .. n /\ q[i].terminal /\ i \in DOMAIN q
      BY <2>4, <2>5, <2>6, <1>1
    <3>2. n <= i
      BY <3>1, <2>2
    <3>3. QED BY <3>1, <3>2, <2>4, <2>5
  <2>7. TerminalAtEnd(p)
    <3> HIDE DEF p
    <3>1. QED BY <2>6 DEF TerminalAtEnd
  <2>8. QED BY <2>3, <2>4, <2>7, <1>1
<1>4. QED BY <1>2, <1>3

\* What write_frame does: a part of the queue goes to the transport, or the
\* dispatched call finds nothing to do.
WritesFrames(c, d) ==
  \/ Sets(c, d, {"posted"})
  \/ /\ c.writes = <<>> /\ Sets(c, d, {"posted", "queue", "current", "wflag", "writes"})
     /\ \E n \in 1 .. Len(c.queue) :
          /\ d.queue = SubSeq(c.queue, n + 1, Len(c.queue))
          /\ d.current = SubSeq(c.queue, 1, n)
          /\ d.writes = <<[h |-> "frames", items |-> SubSeq(c.queue, 1, n), r |-> "pending"]>>

LEMMA SubSeqItems ==
  ASSUME NEW S, NEW q \in Seq(S), NEW n \in 0 .. Len(q)
  PROVE  /\ SubSeq(q, 1, n) \in Seq(S) /\ SubSeq(q, n + 1, Len(q)) \in Seq(S)
         /\ Len(SubSeq(q, 1, n)) = n
         /\ (n > 0 => SubSeq(q, 1, n) # <<>>)
<1>1. Len(q) \in Nat /\ \A i \in 1 .. Len(q) : q[i] \in S
  OBVIOUS
<1>2. SubSeq(q, 1, n) \in Seq(S) /\ Len(SubSeq(q, 1, n)) = n
  BY <1>1, SubSeqProperties
<1>3. SubSeq(q, n + 1, Len(q)) \in Seq(S)
  BY <1>1, SubSeqProperties
<1>4. QED BY <1>2, <1>3

LEMMA write_frameKeeps ==
  ASSUME NEW c, ConInv(c), c.posted > 0
  PROVE  ConInv(write_frame(c)) /\ WritesFrames(c, write_frame(c))
<1> DEFINE n == write_pop(c.queue)
           f == [c EXCEPT !.posted = @ - 1]
           d == write_frame(c)
           items == SubSeq(c.queue, 1, n)
           op == [h |-> "frames", items |-> items, r |-> "pending"]
<1>1. /\ DOMAIN c = Fields /\ c.queue \in Seq(Items) /\ c.posted \in Nat /\ c.wflag \in BOOLEAN
      /\ c.writes \in Seq(WriteOps)
  BY DEF ConInv, Flags, Lists
<1>2. Up(c)
  BY DEF ConInv, Phased
<1>3. CASE c.wflag \/ n = 0
  <2>1. d = f
    BY <1>3 DEF write_frame
  <2>2. Sets(c, f, {"posted"}) /\ f.posted = c.posted - 1
    BY <1>1 DEF Sets, Fields
  <2> HIDE DEF d, f
  <2>3. f.posted \in Nat
    BY <2>2, <1>1
  <2>4. /\ DOMAIN f = Fields /\ f.istate = c.istate /\ f.http = c.http
        /\ f.is_server = c.is_server /\ f.is_http = c.is_http /\ f.clean = c.clean
        /\ f.wflag = c.wflag /\ f.rflag = c.rflag /\ f.shut = c.shut /\ f.state = c.state
        /\ f.status = c.status /\ f.sends = c.sends /\ f.opens = c.opens
        /\ f.fails = c.fails /\ f.closes = c.closes /\ f.rcode = c.rcode
        /\ f.reads = c.reads /\ f.writes = c.writes /\ f.call = c.call
    BY <2>2 DEF Sets, Fields
  <2>5. Flags(f)
    BY <2>3, <2>4 DEF Flags, ConInv
  <2>6. Lists(f) /\ Handled(f) /\ Sending(f)
    BY <2>2, ListsStay, HandledStays, SendingStays DEF ConInv
  <2>7. Phased(f)
    BY <2>4, <1>2 DEF Phased, ConInv, Up
  <2>8. QED BY <2>1, <2>2, <2>4, <2>5, <2>6, <2>7 DEF ConInv, WritesFrames, d
<1>4. CASE ~(c.wflag \/ n = 0)
  <2>1. d = [[f EXCEPT !.queue = SubSeq(@, n + 1, Len(@)), !.wflag = TRUE, !.current = items]
               EXCEPT !.writes = Append(@, op)]
    BY <1>4 DEF write_frame, async_write
  <2>2. n \in 1 .. Len(c.queue) /\ TerminalAtEnd(items)
    BY <1>1, <1>4, write_popFirst
  <2>3. c.writes = <<>> /\ c.tail # "terminal"
    <3>1. c.writes # <<>> => c.wflag
      BY <1>2 DEF ConInv, Sending
    <3>2. c.tail = "terminal" => c.wflag
      BY DEF ConInv, Sending
    <3>3. QED BY <3>1, <3>2, <1>4
  <2>4. n \in 0 .. Len(c.queue) /\ n > 0
    BY <2>2
  <2>5. /\ items \in Seq(Items) /\ SubSeq(c.queue, n + 1, Len(c.queue)) \in Seq(Items) /\ items # <<>>
    BY <2>4, <1>1, SubSeqItems
  <2> HIDE DEF n
  <2>6. /\ Sets(c, d, {"posted", "queue", "current", "wflag", "writes"})
        /\ d.posted = c.posted - 1 /\ d.queue = SubSeq(c.queue, n + 1, Len(c.queue))
        /\ d.current = items /\ d.wflag = TRUE /\ d.writes = Append(c.writes, op)
    BY <2>1, <1>1 DEF Sets, Fields
  <2>7. op \in WriteOps
    BY <2>5 DEF WriteOps
  <2> HIDE DEF d, items, op
  <2>8. d.writes = <<op>> /\ d.writes \in Seq(WriteOps) /\ Len(d.writes) = 1 /\ d.writes[1] = op
        /\ DOMAIN d.writes = {1}
    BY <2>3, <2>6, <2>7
  <2>9. /\ DOMAIN d = Fields /\ d.istate = c.istate /\ d.http = c.http
        /\ d.is_server = c.is_server /\ d.is_http = c.is_http /\ d.clean = c.clean
        /\ d.rflag = c.rflag /\ d.shut = c.shut /\ d.state = c.state
        /\ d.status = c.status /\ d.sends = c.sends /\ d.opens = c.opens
        /\ d.fails = c.fails /\ d.closes = c.closes /\ d.rcode = c.rcode
        /\ d.reads = c.reads /\ d.tail = c.tail /\ d.call = c.call
        /\ d.rest = c.rest /\ d.buf = c.buf /\ d.got = c.got /\ d.sent = c.sent
    BY <2>6 DEF Sets, Fields
  <2>10. Flags(d)
    <3>1. d.posted \in Nat /\ d.wflag \in BOOLEAN
      <4>1. d.posted \in Nat
        BY <2>6, <1>1
      <4>2. QED BY <4>1, <2>6
    <3>2. QED BY <3>1, <2>9 DEF Flags, ConInv
  <2>11. Lists(d)
    BY <2>5, <2>6, <2>8, <2>9 DEF Lists, ConInv
  <2>12. Handled(d)
    BY <2>6, HandledStays DEF ConInv
  <2>13. op.h = "frames" /\ op.items = items /\ op.r = "pending" /\ d.writes # <<>>
    BY <2>8 DEF op
  <2>14. Phased(d)
    <3>1. "frames" \in Writing(d.istate) /\ Up(d)
      BY <2>9, <1>2 DEF Up, Writing
    <3>2. \A i \in DOMAIN d.writes : d.writes[i].h \in Writing(d.istate)
      BY <3>1, <2>8, <2>13
    <3>3. c.http # "deferred"
      BY <1>2 DEF ConInv, Phased, Up
    <3>4. QED BY <3>1, <3>2, <3>3, <2>8, <2>9 DEF Phased, ConInv
  <2>15. Sending(d)
    <3>1. d.tail \in {"frames", "terminal"} /\ d.tail # "terminal"
      BY <2>3, <2>9 DEF Sending, ConInv
    <3>2. TerminalAtEnd(d.writes[1].items) /\ d.current = d.writes[1].items /\ d.current # <<>>
      BY <2>2, <2>5, <2>6, <2>8, <2>13
    <3>3. Up(d)
      BY <2>9, <1>2 DEF Up
    <3>4. QED BY <3>1, <3>2, <3>3, <2>6, <2>13, Zenon DEF Sending
  <2>16. ConInv(d)
    BY <2>9, <2>10, <2>11, <2>12, <2>14, <2>15 DEF ConInv
  <2>17. WritesFrames(c, d)
    BY <2>2, <2>3, <2>6, <2>8 DEF WritesFrames, items, op
  <2>18. QED BY <2>16, <2>17 DEF d
<1>5. QED BY <1>3, <1>4

\* The completed write leaves the transport.
LEMMA TailOfOne ==
  ASSUME NEW S, NEW s \in Seq(S), s # <<>>, Len(s) <= 1
  PROVE  Tail(s) = <<>> /\ Len(s) = 1 /\ DOMAIN s = {1} /\ s[1] \in S /\ Head(s) = s[1]
<1>1. Len(s) \in Nat /\ Len(s) # 0
  OBVIOUS
<1>2. Len(s) = 1
  BY <1>1
<1>3. Tail(s) \in Seq(S) /\ Len(Tail(s)) = 0
  BY <1>2
<1>4. Tail(s) = <<>>
  BY <1>3, EmptySeq
<1>5. DOMAIN s = {1} /\ s[1] \in S /\ Head(s) = s[1]
  BY <1>2
<1>6. QED BY <1>2, <1>4, <1>5

FramesWritten(c, d) ==
  \E g : /\ Sets(c, g, {"writes", "current"}) /\ g.writes = <<>> /\ g.current = <<>>
         /\ (\E ec : Terminated(g, d, ec)) \/ (c.writes[1].r = "ok" /\ Sets(g, d, {"wflag", "posted"}))

LEMMA handle_write_frameKeeps ==
  ASSUME NEW c, ConInv(c), Up(c), c.writes # <<>>, c.writes[1].r # "pending"
  PROVE  /\ ConInv(handle_write_frame([c EXCEPT !.writes = Tail(@)], c.writes[1].r))
         /\ FramesWritten(c, handle_write_frame([c EXCEPT !.writes = Tail(@)], c.writes[1].r))
<1> DEFINE f == [c EXCEPT !.writes = Tail(@)]
           r == c.writes[1].r
           g == [f EXCEPT !.current = <<>>]
           d == handle_write_frame(f, r)
<1>1. /\ DOMAIN c = Fields /\ c.writes \in Seq(WriteOps) /\ Len(c.writes) <= 1 /\ c.current \in Seq(Items)
      /\ c.posted \in Nat
  BY DEF ConInv, Lists, Phased, Flags
<1>2. Tail(c.writes) = <<>> /\ c.writes[1] \in WriteOps
  BY <1>1, TailOfOne
<1>3. Sets(c, g, {"writes", "current"}) /\ g.writes = <<>> /\ g.current = <<>>
  BY <1>1, <1>2 DEF Sets, Fields
<1>4. f.current = c.current
  BY <1>1 DEF Fields
<1>5. d = CASE r = "error" -> terminate(g, "error")
            [] r = "ok" /\ Last(f.current).terminal -> terminate(g, "none")
            [] OTHER -> [g EXCEPT !.wflag = FALSE, !.posted = IF g.queue # <<>> THEN @ + 1 ELSE @]
  BY DEF handle_write_frame
<1>6. r \in {"ok", "error"}
  BY <1>2 DEF WriteOps
<1> HIDE DEF f, g, d, r
<1>7. /\ DOMAIN g = Fields /\ g.istate = c.istate /\ g.http = c.http /\ g.call = c.call
      /\ g.reads = c.reads /\ g.tail = c.tail /\ g.wflag = c.wflag /\ g.posted = c.posted
      /\ g.rest = c.rest /\ g.buf = c.buf /\ g.got = c.got /\ g.sent = c.sent /\ g.queue = c.queue
  BY <1>3 DEF Sets, Fields
<1>8. ConInv(g)
  <2>1. Flags(g)
    BY <1>3, FlagsStay DEF ConInv
  <2>2. Handled(g)
    BY <1>3, HandledStays DEF ConInv
  <2>3. Lists(g)
    <3>1. g.writes \in Seq(WriteOps) /\ g.current \in Seq(Items)
      BY <1>3
    <3>2. QED BY <3>1, <1>7 DEF Lists, ConInv
  <2>4. Phased(g)
    <3>1. Len(g.writes) <= 1 /\ DOMAIN g.writes = {}
      BY <1>3
    <3>2. Up(g)
      BY <1>7 DEF Up
    <3>3. QED BY <3>1, <3>2, <1>3, <1>7 DEF Phased, ConInv
  <2>5. Sending(g)
    <3>1. g.tail \in {"frames", "terminal"} /\ (g.tail = "terminal" => g.wflag)
      BY <1>7 DEF Sending, ConInv
    <3>2. QED BY <3>1, <1>3 DEF Sending
  <2>6. QED BY <2>1, <2>2, <2>3, <2>4, <2>5, <1>7 DEF ConInv
<1>9. CASE r = "error" \/ Last(f.current).terminal
  <2>1. d = terminate(g, "error") \/ d = terminate(g, "none")
    BY <1>5, <1>6, <1>9
  <2>2. ConInv(d) /\ \E ec : Terminated(g, d, ec)
    BY <2>1, <1>8, terminateKeeps
  <2>3. QED BY <2>2, <1>3 DEF FramesWritten, d, f, r
<1>10. CASE ~(r = "error" \/ Last(f.current).terminal)
  <2> DEFINE x == IF g.queue # <<>> THEN g.posted + 1 ELSE g.posted
  <2>1. d = [g EXCEPT !.wflag = FALSE, !.posted = x]
    BY <1>5, <1>6, <1>10
  <2>2. x \in Nat
    BY <1>1, <1>7
  <2> HIDE DEF x
  <2>3. Sets(g, d, {"wflag", "posted"}) /\ d.wflag = FALSE /\ d.posted \in Nat
    BY <2>1, <2>2, <1>7 DEF Sets, Fields
  <2>4. /\ DOMAIN d = Fields /\ d.istate = g.istate /\ d.http = g.http
        /\ d.is_server = g.is_server /\ d.is_http = g.is_http /\ d.clean = g.clean
        /\ d.rflag = g.rflag /\ d.shut = g.shut /\ d.state = g.state
        /\ d.status = g.status /\ d.sends = g.sends /\ d.opens = g.opens
        /\ d.fails = g.fails /\ d.closes = g.closes /\ d.rcode = g.rcode
        /\ d.reads = g.reads /\ d.writes = g.writes /\ d.current = g.current /\ d.tail = g.tail
        /\ d.call = g.call
    BY <2>3 DEF Sets, Fields
  <2>5. Flags(d)
    BY <2>3, <2>4, <1>8 DEF Flags, ConInv
  <2>6. Lists(d)
    BY <2>3, <1>8, ListsStay DEF ConInv
  <2>7. Handled(d)
    BY <2>3, <1>8, HandledStays DEF ConInv
  <2>8. Up(d)
    BY <2>4, <1>7 DEF Up
  <2>9. Phased(d)
    BY <2>4, <2>8, <1>8 DEF Phased, ConInv
  <2>10. d.tail \in {"frames", "terminal"} /\ d.tail # "terminal"
    <3>1. c.tail = "terminal" => c.current[Len(c.current)].terminal
      BY DEF Sending, ConInv
    <3>2. c.tail \in {"frames", "terminal"}
      BY DEF Sending, ConInv
    <3>3. QED BY <3>1, <3>2, <2>4, <1>4, <1>7, <1>10, Zenon DEF Last
  <2>11. Sending(d)
    BY <2>4, <2>10, <1>3 DEF Sending
  <2>12. ConInv(d)
    BY <2>4, <2>5, <2>6, <2>7, <2>9, <2>11 DEF ConInv
  <2>13. r = "ok"
    BY <1>6, <1>10
  <2>14. QED BY <2>3, <2>12, <2>13, <1>3 DEF FramesWritten, d, f, r
<1>11. QED BY <1>9, <1>10

-----------------------------------------------------------------------------
(* The opening handshakes.                                                 *)
LEMMA async_writeKeeps ==
  ASSUME NEW c, ConInv(c), c.writes = <<>>, ~Up(c), c.http # "deferred",
         NEW h \in Writing(c.istate), h \in {"request", "response"}, NEW x \in Items, x.terminal = FALSE
  PROVE  /\ ConInv(async_write(c, h, <<x>>)) /\ Sets(c, async_write(c, h, <<x>>), {"writes"})
         /\ async_write(c, h, <<x>>).writes = <<[h |-> h, items |-> <<x>>, r |-> "pending"]>>
<1> DEFINE d == async_write(c, h, <<x>>)
           op == [h |-> h, items |-> <<x>>, r |-> "pending"]
<1>1. Sets(c, d, {"writes"}) /\ d.writes = Append(c.writes, op)
  BY DEF async_write, ConInv, Sets, Fields
<1>2. <<x>> \in Seq(Items) /\ DOMAIN <<x>> = {1} /\ Len(<<x>>) = 1 /\ <<x>>[1] = x
  OBVIOUS
<1>3. op \in WriteOps /\ op.h = h /\ op.items = <<x>> /\ op.r = "pending"
  BY <1>2 DEF WriteOps
<1> HIDE DEF d, op
<1>4. d.writes = <<op>>
  BY <1>1
<1>5. d.writes \in Seq(WriteOps) /\ DOMAIN d.writes = {1} /\ Len(d.writes) = 1 /\ d.writes[1] = op /\ d.writes # <<>>
  BY <1>3, <1>4
<1>6. /\ DOMAIN d = Fields /\ d.istate = c.istate /\ d.http = c.http /\ d.reads = c.reads
      /\ d.queue = c.queue /\ d.posted = c.posted /\ d.call = c.call /\ d.current = c.current
      /\ d.wflag = c.wflag /\ d.tail = c.tail /\ d.sent = c.sent /\ d.got = c.got
      /\ d.rest = c.rest /\ d.buf = c.buf
  BY <1>1 DEF Sets, Fields
<1>7. Flags(d) /\ Handled(d)
  BY <1>1, FlagsStay, HandledStays DEF ConInv
<1>8. Lists(d)
  BY <1>5, <1>6 DEF Lists, ConInv
<1>9. ~Up(d)
  BY <1>6 DEF Up
<1>10. Phased(d)
  <2>1. \A i \in DOMAIN d.writes : d.writes[i].h \in Writing(d.istate)
    BY <1>3, <1>5, <1>6
  <2>2. \A i \in DOMAIN d.reads : d.reads[i].h \in Reading(d.istate)
    BY <1>6 DEF Phased, ConInv
  <2>3. Len(d.writes) <= 1 /\ d.http # "deferred"
    BY <1>5, <1>6
  <2>4. Len(d.reads) <= 1
    BY <1>6 DEF Phased, ConInv
  <2>5. /\ d.queue = <<>> /\ d.posted = 0 /\ d.call = "none" /\ ~d.wflag
        /\ d.current = <<>> /\ d.tail = "frames" /\ d.sent = <<>> /\ d.got = <<>>
    BY <1>6 DEF Phased, ConInv
  <2>6. QED BY <2>1, <2>2, <2>3, <2>4, <2>5 DEF Phased
<1>11. Sending(d)
  <2>1. \A i \in DOMAIN d.writes[1].items : ~d.writes[1].items[i].terminal
    BY <1>2, <1>3, <1>5
  <2>2. d.tail = "frames"
    BY <1>6 DEF Phased, ConInv
  <2>3. QED BY <2>1, <2>2, <1>5, <1>9 DEF Sending, TerminalAtEnd
<1>12. ConInv(d)
  BY <1>6, <1>7, <1>8, <1>10, <1>11 DEF ConInv
<1>13. QED BY <1>1, <1>4, <1>12 DEF d, op

\* The fields in which the handlers of the opening handshake differ.
LEMMA OpeningKeeps ==
  ASSUME NEW c, ConInv(c), ~Up(c), c.writes = <<>>, c.reads = <<>>, NEW d,
         Sets(c, d, {"timer", "live", "ec", "istate", "http", "is_http", "status", "rest"}),
         d.istate # "PROCESS_CONNECTION", d.is_http \in BOOLEAN, d.rest \in Seq(Items),
         d.http = "deferred" => d.istate = "PROCESS_HTTP_REQUEST",
         d.status \in {"uninitialized", "ok", "error", "101"}
  PROVE  ConInv(d) /\ ~Up(d) /\ d.writes = <<>> /\ d.reads = <<>>
<1>1. /\ DOMAIN d = Fields /\ d.writes = <<>> /\ d.reads = <<>>
      /\ d.queue = c.queue /\ d.posted = c.posted /\ d.call = c.call /\ d.current = c.current
      /\ d.wflag = c.wflag /\ d.tail = c.tail /\ d.sent = c.sent /\ d.got = c.got
      /\ d.buf = c.buf
      /\ d.is_server = c.is_server /\ d.clean = c.clean
      /\ d.rflag = c.rflag /\ d.shut = c.shut /\ d.state = c.state
      /\ d.sends = c.sends /\ d.opens = c.opens
      /\ d.fails = c.fails /\ d.closes = c.closes /\ d.rcode = c.rcode
  BY DEF Sets, Fields
<1>2. ~Up(d)
  BY DEF Up
<1>3. Flags(d)
  BY <1>1 DEF Flags, ConInv
<1>4. Lists(d)
  BY <1>1 DEF Lists, ConInv
<1>5. Handled(d)
  BY <1>1, <1>2 DEF Handled, ConInv
<1>6. Phased(d)
  <2>1. DOMAIN d.reads = {} /\ DOMAIN d.writes = {} /\ Len(d.reads) = 0 /\ Len(d.writes) = 0
    BY <1>1
  <2>2. /\ d.queue = <<>> /\ d.posted = 0 /\ d.call = "none" /\ ~d.wflag
        /\ d.current = <<>> /\ d.tail = "frames" /\ d.sent = <<>> /\ d.got = <<>>
    BY <1>1 DEF Phased, ConInv
  <2>3. QED BY <2>1, <2>2, <1>1 DEF Phased
<1>7. Sending(d)
  <2>1. d.current = <<>> /\ d.tail = "frames"
    BY <1>1 DEF Phased, ConInv
  <2>2. QED BY <2>1, <1>1 DEF Sending
<1>8. QED BY <1>1, <1>2, <1>3, <1>4, <1>5, <1>6, <1>7 DEF ConInv

LEMMA EmptyDomain ==
  ASSUME NEW S, NEW s \in Seq(S), DOMAIN s = {}
  PROVE  s = <<>>
<1>1. Len(s) \in Nat /\ DOMAIN s = 1 .. Len(s)
  OBVIOUS
<1>2. Len(s) = 0
  BY <1>1
<1>3. QED BY <1>2, EmptySeq

LEMMA NoneUnderWay ==
  ASSUME NEW c, ConInv(c)
  PROVE  (Reading(c.istate) = {} => c.reads = <<>>) /\ (Writing(c.istate) = {} => c.writes = <<>>)
<1>1. c.reads \in Seq(ReadOps) /\ c.writes \in Seq(WriteOps)
  BY DEF ConInv, Lists
<1>2. ASSUME Reading(c.istate) = {} PROVE c.reads = <<>>
  <2>1. DOMAIN c.reads = {}
    BY <1>2 DEF ConInv, Phased
  <2>2. QED BY <2>1, <1>1, EmptyDomain
<1>3. ASSUME Writing(c.istate) = {} PROVE c.writes = <<>>
  <2>1. DOMAIN c.writes = {}
    BY <1>3 DEF ConInv, Phased
  <2>2. QED BY <2>1, <1>1, EmptyDomain
<1>4. QED BY <1>2, <1>3

Statuses == {"uninitialized", "ok", "error", "101"}
ReadOp(h) == <<[h |-> h, r |-> "pending"]>>
WriteOp(h, x) == <<[h |-> h, items |-> <<x>>, r |-> "pending"]>>

\* What write_http_response does.
Responds(c, d) ==
  /\ Sets(c, d, {"status", "ec", "writes"})
  /\ \E s \in Statuses : d.writes = WriteOp("response", Item("response", s))

LEMMA ResponseItem ==
  ASSUME NEW s \in Statuses
  PROVE  Item("response", s) \in Items /\ Item("response", s).terminal = FALSE
<1>1. s \in Payload /\ "response" \in Kinds /\ s # "badext"
  BY Strings DEF Statuses, Values, Kinds
<1>2. QED BY <1>1 DEF Item, Items

LEMMA write_http_responseKeeps ==
  ASSUME NEW c, ConInv(c), c.istate = "PROCESS_HTTP_REQUEST", c.writes = <<>>, c.http # "deferred", NEW ec
  PROVE  ConInv(write_http_response(c, ec)) /\ Responds(c, write_http_response(c, ec))
<1> DEFINE g == IF c.status = "uninitialized"
                THEN [c EXCEPT !.status = "error", !.ec = "general"]
                ELSE [c EXCEPT !.ec = ec]
           d == write_http_response(c, ec)
<1>1. d = async_write(g, "response", <<Item("response", g.status)>>)
  BY DEF write_http_response
<1>2. DOMAIN c = Fields /\ c.status \in Statuses /\ c.is_http \in BOOLEAN /\ c.rest \in Seq(Items)
  BY DEF ConInv, Flags, Lists, Statuses
<1>3. Sets(c, g, {"status", "ec"}) /\ g.status \in Statuses
  <2>1. CASE c.status = "uninitialized"
    BY <2>1, <1>2 DEF Sets, Fields, Statuses
  <2>2. CASE c.status # "uninitialized"
    BY <2>2, <1>2 DEF Sets, Fields, Statuses
  <2>3. QED BY <2>1, <2>2
<1> HIDE DEF g
<1>4. c.reads = <<>> /\ ~Up(c)
  BY NoneUnderWay DEF Reading, Up
<1>5. Sets(c, g, {"timer", "live", "ec", "istate", "http", "is_http", "status", "rest"})
  BY <1>3, SetsMore
<1>6. /\ g.istate = c.istate /\ g.http = c.http /\ g.is_http \in BOOLEAN /\ g.rest \in Seq(Items)
  BY <1>2, <1>3 DEF Sets, Fields
<1>7. ConInv(g) /\ ~Up(g) /\ g.writes = <<>>
  <2>1. g.istate # "PROCESS_CONNECTION" /\ (g.http = "deferred" => g.istate = "PROCESS_HTTP_REQUEST")
    BY <1>6
  <2>2. QED BY <2>1, <1>3, <1>4, <1>5, <1>6, OpeningKeeps DEF Statuses
<1>8. "response" \in Writing(g.istate)
  BY <1>6 DEF Writing
<1> DEFINE x == Item("response", g.status)
<1>9. x \in Items /\ x.terminal = FALSE
  BY <1>3, ResponseItem
<1> HIDE DEF x
<1>10. ConInv(d) /\ Sets(g, d, {"writes"}) /\ d.writes = WriteOp("response", x)
  <2>1. g.http # "deferred" /\ "response" \in {"request", "response"}
    BY <1>6
  <2>2. d = async_write(g, "response", <<x>>)
    BY <1>1 DEF x
  <2> HIDE DEF d
  <2>3. QED BY <2>1, <2>2, <1>7, <1>8, <1>9, async_writeKeeps DEF WriteOp
<1>11. Sets(c, d, {"status", "ec", "writes"})
  BY <1>3, <1>10 DEF Sets
<1>12. QED BY <1>3, <1>10, <1>11 DEF Responds, x

\* What the handler of the transport's init does.
Initiated(c, d) ==
  \/ \E ec : Terminated(c, d, ec)
  \/ /\ c.is_server = TRUE /\ Sets(c, d, {"timer", "live", "istate", "reads"})
     /\ d.istate = "READ_HTTP_REQUEST" /\ d.reads = ReadOp("handshake")
  \/ /\ c.is_server = FALSE /\ Sets(c, d, {"timer", "live", "istate", "writes"})
     /\ d.istate = "WRITE_HTTP_REQUEST" /\ d.writes = WriteOp("request", Item("request", "ws"))

LEMMA handle_transport_initKeeps ==
  ASSUME NEW c, ConInv(c), c.istate = "TRANSPORT_INIT", NEW r
  PROVE  ConInv(handle_transport_init(c, r)) /\ Initiated(c, handle_transport_init(c, r))
<1> DEFINE d == handle_transport_init(c, r)
<1>1. /\ DOMAIN c = Fields /\ c.is_server \in BOOLEAN /\ c.is_http \in BOOLEAN /\ c.rest \in Seq(Items)
      /\ c.status \in Statuses
  BY DEF ConInv, Flags, Lists, Statuses
<1>2. c.reads = <<>> /\ c.writes = <<>> /\ ~Up(c)
  BY NoneUnderWay DEF Reading, Writing, Up
<1>3. c.http # "deferred"
  BY DEF ConInv, Phased
<1>4. CASE r = "error"
  <2>1. d = terminate(c, "error")
    BY <1>4 DEF handle_transport_init
  <2>2. QED BY <2>1, terminateKeeps DEF Initiated
<1>5. CASE r # "error" /\ c.is_server = TRUE
  <2> DEFINE f == [c EXCEPT !.istate = "READ_HTTP_REQUEST"]
             g == set_timer(f, "open")
  <2>1. d = async_read(g, "handshake")
    BY <1>5 DEF handle_transport_init, read_handshake
  <2>2. Sets(c, f, {"istate"}) /\ f.istate = "READ_HTTP_REQUEST"
    BY <1>1 DEF Sets, Fields
  <2>3. DOMAIN f = Fields
    BY <2>2 DEF Sets
  <2> HIDE DEF f
  <2>4. Sets(f, g, {"timer", "live"})
    BY <2>3, set_timerSets
  <2> HIDE DEF g
  <2>5. /\ Sets(c, g, {"timer", "live", "istate"}) /\ g.istate = "READ_HTTP_REQUEST"
        /\ g.http = c.http /\ g.is_http = c.is_http /\ g.rest = c.rest /\ g.status = c.status
    BY <2>2, <2>4 DEF Sets, Fields
  <2>6. Sets(c, g, {"timer", "live", "ec", "istate", "http", "is_http", "status", "rest"})
    BY <2>5, SetsMore
  <2>7. /\ g.istate # "PROCESS_CONNECTION" /\ g.is_http \in BOOLEAN /\ g.rest \in Seq(Items)
        /\ g.http # "deferred" /\ g.status \in {"uninitialized", "ok", "error", "101"}
    BY <2>5, <1>1, <1>3 DEF Statuses
  <2>8. ConInv(g) /\ g.reads = <<>>
    BY <2>6, <2>7, <1>2, OpeningKeeps
  <2>9. "handshake" \in Reading(g.istate) /\ "handshake" \in {"handshake", "response", "frame"}
    BY <2>5 DEF Reading
  <2>10. /\ ConInv(d) /\ Sets(g, d, {"reads"})
         /\ d.reads = Append(g.reads, [h |-> "handshake", r |-> "pending"])
    BY <2>1, <2>8, <2>9, async_readKeeps
  <2> HIDE DEF d
  <2>11. d.reads = ReadOp("handshake")
    BY <2>8, <2>10 DEF ReadOp
  <2>12. Sets(c, d, {"timer", "live", "istate", "reads"}) /\ d.istate = "READ_HTTP_REQUEST"
    BY <2>5, <2>10 DEF Sets, Fields
  <2>13. QED BY <2>10, <2>11, <2>12, <1>5 DEF Initiated, d
<1>6. CASE r # "error" /\ c.is_server = FALSE
  <2> DEFINE f == [c EXCEPT !.istate = "WRITE_HTTP_REQUEST"]
             g == set_timer(f, "open")
             x == Item("request", "ws")
  <2>1. d = async_write(g, "request", <<x>>)
    BY <1>6 DEF handle_transport_init, send_http_request
  <2>2. Sets(c, f, {"istate"}) /\ f.istate = "WRITE_HTTP_REQUEST"
    BY <1>1 DEF Sets, Fields
  <2>3. DOMAIN f = Fields
    BY <2>2 DEF Sets
  <2> HIDE DEF f
  <2>4. Sets(f, g, {"timer", "live"})
    BY <2>3, set_timerSets
  <2> HIDE DEF g
  <2>5. /\ Sets(c, g, {"timer", "live", "istate"}) /\ g.istate = "WRITE_HTTP_REQUEST"
        /\ g.http = c.http /\ g.is_http = c.is_http /\ g.rest = c.rest /\ g.status = c.status
    BY <2>2, <2>4 DEF Sets, Fields
  <2>6. Sets(c, g, {"timer", "live", "ec", "istate", "http", "is_http", "status", "rest"})
    BY <2>5, SetsMore
  <2>7. /\ g.istate # "PROCESS_CONNECTION" /\ g.is_http \in BOOLEAN /\ g.rest \in Seq(Items)
        /\ g.http # "deferred" /\ g.status \in {"uninitialized", "ok", "error", "101"}
    BY <2>5, <1>1, <1>3 DEF Statuses
  <2>8. ConInv(g) /\ g.writes = <<>> /\ ~Up(g)
    BY <2>6, <2>7, <1>2, OpeningKeeps
  <2>9. "request" \in Writing(g.istate) /\ "request" \in {"request", "response"}
    BY <2>5 DEF Writing
  <2>10. x \in Items /\ x.terminal = FALSE
    <3>1. "ws" \in Payload /\ "request" \in Kinds
      BY Strings DEF Kinds, Values, Requests
    <3>2. QED BY <3>1 DEF Item, Items
  <2> HIDE DEF x
  <2>11. /\ ConInv(d) /\ Sets(g, d, {"writes"})
         /\ d.writes = WriteOp("request", x)
    BY <2>1, <2>7, <2>8, <2>9, <2>10, async_writeKeeps DEF WriteOp
  <2> HIDE DEF d
  <2>12. Sets(c, d, {"timer", "live", "istate", "writes"}) /\ d.istate = "WRITE_HTTP_REQUEST"
    BY <2>5, <2>11 DEF Sets, Fields
  <2>13. QED BY <2>11, <2>12, <1>6 DEF Initiated, d, x
<1>7. QED BY <1>1, <1>4, <1>5, <1>6, Zenon

LEMMA StageIs ==
  ASSUME NEW c, NEW r \in {"ok", "eof", "error"}, NEW istate
  PROVE  /\ Stage(c, r, istate) \in {"ignore", "go", "invalid_state", "eof", "error"}
         /\ Stage(c, r, istate) = "go" => r = "ok" /\ c.state = "connecting"
         /\ Stage(c, r, istate) = "ignore" => c.state = "closed"
<1>1. CASE r = "ok"
  BY <1>1 DEF Stage
<1>2. CASE r = "eof"
  BY <1>2 DEF Stage
<1>3. CASE r = "error"
  BY <1>3 DEF Stage
<1>4. QED BY <1>1, <1>2, <1>3

\* The client has sent its request.
Requested(c, d, r) ==
  \/ c.state = "closed" /\ d = c
  \/ \E ec : Terminated(c, d, ec)
  \/ /\ r = "ok" /\ Sets(c, d, {"istate", "reads"})
     /\ d.istate = "READ_HTTP_RESPONSE" /\ d.reads = ReadOp("response")

LEMMA handle_send_http_requestKeeps ==
  ASSUME NEW c, ConInv(c), c.istate = "WRITE_HTTP_REQUEST", c.writes = <<>>, NEW r \in {"ok", "error"}
  PROVE  ConInv(handle_send_http_request(c, r)) /\ Requested(c, handle_send_http_request(c, r), r)
<1> DEFINE d == handle_send_http_request(c, r)
           f == [c EXCEPT !.istate = "READ_HTTP_RESPONSE"]
           stage == Stage(c, r, "WRITE_HTTP_REQUEST")
<1>1. (c.state = "closed" /\ d = c) \/ d = terminate(c, stage) \/ (r = "ok" /\ d = async_read(f, "response"))
  BY StageIs DEF handle_send_http_request
<1> HIDE DEF stage
<1>2. /\ DOMAIN c = Fields /\ c.is_http \in BOOLEAN /\ c.rest \in Seq(Items) /\ c.status \in Statuses
  BY DEF ConInv, Flags, Lists, Statuses
<1>3. c.reads = <<>> /\ ~Up(c)
  BY NoneUnderWay DEF Reading, Up
<1>4. c.http # "deferred"
  BY DEF ConInv, Phased
<1>5. CASE c.state = "closed" /\ d = c
  BY <1>5 DEF Requested
<1>6. CASE d = terminate(c, stage)
  BY <1>6, terminateKeeps DEF Requested
<1>7. CASE r = "ok" /\ d = async_read(f, "response")
  <2>1. Sets(c, f, {"istate"}) /\ f.istate = "READ_HTTP_RESPONSE"
    BY <1>2 DEF Sets, Fields
  <2> HIDE DEF f
  <2>2. Sets(c, f, {"timer", "live", "ec", "istate", "http", "is_http", "status", "rest"})
    BY <2>1, SetsMore
  <2>3. /\ f.istate # "PROCESS_CONNECTION" /\ f.is_http \in BOOLEAN /\ f.rest \in Seq(Items)
        /\ f.http # "deferred" /\ f.status \in {"uninitialized", "ok", "error", "101"}
    BY <2>1, <1>2, <1>4 DEF Sets, Fields, Statuses
  <2>4. ConInv(f) /\ f.reads = <<>>
    BY <2>2, <2>3, <1>3, OpeningKeeps
  <2>5. "response" \in Reading(f.istate) /\ "response" \in {"handshake", "response", "frame"}
    BY <2>1 DEF Reading
  <2>6. /\ ConInv(d) /\ Sets(f, d, {"reads"})
        /\ d.reads = Append(f.reads, [h |-> "response", r |-> "pending"])
    BY <2>4, <2>5, <1>7, async_readKeeps
  <2> HIDE DEF d
  <2>7. d.reads = ReadOp("response")
    BY <2>4, <2>6 DEF ReadOp
  <2>8. Sets(c, d, {"istate", "reads"}) /\ d.istate = "READ_HTTP_RESPONSE"
    BY <2>1, <2>6 DEF Sets, Fields
  <2>9. QED BY <2>6, <2>7, <2>8, <1>7 DEF Requested, d
<1>8. QED BY <1>1, <1>5, <1>6, <1>7

\* The handshake has succeeded.
Opened(c, d, rest) ==
  /\ Sets(c, d, {"timer", "live", "istate", "state", "opens", "rest"})
  /\ d.istate = "PROCESS_CONNECTION" /\ d.state = "open" /\ d.rest = rest
  /\ c.state = "connecting" /\ d.opens = c.opens + 1

LEMMA OpenedKeeps ==
  ASSUME NEW c, ConInv(c), ~Up(c), c.writes = <<>>, c.reads = <<>>, c.http # "deferred",
         NEW d, NEW rest \in Seq(Items), Opened(c, d, rest)
  PROVE  ConInv(d) /\ Up(d)
<1>1. /\ DOMAIN d = Fields /\ d.writes = <<>> /\ d.reads = <<>> /\ d.http = c.http
      /\ d.queue = c.queue /\ d.posted = c.posted /\ d.call = c.call /\ d.current = c.current
      /\ d.wflag = c.wflag /\ d.tail = c.tail /\ d.sent = c.sent /\ d.got = c.got
      /\ d.buf = c.buf
      /\ d.is_server = c.is_server /\ d.is_http = c.is_http /\ d.clean = c.clean
      /\ d.rflag = c.rflag /\ d.shut = c.shut /\ d.status = c.status
      /\ d.sends = c.sends
      /\ d.fails = c.fails /\ d.closes = c.closes /\ d.rcode = c.rcode
  BY DEF Opened, Sets, Fields
<1>2. d.state = "open" /\ Up(d) /\ d.rest = rest /\ c.state = "connecting" /\ d.opens = c.opens + 1
  BY DEF Opened, Up
<1>3. c.opens = 0 /\ c.fails = 0 /\ c.closes = 0
  BY <1>2 DEF ConInv, Handled
<1>4. Flags(d)
  <2>1. d.opens \in Nat /\ d.state \in States
    BY <1>2, <1>3 DEF States
  <2>2. QED BY <2>1, <1>1 DEF Flags, ConInv
<1>5. Lists(d)
  BY <1>1, <1>2 DEF Lists, ConInv
<1>6. Handled(d)
  BY <1>1, <1>2, <1>3 DEF Handled
<1>7. Phased(d)
  <2>1. DOMAIN d.reads = {} /\ DOMAIN d.writes = {} /\ Len(d.writes) = 0
    BY <1>1
  <2>2. QED BY <2>1, <1>1, <1>2 DEF Phased, ConInv
<1>8. Sending(d)
  <2>1. d.current = <<>> /\ d.tail = "frames"
    BY <1>1 DEF Phased, ConInv
  <2>2. QED BY <2>1, <1>1 DEF Sending
<1>9. QED BY <1>1, <1>2, <1>4, <1>5, <1>6, <1>7, <1>8 DEF ConInv

\* The server has sent its response.
Responded(c, d, r) ==
  \/ c.state = "closed" /\ d = c
  \/ \E f, ec : Sets(c, f, {"timer", "live", "ec"}) /\ Terminated(f, d, ec)
  \/ r = "ok" /\ \E g : Opened(c, g, <<>>) /\ ReadsFrames(g, d, "ok", c.rest)

LEMMA handle_write_http_responseKeeps ==
  ASSUME NEW c, ConInv(c), c.istate = "PROCESS_HTTP_REQUEST", c.writes = <<>>, c.http # "deferred",
         NEW r \in {"ok", "error"}
  PROVE  ConInv(handle_write_http_response(c, r)) /\ Responded(c, handle_write_http_response(c, r), r)
<1> DEFINE d == handle_write_http_response(c, r)
           stage == Stage(c, r, "PROCESS_HTTP_REQUEST")
           g == [cancel(c) EXCEPT !.istate = "PROCESS_CONNECTION", !.state = "open",
                             !.opens = @ + 1, !.rest = <<>>]
           ec == IF c.is_http THEN "http_connection_ended" ELSE c.ec
           f == [cancel(c) EXCEPT !.ec = ec]
<1>1. \/ (c.state = "closed" /\ d = c) \/ d = terminate(c, stage) \/ d = terminate(f, ec)
      \/ r = "ok" /\ c.state = "connecting" /\ d = handle_read_frame(g, "ok", c.rest)
  <2> HIDE DEF g, f, ec
  <2>1. d = CASE stage = "ignore" -> c
        [] stage \notin {"ignore", "go"} -> terminate(c, stage)
        [] stage = "go" /\ c.status # "101" -> terminate(f, ec)
        [] OTHER -> handle_read_frame(g, "ok", c.rest)
    BY DEF handle_write_http_response, g, f, ec
  <2>2. (stage = "go" => r = "ok" /\ c.state = "connecting") /\ (stage = "ignore" => c.state = "closed")
    BY StageIs
  <2> HIDE DEF stage, d
  <2>3. QED BY <2>1, <2>2
<1>2. DOMAIN c = Fields /\ c.rest \in Seq(Items) /\ c.opens \in Nat
  BY DEF ConInv, Lists, Flags
<1>3. Sets(c, cancel(c), {"timer", "live"}) /\ DOMAIN cancel(c) = Fields
  BY <1>2, cancelSets DEF Sets
<1>4. Sets(c, f, {"timer", "live", "ec"})
  BY <1>3 DEF Sets, Fields
<1>5. ASSUME c.state = "connecting" PROVE Opened(c, g, <<>>)
  <2>1. cancel(c).opens = c.opens
    BY <1>3 DEF Sets, Fields
  <2>2. g.opens = c.opens + 1 /\ g.istate = "PROCESS_CONNECTION" /\ g.state = "open" /\ g.rest = <<>>
    BY <2>1, <1>3 DEF Fields
  <2>3. Sets(c, g, {"timer", "live", "istate", "state", "opens", "rest"})
    BY <1>3 DEF Sets, Fields
  <2>4. QED BY <2>2, <2>3, <1>5 DEF Opened
<1> HIDE DEF stage, g, ec, f
<1>6. c.reads = <<>> /\ ~Up(c)
  BY NoneUnderWay DEF Reading, Up
<1>7. CASE c.state = "closed" /\ d = c
  BY <1>7 DEF Responded
<1>8. CASE d = terminate(c, stage)
  <2>1. Sets(c, c, {"timer", "live", "ec"})
    BY <1>2, SetsItself
  <2>2. QED BY <2>1, <1>8, terminateKeeps DEF Responded
<1>9. CASE d = terminate(f, ec)
  <2>1. Sets(c, f, {"timer", "live", "due", "ec", "lcode", "report"})
    BY <1>4, SetsMore
  <2>2. ConInv(f)
    BY <2>1, QuietKeeps
  <2>3. QED BY <2>2, <1>4, <1>9, terminateKeeps DEF Responded
<1>10. CASE r = "ok" /\ c.state = "connecting" /\ d = handle_read_frame(g, "ok", c.rest)
  <2>1. ConInv(g) /\ Up(g)
    <3>1. <<>> \in Seq(Items)
      OBVIOUS
    <3>2. QED BY <3>1, <1>5, <1>6, <1>10, OpenedKeeps
  <2>2. ConInv(d) /\ ReadsFrames(g, d, "ok", c.rest)
    BY <2>1, <1>2, <1>10, handle_read_frameKeeps
  <2> HIDE DEF d
  <2>3. QED BY <2>2, <1>5, <1>10 DEF Responded, d
<1>11. QED BY <1>1, <1>7, <1>8, <1>9, <1>10

LEMMA ParsedPart ==
  ASSUME NEW items \in Seq(Items)
  PROVE  /\ Parsed(items) \in Seq(Items)
         /\ Parsed(items) # <<>> =>
              \E n \in Whole(items) : /\ \A j \in Whole(items) : n <= j
                                      /\ Parsed(items) = SubSeq(items, n, Len(items))
<1>1. Len(items) \in Nat /\ Whole(items) \subseteq 1 .. Len(items) /\ \A i \in 1 .. Len(items) : items[i] \in Items
  BY DEF Whole
<1>2. CASE Whole(items) = {}
  <2>1. Parsed(items) = <<>>
    BY <1>2 DEF Parsed
  <2>2. QED BY <2>1
<1>3. CASE Whole(items) # {}
  <2>1. \E n \in Whole(items) : \A j \in Whole(items) : n <= j
    <3>1. Whole(items) \subseteq Nat
      BY <1>1
    <3>2. QED BY <3>1, <1>3, LeastOf
  <2> DEFINE n == CHOOSE i \in Whole(items) : \A j \in Whole(items) : i <= j
  <2>2. n \in Whole(items) /\ \A j \in Whole(items) : n <= j
    BY <2>1
  <2>3. Parsed(items) = SubSeq(items, n, Len(items))
    BY <1>3 DEF Parsed
  <2> HIDE DEF n
  <2>4. n \in 1 .. Len(items)
    BY <2>2, <1>1
  <2>5. SubSeq(items, n, Len(items)) \in Seq(Items)
    BY <2>4, <1>1, SubSeqProperties
  <2>6. QED BY <2>2, <2>3, <2>5
<1>4. QED BY <1>2, <1>3

LEMMA ParsedHead ==
  ASSUME NEW items \in Seq(Items), Parsed(items) # <<>>
  PROVE  Head(Parsed(items)) \in Items /\ Tail(Parsed(items)) \in Seq(Items)
BY ParsedPart

\* The client has read a response.
ResponseRead(c, d, r, items) ==
  \/ c.state = "closed" /\ d = c
  \/ \E f, ec : Sets(c, f, {"timer", "live", "ec"}) /\ Terminated(f, d, ec)
  \/ r = "ok" /\ Parsed(items) = <<>> /\ Sets(c, d, {"reads"}) /\ d.reads = ReadOp("response")
  \/ /\ r = "ok" /\ Parsed(items) # <<>>
     /\ \E g : Opened(c, g, c.rest) /\ ReadsFrames(g, d, "ok", Tail(Parsed(items)))

LEMMA handle_read_http_responseKeeps ==
  ASSUME NEW c, ConInv(c), c.istate = "READ_HTTP_RESPONSE", c.reads = <<>>,
         NEW r \in {"ok", "eof", "error"}, NEW items \in Seq(Items)
  PROVE  /\ ConInv(handle_read_http_response(c, r, items))
         /\ ResponseRead(c, handle_read_http_response(c, r, items), r, items)
<1> DEFINE d == handle_read_http_response(c, r, items)
           stage == Stage(c, r, "READ_HTTP_RESPONSE")
           left == Parsed(items)
           b == cancel(c)
           g == [b EXCEPT !.istate = "PROCESS_CONNECTION", !.state = "open", !.opens = @ + 1]
<1>1. \/ (c.state = "closed" /\ d = c) \/ d = terminate(c, stage) \/ d = terminate(b, "general")
      \/ r = "ok" /\ left = <<>> /\ d = async_read(c, "response")
      \/ /\ r = "ok" /\ c.state = "connecting" /\ left # <<>>
         /\ d = handle_read_frame(g, "ok", Tail(left))
  <2> DEFINE f == IF Head(left) = Item("response", "badext") THEN terminate(b, "extension_neg_failed")
                  ELSE b
             e == [f EXCEPT !.istate = "PROCESS_CONNECTION", !.state = "open", !.opens = @ + 1]
  <2>1. d = CASE stage = "ignore" -> c
        [] stage \notin {"ignore", "go"} -> terminate(c, stage)
        [] stage = "go" /\ left = <<>> -> async_read(c, "response")
        [] stage = "go" /\ left # <<>> /\ Head(left).v \notin {"101", "badext"} -> terminate(b, "general")
        [] OTHER -> handle_read_frame(e, "ok", Tail(left))
    BY DEF handle_read_http_response
  <2>2. (stage = "go" => r = "ok" /\ c.state = "connecting") /\ (stage = "ignore" => c.state = "closed")
    BY StageIs
  <2>3. left # <<>> => e = g
    <3>1. left # <<>> => Head(left) # Item("response", "badext")
      BY ParsedHead DEF Items, Item
    <3>2. QED BY <3>1
  <2> HIDE DEF stage, d, g, e, left
  <2>4. \/ (c.state = "closed" /\ d = c) \/ d = terminate(c, stage) \/ d = terminate(b, "general")
        \/ r = "ok" /\ left = <<>> /\ d = async_read(c, "response")
        \/ /\ r = "ok" /\ c.state = "connecting" /\ left # <<>>
           /\ d = handle_read_frame(e, "ok", Tail(left))
    BY <2>1, <2>2
  <2>5. QED BY <2>3, <2>4
<1>2. DOMAIN c = Fields /\ c.rest \in Seq(Items) /\ c.opens \in Nat
  BY DEF ConInv, Lists, Flags
<1>3. Sets(c, b, {"timer", "live"}) /\ DOMAIN b = Fields
  BY <1>2, cancelSets DEF Sets
<1> HIDE DEF b
<1>4. ASSUME c.state = "connecting" PROVE Opened(c, g, c.rest)
  <2>1. b.opens = c.opens /\ b.rest = c.rest
    BY <1>3 DEF Sets, Fields
  <2>2. g.opens = c.opens + 1 /\ g.istate = "PROCESS_CONNECTION" /\ g.state = "open" /\ g.rest = c.rest
    BY <2>1, <1>3 DEF Fields
  <2>3. Sets(c, g, {"timer", "live", "istate", "state", "opens", "rest"})
    BY <1>3 DEF Sets, Fields
  <2>4. QED BY <2>2, <2>3, <1>4 DEF Opened
<1> HIDE DEF stage, g
<1>5. c.writes = <<>> /\ ~Up(c) /\ c.http # "deferred"
  BY NoneUnderWay DEF Writing, Up, ConInv, Phased
<1>6. CASE c.state = "closed" /\ d = c
  BY <1>6 DEF ResponseRead
<1>7. CASE d = terminate(c, stage)
  <2>1. Sets(c, c, {"timer", "live", "ec"})
    BY <1>2, SetsItself
  <2>2. QED BY <2>1, <1>7, terminateKeeps DEF ResponseRead
<1>8. CASE d = terminate(b, "general")
  <2>1. Sets(c, b, {"timer", "live", "due", "ec", "lcode", "report"}) /\ Sets(c, b, {"timer", "live", "ec"})
    BY <1>3, SetsMore
  <2>2. ConInv(b)
    BY <2>1, QuietKeeps
  <2>3. QED BY <2>1, <2>2, <1>8, terminateKeeps DEF ResponseRead
<1>9. CASE r = "ok" /\ left = <<>> /\ d = async_read(c, "response")
  <2>1. "response" \in Reading(c.istate) /\ "response" \in {"handshake", "response", "frame"}
    BY DEF Reading
  <2>2. /\ ConInv(d) /\ Sets(c, d, {"reads"})
        /\ d.reads = Append(c.reads, [h |-> "response", r |-> "pending"])
    BY <2>1, <1>9, async_readKeeps
  <2> HIDE DEF d
  <2>3. d.reads = ReadOp("response")
    BY <2>2 DEF ReadOp
  <2>4. QED BY <2>2, <2>3, <1>9 DEF ResponseRead, d
<1>10. CASE /\ r = "ok" /\ c.state = "connecting" /\ left # <<>>
            /\ d = handle_read_frame(g, "ok", Tail(left))
  <2>1. ConInv(g) /\ Up(g)
    BY <1>2, <1>4, <1>5, <1>10, OpenedKeeps
  <2>2. Tail(left) \in Seq(Items)
    BY <1>10, ParsedHead
  <2>3. ConInv(d) /\ ReadsFrames(g, d, "ok", Tail(left))
    BY <2>1, <2>2, <1>10, handle_read_frameKeeps
  <2> HIDE DEF d
  <2>4. QED BY <2>3, <1>4, <1>10 DEF ResponseRead, d
<1>11. QED BY <1>1, <1>6, <1>7, <1>8, <1>9, <1>10

\* The server has a request to answer.
Asked(c, g, rest) ==
  /\ Sets(c, g, {"timer", "live", "istate", "http", "is_http", "status", "rest"})
  /\ g.istate = "PROCESS_HTTP_REQUEST" /\ g.rest = rest
  /\ g.is_http \in BOOLEAN /\ g.status \in Statuses
  /\ g.http = "deferred" => g.is_http = TRUE

LEMMA AskedKeeps ==
  ASSUME NEW c, ConInv(c), c.istate = "READ_HTTP_REQUEST", c.reads = <<>>,
         NEW rest \in Seq(Items), NEW g, Asked(c, g, rest)
  PROVE  ConInv(g) /\ g.writes = <<>> /\ g.istate = "PROCESS_HTTP_REQUEST" /\ DOMAIN g = Fields
<1>1. c.writes = <<>> /\ ~Up(c)
  BY NoneUnderWay DEF Writing, Up
<1>2. Sets(c, g, {"timer", "live", "ec", "istate", "http", "is_http", "status", "rest"})
  BY SetsMore DEF Asked
<1>3. /\ g.istate # "PROCESS_CONNECTION" /\ g.is_http \in BOOLEAN /\ g.rest \in Seq(Items)
      /\ g.http = "deferred" => g.istate = "PROCESS_HTTP_REQUEST"
      /\ g.status \in {"uninitialized", "ok", "error", "101"}
  BY DEF Asked, Statuses
<1>4. ConInv(g) /\ g.writes = <<>>
  BY <1>1, <1>2, <1>3, OpeningKeeps
<1>5. QED BY <1>4 DEF Asked, ConInv

LEMMA set_statusSets ==
  ASSUME NEW c, DOMAIN c = Fields, c.istate = "PROCESS_HTTP_REQUEST", NEW s
  PROVE  Sets(c, set_status(c, s), {"status"}) /\ set_status(c, s).status = s
BY DEF set_status, Sets, Fields

Begun(c, a, rest) == a = [c EXCEPT !.istate = "PROCESS_HTTP_REQUEST", !.rest = rest]
Outcome(c, q, rest) ==
  \E g : /\ Asked(c, g, rest)
         /\ q.c = g \/ (q.c = terminate(g, "rejected") /\ q.ec = "http_connection_ended")

LEMMA process_handshake_requestAsks ==
  ASSUME NEW c, ConInv(c), c.istate = "READ_HTTP_REQUEST", c.reads = <<>>,
         NEW rest \in Seq(Items), NEW req, NEW app, NEW q, NEW a,
         Begun(c, a, rest), q = process_handshake_request(a, req, app)
  PROVE  Outcome(c, q, rest)
<1> DEFINE b == [c EXCEPT !.istate = "PROCESS_HTTP_REQUEST", !.rest = rest]
           h == [b EXCEPT !.is_http = TRUE]
           p == process_handshake_request(b, req, app)
<1>0. SUFFICES Outcome(c, p, rest)
  BY DEF Begun
<1>1. DOMAIN c = Fields /\ c.is_http \in BOOLEAN /\ c.status \in Statuses
  BY DEF ConInv, Flags, Statuses
<1>2. c.http # "deferred"
  BY DEF ConInv, Phased
<1>3. /\ Sets(c, b, {"istate", "rest"}) /\ b.istate = "PROCESS_HTTP_REQUEST" /\ b.rest = rest
      /\ DOMAIN b = Fields
  BY <1>1 DEF Sets, Fields
<1> HIDE DEF b
<1>4. /\ Sets(b, h, {"is_http"}) /\ h.is_http = TRUE /\ DOMAIN h = Fields
  BY <1>3 DEF Sets, Fields
<1> HIDE DEF h
<1>5. b.is_http = c.is_http /\ b.http = c.http /\ b.status = c.status
  BY <1>3 DEF Sets, Fields
<1>6. ASSUME NEW s \in Statuses PROVE Asked(c, set_status(b, s), rest)
  <2> DEFINE g == set_status(b, s)
  <2>1. Sets(b, g, {"status"}) /\ g.status = s
    BY <1>3, set_statusSets
  <2> HIDE DEF g
  <2>2. Sets(c, g, {"timer", "live", "istate", "http", "is_http", "status", "rest"})
    BY <2>1, <1>3 DEF Sets
  <2>3. g.istate = "PROCESS_HTTP_REQUEST" /\ g.rest = rest /\ g.is_http = c.is_http /\ g.http = c.http
    BY <2>1, <1>3, <1>5 DEF Sets, Fields
  <2>4. g.is_http \in BOOLEAN
    BY <2>3, <1>1, Zenon
  <2>5. g.http # "deferred" /\ g.status \in Statuses
    BY <2>1, <2>3, <1>2
  <2>6. QED BY <2>2, <2>3, <2>4, <2>5, Zenon DEF Asked, g
<1>7. /\ Sets(c, h, {"istate", "rest", "is_http"}) /\ h.istate = "PROCESS_HTTP_REQUEST" /\ h.rest = rest
      /\ h.http = c.http /\ h.status = c.status
  BY <1>3, <1>4, <1>5 DEF Sets, Fields
<1>8. ASSUME NEW g, Sets(h, g, {"timer", "live", "http", "status"}), g.status \in Statuses
      PROVE  Asked(c, g, rest)
  <2>1. Sets(c, g, {"timer", "live", "istate", "http", "is_http", "status", "rest"})
    BY <1>7, <1>8 DEF Sets
  <2>2. g.istate = "PROCESS_HTTP_REQUEST" /\ g.rest = rest /\ g.is_http = TRUE
    BY <1>4, <1>7, <1>8 DEF Sets, Fields
  <2>3. g.is_http \in BOOLEAN
    BY <2>2
  <2>4. QED BY <2>1, <2>2, <2>3, <1>8, Zenon DEF Asked
<1>9. CASE req = "http" /\ app = "none"
  <2>1. p.c = set_status(b, "error")
    BY <1>9 DEF process_handshake_request
  <2>2. "error" \in Statuses
    BY DEF Statuses
  <2>3. Asked(c, p.c, rest)
    BY <2>1, <2>2, <1>6
  <2>4. QED BY <2>3, Zenon DEF Outcome
<1>10. CASE req = "http" /\ app # "none"
  <2> DEFINE x == http_handler(h, app)
  <2>1. p = [c |-> x, ec |-> IF x.state = "closed" THEN "http_connection_ended" ELSE "none"]
    BY <1>10 DEF process_handshake_request, h
  <2>2. p.c = x /\ p.ec = IF x.state = "closed" THEN "http_connection_ended" ELSE "none"
    BY <2>1
  <2> HIDE DEF p, x
  <2>3. CASE app = "respond"
    <3>1. x = set_status(h, "ok")
      BY <2>3 DEF http_handler, x
    <3>2. Sets(h, x, {"status"}) /\ x.status = "ok"
      BY <3>1, <1>4, <1>7, set_statusSets
    <3>3. Sets(h, x, {"timer", "live", "http", "status"}) /\ x.status \in Statuses
      BY <3>2, SetsMore DEF Statuses
    <3>4. QED BY <3>3, <2>2, <1>8, Zenon DEF Outcome
  <2>4. CASE app = "defer"
    <3>1. x = [cancel(h) EXCEPT !.http = "deferred"]
      BY <2>4 DEF http_handler, defer_http_response, x
    <3>2. Sets(h, cancel(h), {"timer", "live"}) /\ DOMAIN cancel(h) = Fields
      BY <1>4, cancelSets DEF Sets
    <3>3. Sets(h, x, {"timer", "live", "http", "status"}) /\ x.status = h.status
      BY <3>1, <3>2 DEF Sets, Fields
    <3>4. x.status \in Statuses
      BY <3>3, <1>1, <1>7
    <3>5. QED BY <3>3, <3>4, <2>2, <1>8, Zenon DEF Outcome
  <2>5. CASE app = "end"
    <3>1. x = terminate(h, "rejected")
      BY <2>5 DEF http_handler, x
    <3>2. Sets(h, h, {"timer", "live", "http", "status"}) /\ h.status \in Statuses
      BY <1>1, <1>4, <1>7, SetsItself
    <3>3. Asked(c, h, rest)
      BY <3>2, <1>8
    <3>4. ConInv(h)
      BY <3>3, AskedKeeps, Zenon
    <3>5. x.state = "closed"
      <4>1. Terminated(h, terminate(h, "rejected"), "rejected")
        BY <3>4, terminateKeeps, Zenon
      <4>2. QED BY <4>1, <3>1, Zenon DEF Terminated
    <3>6. p.ec = "http_connection_ended"
      BY <3>5, <2>2
    <3>7. QED BY <3>1, <3>3, <3>6, <2>2, Zenon DEF Outcome
  <2>6. CASE app \notin {"respond", "defer", "end"}
    <3>1. x = h
      BY <2>6 DEF http_handler, x
    <3>2. Sets(h, h, {"timer", "live", "http", "status"}) /\ h.status \in Statuses
      BY <1>1, <1>4, <1>7, SetsItself
    <3>3. QED BY <3>1, <3>2, <2>2, <1>8, Zenon DEF Outcome
  <2>7. QED BY <2>3, <2>4, <2>5, <2>6
<1>11. CASE req = "ws" /\ app # "reject"
  <2>1. p.c = set_status(b, "101")
    BY <1>11 DEF process_handshake_request
  <2>2. "101" \in Statuses
    BY DEF Statuses
  <2>3. Asked(c, p.c, rest)
    BY <2>1, <2>2, <1>6
  <2>4. QED BY <2>3, Zenon DEF Outcome
<1>12. CASE req # "http" /\ ~(req = "ws" /\ app # "reject")
  <2>1. p.c = set_status(b, "error")
    BY <1>12 DEF process_handshake_request
  <2>2. "error" \in Statuses
    BY DEF Statuses
  <2>3. Asked(c, p.c, rest)
    BY <2>1, <2>2, <1>6
  <2>4. QED BY <2>3, Zenon DEF Outcome
<1>13. QED BY <1>9, <1>10, <1>11, <1>12, Zenon

\* The server has read a request.
RequestRead(c, d, r, items) ==
  \/ c.state = "closed" /\ d = c
  \/ \E ec : Terminated(c, d, ec)
  \/ r = "ok" /\ Parsed(items) = <<>> /\ Sets(c, d, {"reads"}) /\ d.reads = ReadOp("handshake")
  \/ /\ r = "ok" /\ Parsed(items) # <<>> /\ c.state = "connecting"
     /\ \E g : \E rest \in {c.rest, Tail(Parsed(items))} :
          /\ Asked(c, g, rest)
          /\ d = g \/ (\E ec : Terminated(g, d, ec)) \/ (g.http # "deferred" /\ Responds(g, d))

LEMMA write_http_response_errorResponds ==
  ASSUME NEW c, ConInv(c), c.istate = "READ_HTTP_REQUEST", c.reads = <<>>, NEW ec
  PROVE  \E g : /\ Asked(c, g, c.rest) /\ g.http # "deferred"
                /\ write_http_response_error([c EXCEPT !.status = "error"], ec) = write_http_response(g, ec)
<1> DEFINE f == [c EXCEPT !.status = "error"]
           g == [f EXCEPT !.istate = "PROCESS_HTTP_REQUEST"]
<1>1. DOMAIN c = Fields /\ c.is_http \in BOOLEAN
  BY DEF ConInv, Flags
<1>2. Sets(c, f, {"status"}) /\ f.status = "error" /\ DOMAIN f = Fields /\ f.istate = c.istate
  BY <1>1 DEF Sets, Fields
<1>3. write_http_response_error(f, ec) = write_http_response(g, ec)
  BY <1>2 DEF write_http_response_error
<1> HIDE DEF f
<1>4. Sets(f, g, {"istate"}) /\ g.istate = "PROCESS_HTTP_REQUEST"
  BY <1>2 DEF Sets, Fields
<1> HIDE DEF g
<1>5. /\ Sets(c, g, {"timer", "live", "istate", "http", "is_http", "status", "rest"})
      /\ g.rest = c.rest /\ g.is_http = c.is_http /\ g.http = c.http /\ g.status = "error"
  BY <1>2, <1>4 DEF Sets, Fields
<1>6. c.http # "deferred"
  BY DEF ConInv, Phased
<1>7. g.is_http \in BOOLEAN
  BY <1>1, <1>5, Zenon
<1>8. g.http # "deferred" /\ g.status \in Statuses
  BY <1>5, <1>6 DEF Statuses
<1>9. Asked(c, g, c.rest)
  BY <1>4, <1>5, <1>7, <1>8, Zenon DEF Asked
<1>10. QED BY <1>3, <1>8, <1>9, Zenon DEF f

LEMMA handle_read_handshakeKeeps ==
  ASSUME NEW c, ConInv(c), c.istate = "READ_HTTP_REQUEST", c.reads = <<>>,
         NEW r \in {"ok", "eof", "error"}, NEW items \in Seq(Items), NEW app
  PROVE  /\ ConInv(handle_read_handshake(c, r, items, app))
         /\ RequestRead(c, handle_read_handshake(c, r, items, app), r, items)
<1> DEFINE d == handle_read_handshake(c, r, items, app)
           stage == Stage(c, r, "READ_HTTP_REQUEST")
           left == Parsed(items)
           req == Head(left).v
           p == process_handshake_request(
                  [c EXCEPT !.istate = "PROCESS_HTTP_REQUEST", !.rest = Tail(left)], req, app)
<1>1. \/ c.state = "closed" /\ d = c
      \/ \E ec : d = terminate(c, ec)
      \/ stage = "go" /\ left = <<>> /\ d = async_read(c, "handshake")
      \/ stage = "go" /\ left # <<>> /\ d = write_http_response_error([c EXCEPT !.status = "error"], "http_parse_error")
      \/ /\ stage = "go" /\ left # <<>>
         /\ d = IF p.ec # "http_connection_ended" /\ (~p.c.is_http \/ p.c.http = "init")
                THEN write_http_response(p.c, p.ec) ELSE p.c
  <2> HIDE DEF p, left, stage
  <2>1. d = CASE stage = "ignore" -> c
        [] stage \notin {"ignore", "go"} -> terminate(c, stage)
        [] stage = "go" /\ left = <<>> -> async_read(c, "handshake")
        [] stage = "go" /\ left # <<>> /\ req = "early" ->
             write_http_response_error([c EXCEPT !.status = "error"], "http_parse_error")
        [] OTHER -> IF p.ec # "http_connection_ended" /\ (~p.c.is_http \/ p.c.http = "init")
                    THEN write_http_response(p.c, p.ec) ELSE p.c
    BY DEF handle_read_handshake, p, left, stage
  <2>2. stage = "ignore" => c.state = "closed"
    BY StageIs DEF stage
  <2> HIDE DEF d, req
  <2>3. QED BY <2>1, <2>2
<1>2. stage = "go" => r = "ok" /\ c.state = "connecting"
  BY StageIs
<1>3. ASSUME NEW g, NEW rest \in {c.rest, Tail(left)}, left # <<>>, Asked(c, g, rest)
      PROVE  ConInv(g) /\ g.writes = <<>> /\ g.istate = "PROCESS_HTTP_REQUEST"
  <2>1. c.rest \in Seq(Items) /\ Tail(left) \in Seq(Items)
    BY <1>3, ParsedHead DEF ConInv, Lists
  <2>2. rest \in Seq(Items)
    BY <2>1, <1>3
  <2>3. QED BY <2>2, <1>3, AskedKeeps, Zenon
<1> HIDE DEF d, stage
<1>4. CASE c.state = "closed" /\ d = c
  BY <1>4 DEF RequestRead, d
<1>5. CASE \E ec : d = terminate(c, ec)
  <2>1. PICK ec : d = terminate(c, ec)
    BY <1>5
  <2>2. ConInv(d) /\ Terminated(c, d, ec)
    BY <2>1, terminateKeeps
  <2>3. QED BY <2>2 DEF RequestRead, d
<1>6. CASE stage = "go" /\ left = <<>> /\ d = async_read(c, "handshake")
  <2>1. "handshake" \in Reading(c.istate) /\ ~Up(c)
    BY DEF Reading, Up
  <2>2. /\ ConInv(d) /\ Sets(c, d, {"reads"})
        /\ d.reads = Append(c.reads, [h |-> "handshake", r |-> "pending"])
    BY <2>1, <1>6, async_readKeeps
  <2>3. d.reads = ReadOp("handshake")
    BY <2>2 DEF ReadOp
  <2>4. QED BY <2>2, <2>3, <1>2, <1>6 DEF RequestRead, d
<1>7. CASE /\ stage = "go" /\ left # <<>>
           /\ d = write_http_response_error([c EXCEPT !.status = "error"], "http_parse_error")
  <2>1. PICK g : /\ Asked(c, g, c.rest) /\ g.http # "deferred" /\ d = write_http_response(g, "http_parse_error")
    BY <1>7, write_http_response_errorResponds
  <2>2. ConInv(g) /\ g.writes = <<>> /\ g.istate = "PROCESS_HTTP_REQUEST"
    BY <2>1, <1>3, <1>7
  <2>3. ConInv(d) /\ Responds(g, d)
    BY <2>1, <2>2, write_http_responseKeeps
  <2>4. QED BY <2>1, <2>3, <1>2, <1>7 DEF RequestRead, d
<1>8. CASE /\ stage = "go" /\ left # <<>>
           /\ d = IF p.ec # "http_connection_ended" /\ (~p.c.is_http \/ p.c.http = "init")
                  THEN write_http_response(p.c, p.ec) ELSE p.c
  <2>1. Tail(left) \in Seq(Items)
    BY <1>8, ParsedHead
  <2>2. PICK g : /\ Asked(c, g, Tail(left))
                 /\ \/ p.c = g
                    \/ p.c = terminate(g, "rejected") /\ p.ec = "http_connection_ended"
    <3> DEFINE a == [c EXCEPT !.istate = "PROCESS_HTTP_REQUEST", !.rest = Tail(left)]
    <3>1. Begun(c, a, Tail(left))
      BY DEF Begun
    <3>2. p = process_handshake_request(a, req, app)
      OBVIOUS
    <3> HIDE DEF left, req, p, a
    <3>3. Outcome(c, p, Tail(left))
      BY <3>1, <3>2, <2>1, process_handshake_requestAsks
    <3>4. QED BY <3>3 DEF Outcome
  <2>3. ConInv(g) /\ g.writes = <<>> /\ g.istate = "PROCESS_HTTP_REQUEST"
    BY <2>2, <1>3, <1>8
  <2> HIDE DEF p
  <2>4. CASE p.ec = "http_connection_ended" \/ ~(~p.c.is_http \/ p.c.http = "init")
    <3>1. d = p.c
      BY <2>4, <1>8
    <3>2. CASE p.c = g
      <4>1. d = g
        BY <3>1, <3>2
      <4>2. ConInv(d)
        BY <4>1, <2>3
      <4>3. QED BY <4>1, <4>2, <2>2, <1>2, <1>8 DEF RequestRead, d
    <3>3. CASE p.c = terminate(g, "rejected")
      <4>1. d = terminate(g, "rejected")
        BY <3>1, <3>3
      <4>2. ConInv(d) /\ Terminated(g, d, "rejected")
        BY <4>1, <2>3, terminateKeeps
      <4>3. QED BY <4>2, <2>2, <1>2, <1>8 DEF RequestRead, d
    <3>4. QED BY <2>2, <3>2, <3>3
  <2>5. CASE p.ec # "http_connection_ended" /\ (~p.c.is_http \/ p.c.http = "init")
    <3>1. p.c = g
      BY <2>2, <2>5
    <3>2. d = write_http_response(g, p.ec)
      BY <3>1, <2>5, <1>8
    <3>3. g.http # "deferred"
      <4>1. g.http = "deferred" => g.is_http = TRUE
        BY <2>2 DEF Asked
      <4>2. QED BY <4>1, <3>1, <2>5
    <3>4. ConInv(d) /\ Responds(g, d)
      BY <3>2, <3>3, <2>3, write_http_responseKeeps
    <3>5. QED BY <3>3, <3>4, <2>2, <1>2, <1>8 DEF RequestRead, d
  <2>6. QED BY <2>4, <2>5, Zenon
<1>9. QED BY <1>1, <1>4, <1>5, <1>6, <1>7, <1>8, Zenon

-----------------------------------------------------------------------------
(* What changes no list of the connection.                                 *)
LEMMA CallKeeps ==
  ASSUME NEW c, ConInv(c), Up(c), NEW d, Sets(c, d, {"call", "sends", "rflag", "closer"}),
         d.call \in {"none", "send", "ping", "pong"}, d.sends \in Nat, d.rflag \in BOOLEAN
  PROVE  ConInv(d) /\ Up(d)
<1>1. /\ DOMAIN d = Fields /\ d.istate = c.istate /\ d.http = c.http
      /\ d.is_server = c.is_server /\ d.is_http = c.is_http /\ d.clean = c.clean
      /\ d.wflag = c.wflag /\ d.shut = c.shut /\ d.state = c.state
      /\ d.status = c.status /\ d.posted = c.posted /\ d.opens = c.opens
      /\ d.fails = c.fails /\ d.closes = c.closes /\ d.rcode = c.rcode
      /\ d.reads = c.reads /\ d.writes = c.writes
  BY DEF Sets, Fields
<1>2. Flags(d)
  BY <1>1 DEF Flags, ConInv
<1>3. Lists(d) /\ Handled(d) /\ Sending(d)
  BY ListsStay, HandledStays, SendingStays DEF ConInv
<1>4. Phased(d)
  BY <1>1 DEF Phased, ConInv, Up
<1>5. QED BY <1>1, <1>2, <1>3, <1>4 DEF ConInv, Up

\* A message of the application has left its call and is in the queue.
LEMMA SentKeeps ==
  ASSUME NEW c, ConInv(c), Up(c), NEW d, Sets(c, d, {"sent"}), d.sent \in Seq(Payload)
  PROVE  ConInv(d) /\ Up(d)
<1>1. /\ DOMAIN d = Fields /\ d.http = c.http /\ d.istate = c.istate /\ d.call = c.call
      /\ d.writes = c.writes /\ d.reads = c.reads /\ d.queue = c.queue
      /\ d.current = c.current /\ d.rest = c.rest /\ d.buf = c.buf /\ d.got = c.got
  BY DEF Sets, Fields
<1>2. Flags(d) /\ Handled(d) /\ Sending(d)
  BY FlagsStay, HandledStays, SendingStays DEF ConInv
<1>3. Lists(d)
  BY <1>1 DEF Lists, ConInv
<1>4. Phased(d)
  BY <1>1 DEF Phased, ConInv, Up
<1>5. QED BY <1>1, <1>2, <1>3, <1>4 DEF ConInv, Up

(* A read that is done leaves the list, and m_buf may be forgotten.        *)
LEMMA ReadLeaves ==
  ASSUME NEW c, ConInv(c), c.reads # <<>>, NEW d, Sets(c, d, {"reads", "buf"}),
         d.reads = Tail(c.reads), d.buf \in {<<>>, c.buf}
  PROVE  ConInv(d) /\ (Up(d) <=> Up(c)) /\ (~Up(c) => d.reads = <<>>)
<1>1. /\ DOMAIN d = Fields /\ d.http = c.http /\ d.istate = c.istate /\ d.call = c.call
      /\ d.writes = c.writes /\ d.queue = c.queue /\ d.posted = c.posted /\ d.tail = c.tail
      /\ d.current = c.current /\ d.rest = c.rest /\ d.sent = c.sent /\ d.got = c.got
      /\ d.wflag = c.wflag
  BY DEF Sets, Fields
<1>2. Flags(d) /\ Handled(d) /\ Sending(d)
  BY FlagsStay, HandledStays, SendingStays DEF ConInv
<1>3. c.reads \in Seq(ReadOps)
  BY DEF ConInv, Lists
<1>4. /\ d.reads \in Seq(ReadOps) /\ Len(d.reads) = Len(c.reads) - 1
      /\ \A i \in DOMAIN d.reads : i + 1 \in DOMAIN c.reads /\ d.reads[i] = c.reads[i + 1]
  BY <1>3
<1>5. Lists(d)
  <2>1. c.buf \in Seq(Items) /\ <<>> \in Seq(Items)
    BY DEF ConInv, Lists
  <2>2. d.buf \in Seq(Items)
    BY <2>1
  <2>3. d.reads \in Seq(ReadOps)
    BY <1>4
  <2>4. QED BY <1>1, <2>2, <2>3, Zenon DEF Lists, ConInv
<1>6. \A i \in DOMAIN d.reads : d.reads[i].h \in Reading(d.istate)
  BY <1>1, <1>4 DEF Phased, ConInv
<1>7. Up(d) <=> Up(c)
  BY <1>1 DEF Up
<1>8. ~Up(c) => Len(c.reads) <= 1
  BY DEF ConInv, Phased
<1>9. ~Up(c) => d.reads = <<>>
  BY <1>3, <1>4, <1>8
<1>10. ~Up(d) => Len(d.reads) <= 1
  <2>1. ~Up(c) => Len(d.reads) <= 1
    BY <1>3, <1>4, <1>8
  <2>2. QED BY <2>1, <1>7, Zenon
<1>11. Phased(d)
  BY <1>1, <1>6, <1>7, <1>10, Zenon DEF Phased, ConInv
<1>12. QED BY <1>1, <1>2, <1>5, <1>11, <1>7, <1>9, Zenon DEF ConInv

(* The write of the opening handshake is done.                             *)
LEMMA WriteLeaves ==
  ASSUME NEW c, ConInv(c), ~Up(c), NEW d, Sets(c, d, {"writes"}), d.writes = <<>>
  PROVE  ConInv(d)
<1>1. /\ DOMAIN d = Fields /\ d.http = c.http /\ d.istate = c.istate /\ d.call = c.call
      /\ d.reads = c.reads /\ d.queue = c.queue /\ d.posted = c.posted /\ d.tail = c.tail
      /\ d.current = c.current /\ d.rest = c.rest /\ d.sent = c.sent /\ d.got = c.got
      /\ d.wflag = c.wflag /\ d.buf = c.buf
  BY DEF Sets, Fields
<1>2. Flags(d) /\ Handled(d)
  BY FlagsStay, HandledStays DEF ConInv
<1>3. Lists(d)
  BY <1>1 DEF Lists, ConInv
<1>4. DOMAIN d.writes = {} /\ Len(d.writes) = 0
  OBVIOUS
<1>5. Phased(d)
  BY <1>1, <1>4 DEF Phased, ConInv, Up
<1>6. c.current = <<>> /\ c.tail = "frames"
  BY DEF ConInv, Phased
<1>7. Sending(d)
  BY <1>1, <1>6 DEF Sending
<1>8. QED BY <1>1, <1>2, <1>3, <1>5, <1>7 DEF ConInv

LEMMA OldestPending ==
  ASSUME NEW S, NEW ops \in Seq(S), Pending(ops) # {}
  PROVE  Oldest(ops) \in DOMAIN ops /\ ops[Oldest(ops)].r = "pending"
<1>1. Pending(ops) \subseteq Nat
  BY DEF Pending
<1>2. \E i \in Pending(ops) : \A j \in Pending(ops) : i <= j
  BY <1>1, LeastOf
<1>3. Oldest(ops) \in Pending(ops)
  BY <1>2 DEF Oldest
<1>4. QED BY <1>3 DEF Pending

\* A read is done with result r, and m_buf is buf.
Received(c, d, r, buf) ==
  /\ Sets(c, d, {"reads", "buf"}) /\ d.buf = buf
  /\ \E i \in DOMAIN c.reads : /\ c.reads[i].r = "pending"
                               /\ d.reads = [c.reads EXCEPT ![i] = [h |-> c.reads[i].h, r |-> r]]

LEMMA ReceivedKeeps ==
  ASSUME NEW c, ConInv(c), NEW d, NEW r \in {"ok", "eof", "error"}, NEW buf \in Seq(Items),
         Received(c, d, r, buf)
  PROVE  ConInv(d)
<1>1. /\ DOMAIN d = Fields /\ d.http = c.http /\ d.istate = c.istate /\ d.call = c.call
      /\ d.writes = c.writes /\ d.queue = c.queue /\ d.posted = c.posted /\ d.tail = c.tail
      /\ d.current = c.current /\ d.rest = c.rest /\ d.sent = c.sent /\ d.got = c.got
      /\ d.wflag = c.wflag /\ d.buf = buf /\ Sets(c, d, {"reads", "buf"})
  BY DEF Received, Sets, Fields
<1>2. Flags(d) /\ Handled(d) /\ Sending(d)
  BY <1>1, FlagsStay, HandledStays, SendingStays DEF ConInv
<1>3. c.reads \in Seq(ReadOps)
  BY DEF ConInv, Lists
<1>4. PICK i \in DOMAIN c.reads : d.reads = [c.reads EXCEPT ![i] = [h |-> c.reads[i].h, r |-> r]]
  BY DEF Received
<1>5. c.reads[i] \in ReadOps
  BY <1>3
<1>6. [h |-> c.reads[i].h, r |-> r] \in ReadOps
  BY <1>5 DEF ReadOps
<1>7. d.reads \in Seq(ReadOps) /\ Len(d.reads) = Len(c.reads) /\ DOMAIN d.reads = DOMAIN c.reads
  BY <1>3, <1>4, <1>6
<1>8. \A j \in DOMAIN d.reads : d.reads[j].h = c.reads[j].h
  BY <1>3, <1>4, <1>7
<1>9. Lists(d)
  BY <1>1, <1>7, Zenon DEF Lists, ConInv
<1>10. \A j \in DOMAIN d.reads : d.reads[j].h \in Reading(d.istate)
  BY <1>1, <1>7, <1>8 DEF Phased, ConInv
<1>11. Phased(d)
  BY <1>1, <1>7, <1>10, Zenon DEF Phased, ConInv, Up
<1>12. QED BY <1>1, <1>2, <1>9, <1>11 DEF ConInv

\* A write is done with result r.
Transmitted(c, d, r) ==
  /\ Sets(c, d, {"writes", "tail"}) /\ c.writes # <<>> /\ c.writes[1].r = "pending"
  /\ d.writes = <<[h |-> c.writes[1].h, items |-> c.writes[1].items, r |-> r]>>

LEMMA TransmittedKeeps ==
  ASSUME NEW c, ConInv(c), NEW d, NEW r \in {"ok", "error"}, Transmitted(c, d, r),
         d.tail = IF r = "ok" THEN Sent(c, c.writes[1].items) ELSE c.tail
  PROVE  ConInv(d)
<1> DEFINE items == c.writes[1].items
<1>1. /\ DOMAIN d = Fields /\ d.http = c.http /\ d.istate = c.istate /\ d.call = c.call
      /\ d.reads = c.reads /\ d.queue = c.queue /\ d.posted = c.posted
      /\ d.current = c.current /\ d.rest = c.rest /\ d.sent = c.sent /\ d.got = c.got
      /\ d.wflag = c.wflag /\ d.buf = c.buf /\ Sets(c, d, {"writes", "tail"})
      /\ c.writes # <<>> /\ c.writes[1].r = "pending"
  BY DEF Transmitted, Sets, Fields
<1>2. Flags(d) /\ Handled(d)
  BY <1>1, FlagsStay, HandledStays DEF ConInv
<1>3. c.writes \in Seq(WriteOps) /\ Len(c.writes) <= 1
  BY DEF ConInv, Lists, Phased
<1>4. c.writes[1] \in WriteOps /\ 1 \in DOMAIN c.writes
  BY <1>1, <1>3, TailOfOne
<1>5. /\ d.writes = <<[h |-> c.writes[1].h, items |-> items, r |-> r]>>
      /\ items \in Seq(Items) /\ c.writes[1].h \in {"request", "response", "frames"}
  BY <1>4 DEF Transmitted, WriteOps
<1>6. [h |-> c.writes[1].h, items |-> items, r |-> r] \in WriteOps
  BY <1>5 DEF WriteOps
<1> HIDE DEF items
<1>7. /\ d.writes \in Seq(WriteOps) /\ Len(d.writes) = 1 /\ DOMAIN d.writes = {1} /\ d.writes # <<>>
      /\ d.writes[1].h = c.writes[1].h /\ d.writes[1].items = items /\ d.writes[1].r = r
  BY <1>5, <1>6
<1>8. Lists(d)
  BY <1>1, <1>7, Zenon DEF Lists, ConInv
<1>9. c.tail = "frames" /\ c.http # "deferred"
  <2>1. c.tail \in {"frames", "terminal"}
    BY DEF ConInv, Sending
  <2>2. c.tail # "terminal"
    BY <1>1 DEF ConInv, Sending
  <2>3. QED BY <2>1, <2>2, <1>1 DEF ConInv, Phased
<1>10. \A i \in DOMAIN d.writes : d.writes[i].h \in Writing(d.istate)
  BY <1>1, <1>4, <1>7 DEF Phased, ConInv
<1>11. TerminalAtEnd(items) /\ (~Up(c) => \A i \in DOMAIN items : ~items[i].terminal)
  BY <1>1 DEF ConInv, Sending, items
<1>12. /\ d.tail \in {"frames", "terminal"}
       /\ d.tail = "terminal" => r = "ok" /\ items[Len(items)].terminal /\ Up(c)
  <2> DEFINE ends == {i \in DOMAIN items : items[i].terminal}
  <2>1. CASE r # "ok"
    BY <2>1, <1>9
  <2>2. CASE r = "ok"
    <3>1. d.tail = Sent(c, items)
      BY <2>2 DEF items
    <3>2. ends # {} => Len(items) \in ends
      BY <1>5, <1>11 DEF TerminalAtEnd
    <3>3. ends # {} => items[Len(items)].terminal /\ Up(c)
      BY <3>2, <1>11
    <3>4. Sent(c, items) = IF ends = {} THEN "frames" ELSE "terminal"
      <4>1. Sent(c, items) = IF c.tail # "frames" \/ (ends # {} /\ Len(items) \notin ends) THEN "more"
                             ELSE IF ends = {} THEN "frames" ELSE "terminal"
        BY DEF Sent
      <4> HIDE DEF ends
      <4>2. QED BY <4>1, <3>2, <1>9
    <3> HIDE DEF ends
    <3>5. QED BY <3>1, <3>3, <3>4, <2>2
  <2>3. QED BY <2>1, <2>2
<1>13. ~Up(c) => d.tail = "frames"
  BY <1>12
<1>14. Phased(d)
  <2>1. Len(d.writes) <= 1
    BY <1>7
  <2>2. QED BY <2>1, <1>1, <1>9, <1>10, <1>13, Zenon DEF Phased, ConInv, Up
<1>15. Sending(d)
  <2>1. Up(c) => c.wflag /\ c.current = items /\ c.current # <<>>
    BY <1>1 DEF ConInv, Sending, items
  <2>2. Up(d) <=> Up(c)
    BY <1>1 DEF Up
  <2>3. d.tail = "terminal" =>
          d.wflag /\ (d.writes # <<>> => d.writes[1].r = "ok" /\ d.current[Len(d.current)].terminal)
    BY <2>1, <1>1, <1>7, <1>12
  <2>4. QED BY <2>1, <2>2, <2>3, <1>1, <1>7, <1>11, <1>12, Zenon DEF Sending
<1>16. QED BY <1>1, <1>2, <1>8, <1>14, <1>15 DEF ConInv

-----------------------------------------------------------------------------
(* What a step does to the connection of its end, from c to d.             *)
ReadTaken(c, f) ==
  /\ c.reads # <<>> /\ c.reads[1].r # "pending"
  /\ Sets(c, f, {"reads", "buf"}) /\ f.reads = Tail(c.reads)
  /\ f.buf = IF \A i \in 2 .. Len(c.reads) : i \in Pending(c.reads) THEN <<>> ELSE c.buf

ReadEnds(c, d) ==
  \E f : /\ ReadTaken(c, f)
         /\ \/ c.istate = "READ_HTTP_REQUEST" /\ RequestRead(f, d, c.reads[1].r, c.buf)
            \/ c.istate = "READ_HTTP_RESPONSE" /\ ResponseRead(f, d, c.reads[1].r, c.buf)
            \/ Up(c) /\ ReadsFrames(f, d, c.reads[1].r, c.buf)

WriteEnds(c, d) ==
  /\ c.writes # <<>> /\ c.writes[1].r # "pending"
  /\ \/ Up(c) /\ FramesWritten(c, d)
     \/ \E f : /\ Sets(c, f, {"writes"}) /\ f.writes = <<>>
               /\ \/ c.istate = "PROCESS_HTTP_REQUEST" /\ Responded(f, d, c.writes[1].r)
                  \/ c.istate = "WRITE_HTTP_REQUEST" /\ Requested(f, d, c.writes[1].r)

TimesOut(c, d) == \E f, ec : Sets(c, f, {"due"}) /\ Terminated(f, d, ec)

Resumes(c, d) ==
  \E f : /\ Sets(c, f, {"sends", "rflag"}) /\ Sets(f, d, {"reads"})
         /\ d.reads = Append(f.reads, [h |-> "frame", r |-> "pending"])

Pushes(c, d) ==
  \E f : /\ Sets(c, f, {"call", "sent", "live"})
         /\ \/ \E v \in Payload : f.sent = Append(c.sent, v) /\ Pushed(f, d, Item("data", v))
            \/ f.sent = c.sent /\ \E k \in {"ping", "pong"} : Pushed(f, d, Item(k, ""))

RespondsLater(c, d) ==
  /\ c.http = "deferred"
  /\ \E g : Sets(c, g, {"status", "http"}) /\ g.http = "body_written" /\ Responds(g, d)

Effect(c, d, calls) ==
  \/ c.istate = "TRANSPORT_INIT" /\ Initiated(c, d)
  \/ ReadEnds(c, d)
  \/ WriteEnds(c, d)
  \/ Up(c) /\ WritesFrames(c, d)
  \/ Sets(c, d, {"live", "due"})
  \/ TimesOut(c, d)
  \/ Up(c) /\ Sets(c, d, {"call", "sends", "rflag", "closer"})
  \/ "resume" \in calls /\ Up(c) /\ Resumes(c, d)
  \/ Up(c) /\ Pushes(c, d)
  \/ c.state = "open" /\ \E code \in Codes : ClosingWith(c, d, code, FALSE)
  \/ RespondsLater(c, d)
  \/ \E r \in {"eof", "error"} : Received(c, d, r, c.buf)
  \/ Transmitted(c, d, "error") /\ d.tail = c.tail

LEMMA TransportInitEffect ==
  ASSUME NEW c, ConInv(c), c.istate = "TRANSPORT_INIT", NEW r, NEW calls
  PROVE  ConInv(handle_transport_init(c, r)) /\ Effect(c, handle_transport_init(c, r), calls)
BY handle_transport_initKeeps DEF Effect

LEMMA WriteFrameEffect ==
  ASSUME NEW c, ConInv(c), c.posted > 0, NEW calls
  PROVE  ConInv(write_frame(c)) /\ Effect(c, write_frame(c), calls)
<1>1. Up(c)
  BY DEF ConInv, Phased
<1>2. QED BY <1>1, write_frameKeeps DEF Effect

LEMMA ReadTakenKeeps ==
  ASSUME NEW c, ConInv(c), NEW f, ReadTaken(c, f)
  PROVE  /\ ConInv(f) /\ f.istate = c.istate /\ (~Up(c) => f.reads = <<>>)
         /\ c.reads[1].r \in {"ok", "eof", "error"} /\ c.reads[1].h \in Reading(c.istate)
         /\ Head(c.reads) = c.reads[1]
<1>1. c.reads # <<>> /\ c.reads \in Seq(ReadOps) /\ f.buf \in {<<>>, c.buf}
  BY DEF ReadTaken, ConInv, Lists
<1>2. ConInv(f) /\ (~Up(c) => f.reads = <<>>)
  BY <1>1, ReadLeaves DEF ReadTaken
<1>3. 1 \in DOMAIN c.reads /\ c.reads[1] \in ReadOps /\ Head(c.reads) = c.reads[1]
  BY <1>1
<1>4. c.reads[1].r \in {"pending", "ok", "eof", "error"}
  BY <1>3 DEF ReadOps
<1>5. c.reads[1].r # "pending" /\ f.istate = c.istate
  BY DEF ReadTaken, Sets, Fields
<1>6. QED BY <1>2, <1>3, <1>4, <1>5 DEF ConInv, Phased

LEMMA ReadDoneEffect ==
  ASSUME NEW c, ConInv(c), NEW f, ReadTaken(c, f), NEW app, NEW calls
  PROVE  /\ c.reads[1].h = "handshake" =>
              LET d == handle_read_handshake(f, c.reads[1].r, c.buf, app) IN ConInv(d) /\ Effect(c, d, calls)
         /\ c.reads[1].h = "response" =>
              LET d == handle_read_http_response(f, c.reads[1].r, c.buf) IN ConInv(d) /\ Effect(c, d, calls)
         /\ c.reads[1].h = "frame" =>
              LET d == handle_read_frame(f, c.reads[1].r, c.buf) IN ConInv(d) /\ Effect(c, d, calls)
         /\ c.reads[1].h \in {"handshake", "response", "frame"}
<1> DEFINE r == c.reads[1].r
           h == c.reads[1].h
<1>1. /\ ConInv(f) /\ f.istate = c.istate /\ (~Up(c) => f.reads = <<>>)
      /\ r \in {"ok", "eof", "error"} /\ h \in Reading(c.istate)
  BY ReadTakenKeeps
<1>2. c.buf \in Seq(Items)
  BY DEF ConInv, Lists
<1>3. /\ h = "handshake" => c.istate = "READ_HTTP_REQUEST" /\ ~Up(c)
      /\ h = "response" => c.istate = "READ_HTTP_RESPONSE" /\ ~Up(c)
      /\ h = "frame" => Up(c)
      /\ h \in {"handshake", "response", "frame"}
  BY <1>1 DEF Reading, Up
<1> HIDE DEF r, h
<1>4. ASSUME h = "handshake"
      PROVE  LET d == handle_read_handshake(f, r, c.buf, app) IN ConInv(d) /\ Effect(c, d, calls)
  <2> DEFINE d == handle_read_handshake(f, r, c.buf, app)
  <2>1. ConInv(d) /\ RequestRead(f, d, r, c.buf)
    BY <1>1, <1>2, <1>3, <1>4, handle_read_handshakeKeeps
  <2> HIDE DEF d
  <2>2. ReadEnds(c, d)
    BY <2>1, <1>3, <1>4 DEF ReadEnds, r
  <2>3. QED BY <2>1, <2>2 DEF Effect, d
<1>5. ASSUME h = "response"
      PROVE  LET d == handle_read_http_response(f, r, c.buf) IN ConInv(d) /\ Effect(c, d, calls)
  <2> DEFINE d == handle_read_http_response(f, r, c.buf)
  <2>1. ConInv(d) /\ ResponseRead(f, d, r, c.buf)
    BY <1>1, <1>2, <1>3, <1>5, handle_read_http_responseKeeps
  <2> HIDE DEF d
  <2>2. ReadEnds(c, d)
    BY <2>1, <1>3, <1>5 DEF ReadEnds, r
  <2>3. QED BY <2>1, <2>2 DEF Effect, d
<1>6. ASSUME h = "frame"
      PROVE  LET d == handle_read_frame(f, r, c.buf) IN ConInv(d) /\ Effect(c, d, calls)
  <2> DEFINE d == handle_read_frame(f, r, c.buf)
  <2>0. Up(f)
    BY <1>1, <1>3, <1>6 DEF Up
  <2>1. ConInv(d) /\ ReadsFrames(f, d, r, c.buf)
    BY <2>0, <1>1, <1>2, <1>3, <1>6, handle_read_frameKeeps
  <2> HIDE DEF d
  <2>2. ReadEnds(c, d)
    BY <2>1, <1>3, <1>6 DEF ReadEnds, r
  <2>3. QED BY <2>1, <2>2 DEF Effect, d
<1>7. QED BY <1>3, <1>4, <1>5, <1>6, Zenon DEF r, h

LEMMA WriteDoneEffect ==
  ASSUME NEW c, ConInv(c), c.writes # <<>>, c.writes[1].r # "pending", NEW calls
  PROVE  LET f == [c EXCEPT !.writes = Tail(@)]
             w == Head(c.writes)
             d == CASE w.h = "response" -> handle_write_http_response(f, w.r)
                    [] w.h = "request" -> handle_send_http_request(f, w.r)
                    [] w.h = "frames" -> handle_write_frame(f, w.r)
         IN  ConInv(d) /\ Effect(c, d, calls)
<1> DEFINE f == [c EXCEPT !.writes = Tail(@)]
           w == Head(c.writes)
           d == CASE w.h = "response" -> handle_write_http_response(f, w.r)
                  [] w.h = "request" -> handle_send_http_request(f, w.r)
                  [] w.h = "frames" -> handle_write_frame(f, w.r)
<1>0. SUFFICES ConInv(d) /\ Effect(c, d, calls)
  BY Zenon
<1>1. c.writes \in Seq(WriteOps) /\ Len(c.writes) <= 1 /\ DOMAIN c = Fields
  BY DEF ConInv, Lists, Phased
<1>2. Tail(c.writes) = <<>> /\ w = c.writes[1] /\ c.writes[1] \in WriteOps /\ 1 \in DOMAIN c.writes
  BY <1>1, TailOfOne
<1>3. c.writes[1].r \in {"ok", "error"}
  BY <1>2 DEF WriteOps
<1>4. c.writes[1].h \in Writing(c.istate)
  BY <1>2 DEF ConInv, Phased
<1>5. /\ c.writes[1].h \in {"response", "request", "frames"}
      /\ c.writes[1].h = "response" <=> c.istate = "PROCESS_HTTP_REQUEST"
      /\ c.writes[1].h = "request" <=> c.istate = "WRITE_HTTP_REQUEST"
      /\ c.writes[1].h = "frames" <=> Up(c)
  BY <1>4 DEF Writing, Up
<1>6. Sets(c, f, {"writes"}) /\ f.writes = <<>> /\ f.istate = c.istate /\ f.http = c.http
  BY <1>1, <1>2 DEF Sets, Fields
<1>7. c.http # "deferred"
  BY DEF ConInv, Phased
<1>8. CASE c.writes[1].h = "response"
  <2>1. d = handle_write_http_response(f, c.writes[1].r)
    BY <1>2, <1>8
  <2>2. ~Up(c) /\ c.istate = "PROCESS_HTTP_REQUEST"
    BY <1>5, <1>8
  <2> HIDE DEF f, d
  <2>3. ConInv(f)
    BY <2>2, <1>6, WriteLeaves
  <2>4. ConInv(d) /\ Responded(f, d, c.writes[1].r)
    BY <2>1, <2>2, <2>3, <1>3, <1>6, <1>7, handle_write_http_responseKeeps
  <2>5. WriteEnds(c, d)
    BY <2>2, <2>4, <1>6 DEF WriteEnds
  <2>6. Effect(c, d, calls)
    BY <2>5 DEF Effect
  <2>7. QED BY <2>4, <2>6
<1>9. CASE c.writes[1].h = "request"
  <2>1. d = handle_send_http_request(f, c.writes[1].r)
    BY <1>2, <1>9
  <2>2. ~Up(c) /\ c.istate = "WRITE_HTTP_REQUEST"
    BY <1>5, <1>9
  <2> HIDE DEF f, d
  <2>3. ConInv(f)
    BY <2>2, <1>6, WriteLeaves
  <2>4. ConInv(d) /\ Requested(f, d, c.writes[1].r)
    BY <2>1, <2>2, <2>3, <1>3, <1>6, handle_send_http_requestKeeps
  <2>5. WriteEnds(c, d)
    BY <2>2, <2>4, <1>6 DEF WriteEnds
  <2>6. Effect(c, d, calls)
    BY <2>5 DEF Effect
  <2>7. QED BY <2>4, <2>6
<1>10. CASE c.writes[1].h = "frames"
  <2>1. d = handle_write_frame(f, c.writes[1].r)
    BY <1>2, <1>10
  <2>2. Up(c)
    BY <1>5, <1>10
  <2>3. ConInv(d) /\ FramesWritten(c, d)
    <3> HIDE DEF d
    <3>1. QED BY <2>1, <2>2, handle_write_frameKeeps, Zenon
  <2> HIDE DEF f, d
  <2>5. WriteEnds(c, d)
    BY <2>2, <2>3 DEF WriteEnds
  <2>6. Effect(c, d, calls)
    BY <2>5 DEF Effect
  <2>7. QED BY <2>3, <2>6
<1> HIDE DEF d, f, w
<1>11. QED BY <1>5, <1>8, <1>9, <1>10

LEMMA ExpireEffect ==
  ASSUME NEW c, ConInv(c), NEW k, NEW calls
  PROVE  LET d == [c EXCEPT !.live = @ \ {k}, !.due = @ \union {k}] IN ConInv(d) /\ Effect(c, d, calls)
<1> DEFINE d == [c EXCEPT !.live = @ \ {k}, !.due = @ \union {k}]
<1>1. Sets(c, d, {"live", "due"})
  BY DEF ConInv, Sets, Fields
<1> HIDE DEF d
<1>2. Sets(c, d, {"timer", "live", "due", "ec", "lcode", "report"})
  BY <1>1, SetsMore
<1>3. ConInv(d)
  BY <1>2, QuietKeeps
<1>4. QED BY <1>1, <1>3 DEF Effect, d

LEMMA TimeoutEffect ==
  ASSUME NEW c, ConInv(c), NEW k, NEW calls
  PROVE  LET f == [c EXCEPT !.due = @ \ {k}]
             d == CASE k = "open" -> handle_open_handshake_timeout(f)
                    [] k = "ping" -> handle_pong_timeout(f)
                    [] OTHER -> handle_close_handshake_timeout(f)
         IN  ConInv(d) /\ Effect(c, d, calls)
<1> DEFINE f == [c EXCEPT !.due = @ \ {k}]
           d == CASE k = "open" -> handle_open_handshake_timeout(f)
                  [] k = "ping" -> handle_pong_timeout(f)
                  [] OTHER -> handle_close_handshake_timeout(f)
<1>1. Sets(c, f, {"due"})
  BY DEF ConInv, Sets, Fields
<1>2. d = f \/ \E ec : d = terminate(f, ec)
  <2> HIDE DEF f
  <2>1. QED BY DEF handle_open_handshake_timeout, handle_pong_timeout, handle_close_handshake_timeout
<1> HIDE DEF f, d
<1>3. Sets(c, f, {"timer", "live", "due", "ec", "lcode", "report"}) /\ Sets(c, f, {"live", "due"})
  BY <1>1, SetsMore
<1>4. ConInv(f)
  BY <1>3, QuietKeeps
<1>5. CASE d = f
  <2>1. ConInv(d) /\ Effect(c, d, calls)
    BY <1>3, <1>4, <1>5 DEF Effect
  <2>2. QED BY <2>1, Zenon DEF d, f
<1>6. CASE \E ec : d = terminate(f, ec)
  <2>1. PICK ec : d = terminate(f, ec)
    BY <1>6
  <2>2. ConInv(d) /\ Terminated(f, d, ec)
    BY <2>1, <1>4, terminateKeeps
  <2>3. TimesOut(c, d)
    BY <2>2, <1>1 DEF TimesOut
  <2>4. Effect(c, d, calls)
    BY <2>3 DEF Effect
  <2>5. QED BY <2>2, <2>4, Zenon DEF d, f
<1>7. QED BY <1>2, <1>5, <1>6

LEMMA CheckEffect ==
  ASSUME NEW c, ConInv(c), c.state = "open", NEW call \in {"send", "ping", "pong"}, NEW calls
  PROVE  LET d == [c EXCEPT !.call = call, !.sends = @ + 1] IN ConInv(d) /\ Effect(c, d, calls)
<1> DEFINE d == [c EXCEPT !.call = call, !.sends = @ + 1]
<1>1. Up(c) /\ c.sends \in Nat /\ c.rflag \in BOOLEAN /\ DOMAIN c = Fields
  BY DEF ConInv, Handled, Flags
<1>2. /\ Sets(c, d, {"call", "sends"}) /\ d.call = call /\ d.sends = c.sends + 1 /\ d.rflag = c.rflag
  BY <1>1 DEF Sets, Fields
<1> HIDE DEF d
<1>3. Sets(c, d, {"call", "sends", "rflag", "closer"})
  BY <1>2, SetsMore
<1>4. d.rflag \in BOOLEAN
  BY <1>1, <1>2, Zenon
<1>5. d.call \in {"none", "send", "ping", "pong"} /\ d.sends \in Nat
  BY <1>1, <1>2
<1>6. ConInv(d)
  BY <1>1, <1>3, <1>4, <1>5, CallKeeps
<1>7. QED BY <1>1, <1>3, <1>6 DEF Effect, d

LEMMA PauseEffect ==
  ASSUME NEW c, ConInv(c), c.state = "open", NEW calls
  PROVE  ConInv(handle_pause_reading(c)) /\ Effect(c, handle_pause_reading(c), calls)
<1> DEFINE d == handle_pause_reading(c)
<1>1. Up(c) /\ c.sends \in Nat /\ DOMAIN c = Fields /\ c.call \in {"none", "send", "ping", "pong"}
  BY DEF ConInv, Handled, Flags, Phased
<1>2. Sets(c, d, {"rflag"}) /\ d.rflag = FALSE /\ d.call = c.call /\ d.sends = c.sends
  BY <1>1 DEF handle_pause_reading, Sets, Fields
<1> HIDE DEF d
<1>3. Sets(c, d, {"call", "sends", "rflag", "closer"})
  BY <1>2, SetsMore
<1>4. ConInv(d)
  BY <1>1, <1>2, <1>3, CallKeeps
<1>5. QED BY <1>1, <1>3, <1>4 DEF Effect, d

LEMMA ResumeEffect ==
  ASSUME NEW c, ConInv(c), c.opens = 1, NEW calls, "resume" \in calls
  PROVE  LET d == handle_resume_reading([c EXCEPT !.sends = @ + 1]) IN ConInv(d) /\ Effect(c, d, calls)
<1> DEFINE b == [c EXCEPT !.sends = @ + 1]
           f == [b EXCEPT !.rflag = TRUE]
           d == handle_resume_reading(b)
<1>1. Up(c) /\ c.sends \in Nat /\ DOMAIN c = Fields /\ c.call \in {"none", "send", "ping", "pong"}
  BY DEF ConInv, Handled, Flags, Phased
<1>2. Sets(c, b, {"sends"}) /\ b.sends = c.sends + 1
  BY <1>1 DEF Sets, Fields
<1>3. d = read_frame(f)
  BY DEF handle_resume_reading
<1> HIDE DEF b, d
<1>4. Sets(c, f, {"sends", "rflag"}) /\ f.rflag = TRUE /\ f.sends = c.sends + 1 /\ f.call = c.call
  BY <1>1, <1>2 DEF Sets, Fields
<1> HIDE DEF f
<1>5. d = async_read(f, "frame")
  BY <1>3, <1>4 DEF read_frame
<1>6. Sets(c, f, {"call", "sends", "rflag", "closer"}) /\ f.sends \in Nat
  BY <1>1, <1>4, SetsMore
<1>7. f.rflag \in BOOLEAN
  BY <1>4
<1>8. ConInv(f) /\ Up(f)
  BY <1>1, <1>4, <1>6, <1>7, CallKeeps
<1>9. "frame" \in Reading(f.istate)
  BY <1>8 DEF Up, Reading
<1>10. /\ ConInv(d) /\ Sets(f, d, {"reads"})
       /\ d.reads = Append(f.reads, [h |-> "frame", r |-> "pending"])
  BY <1>5, <1>8, <1>9, async_readKeeps
<1>11. Resumes(c, d)
  BY <1>4, <1>10 DEF Resumes
<1>12. Effect(c, d, calls)
  BY <1>1, <1>11 DEF Effect
<1>13. QED BY <1>10, <1>12, Zenon DEF d, b

LEMMA PushEffect ==
  ASSUME NEW c, ConInv(c), c.call # "none", NEW calls
  PROVE  LET f == [c EXCEPT !.call = "none"]
             d == CASE c.call = "send" -> send(f)
                    [] c.call = "ping" -> ping(f)
                    [] c.call = "pong" -> pong(f)
         IN  ConInv(d) /\ Effect(c, d, calls)
<1> DEFINE f == [c EXCEPT !.call = "none"]
           d == CASE c.call = "send" -> send(f)
                  [] c.call = "ping" -> ping(f)
                  [] c.call = "pong" -> pong(f)
<1>0. SUFFICES ConInv(d) /\ Effect(c, d, calls)
  BY Zenon
<1>1. /\ Up(c) /\ c.sends \in Nat /\ DOMAIN c = Fields /\ c.call \in {"send", "ping", "pong"}
      /\ c.sent \in Seq(Payload)
  BY DEF ConInv, Handled, Flags, Phased, Lists
<1>2. c.rflag \in BOOLEAN
  BY DEF ConInv, Flags
<1>3. /\ Sets(c, f, {"call"}) /\ f.call = "none" /\ f.sends = c.sends /\ f.rflag = c.rflag /\ f.sent = c.sent
      /\ DOMAIN f = Fields
  BY <1>1 DEF Sets, Fields
<1>4. /\ c.call = "send" => d = send(f)
      /\ c.call = "ping" => d = ping(f)
      /\ c.call = "pong" => d = pong(f)
  <2> HIDE DEF f
  <2>1. QED BY <1>1
<1> HIDE DEF d, f
<1>5. ConInv(f) /\ Up(f)
  <2>1. Sets(c, f, {"call", "sends", "rflag", "closer"})
    BY <1>3, SetsMore
  <2>2. f.rflag \in BOOLEAN
    BY <1>2, <1>3, Zenon
  <2>3. f.call \in {"none", "send", "ping", "pong"} /\ f.sends \in Nat
    BY <1>1, <1>3
  <2>4. QED BY <2>1, <2>2, <2>3, <1>1, CallKeeps
<1>6. "" \in Payload /\ "data" \in Kinds /\ "ping" \in Kinds /\ "pong" \in Kinds
  BY Strings DEF Values, Kinds
<1>7. CASE c.call = "send"
  <2> DEFINE v == ToString(f.sends)
             g == [f EXCEPT !.sent = Append(@, v)]
  <2>1. v \in Payload
    BY <1>1, <1>3 DEF Payload
  <2>2. Item("data", v) \in Items
    BY <2>1, <1>6, ItemIn
  <2>3. d = write_push(g, Item("data", v))
    BY <1>4, <1>7 DEF send
  <2> HIDE DEF v
  <2>4. Sets(f, g, {"sent"}) /\ g.sent = Append(c.sent, v)
    BY <1>3 DEF Sets, Fields
  <2> HIDE DEF g
  <2>5. g.sent \in Seq(Payload)
    BY <2>1, <2>4, <1>1
  <2>6. ConInv(g) /\ Up(g)
    BY <2>4, <2>5, <1>5, SentKeeps
  <2>7. ConInv(d) /\ Pushed(g, d, Item("data", v))
    BY <2>2, <2>3, <2>6, write_pushKeeps
  <2>8. Sets(c, g, {"call", "sent", "live"})
    BY <2>4, <1>3 DEF Sets
  <2>9. Pushes(c, d)
    BY <2>1, <2>4, <2>7, <2>8 DEF Pushes
  <2>10. QED BY <2>7, <2>9, <1>1 DEF Effect
<1>8. ASSUME NEW g, Sets(f, g, {"live"}), NEW k \in {"ping", "pong"}, d = write_push(g, Item(k, ""))
      PROVE  ConInv(d) /\ Effect(c, d, calls)
  <2>1. Item(k, "") \in Items
    BY <1>6, <1>8, ItemIn
  <2>2. Sets(f, g, {"timer", "live", "due", "ec", "lcode", "report"}) /\ g.istate = f.istate /\ g.sent = c.sent
    BY <1>3, <1>8 DEF Sets, Fields
  <2>3. ConInv(g) /\ Up(g)
    BY <2>2, <1>5, QuietKeeps DEF Up
  <2>4. ConInv(d) /\ Pushed(g, d, Item(k, ""))
    BY <2>1, <2>3, <1>8, write_pushKeeps
  <2>5. Sets(c, g, {"call", "sent", "live"})
    BY <1>3, <1>8 DEF Sets
  <2>6. Pushes(c, d)
    BY <2>2, <2>4, <2>5, <1>8 DEF Pushes
  <2>7. QED BY <2>4, <2>6, <1>1 DEF Effect
<1>9. CASE c.call = "ping"
  <2> DEFINE g == [f EXCEPT !.live = @ \union {"ping"}]
  <2>1. d = write_push(g, Item("ping", ""))
    BY <1>4, <1>9 DEF ping
  <2>2. Sets(f, g, {"live"})
    BY <1>3 DEF Sets, Fields
  <2> HIDE DEF g
  <2>3. QED BY <2>1, <2>2, <1>8
<1>10. CASE c.call = "pong"
  <2>1. d = write_push(f, Item("pong", "")) /\ Sets(f, f, {"live"})
    BY <1>3, <1>4, <1>10, SetsItself DEF pong
  <2>2. QED BY <2>1, <1>8
<1>11. QED BY <1>1, <1>7, <1>9, <1>10

LEMMA CheckCloseEffect ==
  ASSUME NEW c, ConInv(c), c.state = "open", NEW x, NEW calls
  PROVE  LET d == [c EXCEPT !.closer = x] IN ConInv(d) /\ Effect(c, d, calls)
<1> DEFINE d == [c EXCEPT !.closer = x]
<1>1. /\ Up(c) /\ c.sends \in Nat /\ c.rflag \in BOOLEAN /\ DOMAIN c = Fields
      /\ c.call \in {"none", "send", "ping", "pong"}
  BY DEF ConInv, Handled, Flags, Phased
<1>2. Sets(c, d, {"closer"}) /\ d.call = c.call /\ d.sends = c.sends /\ d.rflag = c.rflag
  BY <1>1 DEF Sets, Fields
<1> HIDE DEF d
<1>3. Sets(c, d, {"call", "sends", "rflag", "closer"})
  BY <1>2, SetsMore
<1>4. d.rflag \in BOOLEAN
  BY <1>1, <1>2, Zenon
<1>5. d.call \in {"none", "send", "ping", "pong"} /\ d.sends \in Nat
  BY <1>1, <1>2
<1>6. ConInv(d)
  BY <1>1, <1>3, <1>4, <1>5, CallKeeps
<1>7. QED BY <1>1, <1>3, <1>6 DEF Effect, d

\* The close that goes on while the connection is still open.
LEMMA CloseEffect ==
  ASSUME NEW c, ConInv(c), c.state = "open", NEW code \in Codes, NEW x, NEW calls
  PROVE  LET d == close([c EXCEPT !.closer = x], code) IN ConInv(d) /\ Effect(c, d, calls)
<1> DEFINE f == [c EXCEPT !.closer = x]
           d == close(f, code)
<1>1. code \in Payload
  BY DEF Payload
<1>2. FALSE \in BOOLEAN
  OBVIOUS
<1>3. ConInv(f)
  BY CheckCloseEffect
<1>4. Sets(c, f, {"closer"}) /\ f.state = "open" /\ f.clean = c.clean /\ f.rcode = c.rcode /\ f.queue = c.queue
  BY DEF ConInv, Sets, Fields
<1> HIDE DEF f
<1>5. d = send_close_frame(f, code, FALSE)
  BY DEF close
<1> HIDE DEF d
<1>6. ConInv(d) /\ ClosingWith(f, d, code, FALSE)
  BY <1>1, <1>2, <1>3, <1>4, <1>5, send_close_frameKeeps
<1>7. ClosingWith(c, d, code, FALSE)
  <2>1. Sets(c, d, {"lcode", "state", "clean", "timer", "live", "queue", "posted", "closer"})
    BY <1>4, <1>6 DEF ClosingWith, Sets, Fields
  <2>2. QED BY <2>1, <1>4, <1>6 DEF ClosingWith
<1>8. QED BY <1>6, <1>7 DEF Effect, d, f

LEMMA SendHttpResponseEffect ==
  ASSUME NEW c, ConInv(c), c.http = "deferred", NEW status \in {"ok", "uninitialized"}, NEW calls
  PROVE  LET d == send_http_response(set_status(c, status)) IN ConInv(d) /\ Effect(c, d, calls)
<1> DEFINE f == set_status(c, status)
           g == [f EXCEPT !.http = "body_written"]
           d == send_http_response(f)
<1>1. c.istate = "PROCESS_HTTP_REQUEST" /\ c.writes = <<>> /\ DOMAIN c = Fields
  BY DEF ConInv, Phased
<1>2. c.reads = <<>> /\ ~Up(c)
  BY <1>1, NoneUnderWay DEF Reading, Up
<1>3. Sets(c, f, {"status"}) /\ f.status = status
  BY <1>1, set_statusSets
<1>4. d = write_http_response(g, "none")
  BY DEF send_http_response
<1> HIDE DEF f
<1>5. Sets(c, g, {"status", "http"}) /\ g.status = status /\ g.http = "body_written"
  BY <1>3 DEF Sets, Fields
<1> HIDE DEF g
<1>6. /\ Sets(c, g, {"timer", "live", "ec", "istate", "http", "is_http", "status", "rest"})
      /\ g.istate = c.istate /\ g.is_http = c.is_http /\ g.rest = c.rest
  BY <1>5 DEF Sets, Fields
<1>7. c.is_http \in BOOLEAN /\ c.rest \in Seq(Items)
  BY DEF ConInv, Flags, Lists
<1>8. g.is_http \in BOOLEAN
  BY <1>6, <1>7, Zenon
<1>9. ConInv(g) /\ g.writes = <<>>
  <2>1. g.istate # "PROCESS_CONNECTION" /\ g.rest \in Seq(Items) /\ g.http # "deferred"
    BY <1>1, <1>5, <1>6, <1>7
  <2>2. g.status \in {"uninitialized", "ok", "error", "101"}
    BY <1>5
  <2>3. QED BY <2>1, <2>2, <1>1, <1>2, <1>6, <1>8, OpeningKeeps
<1> HIDE DEF d
<1>10. ConInv(d) /\ Responds(g, d)
  BY <1>1, <1>4, <1>5, <1>6, <1>9, write_http_responseKeeps
<1>11. RespondsLater(c, d)
  BY <1>5, <1>10 DEF RespondsLater
<1>12. Effect(c, d, calls)
  BY <1>11 DEF Effect
<1>13. QED BY <1>10, <1>12, Zenon DEF d, f

-----------------------------------------------------------------------------
(* A step of an end, on both connections and the wire.                     *)
LEMMA TwoEnds == Other("server") = "client" /\ Other("client") = "server"
BY DEF Other, Ends

\* No close has been overtaken.
Timely == \A e \in Ends : con[e].closer # "overtaken"

Moves(e) ==
  \E d : /\ con' = [con EXCEPT ![e] = d] /\ ConInv(d) /\ mode' = mode
         /\ \/ wire' = wire /\ Effect(con[e], d, Calls[mode][e])
            \/ \E n \in 1 .. Len(wire[e]) :
                 /\ Received(con[e], d, "ok", SubSeq(wire[e], 1, n))
                 /\ wire' = [wire EXCEPT ![e] = SubSeq(wire[e], n + 1, Len(wire[e]))]
            \/ /\ con[e].shut = FALSE /\ Transmitted(con[e], d, "ok")
               /\ wire' = [wire EXCEPT ![Other(e)] =
                             IF Other(e) \in Active THEN wire[Other(e)] \o con[e].writes[1].items
                             ELSE wire[Other(e)]]

LEMMA LocalMoves ==
  ASSUME NEW e \in Ends, NEW d, Local(e, d), ConInv(d), Effect(con[e], d, Calls[mode][e])
  PROVE  Moves(e)
BY DEF Local, Step, Moves

LEMMA ReceiveMoves ==
  ASSUME EndsInv, NEW e \in Ends, Receive(e)
  PROVE  Moves(e)
<1> DEFINE c == con[e]
           i == Oldest(c.reads)
<1>1. ConInv(c) /\ wire[e] \in Seq(Items) /\ DOMAIN wire = Ends
  BY DEF EndsInv
<1>2. c.reads \in Seq(ReadOps) /\ DOMAIN c = Fields /\ c.buf \in Seq(Items)
  BY <1>1 DEF ConInv, Lists
<1>3. Pending(c.reads) # {}
  BY DEF Receive
<1>4. i \in DOMAIN c.reads /\ c.reads[i].r = "pending"
  BY <1>2, <1>3, OldestPending
<1>5. c.reads[i] \in ReadOps
  BY <1>2, <1>4
<1>6. CASE \E n \in 1 .. Len(wire[e]) :
              /\ Step(e, [c EXCEPT !.reads[i].r = "ok", !.buf = SubSeq(wire[e], 1, n)])
              /\ wire' = [wire EXCEPT ![e] = SubSeq(@, n + 1, Len(@))]
  <2>1. PICK n \in 1 .. Len(wire[e]) :
              /\ Step(e, [c EXCEPT !.reads[i].r = "ok", !.buf = SubSeq(wire[e], 1, n)])
              /\ wire' = [wire EXCEPT ![e] = SubSeq(@, n + 1, Len(@))]
    BY <1>6
  <2> DEFINE buf == SubSeq(wire[e], 1, n)
             d == [c EXCEPT !.reads[i].r = "ok", !.buf = buf]
  <2>2. buf \in Seq(Items)
    BY <1>1, <2>1, SubSeqItems
  <2>3. con' = [con EXCEPT ![e] = d] /\ mode' = mode
    BY <2>1 DEF Step
  <2> HIDE DEF buf, i
  <2>4. [c.reads[i] EXCEPT !.r = "ok"] = [h |-> c.reads[i].h, r |-> "ok"]
    BY <1>5 DEF ReadOps
  <2>5. d.reads = [c.reads EXCEPT ![i] = [h |-> c.reads[i].h, r |-> "ok"]] /\ d.buf = buf
    BY <2>4, <1>2, <1>4 DEF Fields
  <2>6. Sets(c, d, {"reads", "buf"})
    BY <1>2 DEF Sets, Fields
  <2> HIDE DEF d
  <2>7. Received(c, d, "ok", buf)
    BY <2>5, <2>6, <1>4 DEF Received
  <2>8. ConInv(d)
    BY <2>2, <2>7, <1>1, ReceivedKeeps
  <2>9. wire' = [wire EXCEPT ![e] = SubSeq(wire[e], n + 1, Len(wire[e]))]
    BY <2>1, <1>1
  <2>10. QED BY <2>3, <2>7, <2>8, <2>9 DEF Moves, buf
<1>7. CASE \E r \in {"eof", "error"} : Local(e, [c EXCEPT !.reads[i].r = r])
  <2>1. PICK r \in {"eof", "error"} : Local(e, [c EXCEPT !.reads[i].r = r])
    BY <1>7
  <2> DEFINE d == [c EXCEPT !.reads[i].r = r]
  <2> HIDE DEF i
  <2>4. [c.reads[i] EXCEPT !.r = r] = [h |-> c.reads[i].h, r |-> r]
    BY <1>5 DEF ReadOps
  <2>5. d.reads = [c.reads EXCEPT ![i] = [h |-> c.reads[i].h, r |-> r]] /\ d.buf = c.buf
    BY <2>4, <1>2, <1>4 DEF Fields
  <2>6. Sets(c, d, {"reads", "buf"})
    BY <1>2 DEF Sets, Fields
  <2>7. Local(e, d)
    BY <2>1
  <2> HIDE DEF d
  <2>8. Received(c, d, r, c.buf)
    BY <2>5, <2>6, <1>4 DEF Received
  <2>9. ConInv(d)
    BY <2>8, <1>1, <1>2, ReceivedKeeps
  <2>10. Effect(c, d, Calls[mode][e])
    BY <2>8 DEF Effect
  <2>11. QED BY <2>7, <2>9, <2>10, LocalMoves
<1>8. QED BY <1>6, <1>7 DEF Receive

LEMMA TransmitMoves ==
  ASSUME EndsInv, NEW e \in Ends, Transmit(e)
  PROVE  Moves(e)
<1> DEFINE c == con[e]
           items == c.writes[1].items
           f(r, t) == [c EXCEPT !.writes[1].r = r, !.tail = t]
<1>1. ConInv(c) /\ DOMAIN wire = Ends
  BY DEF EndsInv
<1>2. c.writes \in Seq(WriteOps) /\ DOMAIN c = Fields /\ Len(c.writes) <= 1
  BY <1>1 DEF ConInv, Lists, Phased
<1>3. Pending(c.writes) # {}
  BY DEF Transmit
<1>4. Oldest(c.writes) \in DOMAIN c.writes /\ c.writes[Oldest(c.writes)].r = "pending"
  BY <1>2, <1>3, OldestPending
<1>5. Oldest(c.writes) = 1 /\ 1 \in DOMAIN c.writes /\ c.writes # <<>> /\ DOMAIN c.writes = {1}
  BY <1>2, <1>4
<1>6. c.writes[1] \in WriteOps /\ c.writes[1].r = "pending"
  BY <1>2, <1>4, <1>5
<1>7. ASSUME NEW r, NEW t
      PROVE  Transmitted(c, f(r, t), r) /\ f(r, t).tail = t
  <2>1. [c.writes[1] EXCEPT !.r = r] = [h |-> c.writes[1].h, items |-> items, r |-> r]
    BY <1>6 DEF WriteOps
  <2>2. [c.writes EXCEPT ![1] = [h |-> c.writes[1].h, items |-> items, r |-> r]] = <<[h |-> c.writes[1].h, items |-> items, r |-> r]>>
    BY <1>2, <1>5
  <2>3. f(r, t).writes = <<[h |-> c.writes[1].h, items |-> items, r |-> r]>> /\ f(r, t).tail = t
    BY <2>1, <2>2, <1>2 DEF Fields
  <2>4. Sets(c, f(r, t), {"writes", "tail"})
    BY <1>2 DEF Sets, Fields
  <2>5. QED BY <2>3, <2>4, <1>5, <1>6 DEF Transmitted
<1>8. CASE /\ ~c.shut /\ Step(e, [c EXCEPT !.writes[1].r = "ok", !.tail = Sent(c, items)])
           /\ wire' = [wire EXCEPT ![Other(e)] = IF Other(e) \in Active THEN @ \o items ELSE @]
  <2> DEFINE d == f("ok", Sent(c, items))
  <2>1. con' = [con EXCEPT ![e] = d] /\ mode' = mode
    BY <1>8 DEF Step
  <2>2. Transmitted(c, d, "ok") /\ d.tail = Sent(c, items)
    BY <1>7
  <2> HIDE DEF d
  <2>3. ConInv(d)
    BY <2>2, <1>1, TransmittedKeeps
  <2>4. c.shut \in BOOLEAN
    BY <1>1 DEF ConInv, Flags
  <2>5. c.shut = FALSE
    BY <2>4, <1>8
  <2>6. Other(e) \in Ends
    BY TwoEnds DEF Ends
  <2>7. wire' = [wire EXCEPT ![Other(e)] =
                             IF Other(e) \in Active THEN wire[Other(e)] \o con[e].writes[1].items
                             ELSE wire[Other(e)]]
    BY <2>6, <1>1, <1>8
  <2>8. QED BY <2>1, <2>2, <2>3, <2>5, <2>7 DEF Moves
<1>9. CASE Local(e, [c EXCEPT !.writes[1].r = "error"])
  <2> DEFINE d == [c EXCEPT !.writes[1].r = "error"]
  <2>1. d = f("error", c.tail)
    BY <1>2 DEF Fields
  <2>3. Local(e, d)
    BY <1>9
  <2> HIDE DEF f
  <2>2. Transmitted(c, f("error", c.tail), "error") /\ f("error", c.tail).tail = c.tail
    BY <1>7
  <2>7. Transmitted(c, d, "error") /\ d.tail = c.tail
    BY <2>1, <2>2, Zenon
  <2> HIDE DEF d
  <2>4. ConInv(d)
    BY <2>7, <1>1, TransmittedKeeps
  <2>5. Effect(c, d, Calls[mode][e])
    BY <2>7 DEF Effect
  <2>6. QED BY <2>3, <2>4, <2>5, LocalMoves
<1>10. QED BY <1>5, <1>8, <1>9 DEF Transmit

LEMMA ReadDoneMoves ==
  ASSUME EndsInv, NEW e \in Ends, ReadDone(e)
  PROVE  Moves(e)
<1> DEFINE c == con[e]
           f == [c EXCEPT !.reads = Tail(@),
                          !.buf = IF \A i \in 2 .. Len(c.reads) : i \in Pending(c.reads) THEN <<>> ELSE @]
           calls == Calls[mode][e]
<1>1. ConInv(c)
  BY DEF EndsInv
<1>2. c.reads \in Seq(ReadOps) /\ DOMAIN c = Fields /\ c.buf \in Seq(Items)
  BY <1>1 DEF ConInv, Lists
<1>3. c.reads # <<>> /\ Head(c.reads).r # "pending"
  BY DEF ReadDone
<1>4. Head(c.reads) = c.reads[1]
  BY <1>2, <1>3
<1>5. /\ Sets(c, f, {"reads", "buf"}) /\ f.reads = Tail(c.reads)
      /\ f.buf = IF \A i \in 2 .. Len(c.reads) : i \in Pending(c.reads) THEN <<>> ELSE c.buf
  BY <1>2 DEF Sets, Fields
<1>6. (CASE Head(c.reads).h = "handshake" ->
                \E app \in {"respond", "defer", "end", "silent", "none", "reject"} :
                  Local(e, handle_read_handshake(f, Head(c.reads).r, c.buf, app))
           [] Head(c.reads).h = "response" -> Local(e, handle_read_http_response(f, Head(c.reads).r, c.buf))
           [] Head(c.reads).h = "frame" -> Local(e, handle_read_frame(f, Head(c.reads).r, c.buf)))
  BY DEF ReadDone
<1> HIDE DEF f
<1>7. ReadTaken(c, f)
  BY <1>3, <1>4, <1>5 DEF ReadTaken
<1>8. c.reads[1].h \in {"handshake", "response", "frame"}
  BY <1>1, <1>7, ReadDoneEffect
<1>9. CASE c.reads[1].h = "handshake"
  <2>1. PICK app : Local(e, handle_read_handshake(f, c.reads[1].r, c.buf, app))
    BY <1>4, <1>6, <1>9
  <2> DEFINE d == handle_read_handshake(f, c.reads[1].r, c.buf, app)
  <2>2. ConInv(d) /\ Effect(c, d, calls)
    BY <1>1, <1>7, <1>9, ReadDoneEffect
  <2>3. Local(e, d)
    BY <2>1
  <2> HIDE DEF d
  <2>4. QED BY <2>2, <2>3, LocalMoves
<1>10. CASE c.reads[1].h = "response"
  <2> DEFINE d == handle_read_http_response(f, c.reads[1].r, c.buf)
  <2>2. ConInv(d) /\ Effect(c, d, calls)
    BY <1>1, <1>7, <1>10, ReadDoneEffect
  <2>3. Local(e, d)
    BY <1>4, <1>6, <1>10
  <2> HIDE DEF d
  <2>4. QED BY <2>2, <2>3, LocalMoves
<1>11. CASE c.reads[1].h = "frame"
  <2> DEFINE d == handle_read_frame(f, c.reads[1].r, c.buf)
  <2>2. ConInv(d) /\ Effect(c, d, calls)
    BY <1>1, <1>7, <1>11, ReadDoneEffect
  <2>3. Local(e, d)
    BY <1>4, <1>6, <1>11
  <2> HIDE DEF d
  <2>4. QED BY <2>2, <2>3, LocalMoves
<1>12. QED BY <1>8, <1>9, <1>10, <1>11

LEMMA WriteDoneMoves ==
  ASSUME EndsInv, NEW e \in Ends, WriteDone(e)
  PROVE  Moves(e)
<1> DEFINE c == con[e]
           f == [c EXCEPT !.writes = Tail(@)]
           w == Head(c.writes)
           d == CASE w.h = "response" -> handle_write_http_response(f, w.r)
                  [] w.h = "request" -> handle_send_http_request(f, w.r)
                  [] w.h = "frames" -> handle_write_frame(f, w.r)
<1>1. ConInv(c)
  BY DEF EndsInv
<1>2. c.writes \in Seq(WriteOps)
  BY <1>1 DEF ConInv, Lists
<1>3. c.writes # <<>> /\ w.r # "pending" /\ Local(e, d)
  BY DEF WriteDone
<1>4. c.writes[1].r # "pending"
  BY <1>2, <1>3
<1>5. ConInv(d) /\ Effect(c, d, Calls[mode][e])
  BY <1>1, <1>3, <1>4, WriteDoneEffect
<1> HIDE DEF d
<1>6. QED BY <1>3, <1>5, LocalMoves

LEMMA MachineMoves ==
  ASSUME EndsInv, NEW e \in Ends, Machine(e), Timely'
  PROVE  Moves(e)
<1> DEFINE c == con[e]
           calls == Calls[mode][e]
<1>1. ConInv(c)
  BY DEF EndsInv
<1>2. ASSUME NEW d, Local(e, d), ConInv(d) /\ Effect(c, d, calls)
      PROVE  Moves(e)
  BY <1>2, LocalMoves
<1>3. CASE TransportInit(e)
  <2>1. PICK r \in {"ok", "error"} : Local(e, handle_transport_init(c, r))
    BY <1>3 DEF TransportInit
  <2>2. c.istate = "TRANSPORT_INIT"
    BY <1>3 DEF TransportInit
  <2>3. ConInv(handle_transport_init(c, r)) /\ Effect(c, handle_transport_init(c, r), calls)
    BY <2>2, <1>1, TransportInitEffect
  <2>4. QED BY <2>1, <2>3, <1>2
<1>4. CASE WriteFrame(e)
  <2>1. c.posted > 0 /\ Local(e, write_frame(c))
    BY <1>4 DEF WriteFrame
  <2>2. ConInv(write_frame(c)) /\ Effect(c, write_frame(c), calls)
    BY <2>1, <1>1, WriteFrameEffect
  <2>3. QED BY <2>1, <2>2, <1>2
<1>5. CASE Expire(e)
  <2>1. PICK k \in c.live : Local(e, [c EXCEPT !.live = @ \ {k}, !.due = @ \union {k}])
    BY <1>5 DEF Expire
  <2> DEFINE d == [c EXCEPT !.live = @ \ {k}, !.due = @ \union {k}]
  <2>2. ConInv(d) /\ Effect(c, d, calls)
    BY <1>1, ExpireEffect
  <2>3. Local(e, d)
    BY <2>1
  <2> HIDE DEF d
  <2>4. QED BY <2>2, <2>3, <1>2
<1>6. CASE Timeout(e)
  <2> DEFINE f(k) == [c EXCEPT !.due = @ \ {k}]
             d(k) == CASE k = "open" -> handle_open_handshake_timeout(f(k))
                       [] k = "ping" -> handle_pong_timeout(f(k))
                       [] OTHER -> handle_close_handshake_timeout(f(k))
  <2>1. PICK k \in c.due : Local(e, d(k))
    BY <1>6 DEF Timeout
  <2>2. ConInv(d(k)) /\ Effect(c, d(k), calls)
    BY <1>1, TimeoutEffect
  <2> HIDE DEF d
  <2>3. QED BY <2>1, <2>2, <1>2
<1>7. CASE Push(e)
  <2> DEFINE f == [c EXCEPT !.call = "none"]
             d == CASE c.call = "send" -> send(f)
                    [] c.call = "ping" -> ping(f)
                    [] c.call = "pong" -> pong(f)
  <2>1. c.call # "none" /\ Local(e, d)
    BY <1>7 DEF Push
  <2>2. ConInv(d) /\ Effect(c, d, calls)
    BY <2>1, <1>1, PushEffect
  <2> HIDE DEF d
  <2>3. QED BY <2>1, <2>2, <1>2
<1>8. CASE Close(e)
  <2> DEFINE x == IF c.state = "open" THEN "none" ELSE "overtaken"
             f == [c EXCEPT !.closer = x]
  <2>1. PICK code \in Codes : Local(e, close(f, code))
    BY <1>8 DEF Close
  <2> DEFINE d == close(f, code)
  <2>2. d.closer = x
    <3>1. DOMAIN c = Fields
      BY <1>1 DEF ConInv
    <3>2. f.closer = x
      BY <3>1 DEF Fields
    <3>3. f.closer = d.closer
      BY DEF close, send_close_frame, write_push, set_timer
    <3>4. QED BY <3>2, <3>3
  <2>3. con'[e] = d
    BY <2>1 DEF Local, Step, EndsInv
  <2>4. x # "overtaken"
    <3>1. con'[e].closer # "overtaken"
      BY DEF Timely
    <3>2. QED BY <3>1, <2>2, <2>3
  <2>5. c.state = "open"
    BY <2>4
  <2> HIDE DEF x
  <2>6. ConInv(d) /\ Effect(c, d, calls)
    BY <2>5, <1>1, CloseEffect
  <2>7. Local(e, d)
    BY <2>1
  <2> HIDE DEF d
  <2>8. QED BY <2>6, <2>7, <1>2
<1>9. QED
  BY <1>3, <1>4, <1>5, <1>6, <1>7, <1>8, ReceiveMoves, TransmitMoves, ReadDoneMoves, WriteDoneMoves DEF Machine

LEMMA ApplicationMoves ==
  ASSUME EndsInv, NEW e \in Ends, Application(e)
  PROVE  Moves(e)
<1> DEFINE c == con[e]
           calls == Calls[mode][e]
<1>1. ConInv(c)
  BY DEF EndsInv
<1>2. ASSUME NEW d, Local(e, d), ConInv(d) /\ Effect(c, d, calls)
      PROVE  Moves(e)
  BY <1>2, LocalMoves
<1>3. CASE \E k \in {"send", "ping", "pong"} : Check(e, k)
  <2>1. PICK k \in {"send", "ping", "pong"} : Check(e, k)
    BY <1>3
  <2> DEFINE d == [c EXCEPT !.call = k, !.sends = @ + 1]
  <2>2. c.state = "open" /\ Local(e, d)
    BY <2>1 DEF Check
  <2>3. ConInv(d) /\ Effect(c, d, calls)
    BY <2>1, <2>2, <1>1, CheckEffect
  <2> HIDE DEF d
  <2>4. QED BY <2>2, <2>3, <1>2
<1>4. CASE CheckClose(e)
  <2> DEFINE d == [c EXCEPT !.closer = "checked"]
  <2>1. c.state = "open" /\ Local(e, d)
    BY <1>4 DEF CheckClose
  <2>2. ConInv(d) /\ Effect(c, d, calls)
    BY <2>1, <1>1, CheckCloseEffect
  <2> HIDE DEF d
  <2>3. QED BY <2>1, <2>2, <1>2
<1>5. CASE Pause(e)
  <2>1. c.state = "open" /\ Local(e, handle_pause_reading(c))
    BY <1>5 DEF Pause
  <2>2. ConInv(handle_pause_reading(c)) /\ Effect(c, handle_pause_reading(c), calls)
    BY <2>1, <1>1, PauseEffect
  <2>3. QED BY <2>1, <2>2, <1>2
<1>6. CASE Resume(e)
  <2> DEFINE d == handle_resume_reading([c EXCEPT !.sends = @ + 1])
  <2>1. c.opens = 1 /\ "resume" \in calls /\ Local(e, d)
    BY <1>6 DEF Resume, get_con_from_hdl
  <2>2. ConInv(d) /\ Effect(c, d, calls)
    BY <2>1, <1>1, ResumeEffect
  <2> HIDE DEF d
  <2>3. QED BY <2>1, <2>2, <1>2
<1>7. CASE SendHttpResponse(e)
  <2>1. PICK status \in {"ok", "uninitialized"} : Local(e, send_http_response(set_status(c, status)))
    BY <1>7 DEF SendHttpResponse
  <2> DEFINE d == send_http_response(set_status(c, status))
  <2>2. c.http = "deferred" /\ Local(e, d)
    BY <2>1, <1>7 DEF SendHttpResponse
  <2>3. ConInv(d) /\ Effect(c, d, calls)
    BY <2>2, <1>1, SendHttpResponseEffect
  <2> HIDE DEF d
  <2>4. QED BY <2>2, <2>3, <1>2
<1>8. QED BY <1>3, <1>4, <1>5, <1>6, <1>7 DEF Application

\* What reading frames may change.
LoopFields ==
  {"got", "live", "timer", "queue", "posted", "rcode", "lcode", "state", "clean", "ec", "http", "shut",
   "fails", "closes", "report", "closer"}

LEMMA AnswersSets ==
  ASSUME NEW c, NEW d, NEW m, Answers(c, d, m)
  PROVE  Sets(c, d, LoopFields)
<1>1. CASE Sets(c, d, {"live"})
  BY <1>1, SetsMore DEF LoopFields
<1>2. CASE \E x \in Items : x.k = "pong" /\ Pushed(c, d, x)
  BY <1>2, SetsMore DEF LoopFields, Pushed
<1>3. CASE /\ m.k = "close" /\ c.state \in {"open", "closing"}
           /\ \E f : /\ Sets(c, f, {"rcode"}) /\ f.rcode = m.v
               /\ \/ invalid(m.v) /\ ClosingWith(f, d, "protocol_error", TRUE)
                  \/ ~invalid(m.v) /\ c.state = "open" /\ ClosingWith(f, d, "blank", TRUE)
                  \/ /\ ~invalid(m.v) /\ c.state = "closing"
                     /\ \E g : /\ Sets(f, g, {"clean"}) /\ g.clean = TRUE
                               /\ d = g \/ Terminated(g, d, "none")
                  \/ c.state = "closing" /\ c.clean = TRUE /\ d = f
  <2>1. PICK f : /\ Sets(c, f, {"rcode"})
                 /\ \/ \E code : ClosingWith(f, d, code, TRUE)
                    \/ \E g : Sets(f, g, {"clean"}) /\ (d = g \/ Terminated(g, d, "none"))
                    \/ d = f
    BY <1>3
  <2>2. CASE \E code : ClosingWith(f, d, code, TRUE)
    <3>1. Sets(f, d, {"lcode", "state", "clean", "timer", "live", "queue", "posted", "closer"})
      BY <2>2 DEF ClosingWith
    <3>2. QED BY <3>1, <2>1 DEF Sets, LoopFields
  <2>3. CASE \E g : Sets(f, g, {"clean"}) /\ (d = g \/ Terminated(g, d, "none"))
    <3>1. PICK g : Sets(f, g, {"clean"}) /\ (d = g \/ Terminated(g, d, "none"))
      BY <2>3
    <3>2. Sets(c, g, LoopFields)
      BY <3>1, <2>1 DEF Sets, LoopFields
    <3>3. CASE d = g
      BY <3>2, <3>3
    <3>4. CASE Terminated(g, d, "none")
      <4>1. Sets(g, d, LoopFields)
        BY <3>4, SetsMore DEF Terminated, LoopFields
      <4>2. QED BY <3>2, <4>1 DEF Sets
    <3>5. QED BY <3>1, <3>3, <3>4
  <2>4. CASE d = f
    BY <2>1, <2>4, SetsMore DEF LoopFields
  <2>5. QED BY <2>1, <2>2, <2>3, <2>4
<1>4. QED BY <1>1, <1>2, <1>3 DEF Answers

LEMMA TakesSets ==
  ASSUME NEW c, NEW d, NEW m, DOMAIN c = Fields, TakesOrStops(c, d, m)
  PROVE  Sets(c, d, LoopFields)
<1>1. CASE Sets(c, d, {"got"}) \/ Sets(c, d, {})
  BY <1>1, SetsMore DEF LoopFields
<1>2. CASE Answers(c, d, m)
  BY <1>2, AnswersSets
<1>3. CASE ClosingWith(c, d, "protocol_error", FALSE)
  BY <1>3, SetsMore DEF ClosingWith, LoopFields
<1>4. CASE Terminated(c, d, "invalid_state")
  BY <1>4, SetsMore DEF Terminated, LoopFields
<1>5. CASE d = c
  BY <1>5, SetsItself
<1>6. QED BY <1>1, <1>2, <1>3, <1>4, <1>5 DEF TakesOrStops, Takes

LEMMA RunsSets ==
  ASSUME NEW k, NEW c, NEW items \in Seq(Items), Runs(k, c, items), NEW n \in 0 .. Len(items)
  PROVE  Sets(c, k[n], LoopFields)
<1> DEFINE N == Len(items)
           P == {i \in Nat : i <= N => Sets(c, k[i], LoopFields)}
<1>1. N \in Nat
  OBVIOUS
<1>2. k[0] = c /\ \A i \in 0 .. N : ConInv(k[i])
  BY DEF Runs
<1>3. \A i \in 1 .. N : TakesOrStops(k[i - 1], k[i], items[i])
  BY DEF Runs
<1>4. \A i \in 0 .. N : DOMAIN k[i] = Fields
  BY <1>2 DEF ConInv
<1> HIDE DEF N
<1>5. 0 \in P
  <2>1. DOMAIN c = Fields
    BY <1>1, <1>2, <1>4
  <2>2. QED BY <2>1, <1>2, SetsItself
<1>6. ASSUME NEW i \in Nat, i \in P PROVE i + 1 \in P
  <2>1. SUFFICES ASSUME i + 1 <= N PROVE Sets(c, k[i + 1], LoopFields)
    OBVIOUS
  <2>2. Sets(c, k[i], LoopFields)
    BY <2>1, <1>1, <1>6
  <2>3. TakesOrStops(k[i], k[i + 1], items[i + 1])
    BY <2>1, <1>1, <1>3
  <2>4. DOMAIN k[i] = Fields
    BY <2>1, <1>1, <1>4
  <2>5. Sets(k[i], k[i + 1], LoopFields)
    BY <2>3, <2>4, TakesSets
  <2>6. QED BY <2>2, <2>5 DEF Sets
<1>7. Nat \subseteq P
  <2> HIDE DEF P
  <2>1. QED BY <1>5, <1>6, InductionOver
<1>8. QED BY <1>1, <1>7 DEF N

LEMMA ReadsFramesSets ==
  ASSUME NEW c, NEW d, NEW r, NEW items \in Seq(Items), ReadsFrames(c, d, r, items), DOMAIN c = Fields
  PROVE  Sets(c, d, LoopFields \union {"reads"})
<1>1. CASE \E k : /\ Runs(k, c, items)
                  /\ \/ d = k[Len(items)]
                     \/ Sets(k[Len(items)], d, {"reads"})
  <2>1. PICK k : /\ Runs(k, c, items)
                 /\ \/ d = k[Len(items)]
                    \/ Sets(k[Len(items)], d, {"reads"})
    BY <1>1
  <2>2. Len(items) \in 0 .. Len(items)
    OBVIOUS
  <2>3. Sets(c, k[Len(items)], LoopFields)
    BY <2>1, <2>2, RunsSets
  <2>4. QED BY <2>1, <2>3 DEF Sets
<1>2. CASE d = c
  BY <1>2, SetsItself
<1>3. CASE \E ec : Terminated(c, d, ec)
  BY <1>3, SetsMore DEF Terminated, LoopFields
<1>4. QED BY <1>1, <1>2, <1>3 DEF ReadsFrames

LEMMA EffectServer ==
  ASSUME NEW c, ConInv(c), NEW d, NEW calls, Effect(c, d, calls)
  PROVE  d.is_server = c.is_server
<1> DEFINE Same(f, g) == g.is_server = f.is_server
<1>1. ASSUME NEW f, NEW g, NEW ch, Sets(f, g, ch), "is_server" \notin ch PROVE Same(f, g)
  BY <1>1 DEF Sets, Fields
<1>2. ASSUME NEW f, NEW g, NEW ec, Terminated(f, g, ec) PROVE Same(f, g)
  BY <1>1, <1>2 DEF Terminated
<1>3. ASSUME NEW f, NEW g, NEW r, NEW items \in Seq(Items), ReadsFrames(f, g, r, items), DOMAIN f = Fields
      PROVE  Same(f, g)
  <2>1. Sets(f, g, LoopFields \union {"reads"})
    BY <1>3, ReadsFramesSets
  <2>2. "is_server" \notin LoopFields \union {"reads"}
    BY DEF LoopFields
  <2> HIDE DEF Same
  <2>3. QED BY <2>1, <2>2, <1>1
<1>4. c.buf \in Seq(Items) /\ c.rest \in Seq(Items) /\ DOMAIN c = Fields
  BY DEF ConInv, Lists
<1>5. CASE Initiated(c, d)
  BY <1>1, <1>2, <1>5 DEF Initiated
<1>6. CASE ReadEnds(c, d)
  <2>1. PICK f : /\ ReadTaken(c, f)
                 /\ \/ RequestRead(f, d, c.reads[1].r, c.buf)
                    \/ ResponseRead(f, d, c.reads[1].r, c.buf)
                    \/ ReadsFrames(f, d, c.reads[1].r, c.buf)
    BY <1>6 DEF ReadEnds
  <2>2. Same(c, f) /\ DOMAIN f = Fields
    BY <1>1, <2>1 DEF ReadTaken, Sets
  <2>3. CASE RequestRead(f, d, c.reads[1].r, c.buf)
    <3>1. CASE \E g, rest : Asked(f, g, rest) /\ (d = g \/ (\E ec : Terminated(g, d, ec)) \/ Responds(g, d))
      <4>1. PICK g, rest : Asked(f, g, rest) /\ (d = g \/ (\E ec : Terminated(g, d, ec)) \/ Responds(g, d))
        BY <3>1
      <4>2. Same(f, g)
        BY <1>1, <4>1 DEF Asked
      <4>3. Same(g, d)
        BY <1>1, <1>2, <4>1 DEF Responds
      <4>4. QED BY <2>2, <4>2, <4>3
    <3>2. CASE d = f \/ (\E ec : Terminated(f, d, ec)) \/ Sets(f, d, {"reads"})
      <4>1. Same(f, d)
        BY <1>1, <1>2, <3>2
      <4>2. QED BY <4>1, <2>2
    <3>3. QED BY <2>3, <3>1, <3>2 DEF RequestRead
  <2>4. CASE ResponseRead(f, d, c.reads[1].r, c.buf)
    <3>1. CASE \E g, rest : Opened(f, g, rest) /\ ReadsFrames(g, d, "ok", Tail(Parsed(c.buf))) /\ Parsed(c.buf) # <<>>
      <4>1. PICK g, rest : Opened(f, g, rest) /\ ReadsFrames(g, d, "ok", Tail(Parsed(c.buf))) /\ Parsed(c.buf) # <<>>
        BY <3>1
      <4>2. Same(f, g) /\ DOMAIN g = Fields
        BY <1>1, <4>1 DEF Opened, Sets
      <4>3. Same(g, d)
        BY <1>3, <1>4, <4>1, <4>2, ParsedHead
      <4>4. QED BY <2>2, <4>2, <4>3
    <3>2. CASE \E g, ec : Sets(f, g, {"timer", "live", "ec"}) /\ Terminated(g, d, ec)
      <4>1. PICK g, ec : Sets(f, g, {"timer", "live", "ec"}) /\ Terminated(g, d, ec)
        BY <3>2
      <4>2. Same(f, g) /\ Same(g, d)
        BY <1>1, <1>2, <4>1
      <4>3. QED BY <4>2, <2>2
    <3>3. CASE d = f \/ Sets(f, d, {"reads"})
      <4>1. Same(f, d)
        BY <1>1, <3>3
      <4>2. QED BY <4>1, <2>2
    <3>4. QED BY <2>4, <3>1, <3>2, <3>3 DEF ResponseRead
  <2>5. CASE ReadsFrames(f, d, c.reads[1].r, c.buf)
    <3>1. Same(f, d)
      BY <1>3, <1>4, <2>2, <2>5
    <3>2. QED BY <3>1, <2>2
  <2>6. QED BY <2>1, <2>3, <2>4, <2>5
<1>7. CASE WriteEnds(c, d)
  <2>1. CASE FramesWritten(c, d)
    <3>1. PICK g : /\ Sets(c, g, {"writes", "current"})
                   /\ (\E ec : Terminated(g, d, ec)) \/ Sets(g, d, {"wflag", "posted"})
      BY <2>1 DEF FramesWritten
    <3>2. Same(c, g) /\ Same(g, d)
      BY <1>1, <1>2, <3>1
    <3>3. QED BY <3>2
  <2>2. CASE \E f, r : Sets(c, f, {"writes"}) /\ (Responded(f, d, r) \/ Requested(f, d, r))
    <3>1. PICK f, r : Sets(c, f, {"writes"}) /\ (Responded(f, d, r) \/ Requested(f, d, r))
      BY <2>2
    <3>2. Same(c, f) /\ f.rest = c.rest
      BY <1>1, <3>1 DEF Sets, Fields
    <3>3. CASE d = f \/ (\E ec : Terminated(f, d, ec)) \/ Sets(f, d, {"istate", "reads"})
      <4>1. Same(f, d)
        BY <1>1, <1>2, <3>3
      <4>2. QED BY <4>1, <3>2
    <3>4. CASE \E g, ec : Sets(f, g, {"timer", "live", "ec"}) /\ Terminated(g, d, ec)
      <4>1. PICK g, ec : Sets(f, g, {"timer", "live", "ec"}) /\ Terminated(g, d, ec)
        BY <3>4
      <4>2. Same(f, g) /\ Same(g, d)
        BY <1>1, <1>2, <4>1
      <4>3. QED BY <4>2, <3>2
    <3>5. CASE \E g : Opened(f, g, <<>>) /\ ReadsFrames(g, d, "ok", f.rest)
      <4>1. PICK g : Opened(f, g, <<>>) /\ ReadsFrames(g, d, "ok", f.rest)
        BY <3>5
      <4>2. Same(f, g) /\ DOMAIN g = Fields /\ f.rest \in Seq(Items)
        BY <1>1, <1>4, <3>2, <4>1 DEF Opened, Sets
      <4>3. Same(g, d)
        BY <1>3, <4>1, <4>2
      <4>4. QED BY <3>2, <4>2, <4>3
    <3>6. QED BY <3>1, <3>3, <3>4, <3>5 DEF Responded, Requested
  <2>3. QED BY <1>7, <2>1, <2>2 DEF WriteEnds
<1>8. CASE WritesFrames(c, d)
  BY <1>1, <1>8 DEF WritesFrames
<1>9. CASE Sets(c, d, {"live", "due"}) \/ Sets(c, d, {"call", "sends", "rflag", "closer"})
  BY <1>1, <1>9
<1>10. CASE TimesOut(c, d)
  <2>1. PICK f, ec : Sets(c, f, {"due"}) /\ Terminated(f, d, ec)
    BY <1>10 DEF TimesOut
  <2>2. Same(c, f) /\ Same(f, d)
    BY <1>1, <1>2, <2>1
  <2>3. QED BY <2>2
<1>11. CASE Resumes(c, d)
  <2>1. PICK f : Sets(c, f, {"sends", "rflag"}) /\ Sets(f, d, {"reads"})
    BY <1>11 DEF Resumes
  <2>2. Same(c, f) /\ Same(f, d)
    BY <1>1, <2>1
  <2>3. QED BY <2>2
<1>12. CASE Pushes(c, d)
  <2>1. PICK f, m : Sets(c, f, {"call", "sent", "live"}) /\ Pushed(f, d, m)
    BY <1>12 DEF Pushes
  <2>2. Same(c, f) /\ Same(f, d)
    BY <1>1, <2>1 DEF Pushed
  <2>3. QED BY <2>2
<1>13. CASE \E code : ClosingWith(c, d, code, FALSE)
  BY <1>1, <1>13 DEF ClosingWith
<1>14. CASE RespondsLater(c, d)
  <2>1. PICK g : Sets(c, g, {"status", "http"}) /\ Responds(g, d)
    BY <1>14 DEF RespondsLater
  <2>2. Same(c, g) /\ Same(g, d)
    BY <1>1, <2>1 DEF Responds
  <2>3. QED BY <2>2
<1>15. CASE (\E r : Received(c, d, r, c.buf)) \/ Transmitted(c, d, "error")
  BY <1>1, <1>15 DEF Received, Transmitted
<1> HIDE DEF Same
<1>16. Same(c, d)
  BY <1>5, <1>6, <1>7, <1>8, <1>9, <1>10, <1>11, <1>12, <1>13, <1>14, <1>15 DEF Effect, Same
<1>17. QED BY <1>16 DEF Same

LEMMA MovesKeep ==
  ASSUME EndsInv, NEW e \in Ends, Moves(e)
  PROVE  EndsInv'
<1>1. PICK d : /\ con' = [con EXCEPT ![e] = d] /\ ConInv(d) /\ mode' = mode
               /\ \/ wire' = wire /\ Effect(con[e], d, Calls[mode][e])
                  \/ \E n \in 1 .. Len(wire[e]) :
                       /\ Received(con[e], d, "ok", SubSeq(wire[e], 1, n))
                       /\ wire' = [wire EXCEPT ![e] = SubSeq(wire[e], n + 1, Len(wire[e]))]
                  \/ /\ con[e].shut = FALSE /\ Transmitted(con[e], d, "ok")
                     /\ wire' = [wire EXCEPT ![Other(e)] =
                                   IF Other(e) \in Active THEN wire[Other(e)] \o con[e].writes[1].items
                                   ELSE wire[Other(e)]]
  BY DEF Moves
<1>2. /\ mode \in {"pair", "server", "client"} /\ DOMAIN con = Ends /\ DOMAIN wire = Ends
      /\ \A f \in Ends : ConInv(con[f]) /\ con[f].is_server = (f = "server") /\ wire[f] \in Seq(Items)
  BY DEF EndsInv
<1>3. con'[e] = d /\ DOMAIN con' = Ends /\ \A f \in Ends \ {e} : con'[f] = con[f]
  BY <1>1, <1>2
<1>4. d.is_server = con[e].is_server
  <2>1. ASSUME NEW ch, Sets(con[e], d, ch), "is_server" \notin ch PROVE d.is_server = con[e].is_server
    BY <2>1 DEF Sets, Fields
  <2>2. QED BY <1>1, <1>2, <2>1, EffectServer DEF Received, Transmitted
<1>5. DOMAIN wire' = Ends /\ \A f \in Ends : wire'[f] \in Seq(Items)
  <2>1. CASE wire' = wire
    BY <2>1, <1>2
  <2>2. CASE \E n \in 1 .. Len(wire[e]) : wire' = [wire EXCEPT ![e] = SubSeq(wire[e], n + 1, Len(wire[e]))]
    <3>1. PICK n \in 1 .. Len(wire[e]) : wire' = [wire EXCEPT ![e] = SubSeq(wire[e], n + 1, Len(wire[e]))]
      BY <2>2
    <3>2. SubSeq(wire[e], n + 1, Len(wire[e])) \in Seq(Items)
      BY <3>1, <1>2, SubSeqItems
    <3>3. QED BY <3>1, <3>2, <1>2
  <2>3. CASE /\ Transmitted(con[e], d, "ok")
             /\ wire' = [wire EXCEPT ![Other(e)] =
                                   IF Other(e) \in Active THEN wire[Other(e)] \o con[e].writes[1].items
                                   ELSE wire[Other(e)]]
    <3>1. con[e].writes \in Seq(WriteOps) /\ con[e].writes # <<>> /\ Len(con[e].writes) <= 1
      BY <2>3, <1>2 DEF ConInv, Lists, Transmitted, Phased
    <3>2. con[e].writes[1].items \in Seq(Items)
      <4>1. con[e].writes[1] \in WriteOps
        BY <3>1, TailOfOne
      <4>2. QED BY <4>1 DEF WriteOps
    <3>3. Other(e) \in Ends
      BY TwoEnds DEF Ends
    <3>4. wire[Other(e)] \o con[e].writes[1].items \in Seq(Items)
      BY <3>2, <3>3, <1>2
    <3>5. QED BY <2>3, <3>3, <3>4, <1>2
  <2>4. QED BY <1>1, <2>1, <2>2, <2>3
<1>6. \A f \in Ends : ConInv(con'[f]) /\ con'[f].is_server = (f = "server")
  <2> TAKE f \in Ends
  <2>1. CASE f = e
    BY <2>1, <1>1, <1>2, <1>3, <1>4
  <2>2. CASE f # e
    BY <2>2, <1>2, <1>3
  <2>3. QED BY <2>1, <2>2
<1>7. QED BY <1>1, <1>2, <1>3, <1>5, <1>6 DEF EndsInv

LEMMA PeerItemsIn ==
  ASSUME "badext" \notin Responses
  PROVE  PeerItems \subseteq Items
<1>1. \A v \in Values : v \in Payload
  BY Strings
<1>2. /\ Item("data", "1") \in Items /\ Item("ping", "") \in Items /\ Item("pong", "") \in Items
      /\ Item("bad", "") \in Items
      /\ \A v \in {"normal", "no_status", "invalid"} : Item("close", v) \in Items
  BY <1>1 DEF Items, Item, Kinds, Values
<1>3. \A v \in Requests : Item("request", v) \in Items
  BY <1>1 DEF Items, Item, Kinds, Values
<1>4. \A v \in Responses : Item("response", v) \in Items
  BY DEF Items, Item, Kinds, Payload
<1>5. QED BY <1>2, <1>3, <1>4 DEF PeerItems

LEMMA PeerKeeps ==
  ASSUME EndsInv, "badext" \notin Responses, PeerSend \/ PeerGone
  PROVE  EndsInv' /\ UNCHANGED <<mode, con>> /\ mode # "pair"
<1>1. /\ mode \in {"pair", "server", "client"} /\ DOMAIN con = Ends /\ DOMAIN wire = Ends
      /\ \A f \in Ends : ConInv(con[f]) /\ con[f].is_server = (f = "server") /\ wire[f] \in Seq(Items)
  BY DEF EndsInv
<1>2. mode # "pair" /\ mode' = mode /\ con' = con
  BY DEF PeerSend, PeerGone
<1>3. DOMAIN wire' = Ends /\ \A f \in Ends : wire'[f] \in Seq(Items)
  <2>1. CASE PeerGone
    BY <2>1, <1>1 DEF PeerGone
  <2>2. CASE PeerSend
    <3>1. PICK m \in PeerItems : wire' = [wire EXCEPT ![mode] = Append(@, m)]
      BY <2>2 DEF PeerSend
    <3>2. m \in Items
      BY <3>1, PeerItemsIn
    <3>3. mode \in Ends
      BY <1>1, <1>2 DEF Ends
    <3>4. Append(wire[mode], m) \in Seq(Items)
      BY <3>2, <3>3, <1>1
    <3>5. QED BY <3>1, <3>3, <3>4, <1>1
  <2>3. QED BY <2>1, <2>2
<1>4. QED BY <1>1, <1>2, <1>3, Zenon DEF EndsInv

LEMMA InitEnds ==
  ASSUME Init PROVE EndsInv
<1> DEFINE c(b) == start(connection(b))
<1>1. ASSUME NEW b \in BOOLEAN PROVE ConInv(c(b)) /\ c(b).is_server = b
  <2> DEFINE d == c(b)
  <2>0. d.is_server = b /\ DOMAIN d = Fields
    BY DEF start, connection, Fields
  <2>1. /\ d.state = "connecting" /\ d.istate = "TRANSPORT_INIT"
        /\ d.http = "init" /\ d.is_http = FALSE /\ d.status = "uninitialized" /\ d.rcode = "abnormal"
        /\ d.clean = FALSE /\ d.queue = <<>> /\ d.current = <<>> /\ d.wflag = FALSE /\ d.rflag = TRUE
        /\ d.rest = <<>> /\ d.posted = 0 /\ d.reads = <<>> /\ d.writes = <<>> /\ d.buf = <<>>
        /\ d.shut = FALSE /\ d.call = "none" /\ d.sends = 0 /\ d.opens = 0 /\ d.fails = 0 /\ d.closes = 0
        /\ d.got = <<>> /\ d.sent = <<>> /\ d.tail = "frames"
    BY DEF start, connection
  <2> HIDE DEF d
  <2>2. d.rcode \in Payload
    BY <2>1, Strings DEF Values
  <2>3. d.is_server \in BOOLEAN
    BY <2>0, <1>1, Zenon
  <2>4. Flags(d)
    <3>1. /\ d.is_http \in BOOLEAN /\ d.clean \in BOOLEAN
          /\ d.wflag \in BOOLEAN /\ d.rflag \in BOOLEAN /\ d.shut \in BOOLEAN
      BY <2>1
    <3>2. /\ d.state \in States /\ d.status \in {"uninitialized", "ok", "error", "101"}
          /\ d.posted \in Nat /\ d.sends \in Nat /\ d.opens \in Nat /\ d.fails \in Nat /\ d.closes \in Nat
      BY <2>1 DEF States
    <3>3. QED BY <2>2, <2>3, <3>1, <3>2, Zenon DEF Flags
  <2>5. Lists(d)
    BY <2>1 DEF Lists
  <2>6. Handled(d)
    BY <2>1 DEF Handled, Up
  <2>7. Phased(d)
    BY <2>1 DEF Phased, Up
  <2>8. Sending(d)
    BY <2>1 DEF Sending, Up
  <2>9. QED BY <2>0, <2>4, <2>5, <2>6, <2>7, <2>8 DEF ConInv, d
<1> HIDE DEF c
<1>2. \A e \in Ends : con[e] = c(e = "server") /\ wire[e] = <<>>
  BY DEF Init, c
<1>3. DOMAIN con = Ends /\ DOMAIN wire = Ends
  BY DEF Init
<1>4. \A e \in Ends : (e = "server") \in BOOLEAN
  OBVIOUS
<1>5. \A e \in Ends : ConInv(con[e]) /\ con[e].is_server = (e = "server")
  BY <1>1, <1>2, <1>4, Zenon
<1>6. \A e \in Ends : wire[e] \in Seq(Items)
  <2>1. <<>> \in Seq(Items)
    OBVIOUS
  <2>2. QED BY <2>1, <1>2, Zenon
<1>7. mode \in {"pair", "server", "client"}
  BY ModesAssumption DEF Init
<1>8. QED BY <1>3, <1>5, <1>6, <1>7 DEF EndsInv

LEMMA NextEnds ==
  ASSUME EndsInv, "badext" \notin Responses, [Next]_vars, Timely'
  PROVE  EndsInv'
<1>1. CASE \E e \in Active : Machine(e) \/ Application(e)
  <2>1. PICK e \in Active : Machine(e) \/ Application(e)
    BY <1>1
  <2>2. e \in Ends
    BY <2>1 DEF Active, Ends, EndsInv
  <2>3. QED BY <2>1, <2>2, MachineMoves, ApplicationMoves, MovesKeep
<1>2. CASE PeerSend \/ PeerGone
  BY <1>2, PeerKeeps
<1>3. CASE UNCHANGED vars
  BY <1>3 DEF EndsInv, vars
<1>4. QED BY <1>1, <1>2, <1>3 DEF Next

LEMMA EndsAgree ==
  ASSUME EndsInv PROVE HandlersAgree /\ OneWrite /\ TerminalIsLast
<1>1. SUFFICES ASSUME NEW e \in Ends
               PROVE  LET c == con[e]
                      IN  /\ c.opens + c.fails <= 1
                          /\ c.closes = IF c.opens = 1 /\ c.state = "closed" THEN 1 ELSE 0
                          /\ c.state \in {"open", "closing"} => c.opens = 1
                          /\ Len(c.writes) <= 1
                          /\ (c.writes # <<>> /\ c.writes[1].h = "frames") <=> c.current # <<>>
                          /\ c.tail # "more"
  BY DEF HandlersAgree, OneWrite, TerminalIsLast
<1> DEFINE c == con[e]
<1>2. ConInv(c)
  BY DEF EndsInv
<1> HIDE DEF c
<1>3. /\ c.opens + c.fails <= 1
      /\ c.closes = IF c.opens = 1 /\ c.state = "closed" THEN 1 ELSE 0
      /\ c.state \in {"open", "closing"} => c.opens = 1
  BY <1>2 DEF ConInv, Handled, Flags
<1>4. Len(c.writes) <= 1 /\ c.tail # "more"
  BY <1>2 DEF ConInv, Phased, Sending
<1>5. (c.writes # <<>> /\ c.writes[1].h = "frames") <=> c.current # <<>>
  <2>1. c.writes # <<>> => 1 \in DOMAIN c.writes
    BY <1>2 DEF ConInv, Lists
  <2>2. c.writes # <<>> => c.writes[1].h \in Writing(c.istate)
    BY <2>1, <1>2 DEF ConInv, Phased
  <2>3. c.writes # <<>> => (c.writes[1].h = "frames" <=> Up(c))
    BY <2>2 DEF Writing, Up
  <2>4. /\ c.writes # <<>> /\ Up(c) => c.current # <<>>
        /\ c.writes = <<>> => c.current = <<>>
        /\ ~Up(c) => c.current = <<>>
    BY <1>2 DEF ConInv, Sending, Phased
  <2>5. QED BY <2>3, <2>4, Zenon
<1>6. QED BY <1>3, <1>4, <1>5 DEF c

(* connection (terminate, write_frame, handle_write_frame): whatever the   *)
(* peer sends, however many messages are sent and however timeouts, errors *)
(* and closing handshakes race, each end calls its open, fail and close    *)
(* handlers as its state says, has one transport write under way at most,  *)
(* and sends nothing after a terminal frame.  A response that refuses the  *)
(* extensions is left out: it breaks the first of these (NeverBoth); so is *)
(* a close that the end of the connection overtakes between its check of   *)
(* the state and its change (ClosedOnce).                                  *)
THEOREM HandlersCalledOnce ==
  ASSUME "badext" \notin Responses
  PROVE  Spec /\ []Timely => [](HandlersAgree /\ OneWrite /\ TerminalIsLast)
<1>1. Init => EndsInv
  BY InitEnds
<1>2. EndsInv /\ [Next]_vars /\ Timely' => EndsInv'
  BY NextEnds
<1>3. EndsInv => HandlersAgree /\ OneWrite /\ TerminalIsLast
  BY EndsAgree
<1>4. QED BY <1>1, <1>2, <1>3, PTL DEF Spec

-----------------------------------------------------------------------------
(* The codes.  The codes of the close frames in a list.                    *)
CloseCodes(s) == {s[i].v : i \in {j \in DOMAIN s : s[j].k = "close"}}

LEMMA CodesOfParts ==
  ASSUME NEW s \in Seq(Items), NEW a \in 1 .. Len(s) + 1, NEW b \in 0 .. Len(s)
  PROVE  SubSeq(s, a, b) \in Seq(Items) /\ CloseCodes(SubSeq(s, a, b)) \subseteq CloseCodes(s)
<1> DEFINE t == SubSeq(s, a, b)
<1>1. t \in Seq(Items) /\ \A i \in DOMAIN t : a + i - 1 \in DOMAIN s /\ t[i] = s[a + i - 1]
  OBVIOUS
<1> HIDE DEF t
<1>2. CloseCodes(t) \subseteq CloseCodes(s)
  BY <1>1 DEF CloseCodes
<1>3. QED BY <1>1, <1>2 DEF t

LEMMA CodesOfNone == CloseCodes(<<>>) = {}
BY DEF CloseCodes

LEMMA CodesOfAppend ==
  ASSUME NEW s \in Seq(Items), NEW m \in Items
  PROVE  CloseCodes(Append(s, m)) \subseteq CloseCodes(s) \union {v \in {m.v} : m.k = "close"}
<1> DEFINE t == Append(s, m)
<1>1. \A i \in DOMAIN t : (i \in DOMAIN s /\ t[i] = s[i]) \/ t[i] = m
  OBVIOUS
<1> HIDE DEF t
<1>2. QED BY <1>1 DEF CloseCodes, t

LEMMA CodesOfBoth ==
  ASSUME NEW s \in Seq(Items), NEW t \in Seq(Items)
  PROVE  CloseCodes(s \o t) \subseteq CloseCodes(s) \union CloseCodes(t)
<1> DEFINE u == s \o t
<1>1. \A i \in DOMAIN u : (i \in DOMAIN s /\ u[i] = s[i]) \/ (i - Len(s) \in DOMAIN t /\ u[i] = t[i - Len(s)])
  OBVIOUS
<1> HIDE DEF u
<1>2. QED BY <1>1 DEF CloseCodes, u

LEMMA CodesOfTail ==
  ASSUME NEW s \in Seq(Items), s # <<>>
  PROVE  Tail(s) \in Seq(Items) /\ CloseCodes(Tail(s)) \subseteq CloseCodes(s)
<1> DEFINE t == Tail(s)
<1>1. t \in Seq(Items) /\ \A i \in DOMAIN t : i + 1 \in DOMAIN s /\ t[i] = s[i + 1]
  OBVIOUS
<1> HIDE DEF t
<1>2. CloseCodes(t) \subseteq CloseCodes(s)
  BY <1>1 DEF CloseCodes
<1>3. QED BY <1>1, <1>2 DEF t

LEMMA CodesOfParsed ==
  ASSUME NEW s \in Seq(Items), Parsed(s) # <<>>
  PROVE  Tail(Parsed(s)) \in Seq(Items) /\ CloseCodes(Tail(Parsed(s))) \subseteq CloseCodes(s)
<1>1. Parsed(s) \in Seq(Items)
  BY ParsedPart
<1>2. PICK n \in Whole(s) : Parsed(s) = SubSeq(s, n, Len(s))
  BY ParsedPart
<1>3. n \in 1 .. Len(s) + 1 /\ Len(s) \in 0 .. Len(s)
  BY <1>2 DEF Whole
<1>4. CloseCodes(Parsed(s)) \subseteq CloseCodes(s)
  BY <1>2, <1>3, CodesOfParts
<1>5. QED BY <1>1, <1>4, CodesOfTail

\* The code of a close frame that end o has sent is the one it reports, and
\* none that may not be sent.
CodeOk(o, v) ==
  /\ o.lcode \in {v, "abnormal"} /\ (o.report # <<>> => o.report.l \in {v, "abnormal"})
  /\ v \notin {"abnormal", "invalid"}

Unsaid(o) == o.state \in {"connecting", "open"}
Announced(T, o) == (\A v \in T : CodeOk(o, v)) /\ (Unsaid(o) => T = {})

\* The codes on their way from o to c, where w is the wire to c.
InCodes(c) == CloseCodes(c.rest) \union CloseCodes(c.buf)
OutCodes(o) == CloseCodes(o.queue) \union (IF o.writes = <<>> THEN {} ELSE CloseCodes(o.writes[1].items))
Heard(c) == {v \in {c.rcode} : v # "abnormal"}

Reads(c, o, w) == Announced(InCodes(c) \union CloseCodes(w) \union OutCodes(o) \union Heard(c), o)

Reports(c) ==
  /\ Unsaid(c) => c.clean = FALSE
  /\ c.clean => c.rcode # "abnormal"
  /\ c.state # "closed" => c.report = <<>>
  /\ c.report # <<>> => c.report.r = c.rcode /\ (c.report.clean => c.clean)

\* w is the wire to c, wo the one to o.
Coded(c, o, w, wo) == Reports(c) /\ Reads(c, o, w) /\ Reads(o, c, wo)

CodesInv ==
  mode = "pair" => \A e \in Ends : Coded(con[e], con[Other(e)], wire[e], wire[Other(e)])

\* What leaves the codes and the state of c alone and adds no code to what
\* goes out or, but for those of T, to what comes in.
LEMMA CodedStays ==
  ASSUME NEW c, NEW d, NEW o, NEW w, NEW v, NEW wo, NEW vo, NEW T, Coded(c, o, w, wo),
         d.state = c.state, d.lcode = c.lcode, d.rcode = c.rcode, d.clean = c.clean, d.report = c.report,
         InCodes(d) \union CloseCodes(v) \subseteq InCodes(c) \union CloseCodes(w) \union T, Announced(T, o),
         OutCodes(d) \union CloseCodes(vo) \subseteq OutCodes(c) \union CloseCodes(wo)
  PROVE  Coded(d, o, v, vo)
<1>1. Reports(d)
  BY DEF Coded, Reports, Unsaid
<1>2. Heard(d) = Heard(c) /\ (Unsaid(d) <=> Unsaid(c)) /\ \A x : CodeOk(d, x) <=> CodeOk(c, x)
  BY DEF Heard, Unsaid, CodeOk
<1>3. Reads(d, o, v)
  BY <1>2 DEF Coded, Reads, Announced
<1>4. Reads(o, d, vo)
  BY <1>2 DEF Coded, Reads, Announced
<1>5. QED BY <1>1, <1>3, <1>4 DEF Coded

LEMMA CodesUntouched ==
  ASSUME NEW c, NEW d, NEW ch, Sets(c, d, ch), ch \intersect {"rest", "buf", "queue", "writes"} = {}
  PROVE  InCodes(d) = InCodes(c) /\ OutCodes(d) = OutCodes(c)
<1>1. d.rest = c.rest /\ d.buf = c.buf /\ d.queue = c.queue /\ d.writes = c.writes
  BY DEF Sets, Fields
<1>2. QED BY <1>1 DEF InCodes, OutCodes

LEMMA QuietCoded ==
  ASSUME NEW c, NEW d, NEW o, NEW w, NEW wo, NEW ch, Coded(c, o, w, wo), Sets(c, d, ch),
         ch \intersect {"rest", "buf", "queue", "writes", "state", "lcode", "rcode", "clean", "report"} = {}
  PROVE  Coded(d, o, w, wo)
<1>1. InCodes(d) = InCodes(c) /\ OutCodes(d) = OutCodes(c)
  BY CodesUntouched
<1>2. d.state = c.state /\ d.lcode = c.lcode /\ d.rcode = c.rcode /\ d.clean = c.clean /\ d.report = c.report
  BY DEF Sets, Fields
<1>3. Announced({}, o)
  BY DEF Announced
<1>4. QED BY <1>1, <1>2, <1>3, CodedStays

LEMMA TerminatedCoded ==
  ASSUME NEW c, c.state \in States, NEW d, NEW o, NEW w, NEW wo, NEW ec, Coded(c, o, w, wo),
         Terminated(c, d, ec)
  PROVE  Coded(d, o, w, wo)
<1>1. /\ Sets(c, d, {"timer", "live", "ec", "lcode", "http", "state", "shut", "fails", "closes", "report"})
      /\ d.state = "closed" /\ d.lcode \in {c.lcode, "abnormal"}
  BY DEF Terminated
<1>2. d.rcode = c.rcode /\ d.clean = c.clean /\ InCodes(d) = InCodes(c) /\ OutCodes(d) = OutCodes(c)
  <2>1. d.rcode = c.rcode /\ d.clean = c.clean
    BY <1>1 DEF Sets, Fields
  <2>2. QED BY <1>1, <2>1, CodesUntouched
<1>3. c.state \in {"connecting", "open", "closing", "closed"}
  BY DEF States
<1>4. \/ d.report = c.report
      \/ d.report = [l |-> d.lcode, r |-> c.rcode, clean |-> c.clean]
  BY <1>3 DEF Terminated
<1>5. Reports(d)
  BY <1>1, <1>2, <1>4 DEF Coded, Reports, Unsaid
<1>6. Reads(d, o, w)
  BY <1>2 DEF Coded, Reads, Heard
<1>7. Reads(o, d, wo)
  <2>1. ASSUME NEW v, CodeOk(c, v) PROVE CodeOk(d, v)
    BY <2>1, <1>1, <1>4 DEF CodeOk
  <2>2. ~Unsaid(d)
    BY <1>1 DEF Unsaid
  <2>3. QED BY <2>1, <2>2, <1>2 DEF Coded, Reads, Announced
<1>8. QED BY <1>5, <1>6, <1>7 DEF Coded

LEMMA ClosingCoded ==
  ASSUME NEW c, ConInv(c), NEW d, NEW o, NEW w, NEW wo, NEW code, NEW ack \in BOOLEAN, Coded(c, o, w, wo),
         c.state = "open", ClosingWith(c, d, code, ack), code \notin {"abnormal", "invalid"},
         ack => c.rcode # "abnormal"
  PROVE  Coded(d, o, w, wo)
<1>1. /\ Sets(c, d, {"lcode", "state", "clean", "timer", "live", "queue", "posted", "closer"})
      /\ d.state = "closing" /\ (d.clean <=> c.clean \/ ack)
  BY DEF ClosingWith
<1>2. /\ d.rcode = c.rcode /\ d.report = c.report /\ d.rest = c.rest /\ d.buf = c.buf /\ d.writes = c.writes
  BY <1>1 DEF Sets, Fields
<1>3. Unsaid(c) /\ c.clean = FALSE /\ c.report = <<>>
  BY DEF Unsaid, Coded, Reports
<1>4. Reports(d)
  BY <1>1, <1>2, <1>3 DEF Reports, Unsaid
<1>5. Reads(d, o, w)
  BY <1>2 DEF Coded, Reads, Heard, InCodes
<1>6. c.rcode # "abnormal" => CodeOk(o, c.rcode)
  BY DEF Coded, Reads, Announced, Heard
<1>7. d.lcode \notin {"abnormal", "invalid"}
  <2>1. d.lcode \in {x \in {code} : x # "blank"} \union {"no_status", "normal"} \union {x \in {c.rcode} : ack}
    BY DEF ClosingWith
  <2>2. QED BY <2>1, <1>6 DEF CodeOk
<1>8. CodeOk(d, d.lcode)
  BY <1>2, <1>3, <1>7 DEF CodeOk
<1>9. OutCodes(d) \subseteq OutCodes(c) \union {d.lcode}
  <2>1. PICK m \in Items : m.v = d.lcode /\ d.queue = Append(c.queue, m)
    BY DEF ClosingWith
  <2>2. c.queue \in Seq(Items)
    BY DEF ConInv, Lists
  <2>3. CloseCodes(d.queue) \subseteq CloseCodes(c.queue) \union {d.lcode}
    BY <2>1, <2>2, CodesOfAppend
  <2>4. QED BY <2>3, <1>2 DEF OutCodes
<1>10. Reads(o, d, wo)
  <2>1. InCodes(o) \union CloseCodes(wo) \union OutCodes(c) \union Heard(o) = {}
    BY <1>3 DEF Coded, Reads, Announced
  <2>2. ~Unsaid(d)
    BY <1>1 DEF Unsaid
  <2>3. QED BY <2>1, <2>2, <1>8, <1>9 DEF Reads, Announced
<1>11. QED BY <1>4, <1>5, <1>10 DEF Coded

(* A close frame has come: its code is noted, perhaps as a clean close.    *)
LEMMA HeardCoded ==
  ASSUME NEW c, ConInv(c), NEW d, NEW o, NEW w, NEW wo, NEW T, Coded(c, o, w, wo), Announced(T, o),
         c.state \in {"open", "closing"}, Sets(c, d, {"rcode", "clean"}), d.rcode \in T,
         d.clean = c.clean \/ (d.clean = TRUE /\ c.state = "closing")
  PROVE  Coded(d, o, w, wo) /\ d.rcode \notin {"abnormal", "invalid"}
<1>1. /\ d.state = c.state /\ d.report = c.report /\ d.lcode = c.lcode
      /\ InCodes(d) = InCodes(c) /\ OutCodes(d) = OutCodes(c)
  <2>1. d.state = c.state /\ d.report = c.report /\ d.lcode = c.lcode
    BY DEF Sets, Fields
  <2>2. QED BY <2>1, CodesUntouched
<1>2. CodeOk(o, d.rcode) /\ d.rcode \notin {"abnormal", "invalid"} /\ ~Unsaid(o)
  BY DEF Announced, CodeOk
<1>3. Reports(d)
  BY <1>1, <1>2 DEF Coded, Reports, Unsaid
<1>4. Reads(d, o, w)
  BY <1>1, <1>2 DEF Coded, Reads, Announced, Heard
<1>5. Reads(o, d, wo)
  <2>1. (Unsaid(d) <=> Unsaid(c)) /\ \A x : CodeOk(d, x) <=> CodeOk(c, x)
    BY <1>1 DEF Unsaid, CodeOk
  <2>2. QED BY <2>1, <1>1 DEF Coded, Reads, Announced
<1>6. QED BY <1>2, <1>3, <1>4, <1>5 DEF Coded

LEMMA OpenedCoded ==
  ASSUME NEW c, NEW d, NEW o, NEW w, NEW wo, NEW rest, Coded(c, o, w, wo), Opened(c, d, rest), rest \in {<<>>, c.rest}
  PROVE  Coded(d, o, w, wo)
<1>1. /\ d.lcode = c.lcode /\ d.rcode = c.rcode /\ d.clean = c.clean /\ d.report = c.report
      /\ d.buf = c.buf /\ d.queue = c.queue /\ d.writes = c.writes
      /\ d.rest = rest /\ d.state = "open" /\ c.state = "connecting"
  BY DEF Opened, Sets, Fields
<1>2. InCodes(d) \subseteq InCodes(c) /\ OutCodes(d) = OutCodes(c)
  BY <1>1, CodesOfNone DEF InCodes, OutCodes
<1>3. Reports(d)
  BY <1>1 DEF Coded, Reports, Unsaid
<1>4. Reads(d, o, w)
  BY <1>1, <1>2 DEF Coded, Reads, Announced, Heard
<1>5. Reads(o, d, wo)
  <2>1. Unsaid(d) /\ Unsaid(c) /\ \A x : CodeOk(d, x) <=> CodeOk(c, x)
    BY <1>1 DEF Unsaid, CodeOk
  <2>2. QED BY <2>1, <1>2 DEF Coded, Reads, Announced
<1>6. QED BY <1>3, <1>4, <1>5 DEF Coded

LEMMA PushedCoded ==
  ASSUME NEW c, c.queue \in Seq(Items), NEW d, NEW o, NEW w, NEW wo, NEW m \in Items, m.k # "close",
         Coded(c, o, w, wo), Pushed(c, d, m)
  PROVE  Coded(d, o, w, wo)
<1>1. /\ d.state = c.state /\ d.lcode = c.lcode /\ d.rcode = c.rcode /\ d.clean = c.clean
      /\ d.report = c.report /\ d.rest = c.rest /\ d.buf = c.buf /\ d.writes = c.writes
  BY DEF Pushed, Sets, Fields
<1>2. d.queue = Append(c.queue, m)
  BY DEF Pushed
<1>3. CloseCodes(d.queue) \subseteq CloseCodes(c.queue)
  BY <1>2, CodesOfAppend
<1>4. OutCodes(d) \subseteq OutCodes(c) /\ InCodes(d) = InCodes(c)
  BY <1>1, <1>3 DEF OutCodes, InCodes
<1>5. Announced({}, o)
  BY DEF Announced
<1>6. QED BY <1>1, <1>4, <1>5, CodedStays

LEMMA AnswersCoded ==
  ASSUME NEW c, ConInv(c), NEW d, NEW o, NEW w, NEW wo, NEW m \in Items, NEW T, Coded(c, o, w, wo),
         Announced(T, o), m.k = "close" => m.v \in T, Answers(c, d, m)
  PROVE  Coded(d, o, w, wo)
<1>1. CASE Sets(c, d, {"live"})
  BY <1>1, QuietCoded
<1>2. CASE \E x \in Items : x.k = "pong" /\ Pushed(c, d, x)
  <2>1. c.queue \in Seq(Items)
    BY DEF ConInv, Lists
  <2>2. QED BY <1>2, <2>1, PushedCoded
<1>3. CASE /\ m.k = "close" /\ c.state \in {"open", "closing"}
           /\ \E f : /\ Sets(c, f, {"rcode"}) /\ f.rcode = m.v
               /\ \/ invalid(m.v) /\ ClosingWith(f, d, "protocol_error", TRUE)
                  \/ ~invalid(m.v) /\ c.state = "open" /\ ClosingWith(f, d, "blank", TRUE)
                  \/ /\ ~invalid(m.v) /\ c.state = "closing"
                     /\ \E g : /\ Sets(f, g, {"clean"}) /\ g.clean = TRUE
                               /\ d = g \/ Terminated(g, d, "none")
                  \/ c.state = "closing" /\ c.clean = TRUE /\ d = f
  <2>1. PICK f : /\ Sets(c, f, {"rcode"}) /\ f.rcode = m.v
                 /\ \/ invalid(m.v)
                    \/ c.state = "open" /\ ClosingWith(f, d, "blank", TRUE)
                    \/ /\ c.state = "closing"
                       /\ \E g : /\ Sets(f, g, {"clean"}) /\ g.clean = TRUE
                                 /\ d = g \/ Terminated(g, d, "none")
                    \/ d = f
    BY <1>3
  <2>2. Sets(c, f, {"rcode", "clean"}) /\ f.clean = c.clean /\ f.state = c.state
    BY <2>1 DEF Sets, Fields
  <2>3. Coded(f, o, w, wo) /\ f.rcode \notin {"abnormal", "invalid"}
    BY <1>3, <2>1, <2>2, HeardCoded
  <2>4. ~invalid(m.v)
    BY <2>1, <2>3 DEF invalid
  <2>5. m.v \in Payload
    BY DEF Items
  <2>6. ConInv(f)
    BY <2>1, <2>5, RcodeKeeps
  <2>7. CASE c.state = "open" /\ ClosingWith(f, d, "blank", TRUE)
    <3>1. TRUE \in BOOLEAN
      OBVIOUS
    <3>2. QED BY <2>2, <2>3, <2>6, <2>7, <3>1, ClosingCoded
  <2>8. CASE /\ c.state = "closing"
             /\ \E g : /\ Sets(f, g, {"clean"}) /\ g.clean = TRUE
                       /\ d = g \/ Terminated(g, d, "none")
    <3>1. PICK g : /\ Sets(f, g, {"clean"}) /\ g.clean = TRUE
                   /\ d = g \/ Terminated(g, d, "none")
      BY <2>8
    <3>2. Sets(c, g, {"rcode", "clean"}) /\ g.rcode = m.v
      BY <2>1, <3>1 DEF Sets, Fields
    <3>3. Coded(g, o, w, wo)
      BY <1>3, <2>8, <3>1, <3>2, HeardCoded
    <3>4. g.state = "closing" /\ "closing" \in States
      BY <2>2, <2>8, <3>1 DEF Sets, Fields, States
    <3>5. QED BY <3>1, <3>3, <3>4, TerminatedCoded
  <2>9. CASE d = f
    BY <2>3, <2>9
  <2>10. QED BY <2>1, <2>4, <2>7, <2>8, <2>9
<1>4. QED BY <1>1, <1>2, <1>3 DEF Answers

LEMMA TakesCoded ==
  ASSUME NEW c, ConInv(c), NEW d, NEW o, NEW w, NEW wo, NEW m \in Items, NEW T, Coded(c, o, w, wo),
         Announced(T, o), m.k = "close" => m.v \in T, TakesOrStops(c, d, m)
  PROVE  Coded(d, o, w, wo)
<1>1. CASE Sets(c, d, {"got"}) \/ Sets(c, d, {})
  BY <1>1, QuietCoded
<1>2. CASE Answers(c, d, m)
  BY <1>2, AnswersCoded
<1>3. CASE c.state = "open" /\ ClosingWith(c, d, "protocol_error", FALSE)
  <2>1. FALSE \in BOOLEAN
    OBVIOUS
  <2>2. QED BY <1>3, <2>1, ClosingCoded
<1>4. CASE Terminated(c, d, "invalid_state")
  <2>1. c.state \in States
    BY DEF ConInv, Flags
  <2>2. QED BY <1>4, <2>1, TerminatedCoded
<1>5. CASE d = c
  BY <1>5
<1>6. QED BY <1>1, <1>2, <1>3, <1>4, <1>5 DEF TakesOrStops, Takes

LEMMA ReadsFramesCoded ==
  ASSUME NEW c, c.state \in States, NEW d, NEW o, NEW w, NEW wo, NEW r, NEW items \in Seq(Items), Coded(c, o, w, wo),
         Announced(CloseCodes(items), o), ReadsFrames(c, d, r, items)
  PROVE  Coded(d, o, w, wo)
<1>1. CASE \E k : /\ Runs(k, c, items)
                  /\ \/ d = k[Len(items)]
                     \/ Sets(k[Len(items)], d, {"reads"})
  <2>1. PICK k : /\ Runs(k, c, items)
                 /\ \/ d = k[Len(items)]
                    \/ Sets(k[Len(items)], d, {"reads"})
    BY <1>1
  <2> DEFINE N == Len(items)
             P == {i \in Nat : i <= N => Coded(k[i], o, w, wo)}
  <2>2. N \in Nat /\ \A i \in 1 .. N : items[i] \in Items /\ (items[i].k = "close" => items[i].v \in CloseCodes(items))
    BY DEF CloseCodes
  <2>3. k[0] = c /\ \A i \in 0 .. N : ConInv(k[i])
    BY <2>1 DEF Runs
  <2>4. \A i \in 1 .. N : TakesOrStops(k[i - 1], k[i], items[i])
    BY <2>1 DEF Runs
  <2> HIDE DEF N
  <2>5. 0 \in P
    BY <2>3
  <2>6. ASSUME NEW i \in Nat, i \in P PROVE i + 1 \in P
    <3>1. SUFFICES ASSUME i + 1 <= N PROVE Coded(k[i + 1], o, w, wo)
      OBVIOUS
    <3>2. Coded(k[i], o, w, wo) /\ ConInv(k[i])
      BY <3>1, <2>2, <2>3, <2>6
    <3>3. TakesOrStops(k[i], k[i + 1], items[i + 1])
      BY <3>1, <2>2, <2>4
    <3>4. items[i + 1] \in Items /\ (items[i + 1].k = "close" => items[i + 1].v \in CloseCodes(items))
      BY <3>1, <2>2
    <3>5. QED BY <3>2, <3>3, <3>4, TakesCoded
  <2>7. Nat \subseteq P
    <3> HIDE DEF P
    <3>1. QED BY <2>5, <2>6, InductionOver
  <2>8. Coded(k[N], o, w, wo)
    BY <2>2, <2>7
  <2>9. QED BY <2>1, <2>8, QuietCoded DEF N
<1>2. CASE d = c
  BY <1>2
<1>3. CASE \E ec : Terminated(c, d, ec)
  BY <1>3, TerminatedCoded
<1>4. QED BY <1>1, <1>2, <1>3 DEF ReadsFrames

LEMMA OneWriteCoded ==
  ASSUME NEW c, NEW d, NEW o, NEW w, NEW wo, NEW ch, Coded(c, o, w, wo), Sets(c, d, ch),
         ch \intersect {"rest", "buf", "queue", "state", "lcode", "rcode", "clean", "report"} = {},
         NEW h, NEW x, x.k # "close", d.writes = WriteOp(h, x)
  PROVE  Coded(d, o, w, wo)
<1>1. /\ d.state = c.state /\ d.lcode = c.lcode /\ d.rcode = c.rcode /\ d.clean = c.clean
      /\ d.report = c.report /\ d.rest = c.rest /\ d.buf = c.buf /\ d.queue = c.queue
  BY DEF Sets, Fields
<1>2. d.writes[1].items = <<x>>
  BY DEF WriteOp
<1>3. CloseCodes(<<x>>) = {}
  BY DEF CloseCodes
<1>4. OutCodes(d) \subseteq OutCodes(c) /\ InCodes(d) = InCodes(c)
  BY <1>1, <1>2, <1>3 DEF OutCodes, InCodes
<1>5. Announced({}, o)
  BY DEF Announced
<1>6. QED BY <1>1, <1>4, <1>5, CodedStays

LEMMA NotClose ==
  ASSUME NEW k, k # "close", NEW v PROVE Item(k, v).k # "close"
BY DEF Item

LEMMA RespondsCoded ==
  ASSUME NEW c, NEW d, NEW o, NEW w, NEW wo, Coded(c, o, w, wo), Responds(c, d)
  PROVE  Coded(d, o, w, wo)
<1>1. PICK s : d.writes = WriteOp("response", Item("response", s))
  BY DEF Responds
<1>2. Sets(c, d, {"status", "ec", "writes"})
  BY DEF Responds
<1>3. Item("response", s).k # "close"
  BY NotClose
<1>4. QED BY <1>1, <1>2, <1>3, OneWriteCoded

LEMMA AskedCoded ==
  ASSUME NEW c, NEW g, NEW o, NEW w, NEW wo, NEW rest, NEW T, Coded(c, o, w, wo), Asked(c, g, rest),
         Announced(T, o), CloseCodes(rest) \subseteq CloseCodes(c.rest) \union T
  PROVE  Coded(g, o, w, wo)
<1>1. /\ g.state = c.state /\ g.lcode = c.lcode /\ g.rcode = c.rcode /\ g.clean = c.clean
      /\ g.report = c.report /\ g.rest = rest /\ g.buf = c.buf /\ g.queue = c.queue /\ g.writes = c.writes
  BY DEF Asked, Sets, Fields
<1>2. OutCodes(g) = OutCodes(c) /\ InCodes(g) \subseteq InCodes(c) \union T
  BY <1>1 DEF OutCodes, InCodes
<1>3. QED BY <1>1, <1>2, CodedStays

(* What has been read or written is in a list no more.                     *)
LEMMA LessCoded ==
  ASSUME NEW c, NEW d, NEW o, NEW w, NEW wo, NEW ch, Coded(c, o, w, wo), Sets(c, d, ch),
         ch \intersect {"rest", "state", "lcode", "rcode", "clean", "report"} = {},
         CloseCodes(d.buf) \subseteq CloseCodes(c.buf), OutCodes(d) \subseteq OutCodes(c)
  PROVE  Coded(d, o, w, wo)
<1>1. /\ d.state = c.state /\ d.lcode = c.lcode /\ d.rcode = c.rcode /\ d.clean = c.clean
      /\ d.report = c.report /\ d.rest = c.rest
  BY DEF Sets, Fields
<1>2. InCodes(d) \subseteq InCodes(c)
  BY <1>1 DEF InCodes
<1>3. Announced({}, o)
  BY DEF Announced
<1>4. QED BY <1>1, <1>2, <1>3, CodedStays

LEMMA ReadEndsCoded ==
  ASSUME NEW c, ConInv(c), NEW d, NEW o, NEW w, NEW wo, Coded(c, o, w, wo), ReadEnds(c, d)
  PROVE  Coded(d, o, w, wo)
<1>1. PICK f : /\ ReadTaken(c, f)
               /\ \/ RequestRead(f, d, c.reads[1].r, c.buf)
                  \/ ResponseRead(f, d, c.reads[1].r, c.buf)
                  \/ ReadsFrames(f, d, c.reads[1].r, c.buf)
  BY DEF ReadEnds
<1> DEFINE T == CloseCodes(c.buf)
<1>2. c.buf \in Seq(Items) /\ c.state \in States
  BY DEF ConInv, Lists, Flags
<1>3. Sets(c, f, {"reads", "buf"}) /\ f.buf \in {<<>>, c.buf}
  BY <1>1 DEF ReadTaken
<1>4. f.state = c.state /\ f.rest = c.rest /\ f.queue = c.queue /\ f.writes = c.writes
  BY <1>3 DEF Sets, Fields
<1>5. Coded(f, o, w, wo)
  <2>1. CloseCodes(f.buf) \subseteq CloseCodes(c.buf) /\ OutCodes(f) \subseteq OutCodes(c)
    BY <1>3, <1>4, CodesOfNone DEF OutCodes
  <2>2. QED BY <2>1, <1>3, LessCoded
<1>6. Announced(T, o)
  BY DEF Coded, Reads, Announced, InCodes
<1>7. Parsed(c.buf) # <<>> => Tail(Parsed(c.buf)) \in Seq(Items) /\ CloseCodes(Tail(Parsed(c.buf))) \subseteq T
  BY <1>2, CodesOfParsed
<1> HIDE DEF T
<1>8. ASSUME NEW g, NEW ec, g.state \in States, Coded(g, o, w, wo), Terminated(g, d, ec)
      PROVE  Coded(d, o, w, wo)
  BY <1>8, TerminatedCoded
<1>9. CASE RequestRead(f, d, c.reads[1].r, c.buf)
  <2>1. CASE /\ Parsed(c.buf) # <<>>
             /\ \E g : \E rest \in {f.rest, Tail(Parsed(c.buf))} :
                   Asked(f, g, rest) /\ (d = g \/ (\E ec : Terminated(g, d, ec)) \/ Responds(g, d))
    <3>1. PICK g, rest :
                   /\ rest \in {f.rest, Tail(Parsed(c.buf))}
                   /\ Asked(f, g, rest) /\ (d = g \/ (\E ec : Terminated(g, d, ec)) \/ Responds(g, d))
      BY <2>1
    <3>2. CloseCodes(rest) \subseteq CloseCodes(f.rest) \union T
      BY <2>1, <3>1, <1>7
    <3>3. Coded(g, o, w, wo)
      BY <3>1, <3>2, <1>5, <1>6, AskedCoded
    <3>4. g.state \in States
      BY <3>1, <1>2, <1>4 DEF Asked, Sets, Fields
    <3>5. QED BY <3>1, <3>3, <3>4, <1>8, RespondsCoded
  <2>2. CASE d = f \/ (\E ec : Terminated(f, d, ec)) \/ Sets(f, d, {"reads"})
    BY <2>2, <1>2, <1>4, <1>5, <1>8, QuietCoded
  <2>3. QED BY <1>9, <2>1, <2>2 DEF RequestRead
<1>10. CASE ResponseRead(f, d, c.reads[1].r, c.buf)
  <2>1. CASE \E g : Parsed(c.buf) # <<>> /\ Opened(f, g, f.rest) /\ ReadsFrames(g, d, "ok", Tail(Parsed(c.buf)))
    <3>1. PICK g : Parsed(c.buf) # <<>> /\ Opened(f, g, f.rest) /\ ReadsFrames(g, d, "ok", Tail(Parsed(c.buf)))
      BY <2>1
    <3>2. Coded(g, o, w, wo)
      BY <3>1, <1>5, OpenedCoded
    <3>3. g.state \in States
      BY <3>1 DEF Opened, States
    <3>4. Announced(CloseCodes(Tail(Parsed(c.buf))), o)
      BY <3>1, <1>6, <1>7 DEF Announced
    <3>5. QED BY <3>1, <3>2, <3>3, <3>4, <1>7, ReadsFramesCoded
  <2>2. CASE \E g, ec : Sets(f, g, {"timer", "live", "ec"}) /\ Terminated(g, d, ec)
    <3>1. PICK g, ec : Sets(f, g, {"timer", "live", "ec"}) /\ Terminated(g, d, ec)
      BY <2>2
    <3>2. Coded(g, o, w, wo)
      BY <3>1, <1>5, QuietCoded
    <3>3. g.state \in States
      BY <3>1, <1>2, <1>4 DEF Sets, Fields
    <3>4. QED BY <3>1, <3>2, <3>3, <1>8
  <2>3. CASE d = f \/ Sets(f, d, {"reads"})
    BY <2>3, <1>5, QuietCoded
  <2>4. QED BY <1>10, <2>1, <2>2, <2>3 DEF ResponseRead
<1>11. CASE ReadsFrames(f, d, c.reads[1].r, c.buf)
  BY <1>11, <1>2, <1>4, <1>5, <1>6, ReadsFramesCoded DEF T
<1>12. QED BY <1>1, <1>9, <1>10, <1>11

LEMMA WriteEndsCoded ==
  ASSUME NEW c, ConInv(c), NEW d, NEW o, NEW w, NEW wo, Coded(c, o, w, wo), WriteEnds(c, d)
  PROVE  Coded(d, o, w, wo)
<1>1. c.rest \in Seq(Items) /\ c.state \in States
  BY DEF ConInv, Lists, Flags
<1>2. ASSUME NEW f, NEW ch, Sets(c, f, ch), ch \subseteq {"writes", "current"}, f.writes = <<>>
      PROVE  Coded(f, o, w, wo) /\ f.state = c.state /\ f.rest = c.rest
  <2>1. f.queue = c.queue /\ f.buf = c.buf /\ f.state = c.state /\ f.rest = c.rest
    BY <1>2 DEF Sets, Fields
  <2>2. CloseCodes(f.buf) \subseteq CloseCodes(c.buf) /\ OutCodes(f) \subseteq OutCodes(c)
    BY <2>1, <1>2 DEF OutCodes
  <2>3. QED BY <2>1, <2>2, <1>2, LessCoded
<1>3. ASSUME NEW g, NEW ec, g.state \in States, Coded(g, o, w, wo), Terminated(g, d, ec)
      PROVE  Coded(d, o, w, wo)
  BY <1>3, TerminatedCoded
<1>4. CASE FramesWritten(c, d)
  <2>1. PICK g : /\ Sets(c, g, {"writes", "current"}) /\ g.writes = <<>>
                 /\ (\E ec : Terminated(g, d, ec)) \/ Sets(g, d, {"wflag", "posted"})
    BY <1>4 DEF FramesWritten
  <2>2. Coded(g, o, w, wo) /\ g.state \in States
    BY <2>1, <1>1, <1>2
  <2>3. QED BY <2>1, <2>2, <1>3, QuietCoded
<1>5. CASE \E f : /\ Sets(c, f, {"writes"}) /\ f.writes = <<>>
                  /\ Responded(f, d, c.writes[1].r) \/ Requested(f, d, c.writes[1].r)
  <2>1. PICK f : /\ Sets(c, f, {"writes"}) /\ f.writes = <<>>
                 /\ Responded(f, d, c.writes[1].r) \/ Requested(f, d, c.writes[1].r)
    BY <1>5
  <2>2. Coded(f, o, w, wo) /\ f.state \in States /\ f.rest = c.rest
    BY <2>1, <1>1, <1>2
  <2>3. CASE d = f \/ (\E ec : Terminated(f, d, ec)) \/ Sets(f, d, {"istate", "reads"})
    BY <2>2, <2>3, <1>3, QuietCoded
  <2>4. CASE \E g, ec : Sets(f, g, {"timer", "live", "ec"}) /\ Terminated(g, d, ec)
    <3>1. PICK g, ec : Sets(f, g, {"timer", "live", "ec"}) /\ Terminated(g, d, ec)
      BY <2>4
    <3>2. Coded(g, o, w, wo)
      BY <3>1, <2>2, QuietCoded
    <3>3. g.state \in States
      BY <3>1, <2>2 DEF Sets, Fields
    <3>4. QED BY <3>1, <3>2, <3>3, <1>3
  <2>5. CASE \E g : Opened(f, g, <<>>) /\ ReadsFrames(g, d, "ok", f.rest)
    <3>1. PICK g : Opened(f, g, <<>>) /\ ReadsFrames(g, d, "ok", f.rest)
      BY <2>5
    <3>2. Coded(g, o, w, wo)
      BY <3>1, <2>2, OpenedCoded
    <3>3. g.state \in States
      BY <3>1 DEF Opened, States
    <3>4. Announced(CloseCodes(f.rest), o) /\ f.rest \in Seq(Items)
      BY <1>1, <2>2 DEF Coded, Reads, Announced, InCodes
    <3>5. QED BY <3>1, <3>2, <3>3, <3>4, ReadsFramesCoded
  <2>6. QED BY <2>1, <2>3, <2>4, <2>5 DEF Responded, Requested
<1>6. QED BY <1>4, <1>5 DEF WriteEnds

LEMMA WritesFramesCoded ==
  ASSUME NEW c, ConInv(c), NEW d, NEW o, NEW w, NEW wo, Coded(c, o, w, wo), WritesFrames(c, d)
  PROVE  Coded(d, o, w, wo)
<1>1. CASE Sets(c, d, {"posted"})
  BY <1>1, QuietCoded
<1>2. CASE /\ c.writes = <<>> /\ Sets(c, d, {"posted", "queue", "current", "wflag", "writes"})
           /\ \E n \in 1 .. Len(c.queue) :
                /\ d.queue = SubSeq(c.queue, n + 1, Len(c.queue))
                /\ d.current = SubSeq(c.queue, 1, n)
                /\ d.writes = <<[h |-> "frames", items |-> SubSeq(c.queue, 1, n), r |-> "pending"]>>
  <2>1. PICK n \in 1 .. Len(c.queue) :
                /\ d.queue = SubSeq(c.queue, n + 1, Len(c.queue))
                /\ d.writes = <<[h |-> "frames", items |-> SubSeq(c.queue, 1, n), r |-> "pending"]>>
    BY <1>2
  <2>2. c.queue \in Seq(Items)
    BY DEF ConInv, Lists
  <2>3. d.writes # <<>> /\ d.writes[1].items = SubSeq(c.queue, 1, n)
    BY <2>1
  <2>4. CloseCodes(SubSeq(c.queue, 1, n)) \subseteq CloseCodes(c.queue)
    <3>1. 1 \in 1 .. Len(c.queue) + 1 /\ n \in 0 .. Len(c.queue)
      BY <2>1, <2>2
    <3>2. QED BY <3>1, <2>2, CodesOfParts
  <2>5. CloseCodes(d.queue) \subseteq CloseCodes(c.queue)
    <3>1. n + 1 \in 1 .. Len(c.queue) + 1 /\ Len(c.queue) \in 0 .. Len(c.queue)
      BY <2>1, <2>2
    <3>2. QED BY <3>1, <2>1, <2>2, CodesOfParts
  <2>6. OutCodes(d) \subseteq OutCodes(c)
    BY <2>3, <2>4, <2>5 DEF OutCodes
  <2>7. d.buf = c.buf
    BY <1>2 DEF Sets, Fields
  <2>8. QED BY <2>6, <2>7, <1>2, LessCoded
<1>3. QED BY <1>1, <1>2 DEF WritesFrames

LEMMA TransmittedItems ==
  ASSUME NEW c, NEW d, NEW r, Transmitted(c, d, r)
  PROVE  OutCodes(d) = OutCodes(c) /\ d.writes # <<>> /\ d.writes[1].items = c.writes[1].items
         /\ d.queue = c.queue /\ d.writes[1].r = r
<1>1. d.writes # <<>> /\ d.writes[1].items = c.writes[1].items /\ c.writes # <<>> /\ d.writes[1].r = r
  BY DEF Transmitted
<1>2. d.queue = c.queue
  BY DEF Transmitted, Sets, Fields
<1>3. QED BY <1>1, <1>2 DEF OutCodes

LEMMA EffectCoded ==
  ASSUME NEW c, ConInv(c), NEW d, NEW o, NEW w, NEW wo, NEW calls, Coded(c, o, w, wo), Effect(c, d, calls),
         Codes \intersect {"abnormal", "invalid"} = {}
  PROVE  Coded(d, o, w, wo)
<1>1. c.queue \in Seq(Items) /\ c.state \in States
  BY DEF ConInv, Lists, Flags
<1>2. CASE Initiated(c, d)
  <2>1. CASE \E ec : Terminated(c, d, ec)
    BY <2>1, <1>1, TerminatedCoded
  <2>2. CASE Sets(c, d, {"timer", "live", "istate", "reads"})
    BY <2>2, QuietCoded
  <2>3. CASE /\ Sets(c, d, {"timer", "live", "istate", "writes"})
             /\ d.writes = WriteOp("request", Item("request", "ws"))
    <3>1. Item("request", "ws").k # "close"
      BY NotClose
    <3>2. QED BY <2>3, <3>1, OneWriteCoded
  <2>4. QED BY <1>2, <2>1, <2>2, <2>3 DEF Initiated
<1>3. CASE Sets(c, d, {"live", "due"}) \/ Sets(c, d, {"call", "sends", "rflag", "closer"})
  BY <1>3, QuietCoded
<1>4. CASE TimesOut(c, d)
  <2>1. PICK f, ec : Sets(c, f, {"due"}) /\ Terminated(f, d, ec)
    BY <1>4 DEF TimesOut
  <2>2. Coded(f, o, w, wo)
    BY <2>1, QuietCoded
  <2>3. f.state \in States
    BY <2>1, <1>1 DEF Sets, Fields
  <2>4. QED BY <2>1, <2>2, <2>3, TerminatedCoded
<1>5. CASE Resumes(c, d)
  <2>1. PICK f : Sets(c, f, {"sends", "rflag"}) /\ Sets(f, d, {"reads"})
    BY <1>5 DEF Resumes
  <2>2. Coded(f, o, w, wo)
    BY <2>1, QuietCoded
  <2>3. QED BY <2>1, <2>2, QuietCoded
<1>6. CASE Pushes(c, d)
  <2>1. PICK f, m : m \in Items /\ Sets(c, f, {"call", "sent", "live"}) /\ m.k # "close" /\ Pushed(f, d, m)
    <3>1. PICK f : /\ Sets(c, f, {"call", "sent", "live"})
                   /\ \/ \E v \in Payload : Pushed(f, d, Item("data", v))
                      \/ \E k \in {"ping", "pong"} : Pushed(f, d, Item(k, ""))
      BY <1>6 DEF Pushes
    <3>2. "" \in Payload /\ {"data", "ping", "pong"} \subseteq Kinds
      BY Strings DEF Values, Kinds
    <3>3. \A v \in Payload : Item("data", v) \in Items /\ Item("data", v).k # "close"
      BY <3>2, ItemIn, NotClose
    <3>4. \A k \in {"ping", "pong"} : Item(k, "") \in Items /\ Item(k, "").k # "close"
      BY <3>2, ItemIn, NotClose
    <3>5. QED BY <3>1, <3>3, <3>4
  <2>2. Coded(f, o, w, wo)
    BY <2>1, QuietCoded
  <2>3. f.queue \in Seq(Items)
    BY <2>1, <1>1 DEF Sets, Fields
  <2>4. QED BY <2>1, <2>2, <2>3, PushedCoded
<1>7. CASE c.state = "open" /\ \E code \in Codes : ClosingWith(c, d, code, FALSE)
  <2>1. PICK code \in Codes : ClosingWith(c, d, code, FALSE)
    BY <1>7
  <2>2. code \notin {"abnormal", "invalid"} /\ FALSE \in BOOLEAN
    OBVIOUS
  <2>3. QED BY <2>1, <2>2, <1>7, ClosingCoded
<1>8. CASE RespondsLater(c, d)
  <2>1. PICK g : Sets(c, g, {"status", "http"}) /\ Responds(g, d)
    BY <1>8 DEF RespondsLater
  <2>2. Coded(g, o, w, wo)
    BY <2>1, QuietCoded
  <2>3. QED BY <2>1, <2>2, RespondsCoded
<1>9. CASE \E r : Received(c, d, r, c.buf)
  <2>1. Sets(c, d, {"reads", "buf"}) /\ d.buf = c.buf
    BY <1>9 DEF Received
  <2>2. d.queue = c.queue /\ d.writes = c.writes
    BY <2>1 DEF Sets, Fields
  <2>3. OutCodes(d) \subseteq OutCodes(c)
    BY <2>2 DEF OutCodes
  <2>4. QED BY <2>1, <2>3, LessCoded
<1>10. CASE Transmitted(c, d, "error")
  <2>1. Sets(c, d, {"writes", "tail"})
    BY <1>10 DEF Transmitted
  <2>2. d.buf = c.buf
    BY <2>1 DEF Sets, Fields
  <2>3. OutCodes(d) \subseteq OutCodes(c)
    BY <1>10, TransmittedItems
  <2>4. QED BY <2>1, <2>2, <2>3, LessCoded
<1>11. QED
  BY <1>2, <1>3, <1>4, <1>5, <1>6, <1>7, <1>8, <1>9, <1>10, ReadEndsCoded, WriteEndsCoded, WritesFramesCoded
  DEF Effect

LEMMA MovesCoded ==
  ASSUME EndsInv, CodesInv, NEW e \in Ends, Moves(e), Codes \intersect {"abnormal", "invalid"} = {}
  PROVE  CodesInv'
<1>1. PICK d : /\ con' = [con EXCEPT ![e] = d] /\ ConInv(d) /\ mode' = mode
               /\ \/ wire' = wire /\ Effect(con[e], d, Calls[mode][e])
                  \/ \E n \in 1 .. Len(wire[e]) :
                       /\ Received(con[e], d, "ok", SubSeq(wire[e], 1, n))
                       /\ wire' = [wire EXCEPT ![e] = SubSeq(wire[e], n + 1, Len(wire[e]))]
                  \/ /\ con[e].shut = FALSE /\ Transmitted(con[e], d, "ok")
                     /\ wire' = [wire EXCEPT ![Other(e)] =
                                   IF Other(e) \in Active THEN wire[Other(e)] \o con[e].writes[1].items
                                   ELSE wire[Other(e)]]
  BY DEF Moves
<1>2. /\ DOMAIN con = Ends /\ DOMAIN wire = Ends
      /\ \A f \in Ends : ConInv(con[f]) /\ wire[f] \in Seq(Items)
  BY DEF EndsInv
<1>3. SUFFICES ASSUME mode = "pair"
               PROVE  \A f \in Ends : Coded(con'[f], con'[Other(f)], wire'[f], wire'[Other(f)])
  BY <1>1 DEF CodesInv
<1> DEFINE c == con[e]
           o == con[Other(e)]
           w == wire[e]
           wo == wire[Other(e)]
<1>4. /\ Other(e) \in Ends /\ Other(e) # e /\ Other(Other(e)) = e /\ Other(e) \in Active
      /\ \A f \in Ends : f \in {e, Other(e)}
  BY TwoEnds, <1>3 DEF Ends, Active
<1>5. con'[e] = d /\ con'[Other(e)] = o
  BY <1>1, <1>2, <1>4
<1>6. Coded(c, o, w, wo) /\ Coded(o, c, wo, w)
  BY <1>3, <1>4 DEF CodesInv
<1>7. ConInv(c) /\ w \in Seq(Items) /\ wo \in Seq(Items)
  BY <1>2, <1>4
<1> HIDE DEF c, o, w, wo
<1>8. Coded(d, o, wire'[e], wire'[Other(e)])
  <2>1. CASE wire' = wire /\ Effect(c, d, Calls[mode][e])
    BY <2>1, <1>6, <1>7, EffectCoded DEF w, wo
  <2>2. CASE \E n \in 1 .. Len(w) : /\ Received(c, d, "ok", SubSeq(w, 1, n))
                                    /\ wire' = [wire EXCEPT ![e] = SubSeq(w, n + 1, Len(w))]
    <3>1. PICK n \in 1 .. Len(w) : /\ Received(c, d, "ok", SubSeq(w, 1, n))
                                   /\ wire' = [wire EXCEPT ![e] = SubSeq(w, n + 1, Len(w))]
      BY <2>2
    <3> DEFINE v == SubSeq(w, n + 1, Len(w))
    <3>2. wire'[e] = v /\ wire'[Other(e)] = wo
      BY <3>1, <1>2, <1>4 DEF wo
    <3>3. /\ d.state = c.state /\ d.lcode = c.lcode /\ d.rcode = c.rcode /\ d.clean = c.clean
          /\ d.report = c.report /\ d.rest = c.rest /\ d.buf = SubSeq(w, 1, n)
          /\ d.queue = c.queue /\ d.writes = c.writes
      BY <3>1 DEF Received, Sets, Fields
    <3>4. CloseCodes(d.buf) \subseteq CloseCodes(w) /\ CloseCodes(v) \subseteq CloseCodes(w)
      <4>1. /\ 1 \in 1 .. Len(w) + 1 /\ n \in 0 .. Len(w)
            /\ n + 1 \in 1 .. Len(w) + 1 /\ Len(w) \in 0 .. Len(w)
        BY <3>1, <1>7
      <4>2. QED BY <4>1, <3>3, <1>7, CodesOfParts
    <3> HIDE DEF v
    <3>5. InCodes(d) \union CloseCodes(v) \subseteq InCodes(c) \union CloseCodes(w) \union {}
      BY <3>3, <3>4 DEF InCodes
    <3>6. OutCodes(d) = OutCodes(c)
      BY <3>3 DEF OutCodes
    <3>7. Announced({}, o)
      BY DEF Announced
    <3>8. Coded(d, o, v, wo)
      BY <3>3, <3>5, <3>6, <3>7, <1>6, CodedStays
    <3>9. QED BY <3>2, <3>8
  <2>3. CASE /\ Transmitted(c, d, "ok")
             /\ wire' = [wire EXCEPT ![Other(e)] = wo \o c.writes[1].items]
    <3> DEFINE vo == wo \o c.writes[1].items
    <3>1. wire'[e] = w /\ wire'[Other(e)] = vo
      BY <2>3, <1>2, <1>4 DEF w
    <3>2. /\ d.state = c.state /\ d.lcode = c.lcode /\ d.rcode = c.rcode /\ d.clean = c.clean
          /\ d.report = c.report /\ d.rest = c.rest /\ d.buf = c.buf /\ c.writes # <<>>
      BY <2>3 DEF Transmitted, Sets, Fields
    <3>3. c.writes \in Seq(WriteOps) /\ Len(c.writes) <= 1
      BY <1>7 DEF ConInv, Lists, Phased
    <3>4. c.writes[1] \in WriteOps
      BY <3>2, <3>3, TailOfOne
    <3>5. c.writes[1].items \in Seq(Items)
      BY <3>4 DEF WriteOps
    <3>6. CloseCodes(vo) \subseteq CloseCodes(wo) \union CloseCodes(c.writes[1].items)
      BY <3>5, <1>7, CodesOfBoth
    <3> HIDE DEF vo
    <3>7. OutCodes(d) \union CloseCodes(vo) \subseteq OutCodes(c) \union CloseCodes(wo)
      <4>1. OutCodes(d) = OutCodes(c)
        BY <2>3, TransmittedItems
      <4>2. QED BY <4>1, <3>2, <3>6 DEF OutCodes
    <3>8. InCodes(d) = InCodes(c) /\ Announced({}, o)
      BY <3>2 DEF InCodes, Announced
    <3>9. Coded(d, o, w, vo)
      BY <3>2, <3>7, <3>8, <1>6, CodedStays
    <3>10. QED BY <3>1, <3>9
  <2>4. QED BY <1>1, <1>4, <2>1, <2>2, <2>3 DEF c, w, wo
<1>9. Coded(o, d, wire'[Other(e)], wire'[e])
  BY <1>6, <1>8 DEF Coded
<1>10. QED BY <1>4, <1>5, <1>8, <1>9

LEMMA NextCoded ==
  ASSUME EndsInv, CodesInv, "badext" \notin Responses, Codes \intersect {"abnormal", "invalid"} = {}, [Next]_vars, Timely'
  PROVE  CodesInv'
<1>1. CASE \E e \in Active : Machine(e) \/ Application(e)
  <2>1. PICK e \in Active : Machine(e) \/ Application(e)
    BY <1>1
  <2>2. e \in Ends
    BY <2>1 DEF Active, Ends, EndsInv
  <2>3. QED BY <2>1, <2>2, MachineMoves, ApplicationMoves, MovesCoded
<1>2. CASE PeerSend \/ PeerGone
  BY <1>2, PeerKeeps DEF CodesInv
<1>3. CASE UNCHANGED vars
  BY <1>3 DEF CodesInv, vars
<1>4. QED BY <1>1, <1>2, <1>3 DEF Next

LEMMA InitCoded ==
  ASSUME Init PROVE CodesInv
<1>1. \A e \in Ends : Other(e) \in Ends
  BY TwoEnds DEF Ends
<1>2. ASSUME NEW e \in Ends
      PROVE  /\ con[e].state = "connecting" /\ con[e].rcode = "abnormal" /\ con[e].clean = FALSE
             /\ con[e].report = <<>> /\ wire[e] = <<>>
             /\ InCodes(con[e]) = {} /\ OutCodes(con[e]) = {} /\ Heard(con[e]) = {} /\ CloseCodes(wire[e]) = {}
  <2>1. /\ con[e].state = "connecting" /\ con[e].rcode = "abnormal" /\ con[e].clean = FALSE
        /\ con[e].report = <<>> /\ wire[e] = <<>> /\ con[e].rest = <<>> /\ con[e].buf = <<>>
        /\ con[e].queue = <<>> /\ con[e].writes = <<>>
    BY DEF Init, start, connection
  <2>2. QED BY <2>1, CodesOfNone DEF InCodes, OutCodes, Heard
<1>3. \A e \in Ends : Reports(con[e])
  BY <1>2 DEF Reports
<1>4. \A e, f \in Ends : Reads(con[e], con[f], wire[e])
  BY <1>2 DEF Reads, Announced
<1>5. QED BY <1>1, <1>3, <1>4 DEF CodesInv, Coded

LEMMA CodesAgree ==
  ASSUME EndsInv, CodesInv PROVE CleanCodesAgree
<1> DEFINE s == con["server"]
           c == con["client"]
<1>1. SUFFICES ASSUME mode = "pair", s.report # <<>>, c.report # <<>>, s.report.clean, c.report.clean,
                      "abnormal" \notin {s.report.l, c.report.l}
               PROVE  s.report.l = c.report.r /\ s.report.r = c.report.l
  BY DEF CleanCodesAgree, Ends
<1>2. Coded(s, c, wire["server"], wire["client"])
  BY <1>1, TwoEnds DEF CodesInv, Ends
<1>3. Coded(c, s, wire["client"], wire["server"])
  BY <1>1, TwoEnds DEF CodesInv, Ends
<1> HIDE DEF s, c
<1>4. s.clean /\ s.report.r = s.rcode /\ s.rcode # "abnormal" /\ c.clean /\ c.report.r = c.rcode /\ c.rcode # "abnormal"
  BY <1>1, <1>2, <1>3 DEF Coded, Reports
<1>5. CodeOk(c, s.rcode) /\ CodeOk(s, c.rcode)
  BY <1>2, <1>3, <1>4 DEF Coded, Reads, Announced, Heard
<1>6. QED BY <1>1, <1>4, <1>5 DEF CodeOk

(* connection (send_close_frame, process_control_frame, terminate): when   *)
(* two websocketpp ends both report a clean close, each reports the code   *)
(* the other closed with, and every end calls its handlers as its state    *)
(* says, for any calls and any number of messages.  "abnormal" (1006) and  *)
(* "invalid" are no codes an application closes with: hybi13's             *)
(* prepare_close refuses the codes status::invalid holds of, no_status     *)
(* apart.  No close is overtaken by the end of its connection.             *)
THEOREM ReportsAlwaysAgree ==
  ASSUME "badext" \notin Responses, Codes \intersect {"abnormal", "invalid"} = {}
  PROVE  Spec /\ []Timely => []ReportsAgree
<1>1. Init => EndsInv /\ CodesInv
  BY InitEnds, InitCoded
<1>2. EndsInv /\ CodesInv /\ [Next]_vars /\ Timely' => EndsInv' /\ CodesInv'
  BY NextEnds, NextCoded
<1>3. EndsInv /\ CodesInv => ReportsAgree
  BY EndsAgree, CodesAgree DEF ReportsAgree
<1>4. QED BY <1>1, <1>2, <1>3, PTL DEF Spec

-----------------------------------------------------------------------------
(* The data.  h counts, of the data sent, those that have come once the    *)
(* first i items of s have: lo before s, and hi after it.                  *)
Counts(s, h, lo, hi, sent) ==
  /\ h[0] = lo /\ h[Len(s)] = hi
  /\ \A i, j \in 0 .. Len(s) : h[i] \in Nat /\ (i <= j => h[i] <= h[j])
  /\ \A i \in 1 .. Len(s) : s[i].k = "data" => h[i] = h[i - 1] + 1 /\ s[i].v = sent[h[i]]
  /\ \A i \in 1 .. Len(s) : s[i].k # "data" => h[i] = h[i - 1]
Carries(s, lo, hi, sent) == \E h : Counts(s, h, lo, hi, sent)

Begins(s, t) == Len(s) <= Len(t) /\ \A i \in 1 .. Len(s) : s[i] = t[i]

Live(c) == c.state \in {"connecting", "open"}

\* What c has yet to take of the first n that were sent, where w is its wire.
Arriving(c, w, n, sent) ==
  \E n1, n2 \in Nat : /\ Carries(c.rest, Len(c.got), n1, sent) /\ Carries(c.buf, n1, n2, sent)
                      /\ Carries(w, n2, n, sent)

Unsent(d) == IF d.writes = <<>> \/ d.writes[1].r = "ok" THEN <<>> ELSE d.writes[1].items

\* What d has yet to put on the wire, when n are there already.
Departing(d, n) ==
  d.shut = FALSE =>
    \E n1 \in Nat : Carries(Unsent(d), n, n1, d.sent) /\ Carries(d.queue, n1, Len(d.sent), d.sent)

Flows(c, d, w) ==
  /\ Begins(c.got, d.sent)
  /\ Live(c) => \E n \in 0 .. Len(d.sent) : Arriving(c, w, n, d.sent) /\ Departing(d, n)

\* The first that comes to a client is the response, whole.
Reply(s) == s[1].k = "response" /\ s[1].v # "partial"
Answering == {"PROCESS_HTTP_REQUEST", "PROCESS_CONNECTION"}
Spoken(d) == Up(d) \/ (d.writes # <<>> /\ d.writes[1].r = "ok")

Greeted(c, d, w) ==
  c.is_server = FALSE =>
    /\ d.istate \notin Answering => ~Up(c) /\ c.buf = <<>> /\ w = <<>>
    /\ c.state = "connecting" => /\ c.buf # <<>> => Reply(c.buf)
                                 /\ c.buf = <<>> /\ w # <<>> => Reply(w)
                                 /\ Spoken(d) => c.buf # <<>> \/ w # <<>>

\* An end by itself.
Own(c) ==
  /\ Len(c.reads) <= 1
  /\ c.buf # <<>> => c.reads # <<>> /\ c.reads[1].r = "ok"
  /\ c.rest # <<>> => c.istate = "PROCESS_HTTP_REQUEST"
  /\ c.istate \in {"READ_HTTP_REQUEST", "PROCESS_HTTP_REQUEST"} => c.is_server = TRUE
  /\ c.istate \in {"WRITE_HTTP_REQUEST", "READ_HTTP_RESPONSE"} => c.is_server = FALSE
  /\ c.shut = (c.state = "closed")
  /\ c.istate = "PROCESS_HTTP_REQUEST" /\ c.writes # <<>> =>
       c.writes[1].items # <<>> /\ Reply(c.writes[1].items)

FlowInv ==
  mode = "pair" => \A e \in Ends :
    /\ Own(con[e]) /\ Flows(con[e], con[Other(e)], wire[e]) /\ Greeted(con[e], con[Other(e)], wire[e])

LEMMA CarriesNone ==
  ASSUME NEW n \in Nat, NEW sent PROVE Carries(<<>>, n, n, sent)
<1> DEFINE h == [i \in {0} |-> n]
<1>1. Counts(<<>>, h, n, n, sent)
  BY DEF Counts
<1>2. QED BY <1>1 DEF Carries

LEMMA CarriesNothing ==
  ASSUME NEW s \in Seq(Items), NEW a, NEW b, NEW sent, Carries(s, a, b, sent)
  PROVE  /\ a \in Nat /\ b \in Nat /\ a <= b
         /\ s = <<>> => a = b
         /\ a = b => \A i \in 1 .. Len(s) : s[i].k # "data"
<1>1. PICK h : Counts(s, h, a, b, sent)
  BY DEF Carries
<1>2. Len(s) \in Nat /\ (s = <<>> => Len(s) = 0) /\ 0 \in 0 .. Len(s) /\ Len(s) \in 0 .. Len(s)
  OBVIOUS
<1>3. a \in Nat /\ b \in Nat /\ a <= b /\ (s = <<>> => a = b)
  BY <1>1, <1>2 DEF Counts
<1>4. ASSUME a = b, NEW i \in 1 .. Len(s), s[i].k = "data" PROVE FALSE
  <2>1. i \in 0 .. Len(s) /\ i - 1 \in 0 .. Len(s) /\ 0 <= i - 1 /\ i <= Len(s)
    BY <1>2, <1>4
  <2>2. a <= h[i - 1] /\ h[i] <= b /\ h[i] = h[i - 1] + 1 /\ h[i - 1] \in Nat
    BY <1>1, <1>2, <1>4, <2>1 DEF Counts
  <2>3. QED BY <2>2, <1>3, <1>4
<1>5. QED BY <1>3, <1>4

LEMMA CarriesPlain ==
  ASSUME NEW s \in Seq(Items), \A i \in 1 .. Len(s) : s[i].k # "data", NEW n \in Nat, NEW sent
  PROVE  Carries(s, n, n, sent)
<1> DEFINE h == [i \in 0 .. Len(s) |-> n]
<1>1. Counts(s, h, n, n, sent)
  BY DEF Counts
<1>2. QED BY <1>1 DEF Carries

\* What comes first of s, and what comes after that.
LEMMA CarriesParts ==
  ASSUME NEW s \in Seq(Items), NEW n \in 0 .. Len(s), NEW a, NEW b, NEW sent, Carries(s, a, b, sent)
  PROVE  \E m \in Nat : Carries(SubSeq(s, 1, n), a, m, sent) /\ Carries(SubSeq(s, n + 1, Len(s)), m, b, sent)
<1> DEFINE p == SubSeq(s, 1, n)
           q == SubSeq(s, n + 1, Len(s))
<1>1. PICK h : Counts(s, h, a, b, sent)
  BY DEF Carries
<1>2. Len(s) \in Nat /\ Len(p) = n /\ Len(q) = Len(s) - n
  OBVIOUS
<1>3. /\ \A i \in 1 .. Len(p) : p[i] = s[i]
      /\ \A i \in 1 .. Len(q) : q[i] = s[n + i]
  OBVIOUS
<1> HIDE DEF p, q
<1>4. h[n] \in Nat
  BY <1>1 DEF Counts
<1>5. Counts(p, h, a, h[n], sent)
  BY <1>1, <1>2, <1>3 DEF Counts
<1> DEFINE g == [i \in 0 .. Len(q) |-> h[n + i]]
<1>6. Counts(q, g, h[n], b, sent)
  <2>1. /\ \A i \in 0 .. Len(q) : g[i] = h[n + i] /\ n + i \in 0 .. Len(s)
        /\ \A i \in 1 .. Len(q) : n + i \in 1 .. Len(s) /\ (n + i) - 1 = n + (i - 1) /\ i - 1 \in 0 .. Len(q) /\ i \in 0 .. Len(q)
    BY <1>2
  <2> HIDE DEF g
  <2>2. g[0] = h[n] /\ g[Len(q)] = b
    BY <1>1, <1>2, <2>1 DEF Counts
  <2>3. \A i, j \in 0 .. Len(q) : g[i] \in Nat /\ (i <= j => g[i] <= g[j])
    BY <1>1, <1>2, <2>1 DEF Counts
  <2>4. \A i \in 1 .. Len(q) : g[i] = h[n + i] /\ g[i - 1] = h[(n + i) - 1] /\ q[i] = s[n + i] /\ n + i \in 1 .. Len(s)
    BY <1>3, <2>1
  <2>5. QED BY <1>1, <2>2, <2>3, <2>4 DEF Counts
<1>7. QED BY <1>4, <1>5, <1>6 DEF Carries, p, q

LEMMA CarriesBoth ==
  ASSUME NEW s \in Seq(Items), NEW t \in Seq(Items), NEW a, NEW b, NEW m, NEW sent,
         Carries(s, a, m, sent), Carries(t, m, b, sent)
  PROVE  Carries(s \o t, a, b, sent)
<1> DEFINE u == s \o t
           n == Len(s)
<1>1. PICK h, g : Counts(s, h, a, m, sent) /\ Counts(t, g, m, b, sent)
  BY DEF Carries
<1>2. n \in Nat /\ Len(t) \in Nat /\ Len(u) = n + Len(t)
  OBVIOUS
<1>3. /\ \A i \in 1 .. n : u[i] = s[i]
      /\ \A i \in 1 .. Len(t) : u[n + i] = t[i]
  OBVIOUS
<1> HIDE DEF u
<1> DEFINE f == [i \in 0 .. Len(u) |-> IF i <= n THEN h[i] ELSE g[i - n]]
<1>4. /\ \A i \in 0 .. n : f[i] = h[i]
      /\ \A i \in 0 .. Len(t) : f[n + i] = g[i]
  <2>1. h[n] = g[0]
    BY <1>1 DEF Counts
  <2>2. \A i \in 0 .. n : f[i] = h[i]
    BY <1>2
  <2>3. ASSUME NEW i \in 0 .. Len(t) PROVE f[n + i] = g[i]
    <3>1. CASE i = 0
      BY <2>1, <2>2, <3>1, <1>2
    <3>2. CASE i # 0
      <4>1. n + i \in 0 .. Len(u) /\ ~(n + i <= n) /\ (n + i) - n = i
        BY <3>2, <1>2
      <4>2. QED BY <4>1
    <3>3. QED BY <3>1, <3>2
  <2>4. QED BY <2>2, <2>3
<1> HIDE DEF f
<1>5. f[0] = a /\ f[Len(u)] = b
  <2>1. 0 \in 0 .. n /\ Len(t) \in 0 .. Len(t)
    BY <1>2
  <2>2. QED BY <2>1, <1>1, <1>2, <1>4 DEF Counts
<1>6. \A i \in 0 .. Len(u) : \/ i \in 0 .. n /\ f[i] = h[i]
                             \/ i - n \in 0 .. Len(t) /\ f[i] = g[i - n] /\ i >= n
  <2>1. ASSUME NEW i \in 0 .. Len(u), i > n PROVE i - n \in 0 .. Len(t) /\ f[i] = g[i - n]
    <3>1. i - n \in 0 .. Len(t) /\ n + (i - n) = i
      BY <2>1, <1>2
    <3>2. QED BY <3>1, <1>4
  <2>2. QED BY <2>1, <1>2, <1>4
<1>7. \A i, j \in 0 .. Len(u) : f[i] \in Nat /\ (i <= j => f[i] <= f[j])
  <2>1. \A i, j \in 0 .. n : h[i] \in Nat /\ (i <= j => h[i] <= h[j]) /\ h[i] <= m
    <3>1. n \in 0 .. n /\ h[n] = m
      BY <1>1, <1>2 DEF Counts
    <3>2. QED BY <3>1, <1>1 DEF Counts
  <2>2. \A i, j \in 0 .. Len(t) : g[i] \in Nat /\ (i <= j => g[i] <= g[j]) /\ m <= g[i]
    <3>1. 0 \in 0 .. Len(t) /\ g[0] = m
      BY <1>1, <1>2 DEF Counts
    <3>2. QED BY <3>1, <1>1 DEF Counts
  <2>3. m \in Nat
    BY <1>1, <1>2 DEF Counts
  <2>4. ASSUME NEW i \in 0 .. Len(u), NEW j \in 0 .. Len(u), i <= j
        PROVE  f[i] \in Nat /\ f[i] <= f[j]
    <3>1. CASE i \in 0 .. n /\ f[i] = h[i]
      <4>1. f[i] \in Nat /\ f[i] <= m
        BY <3>1, <2>1
      <4>2. CASE j \in 0 .. n /\ f[j] = h[j]
        BY <4>2, <3>1, <2>1, <2>4
      <4>3. CASE j - n \in 0 .. Len(t) /\ f[j] = g[j - n]
        <5>1. m <= f[j] /\ f[j] \in Nat
          BY <4>3, <2>2
        <5>2. QED BY <5>1, <4>1, <2>3
      <4>4. QED BY <4>2, <4>3, <1>6
    <3>2. CASE i - n \in 0 .. Len(t) /\ f[i] = g[i - n] /\ i >= n
      <4>1. f[i] \in Nat
        BY <3>2, <2>2
      <4>2. j - n \in 0 .. Len(t) /\ n + (j - n) = j /\ i - n <= j - n
        BY <3>2, <2>4, <1>2
      <4>3. f[j] = g[j - n]
        BY <4>2, <1>4
      <4>4. QED BY <4>1, <4>2, <4>3, <3>2, <2>2
    <3>3. QED BY <3>1, <3>2, <1>6
  <2>5. \A i \in 0 .. Len(u) : i <= i
    BY <1>2
  <2>6. QED BY <2>4, <2>5
<1>8. ASSUME NEW i \in 1 .. Len(u)
      PROVE  /\ u[i].k = "data" => f[i] = f[i - 1] + 1 /\ u[i].v = sent[f[i]]
             /\ u[i].k # "data" => f[i] = f[i - 1]
  <2>1. CASE i <= n
    <3>1. i \in 1 .. n /\ i \in 0 .. n /\ i - 1 \in 0 .. n
      BY <2>1, <1>2
    <3>2. QED BY <3>1, <1>1, <1>3, <1>4 DEF Counts
  <2>2. CASE i > n
    <3> DEFINE j == i - n
    <3>1. j \in 1 .. Len(t) /\ j \in 0 .. Len(t) /\ j - 1 \in 0 .. Len(t) /\ n + j = i /\ n + (j - 1) = i - 1
      BY <2>2, <1>2
    <3> HIDE DEF j
    <3>2. u[i] = t[j] /\ f[i] = g[j] /\ f[i - 1] = g[j - 1]
      BY <3>1, <1>3, <1>4
    <3>3. QED BY <3>1, <3>2, <1>1 DEF Counts
  <2>3. QED BY <2>1, <2>2, <1>2
<1>9. Counts(u, f, a, b, sent)
  BY <1>5, <1>7, <1>8 DEF Counts
<1>10. QED BY <1>9 DEF Carries, u

\* More may be sent.
LEMMA CarriesMore ==
  ASSUME NEW s \in Seq(Items), NEW a, NEW b, NEW sent \in Seq(Payload), NEW more \in Seq(Payload),
         Carries(s, a, b, sent), b <= Len(sent), Begins(sent, more)
  PROVE  Carries(s, a, b, more)
<1>1. PICK h : Counts(s, h, a, b, sent)
  BY DEF Carries
<1>2. ASSUME NEW i \in 1 .. Len(s), s[i].k = "data" PROVE more[h[i]] = sent[h[i]]
  <2>1. i \in 0 .. Len(s) /\ i - 1 \in 0 .. Len(s) /\ i <= Len(s) /\ Len(s) \in 0 .. Len(s)
    BY <1>2
  <2>2. h[i] <= b /\ h[i] = h[i - 1] + 1 /\ h[i - 1] \in Nat /\ b \in Nat
    BY <1>1, <1>2, <2>1 DEF Counts
  <2>3. h[i] \in 1 .. Len(sent)
    BY <2>2
  <2>4. QED BY <2>3 DEF Begins
<1>3. Counts(s, h, a, b, more)
  BY <1>1, <1>2 DEF Counts
<1>4. QED BY <1>3 DEF Carries

LEMMA CarriesOne ==
  ASSUME NEW m \in Items, NEW n \in Nat, NEW sent
  PROVE  /\ m.k # "data" => Carries(<<m>>, n, n, sent)
         /\ m.k = "data" /\ m.v = sent[n + 1] => Carries(<<m>>, n, n + 1, sent)
<1>1. ASSUME m.k # "data" PROVE Carries(<<m>>, n, n, sent)
  <2>1. <<m>> \in Seq(Items) /\ \A i \in 1 .. Len(<<m>>) : <<m>>[i].k # "data"
    BY <1>1
  <2>2. QED BY <2>1, CarriesPlain
<1>2. ASSUME m.k = "data", m.v = sent[n + 1] PROVE Carries(<<m>>, n, n + 1, sent)
  <2> DEFINE h == [i \in {0, 1} |-> n + i]
             s == <<m>>
  <2>1. h[0] = n /\ h[1] = n + 1 /\ Len(s) = 1 /\ s[1] = m
    OBVIOUS
  <2>2. 0 .. 1 = {0, 1} /\ 1 .. 1 = {1}
    OBVIOUS
  <2> HIDE DEF h, s
  <2>3. Counts(s, h, n, n + 1, sent)
    BY <1>2, <2>1, <2>2 DEF Counts
  <2>4. QED BY <2>3 DEF Carries, s
<1>3. QED BY <1>1, <1>2

LEMMA AppendIs ==
  ASSUME NEW S, NEW s \in Seq(S), NEW m \in S PROVE Append(s, m) = s \o <<m>>
OBVIOUS

LEMMA CarriesTail ==
  ASSUME NEW s \in Seq(Items), s # <<>>, s[1].k # "data", NEW a, NEW b, NEW sent, Carries(s, a, b, sent)
  PROVE  Tail(s) \in Seq(Items) /\ Carries(Tail(s), a, b, sent)
<1> DEFINE t == Tail(s)
<1>1. PICK h : Counts(s, h, a, b, sent)
  BY DEF Carries
<1>2. Len(s) \in Nat /\ Len(s) >= 1 /\ t \in Seq(Items) /\ Len(t) = Len(s) - 1 /\ \A i \in 1 .. Len(t) : t[i] = s[i + 1]
  OBVIOUS
<1> HIDE DEF t
<1> DEFINE g == [i \in 0 .. Len(t) |-> h[i + 1]]
<1>3. /\ \A i \in 0 .. Len(t) : g[i] = h[i + 1] /\ i + 1 \in 0 .. Len(s)
      /\ \A i \in 1 .. Len(t) : i + 1 \in 1 .. Len(s) /\ (i + 1) - 1 = (i - 1) + 1 /\ i - 1 \in 0 .. Len(t) /\ i \in 0 .. Len(t)
  BY <1>2
<1> HIDE DEF g
<1>4. g[0] = a /\ g[Len(t)] = b
  <2>1. 1 \in 1 .. Len(s) /\ 0 \in 0 .. Len(t) /\ Len(t) \in 0 .. Len(t) /\ Len(t) + 1 = Len(s) /\ 1 - 1 = 0 /\ 0 + 1 = 1
    BY <1>2
  <2>2. h[1] = a
    BY <2>1, <1>1 DEF Counts
  <2>3. QED BY <2>1, <2>2, <1>1, <1>3 DEF Counts
<1>5. \A i, j \in 0 .. Len(t) : g[i] \in Nat /\ (i <= j => g[i] <= g[j])
  BY <1>1, <1>2, <1>3 DEF Counts
<1>6. \A i \in 1 .. Len(t) : g[i] = h[i + 1] /\ g[i - 1] = h[(i + 1) - 1] /\ t[i] = s[i + 1] /\ i + 1 \in 1 .. Len(s)
  BY <1>2, <1>3
<1>7. Counts(t, g, a, b, sent)
  BY <1>1, <1>4, <1>5, <1>6 DEF Counts
<1>8. QED BY <1>2, <1>7 DEF Carries, t

LEMMA BeginsChain ==
  ASSUME NEW s \in Seq(Payload), NEW t \in Seq(Payload), NEW u \in Seq(Payload), Begins(s, t), Begins(t, u)
  PROVE  Begins(s, u)
BY DEF Begins

LEMMA BeginsAppend ==
  ASSUME NEW s \in Seq(Payload), NEW v \in Payload
  PROVE  Begins(s, s) /\ Begins(s, Append(s, v)) /\ Append(s, v) \in Seq(Payload)
         /\ Len(Append(s, v)) = Len(s) + 1 /\ Append(s, v)[Len(s) + 1] = v
BY DEF Begins

-----------------------------------------------------------------------------
(* The end that sends.  All that it has yet to put on the wire it still    *)
(* puts there, after what it does.                                         *)
Forwards(c, d) ==
  /\ d.is_server = c.is_server
  /\ d.istate \notin Answering => c.istate \notin Answering
  /\ d.is_server = TRUE /\ Spoken(d) => Spoken(c)
  /\ Begins(c.sent, d.sent)
  /\ \A n \in 0 .. Len(c.sent) : Departing(c, n) => Departing(d, n)

Shuts(c) == c.shut = (c.state = "closed")

LEMMA ForwardsKeep ==
  ASSUME NEW c, NEW d, NEW o, Lists(c), Lists(d), Lists(o), NEW w \in Seq(Items), Forwards(c, d),
         c.is_server = TRUE \/ o.is_server = TRUE, Flows(o, c, w), Greeted(o, c, w)
  PROVE  Flows(o, d, w) /\ Greeted(o, d, w)
<1>1. /\ c.sent \in Seq(Payload) /\ d.sent \in Seq(Payload) /\ o.got \in Seq(Payload)
      /\ o.rest \in Seq(Items) /\ o.buf \in Seq(Items)
  BY DEF Lists
<1>2. Begins(c.sent, d.sent) /\ Begins(o.got, d.sent)
  BY <1>1, BeginsChain DEF Forwards, Flows
<1>3. ASSUME Live(o) PROVE \E n \in 0 .. Len(d.sent) : Arriving(o, w, n, d.sent) /\ Departing(d, n)
  <2>1. PICK n \in 0 .. Len(c.sent) : Arriving(o, w, n, c.sent) /\ Departing(c, n)
    BY <1>3 DEF Flows
  <2>2. n \in 0 .. Len(d.sent)
    BY <1>1, <1>2 DEF Begins
  <2>3. PICK n1, n2 \in Nat : /\ Carries(o.rest, Len(o.got), n1, c.sent) /\ Carries(o.buf, n1, n2, c.sent)
                              /\ Carries(w, n2, n, c.sent)
    BY <2>1 DEF Arriving
  <2>4. n1 <= n2 /\ n2 <= n
    BY <2>3, <1>1, CarriesNothing
  <2>5. n <= Len(c.sent) /\ n1 <= Len(c.sent) /\ n2 <= Len(c.sent)
    BY <2>4, <1>1
  <2>6. Carries(o.rest, Len(o.got), n1, d.sent) /\ Carries(o.buf, n1, n2, d.sent) /\ Carries(w, n2, n, d.sent)
    BY <2>3, <2>5, <1>1, <1>2, CarriesMore
  <2>7. QED BY <2>1, <2>2, <2>3, <2>6 DEF Arriving, Forwards
<1>4. Greeted(o, d, w)
  <2>1. SUFFICES ASSUME o.is_server = FALSE PROVE Greeted(o, d, w)
    BY DEF Greeted
  <2>2. d.is_server = TRUE
    BY <2>1 DEF Forwards
  <2>3. QED BY <2>1, <2>2 DEF Greeted, Forwards
<1>5. QED BY <1>2, <1>3, <1>4 DEF Flows

LEMMA ForwardsChain ==
  ASSUME NEW c, NEW d, NEW f, Lists(c), Lists(d), Lists(f), Forwards(c, d), Forwards(d, f)
  PROVE  Forwards(c, f)
<1>1. c.sent \in Seq(Payload) /\ d.sent \in Seq(Payload) /\ f.sent \in Seq(Payload)
  BY DEF Lists
<1>2. Begins(c.sent, d.sent) /\ Begins(c.sent, f.sent)
  BY <1>1, BeginsChain DEF Forwards
<1>3. 0 .. Len(c.sent) \subseteq 0 .. Len(d.sent)
  BY <1>1, <1>2 DEF Begins
<1>4. \A n \in 0 .. Len(c.sent) : Departing(c, n) => Departing(f, n)
  BY <1>3 DEF Forwards
<1>5. QED BY <1>2, <1>4 DEF Forwards

LEMMA ForwardsSame ==
  ASSUME NEW c, NEW d, Lists(c), d.is_server = c.is_server, d.istate = c.istate, d.writes = c.writes,
         d.queue = c.queue, d.sent = c.sent, d.shut = c.shut
  PROVE  Forwards(c, d)
<1>1. Begins(c.sent, d.sent)
  BY BeginsAppend DEF Lists, Begins
<1>2. \A n : Departing(c, n) <=> Departing(d, n)
  BY DEF Departing, Unsent
<1>3. QED BY <1>1, <1>2 DEF Forwards, Spoken, Up

LEMMA ForwardsQuiet ==
  ASSUME NEW c, NEW d, NEW ch, Lists(c), Sets(c, d, ch),
         ch \intersect {"is_server", "istate", "writes", "queue", "sent", "shut"} = {}
  PROVE  Forwards(c, d)
<1>1. /\ d.is_server = c.is_server /\ d.istate = c.istate /\ d.writes = c.writes
      /\ d.queue = c.queue /\ d.sent = c.sent /\ d.shut = c.shut
  BY DEF Sets, Fields
<1>2. QED BY <1>1, ForwardsSame

\* What an end that is shut down has not sent it never will.
LEMMA ForwardsShut ==
  ASSUME NEW c, NEW d, Lists(c), d.is_server = c.is_server, d.istate \in {c.istate} \union Answering,
         d.is_server = TRUE /\ Spoken(d) => Spoken(c), d.sent = c.sent, d.shut = TRUE
  PROVE  Forwards(c, d)
<1>1. Begins(c.sent, d.sent)
  BY BeginsAppend DEF Lists, Begins
<1>2. \A n : Departing(d, n)
  BY DEF Departing
<1>3. QED BY <1>1, <1>2 DEF Forwards

LEMMA ForwardsTerminated ==
  ASSUME NEW c, NEW d, NEW ec, ConInv(c), Shuts(c), Terminated(c, d, ec)
  PROVE  Forwards(c, d) /\ Shuts(d)
<1>1. /\ d.is_server = c.is_server /\ d.istate = c.istate /\ d.writes = c.writes /\ d.sent = c.sent
      /\ d.state = "closed"
  BY DEF Terminated, Sets, Fields
<1>2. c.state \in {"connecting", "open", "closing", "closed"}
  BY DEF ConInv, Flags, States
<1>3. d.shut = TRUE
  BY <1>2 DEF Terminated, Shuts
<1>4. Spoken(d) => Spoken(c)
  BY <1>1 DEF Spoken, Up
<1>5. Lists(c)
  BY DEF ConInv
<1>6. Forwards(c, d)
  BY <1>1, <1>3, <1>4, <1>5, ForwardsShut
<1>7. QED BY <1>1, <1>3, <1>6 DEF Shuts

\* A frame that is no message is queued.
LEMMA ForwardsQueued ==
  ASSUME NEW c, NEW d, NEW m \in Items, Lists(c), m.k # "data", d.is_server = c.is_server, d.istate = c.istate,
         d.writes = c.writes, d.queue = Append(c.queue, m), d.sent = c.sent, d.shut = c.shut
  PROVE  Forwards(c, d)
<1>1. Begins(c.sent, d.sent) /\ c.sent \in Seq(Payload) /\ c.queue \in Seq(Items)
  BY BeginsAppend DEF Lists, Begins
<1>2. ASSUME NEW n, Departing(c, n), d.shut = FALSE
      PROVE \E n1 \in Nat : Carries(Unsent(d), n, n1, d.sent) /\ Carries(d.queue, n1, Len(d.sent), d.sent)
  <2>1. PICK n1 \in Nat : Carries(Unsent(c), n, n1, c.sent) /\ Carries(c.queue, n1, Len(c.sent), c.sent)
    BY <1>2 DEF Departing
  <2>2. Unsent(d) = Unsent(c)
    BY DEF Unsent
  <2>3. Len(c.sent) \in Nat /\ <<m>> \in Seq(Items) /\ d.queue = c.queue \o <<m>>
    BY <1>1, AppendIs
  <2>4. Carries(<<m>>, Len(c.sent), Len(c.sent), c.sent)
    BY <2>3, CarriesOne
  <2>5. Carries(d.queue, n1, Len(c.sent), c.sent)
    BY <2>1, <2>3, <2>4, <1>1, CarriesBoth
  <2>6. QED BY <2>1, <2>2, <2>5
<1>3. \A n : Departing(c, n) => Departing(d, n)
  BY <1>2 DEF Departing
<1>4. QED BY <1>1, <1>3 DEF Forwards, Spoken, Up

LEMMA ForwardsPushed ==
  ASSUME NEW c, NEW d, NEW m \in Items, Lists(c), Shuts(c), m.k # "data", Pushed(c, d, m)
  PROVE  Forwards(c, d) /\ Shuts(d)
<1>1. /\ d.is_server = c.is_server /\ d.istate = c.istate /\ d.writes = c.writes
      /\ d.sent = c.sent /\ d.shut = c.shut /\ d.state = c.state /\ d.queue = Append(c.queue, m)
  BY DEF Pushed, Sets, Fields
<1>2. Forwards(c, d)
  BY <1>1, ForwardsQueued
<1>3. QED BY <1>1, <1>2 DEF Shuts

LEMMA ForwardsClosing ==
  ASSUME NEW c, NEW d, NEW code, NEW ack, Lists(c), Shuts(c), c.state \in {"open", "closing"},
         ClosingWith(c, d, code, ack)
  PROVE  Forwards(c, d) /\ Shuts(d)
<1>1. /\ d.is_server = c.is_server /\ d.istate = c.istate /\ d.writes = c.writes
      /\ d.sent = c.sent /\ d.shut = c.shut /\ d.state = "closing"
  BY DEF ClosingWith, Sets, Fields
<1>2. PICK m \in Items : m.k = "close" /\ d.queue = Append(c.queue, m)
  BY DEF ClosingWith
<1>3. Forwards(c, d)
  BY <1>1, <1>2, ForwardsQueued
<1>4. QED BY <1>1, <1>3 DEF Shuts

LEMMA ForwardsMute ==
  ASSUME NEW c, NEW d, NEW ch, Lists(c), Shuts(c), Sets(c, d, ch),
         ch \intersect {"is_server", "istate", "writes", "queue", "sent", "shut", "state"} = {}
  PROVE  Forwards(c, d) /\ Shuts(d)
<1>1. d.shut = c.shut /\ d.state = c.state
  BY DEF Sets, Fields
<1>2. Forwards(c, d)
  BY ForwardsQuiet
<1>3. QED BY <1>1, <1>2 DEF Shuts

LEMMA ForwardsAnswers ==
  ASSUME NEW c, ConInv(c), NEW d, NEW m \in Items, Shuts(c), Answers(c, d, m), ConInv(d)
  PROVE  Forwards(c, d) /\ Shuts(d)
<1>1. Lists(c) /\ Lists(d)
  BY DEF ConInv
<1>2. CASE Sets(c, d, {"live"})
  BY <1>1, <1>2, ForwardsMute
<1>3. CASE \E x \in Items : x.k = "pong" /\ Pushed(c, d, x)
  BY <1>1, <1>3, ForwardsPushed
<1>4. CASE /\ m.k = "close" /\ c.state \in {"open", "closing"}
           /\ \E f : /\ Sets(c, f, {"rcode"}) /\ f.rcode = m.v
               /\ \/ invalid(m.v) /\ ClosingWith(f, d, "protocol_error", TRUE)
                  \/ ~invalid(m.v) /\ c.state = "open" /\ ClosingWith(f, d, "blank", TRUE)
                  \/ /\ ~invalid(m.v) /\ c.state = "closing"
                     /\ \E g : /\ Sets(f, g, {"clean"}) /\ g.clean = TRUE
                               /\ d = g \/ Terminated(g, d, "none")
                  \/ c.state = "closing" /\ c.clean = TRUE /\ d = f
  <2>1. PICK f : /\ Sets(c, f, {"rcode"}) /\ f.rcode = m.v
                 /\ \/ \E code, ack : ClosingWith(f, d, code, ack)
                    \/ \E g : /\ Sets(f, g, {"clean"}) /\ g.clean = TRUE
                              /\ d = g \/ Terminated(g, d, "none")
                    \/ d = f
    BY <1>4
  <2>2. Forwards(c, f) /\ Shuts(f)
    BY <2>1, <1>1, ForwardsMute
  <2>3. m.v \in Payload /\ f.state = c.state
    BY <2>1 DEF Items, Sets, Fields
  <2>4. ConInv(f)
    BY <2>1, <2>3, RcodeKeeps
  <2>5. Lists(f)
    BY <2>4 DEF ConInv
  <2>6. CASE \E code, ack : ClosingWith(f, d, code, ack)
    <3>1. Forwards(f, d) /\ Shuts(d)
      BY <1>4, <2>2, <2>3, <2>5, <2>6, ForwardsClosing
    <3>2. QED BY <3>1, <2>2, <2>5, <1>1, ForwardsChain
  <2>7. CASE \E g : /\ Sets(f, g, {"clean"}) /\ g.clean = TRUE
                    /\ d = g \/ Terminated(g, d, "none")
    <3>1. PICK g : /\ Sets(f, g, {"clean"}) /\ g.clean = TRUE
                   /\ d = g \/ Terminated(g, d, "none")
      BY <2>7
    <3>2. Forwards(f, g) /\ Shuts(g)
      BY <3>1, <2>2, <2>5, ForwardsMute
    <3>3. ConInv(g)
      BY <3>1, <2>4, CleanKeeps
    <3>4. Lists(g)
      BY <3>3 DEF ConInv
    <3>5. Forwards(c, g)
      BY <3>2, <3>4, <2>2, <2>5, <1>1, ForwardsChain
    <3>6. CASE Terminated(g, d, "none")
      <4>1. Forwards(g, d) /\ Shuts(d)
        BY <3>2, <3>3, <3>6, ForwardsTerminated
      <4>2. QED BY <4>1, <3>4, <3>5, <1>1, ForwardsChain
    <3>7. QED BY <3>1, <3>2, <3>5, <3>6
  <2>8. QED BY <2>1, <2>2, <2>6, <2>7
<1>5. QED BY <1>2, <1>3, <1>4 DEF Answers

LEMMA ForwardsTakes ==
  ASSUME NEW c, ConInv(c), NEW d, NEW m \in Items, Shuts(c), TakesOrStops(c, d, m), ConInv(d)
  PROVE  Forwards(c, d) /\ Shuts(d)
<1>1. Lists(c)
  BY DEF ConInv
<1>2. CASE Sets(c, d, {"got"}) \/ Sets(c, d, {})
  BY <1>1, <1>2, ForwardsMute
<1>3. CASE Answers(c, d, m)
  BY <1>3, ForwardsAnswers
<1>4. CASE c.state = "open" /\ ClosingWith(c, d, "protocol_error", FALSE)
  BY <1>1, <1>4, ForwardsClosing
<1>5. CASE Terminated(c, d, "invalid_state")
  BY <1>5, ForwardsTerminated
<1>6. CASE d = c
  BY <1>1, <1>6, ForwardsSame
<1>7. QED BY <1>2, <1>3, <1>4, <1>5, <1>6 DEF TakesOrStops, Takes

LEMMA ForwardsRuns ==
  ASSUME NEW k, NEW c, NEW items \in Seq(Items), Shuts(c), Runs(k, c, items)
  PROVE  Forwards(c, k[Len(items)]) /\ Shuts(k[Len(items)])
<1> DEFINE N == Len(items)
           P == {i \in Nat : i <= N => Forwards(c, k[i]) /\ Shuts(k[i])}
<1>1. N \in Nat /\ \A i \in 1 .. N : items[i] \in Items
  OBVIOUS
<1>2. k[0] = c /\ \A i \in 0 .. N : ConInv(k[i]) /\ Lists(k[i])
  BY DEF Runs, ConInv
<1>3. \A i \in 1 .. N : TakesOrStops(k[i - 1], k[i], items[i])
  BY DEF Runs
<1> HIDE DEF N
<1>4. ConInv(c) /\ Lists(c)
  BY <1>1, <1>2
<1>5. 0 \in P
  BY <1>2, <1>4, ForwardsSame
<1>6. ASSUME NEW i \in Nat, i \in P PROVE i + 1 \in P
  <2>1. SUFFICES ASSUME i + 1 <= N PROVE Forwards(c, k[i + 1]) /\ Shuts(k[i + 1])
    OBVIOUS
  <2>2. Forwards(c, k[i]) /\ Shuts(k[i])
    BY <2>1, <1>1, <1>6
  <2>3. ConInv(k[i]) /\ ConInv(k[i + 1]) /\ Lists(k[i]) /\ Lists(k[i + 1])
    BY <2>1, <1>1, <1>2
  <2>4. TakesOrStops(k[i], k[i + 1], items[i + 1]) /\ items[i + 1] \in Items
    BY <2>1, <1>1, <1>3
  <2>5. Forwards(k[i], k[i + 1]) /\ Shuts(k[i + 1])
    BY <2>2, <2>3, <2>4, ForwardsTakes
  <2>6. QED BY <2>2, <2>3, <2>5, <1>4, ForwardsChain
<1>7. Nat \subseteq P
  <2> HIDE DEF P
  <2>1. QED BY <1>5, <1>6, InductionOver
<1>8. QED BY <1>1, <1>7 DEF N

LEMMA ForwardsReadsFrames ==
  ASSUME NEW c, ConInv(c), NEW d, Lists(d), NEW r, NEW items \in Seq(Items), Shuts(c), ReadsFrames(c, d, r, items)
  PROVE  Forwards(c, d) /\ Shuts(d)
<1>1. Lists(c)
  BY DEF ConInv
<1>2. CASE \E k : /\ Runs(k, c, items)
                  /\ \/ d = k[Len(items)]
                     \/ Sets(k[Len(items)], d, {"reads"})
  <2>1. PICK k : /\ Runs(k, c, items)
                 /\ \/ d = k[Len(items)]
                    \/ Sets(k[Len(items)], d, {"reads"})
    BY <1>2
  <2>2. Forwards(c, k[Len(items)]) /\ Shuts(k[Len(items)])
    BY <2>1, ForwardsRuns
  <2>3. Lists(k[Len(items)])
    <3>1. Len(items) \in 0 .. Len(items)
      OBVIOUS
    <3>2. QED BY <3>1, <2>1 DEF Runs, ConInv
  <2>4. CASE Sets(k[Len(items)], d, {"reads"})
    <3>1. Forwards(k[Len(items)], d) /\ Shuts(d)
      BY <2>2, <2>3, <2>4, ForwardsMute
    <3>2. QED BY <3>1, <2>2, <2>3, <1>1, ForwardsChain
  <2>5. QED BY <2>1, <2>2, <2>4
<1>3. CASE d = c
  BY <1>1, <1>3, ForwardsSame
<1>4. CASE \E ec : Terminated(c, d, ec)
  BY <1>4, ForwardsTerminated
<1>5. QED BY <1>2, <1>3, <1>4 DEF ReadsFrames

LEMMA ForwardsLike ==
  ASSUME NEW c, NEW d, Lists(c), d.is_server = c.is_server, d.istate \notin Answering => c.istate \notin Answering,
         d.is_server = TRUE /\ Spoken(d) => Spoken(c), Unsent(d) = Unsent(c), d.queue = c.queue, d.sent = c.sent,
         d.shut = c.shut
  PROVE  Forwards(c, d)
<1>1. Begins(c.sent, d.sent)
  BY BeginsAppend DEF Lists, Begins
<1>2. \A n : Departing(c, n) <=> Departing(d, n)
  BY DEF Departing
<1>3. QED BY <1>1, <1>2 DEF Forwards

LEMMA TerminatedShuts ==
  ASSUME NEW c, NEW d, NEW ec, c.state \in States, Shuts(c), Terminated(c, d, ec)
  PROVE  /\ d.shut = TRUE /\ d.state = "closed" /\ Shuts(d)
         /\ d.is_server = c.is_server /\ d.istate = c.istate /\ d.writes = c.writes /\ d.sent = c.sent
<1>1. /\ d.is_server = c.is_server /\ d.istate = c.istate /\ d.writes = c.writes /\ d.sent = c.sent
      /\ d.state = "closed"
  BY DEF Terminated, Sets, Fields
<1>2. c.state \in {"connecting", "open", "closing", "closed"}
  BY DEF States
<1>3. d.shut = TRUE
  BY <1>2 DEF Terminated, Shuts
<1>4. QED BY <1>1, <1>3 DEF Shuts

\* A request or a response is written.
LEMMA ForwardsWriting ==
  ASSUME NEW c, NEW d, NEW h, NEW x \in Items, Lists(c), x.k # "data", c.writes = <<>>, d.writes = WriteOp(h, x),
         ~Up(d), d.is_server = c.is_server, d.istate \notin Answering => c.istate \notin Answering,
         d.queue = c.queue, d.sent = c.sent, d.shut = c.shut
  PROVE  Forwards(c, d)
<1>1. Begins(c.sent, d.sent) /\ c.sent \in Seq(Payload)
  BY BeginsAppend DEF Lists, Begins
<1>2. d.writes # <<>> /\ d.writes[1].items = <<x>> /\ d.writes[1].r = "pending"
  BY DEF WriteOp
<1>3. Unsent(c) = <<>> /\ Unsent(d) = <<x>> /\ ~Spoken(d)
  BY <1>2 DEF Unsent, Spoken
<1>4. ASSUME NEW n, Departing(c, n), d.shut = FALSE
      PROVE \E n1 \in Nat : Carries(Unsent(d), n, n1, d.sent) /\ Carries(d.queue, n1, Len(d.sent), d.sent)
  <2>1. PICK n1 \in Nat : Carries(<<>>, n, n1, c.sent) /\ Carries(c.queue, n1, Len(c.sent), c.sent)
    BY <1>3, <1>4 DEF Departing
  <2>2. <<>> \in Seq(Items)
    OBVIOUS
  <2>3. n = n1
    BY <2>1, <2>2, CarriesNothing
  <2>4. Carries(<<x>>, n, n1, c.sent)
    BY <2>3, CarriesOne
  <2>5. QED BY <1>3, <2>1, <2>4
<1>5. \A n : Departing(c, n) => Departing(d, n)
  BY <1>4 DEF Departing
<1>6. QED BY <1>1, <1>3, <1>5 DEF Forwards

LEMMA RespondsReply ==
  ASSUME NEW c, NEW d, Responds(c, d)
  PROVE  /\ d.writes # <<>> /\ d.writes[1].items # <<>> /\ Reply(d.writes[1].items)
         /\ \E x \in Items : x.k = "response" /\ d.writes = WriteOp("response", x)
<1>1. PICK s \in Statuses : d.writes = WriteOp("response", Item("response", s))
  BY DEF Responds
<1> DEFINE x == Item("response", s)
<1>2. x \in Items /\ x.k = "response" /\ x.v = s /\ s # "partial"
  BY ResponseItem DEF Item, Statuses
<1> HIDE DEF x
<1>3. d.writes = WriteOp("response", x)
  BY <1>1 DEF x
<1>4. d.writes # <<>> /\ d.writes[1].items = <<x>>
  BY <1>3 DEF WriteOp
<1>5. d.writes[1].items # <<>> /\ d.writes[1].items[1] = x
  BY <1>4
<1>6. Reply(d.writes[1].items)
  BY <1>2, <1>5 DEF Reply
<1>7. \E y \in Items : y.k = "response" /\ d.writes = WriteOp("response", y)
  BY <1>2, <1>3
<1>8. QED BY <1>4, <1>5, <1>6, <1>7

LEMMA ForwardsResponds ==
  ASSUME NEW c, NEW d, Lists(c), Shuts(c), c.writes = <<>>, ~Up(c), Responds(c, d)
  PROVE  Forwards(c, d) /\ Shuts(d)
<1>1. PICK x \in Items : x.k = "response" /\ d.writes = WriteOp("response", x)
  BY RespondsReply
<1>2. /\ d.is_server = c.is_server /\ d.istate = c.istate /\ d.queue = c.queue /\ d.sent = c.sent
      /\ d.shut = c.shut /\ d.state = c.state
  BY DEF Responds, Sets, Fields
<1>3. ~Up(d)
  BY <1>2 DEF Up
<1>4. Forwards(c, d)
  BY <1>1, <1>2, <1>3, ForwardsWriting
<1>5. QED BY <1>2, <1>4 DEF Shuts

LEMMA ForwardsWritesFrames ==
  ASSUME NEW c, Lists(c), NEW d, Shuts(c), Up(c), WritesFrames(c, d)
  PROVE  Forwards(c, d) /\ Shuts(d)
<1>1. CASE Sets(c, d, {"posted"})
  BY <1>1, ForwardsMute
<1>2. CASE /\ c.writes = <<>> /\ Sets(c, d, {"posted", "queue", "current", "wflag", "writes"})
           /\ \E n \in 1 .. Len(c.queue) :
                /\ d.queue = SubSeq(c.queue, n + 1, Len(c.queue))
                /\ d.current = SubSeq(c.queue, 1, n)
                /\ d.writes = <<[h |-> "frames", items |-> SubSeq(c.queue, 1, n), r |-> "pending"]>>
  <2>1. PICK n \in 1 .. Len(c.queue) :
                /\ d.queue = SubSeq(c.queue, n + 1, Len(c.queue))
                /\ d.writes = <<[h |-> "frames", items |-> SubSeq(c.queue, 1, n), r |-> "pending"]>>
    BY <1>2
  <2>2. c.queue \in Seq(Items) /\ Begins(c.sent, c.sent)
    BY BeginsAppend DEF Lists, Begins
  <2>3. /\ d.is_server = c.is_server /\ d.istate = c.istate /\ d.sent = c.sent
        /\ d.shut = c.shut /\ d.state = c.state
    BY <1>2 DEF Sets, Fields
  <2>4. d.writes # <<>> /\ d.writes[1].items = SubSeq(c.queue, 1, n) /\ d.writes[1].r = "pending"
    BY <2>1
  <2>5. Unsent(c) = <<>> /\ Unsent(d) = SubSeq(c.queue, 1, n)
    BY <1>2, <2>4 DEF Unsent
  <2>6. ASSUME NEW m, Departing(c, m), d.shut = FALSE
        PROVE \E n1 \in Nat : Carries(Unsent(d), m, n1, d.sent) /\ Carries(d.queue, n1, Len(d.sent), d.sent)
    <3>1. PICK n1 \in Nat : Carries(<<>>, m, n1, c.sent) /\ Carries(c.queue, n1, Len(c.sent), c.sent)
      BY <2>3, <2>5, <2>6 DEF Departing
    <3>2. <<>> \in Seq(Items) /\ n \in 0 .. Len(c.queue)
      BY <2>1, <2>2
    <3>3. m = n1
      BY <3>1, <3>2, CarriesNothing
    <3>4. \E b \in Nat : Carries(SubSeq(c.queue, 1, n), m, b, c.sent)
                         /\ Carries(SubSeq(c.queue, n + 1, Len(c.queue)), b, Len(c.sent), c.sent)
      BY <3>1, <3>2, <3>3, <2>2, CarriesParts
    <3>5. QED BY <3>4, <2>1, <2>3, <2>5
  <2>7. \A m : Departing(c, m) => Departing(d, m)
    BY <2>6 DEF Departing
  <2>8. QED BY <2>2, <2>3, <2>7 DEF Forwards, Spoken, Up, Shuts
<1>3. QED BY <1>1, <1>2 DEF WritesFrames

LEMMA ForwardsPushes ==
  ASSUME NEW c, Lists(c), NEW d, Lists(d), Shuts(c), Up(c), Pushes(c, d)
  PROVE  Forwards(c, d) /\ Shuts(d)
<1>1. PICK f : /\ Sets(c, f, {"call", "sent", "live"})
               /\ \/ \E v \in Payload : f.sent = Append(c.sent, v) /\ Pushed(f, d, Item("data", v))
                  \/ f.sent = c.sent /\ \E k \in {"ping", "pong"} : Pushed(f, d, Item(k, ""))
  BY DEF Pushes
<1>2. /\ f.is_server = c.is_server /\ f.istate = c.istate /\ f.queue = c.queue /\ f.writes = c.writes
      /\ f.shut = c.shut /\ f.state = c.state
  BY <1>1 DEF Sets, Fields
<1>3. ASSUME NEW m, Pushed(f, d, m)
      PROVE  /\ d.is_server = c.is_server /\ d.istate = c.istate /\ d.queue = Append(c.queue, m)
             /\ d.writes = c.writes /\ d.shut = c.shut /\ d.state = c.state /\ d.sent = f.sent
  BY <1>2, <1>3 DEF Pushed, Sets, Fields
<1>4. "" \in Payload /\ {"data", "ping", "pong"} \subseteq Kinds
  BY Strings DEF Values, Kinds
<1>5. CASE f.sent = c.sent /\ \E k \in {"ping", "pong"} : Pushed(f, d, Item(k, ""))
  <2>1. PICK k \in {"ping", "pong"} : Pushed(f, d, Item(k, ""))
    BY <1>5
  <2>2. Item(k, "") \in Items
    BY <1>4, ItemIn
  <2>3. Item(k, "").k # "data"
    BY DEF Item
  <2>4. Forwards(c, d)
    BY <2>1, <2>2, <2>3, <1>3, <1>5, ForwardsQueued
  <2>5. QED BY <2>1, <2>4, <1>3 DEF Shuts
<1>6. CASE \E v \in Payload : f.sent = Append(c.sent, v) /\ Pushed(f, d, Item("data", v))
  <2>1. PICK v \in Payload : f.sent = Append(c.sent, v) /\ Pushed(f, d, Item("data", v))
    BY <1>6
  <2> DEFINE m == Item("data", v)
  <2>2. m \in Items /\ m.k = "data" /\ m.v = v
    BY <1>4, ItemIn DEF Item
  <2> HIDE DEF m
  <2>3. /\ d.is_server = c.is_server /\ d.istate = c.istate /\ d.queue = Append(c.queue, m)
        /\ d.writes = c.writes /\ d.shut = c.shut /\ d.state = c.state /\ d.sent = Append(c.sent, v)
    BY <2>1, <1>3 DEF m
  <2>4. c.sent \in Seq(Payload) /\ c.queue \in Seq(Items) /\ c.writes \in Seq(WriteOps) /\ Len(c.sent) \in Nat
    BY DEF Lists
  <2>5. /\ Begins(c.sent, d.sent) /\ d.sent \in Seq(Payload)
        /\ Len(d.sent) = Len(c.sent) + 1 /\ d.sent[Len(c.sent) + 1] = v
    BY <2>3, <2>4, BeginsAppend
  <2>6. ASSUME NEW n, Departing(c, n), d.shut = FALSE
        PROVE \E n1 \in Nat : Carries(Unsent(d), n, n1, d.sent) /\ Carries(d.queue, n1, Len(d.sent), d.sent)
    <3>1. PICK n1 \in Nat : Carries(Unsent(c), n, n1, c.sent) /\ Carries(c.queue, n1, Len(c.sent), c.sent)
      BY <2>3, <2>6 DEF Departing
    <3>2. Unsent(d) = Unsent(c) /\ Unsent(c) \in Seq(Items)
      <4>1. Unsent(d) = Unsent(c)
        BY <2>3 DEF Unsent
      <4>2. c.writes # <<>> => c.writes[1] \in WriteOps
        BY <2>4
      <4>3. QED BY <4>1, <4>2 DEF Unsent, WriteOps
    <3>3. n1 <= Len(c.sent)
      BY <3>1, <2>4, CarriesNothing
    <3>4. Carries(Unsent(d), n, n1, d.sent)
      BY <3>1, <3>2, <3>3, <2>4, <2>5, CarriesMore
    <3>5. Carries(c.queue, n1, Len(c.sent), d.sent)
      BY <3>1, <2>4, <2>5, CarriesMore
    <3>6. Carries(<<m>>, Len(c.sent), Len(c.sent) + 1, d.sent)
      BY <2>2, <2>4, <2>5, CarriesOne
    <3>7. <<m>> \in Seq(Items) /\ d.queue = c.queue \o <<m>>
      BY <2>2, <2>3, <2>4, AppendIs
    <3>8. Carries(d.queue, n1, Len(d.sent), d.sent)
      BY <3>5, <3>6, <3>7, <2>4, <2>5, CarriesBoth
    <3>9. QED BY <3>4, <3>8
  <2>7. \A n : Departing(c, n) => Departing(d, n)
    BY <2>6 DEF Departing
  <2>8. QED BY <2>3, <2>5, <2>7 DEF Forwards, Spoken, Up, Shuts
<1>7. QED BY <1>1, <1>5, <1>6

LEMMA ForwardsReadEnds ==
  ASSUME NEW c, ConInv(c), Own(c), NEW d, ConInv(d), ReadEnds(c, d)
  PROVE  Forwards(c, d) /\ Shuts(d)
<1>1. PICK f : /\ ReadTaken(c, f)
               /\ \/ c.istate = "READ_HTTP_REQUEST" /\ RequestRead(f, d, c.reads[1].r, c.buf)
                  \/ c.istate = "READ_HTTP_RESPONSE" /\ ResponseRead(f, d, c.reads[1].r, c.buf)
                  \/ Up(c) /\ ReadsFrames(f, d, c.reads[1].r, c.buf)
  BY DEF ReadEnds
<1>2. ConInv(f) /\ f.istate = c.istate /\ (~Up(c) => f.reads = <<>>)
  BY <1>1, ReadTakenKeeps
<1>3. Lists(c) /\ Lists(f) /\ Lists(d) /\ Shuts(c) /\ c.buf \in Seq(Items)
  BY <1>2 DEF ConInv, Own, Shuts, Lists
<1>4. Sets(c, f, {"reads", "buf"})
  BY <1>1 DEF ReadTaken
<1>5. Forwards(c, f) /\ Shuts(f) /\ f.is_server = c.is_server
  <2>1. f.is_server = c.is_server
    BY <1>4 DEF Sets, Fields
  <2>2. QED BY <1>3, <1>4, <2>1, ForwardsMute
<1>6. SUFFICES Forwards(f, d) /\ Shuts(d)
  BY <1>3, <1>5, ForwardsChain
<1>7. CASE c.istate = "READ_HTTP_REQUEST" /\ RequestRead(f, d, c.reads[1].r, c.buf)
  <2>1. CASE /\ Parsed(c.buf) # <<>>
             /\ \E g : \E rest \in {f.rest, Tail(Parsed(c.buf))} :
                   Asked(f, g, rest) /\ (d = g \/ (\E ec : Terminated(g, d, ec)) \/ Responds(g, d))
    <3>1. PICK g, rest :
                   /\ rest \in {f.rest, Tail(Parsed(c.buf))}
                   /\ Asked(f, g, rest) /\ (d = g \/ (\E ec : Terminated(g, d, ec)) \/ Responds(g, d))
      BY <2>1
    <3>2. rest \in Seq(Items)
      BY <3>1, <2>1, <1>3, CodesOfParsed DEF Lists
    <3>3. ConInv(g) /\ g.writes = <<>> /\ g.istate = "PROCESS_HTTP_REQUEST"
      BY <3>1, <3>2, <1>2, <1>7, AskedKeeps DEF Up
    <3>4. Lists(g) /\ ~Up(g)
      BY <3>3 DEF ConInv, Up
    <3>5. /\ g.is_server = f.is_server /\ g.writes = f.writes /\ g.queue = f.queue /\ g.sent = f.sent
          /\ g.shut = f.shut /\ g.state = f.state
      BY <3>1 DEF Asked, Sets, Fields
    <3>6. Forwards(f, g) /\ Shuts(g)
      <4>1. Unsent(g) = Unsent(f) /\ ~Spoken(g)
        BY <3>3, <3>4, <3>5 DEF Unsent, Spoken
      <4>2. g.istate \in Answering
        BY <3>3 DEF Answering
      <4>3. Forwards(f, g)
        BY <4>1, <4>2, <3>5, <1>3, ForwardsLike
      <4>4. QED BY <4>3, <3>5, <1>5 DEF Shuts
    <3>7. d = g \/ (Forwards(g, d) /\ Shuts(d))
      BY <3>1, <3>3, <3>4, <3>6, ForwardsTerminated, ForwardsResponds
    <3>8. QED BY <3>4, <3>6, <3>7, <1>3, ForwardsChain
  <2>2. CASE d = f \/ Sets(f, d, {"reads"})
    BY <2>2, <1>3, <1>5, ForwardsSame, ForwardsMute
  <2>3. CASE \E ec : Terminated(f, d, ec)
    BY <2>3, <1>2, <1>5, ForwardsTerminated
  <2>4. QED BY <1>7, <2>1, <2>2, <2>3 DEF RequestRead
<1>8. CASE c.istate = "READ_HTTP_RESPONSE" /\ ResponseRead(f, d, c.reads[1].r, c.buf)
  <2>1. f.is_server = FALSE /\ f.writes = <<>> /\ ~Up(f) /\ f.http # "deferred" /\ f.reads = <<>>
    <3>1. f.is_server = FALSE
      BY <1>5, <1>8 DEF Own
    <3>2. QED BY <3>1, <1>2, <1>8, NoneUnderWay DEF Writing, Up, ConInv, Phased
  <2>2. CASE \E g : Parsed(c.buf) # <<>> /\ Opened(f, g, f.rest) /\ ReadsFrames(g, d, "ok", Tail(Parsed(c.buf)))
    <3>1. PICK g : Parsed(c.buf) # <<>> /\ Opened(f, g, f.rest) /\ ReadsFrames(g, d, "ok", Tail(Parsed(c.buf)))
      BY <2>2
    <3>2. f.rest \in Seq(Items) /\ Tail(Parsed(c.buf)) \in Seq(Items)
      BY <3>1, <1>3, CodesOfParsed DEF Lists
    <3>3. ConInv(g)
      BY <3>1, <3>2, <2>1, <1>2, OpenedKeeps
    <3>4. /\ g.is_server = f.is_server /\ g.writes = f.writes /\ g.queue = f.queue /\ g.sent = f.sent
          /\ g.shut = f.shut /\ g.state = "open" /\ f.state = "connecting" /\ g.istate \in Answering
      BY <3>1 DEF Opened, Sets, Fields, Answering
    <3>5. Forwards(f, g) /\ Shuts(g)
      <4>1. Unsent(g) = Unsent(f)
        BY <3>4 DEF Unsent
      <4>2. Forwards(f, g)
        BY <4>1, <3>4, <2>1, <1>3, ForwardsLike
      <4>3. QED BY <4>2, <3>4, <1>5 DEF Shuts
    <3>6. Lists(g)
      BY <3>3 DEF ConInv
    <3>7. Forwards(g, d) /\ Shuts(d)
      BY <3>1, <3>2, <3>3, <3>5, <1>3, ForwardsReadsFrames
    <3>8. QED BY <3>5, <3>6, <3>7, <1>3, ForwardsChain
  <2>3. CASE \E g, ec : Sets(f, g, {"timer", "live", "ec"}) /\ Terminated(g, d, ec)
    <3>1. PICK g, ec : Sets(f, g, {"timer", "live", "ec"}) /\ Terminated(g, d, ec)
      BY <2>3
    <3>2. Forwards(f, g) /\ Shuts(g)
      BY <3>1, <1>3, <1>5, ForwardsMute
    <3>3. ConInv(g)
      <4>1. Sets(f, g, {"timer", "live", "due", "ec", "lcode", "report"})
        BY <3>1, SetsMore
      <4>2. QED BY <4>1, <1>2, QuietKeeps
    <3>4. Lists(g)
      BY <3>3 DEF ConInv
    <3>5. Forwards(g, d) /\ Shuts(d)
      BY <3>1, <3>2, <3>3, ForwardsTerminated
    <3>6. QED BY <3>2, <3>4, <3>5, <1>3, ForwardsChain
  <2>4. CASE d = f \/ Sets(f, d, {"reads"})
    BY <2>4, <1>3, <1>5, ForwardsSame, ForwardsMute
  <2>5. QED BY <1>8, <2>2, <2>3, <2>4 DEF ResponseRead
<1>9. CASE ReadsFrames(f, d, c.reads[1].r, c.buf)
  BY <1>9, <1>2, <1>3, <1>5, ForwardsReadsFrames
<1>10. QED BY <1>1, <1>7, <1>8, <1>9

\* The server once its response is written, before it reads what came with
\* the request.
LEMMA OpenedByResponse ==
  ASSUME NEW c, ConInv(c), NEW f, NEW g, c.istate = "PROCESS_HTTP_REQUEST", c.writes # <<>>,
         Sets(c, f, {"writes"}), f.writes = <<>>, Opened(f, g, <<>>)
  PROVE  ConInv(g) /\ Up(g) /\ f.rest \in Seq(Items) /\ ConInv(f)
<1>1. ~Up(c) /\ c.http # "deferred" /\ c.reads = <<>>
  BY NoneUnderWay DEF Up, ConInv, Phased, Reading
<1>2. f.istate = c.istate /\ f.http = c.http /\ f.reads = c.reads
  BY DEF Sets, Fields
<1>3. ConInv(f)
  BY <1>1, WriteLeaves
<1>4. ~Up(f) /\ <<>> \in Seq(Items)
  BY <1>1, <1>2 DEF Up
<1>5. ConInv(g) /\ Up(g)
  BY <1>1, <1>2, <1>3, <1>4, OpenedKeeps
<1>6. QED BY <1>3, <1>5 DEF ConInv, Lists

LEMMA ForwardsWriteEnds ==
  ASSUME NEW c, ConInv(c), Own(c), NEW d, ConInv(d), WriteEnds(c, d)
  PROVE  Forwards(c, d) /\ Shuts(d)
<1>1. Lists(c) /\ Lists(d) /\ Shuts(c) /\ c.state \in States /\ c.rest \in Seq(Items)
  BY DEF ConInv, Own, Shuts, Lists, Flags
<1>2. c.writes # <<>> /\ c.writes[1].r # "pending"
  BY DEF WriteEnds
<1>3. ASSUME NEW f, NEW ch, Sets(c, f, ch), ch \subseteq {"writes", "current", "timer", "live", "ec"}, f.writes = <<>>
      PROVE  /\ f.is_server = c.is_server /\ f.istate = c.istate /\ f.queue = c.queue /\ f.sent = c.sent
             /\ f.shut = c.shut /\ f.state = c.state /\ Shuts(f) /\ (Spoken(f) => Spoken(c))
  <2>1. /\ f.is_server = c.is_server /\ f.istate = c.istate /\ f.queue = c.queue /\ f.sent = c.sent
        /\ f.shut = c.shut /\ f.state = c.state
    BY <1>3 DEF Sets, Fields
  <2>2. QED BY <2>1, <1>1, <1>3 DEF Shuts, Spoken, Up
<1>4. ASSUME NEW f, NEW ch, Sets(c, f, ch), ch \subseteq {"writes", "current", "timer", "live", "ec"}, f.writes = <<>>,
             NEW ec, Terminated(f, d, ec)
      PROVE  Forwards(c, d) /\ Shuts(d)
  <2>1. /\ f.is_server = c.is_server /\ f.istate = c.istate /\ f.sent = c.sent
        /\ f.state = c.state /\ Shuts(f) /\ (Spoken(f) => Spoken(c))
    BY <1>3, <1>4
  <2>2. /\ d.shut = TRUE /\ Shuts(d) /\ d.is_server = f.is_server /\ d.istate = f.istate
        /\ d.writes = f.writes /\ d.sent = f.sent
    BY <2>1, <1>1, <1>4, TerminatedShuts
  <2>3. Spoken(d) => Spoken(c)
    BY <2>1, <2>2 DEF Spoken, Up
  <2>4. QED BY <2>1, <2>2, <2>3, <1>1, ForwardsShut
<1>5. ASSUME NEW f, NEW ch, Sets(c, f, ch), ch \subseteq {"writes", "current"}, f.writes = <<>>,
             c.writes[1].r = "ok" \/ c.shut = TRUE
      PROVE  Forwards(c, f) /\ Shuts(f)
  <2>1. /\ f.is_server = c.is_server /\ f.istate = c.istate /\ f.sent = c.sent /\ f.queue = c.queue
        /\ f.shut = c.shut /\ Shuts(f) /\ (Spoken(f) => Spoken(c))
    BY <1>3, <1>5
  <2>2. CASE c.writes[1].r = "ok"
    <3>1. Unsent(f) = Unsent(c)
      BY <2>2, <1>5 DEF Unsent
    <3>2. QED BY <3>1, <2>1, <1>1, ForwardsLike
  <2>3. CASE c.shut = TRUE
    BY <2>1, <2>3, <1>1, ForwardsShut
  <2>4. QED BY <2>2, <2>3, <1>5
<1>6. CASE FramesWritten(c, d)
  <2>1. PICK g : /\ Sets(c, g, {"writes", "current"}) /\ g.writes = <<>> /\ g.current = <<>>
                 /\ (\E ec : Terminated(g, d, ec)) \/ (c.writes[1].r = "ok" /\ Sets(g, d, {"wflag", "posted"}))
    BY <1>6 DEF FramesWritten
  <2>2. CASE \E ec : Terminated(g, d, ec)
    BY <2>1, <2>2, <1>4
  <2>3. CASE c.writes[1].r = "ok" /\ Sets(g, d, {"wflag", "posted"})
    <3>1. Forwards(c, g) /\ Shuts(g)
      BY <2>1, <2>3, <1>5
    <3>2. Lists(g)
      <4>1. g.queue = c.queue /\ g.rest = c.rest /\ g.buf = c.buf /\ g.reads = c.reads /\ g.got = c.got /\ g.sent = c.sent
        BY <2>1 DEF Sets, Fields
      <4>2. QED BY <4>1, <2>1, <1>1 DEF Lists
    <3>3. Forwards(g, d) /\ Shuts(d)
      BY <2>3, <3>1, <3>2, ForwardsMute
    <3>4. QED BY <3>1, <3>2, <3>3, <1>1, ForwardsChain
  <2>4. QED BY <2>1, <2>2, <2>3
<1>7. CASE \E f : /\ Sets(c, f, {"writes"}) /\ f.writes = <<>>
                  /\ \/ c.istate = "PROCESS_HTTP_REQUEST" /\ Responded(f, d, c.writes[1].r)
                     \/ c.istate = "WRITE_HTTP_REQUEST" /\ Requested(f, d, c.writes[1].r)
  <2>1. PICK f : /\ Sets(c, f, {"writes"}) /\ f.writes = <<>>
                 /\ \/ c.istate = "PROCESS_HTTP_REQUEST" /\ Responded(f, d, c.writes[1].r)
                    \/ c.istate = "WRITE_HTTP_REQUEST" /\ Requested(f, d, c.writes[1].r)
    BY <1>7
  <2>2. /\ f.is_server = c.is_server /\ f.istate = c.istate /\ f.queue = c.queue /\ f.sent = c.sent
        /\ f.shut = c.shut /\ f.state = c.state /\ Shuts(f)
    BY <2>1, <1>3
  <2>3. CASE f.state = "closed" /\ d = f
    <3>1. c.shut = TRUE
      BY <2>2, <2>3, <1>1 DEF Shuts
    <3>2. QED BY <3>1, <2>1, <2>3, <1>5
  <2>4. CASE \E ec : Terminated(f, d, ec)
    BY <2>1, <2>4, <1>4
  <2>5. CASE \E g, ec : Sets(f, g, {"timer", "live", "ec"}) /\ Terminated(g, d, ec)
    <3>1. PICK g, ec : Sets(f, g, {"timer", "live", "ec"}) /\ Terminated(g, d, ec)
      BY <2>5
    <3>2. Sets(c, g, {"writes"} \union {"timer", "live", "ec"})
      BY <2>1, <3>1, SetsTwice
    <3>3. g.writes = <<>>
      BY <2>1, <3>1 DEF Sets, Fields
    <3>4. QED BY <3>1, <3>2, <3>3, <1>4
  <2>6. CASE /\ c.writes[1].r = "ok" /\ Sets(f, d, {"istate", "reads"}) /\ c.istate = "WRITE_HTTP_REQUEST"
             /\ d.istate = "READ_HTTP_RESPONSE"
    <3>1. /\ d.is_server = c.is_server /\ d.writes = <<>> /\ d.queue = c.queue /\ d.sent = c.sent
          /\ d.shut = c.shut /\ d.state = c.state
      BY <2>1, <2>2, <2>6 DEF Sets, Fields
    <3>2. Unsent(d) = Unsent(c) /\ ~Spoken(d)
      BY <3>1, <2>6 DEF Unsent, Spoken, Up
    <3>3. c.istate \notin Answering
      BY <2>6 DEF Answering
    <3>4. Forwards(c, d)
      BY <3>1, <3>2, <3>3, <1>1, ForwardsLike
    <3>5. QED BY <3>1, <3>4, <1>1 DEF Shuts
  <2>7. CASE /\ c.istate = "PROCESS_HTTP_REQUEST" /\ c.writes[1].r = "ok"
             /\ \E g : Opened(f, g, <<>>) /\ ReadsFrames(g, d, "ok", f.rest)
    <3>1. PICK g : Opened(f, g, <<>>) /\ ReadsFrames(g, d, "ok", f.rest)
      BY <2>7
    <3>2. /\ g.is_server = c.is_server /\ g.writes = <<>> /\ g.queue = c.queue /\ g.sent = c.sent
          /\ g.shut = c.shut /\ g.state = "open" /\ c.state = "connecting" /\ g.istate \in Answering
      BY <2>1, <2>2, <3>1 DEF Opened, Sets, Fields, Answering
    <3>3. ConInv(g) /\ f.rest \in Seq(Items)
      BY <2>1, <2>7, <3>1, <1>1, <1>2, OpenedByResponse
    <3>4. Lists(g)
      BY <3>3 DEF ConInv
    <3>5. Unsent(g) = Unsent(c) /\ Spoken(c)
      BY <3>2, <2>7, <1>2 DEF Unsent, Spoken
    <3>6. Forwards(c, g) /\ Shuts(g)
      <4>1. Forwards(c, g)
        BY <3>2, <3>5, <1>1, ForwardsLike
      <4>2. QED BY <4>1, <3>2, <1>1 DEF Shuts
    <3>7. Forwards(g, d) /\ Shuts(d)
      BY <3>1, <3>3, <3>6, <1>1, ForwardsReadsFrames
    <3>8. QED BY <3>4, <3>6, <3>7, <1>1, ForwardsChain
  <2>8. QED BY <2>1, <2>3, <2>4, <2>5, <2>6, <2>7 DEF Responded, Requested
<1>8. QED BY <1>6, <1>7 DEF WriteEnds

LEMMA ForwardsEffect ==
  ASSUME NEW c, ConInv(c), Own(c), NEW d, ConInv(d), NEW calls, Effect(c, d, calls), "resume" \notin calls
  PROVE  Forwards(c, d) /\ Shuts(d)
<1>1. Lists(c) /\ Lists(d) /\ Shuts(c) /\ c.state \in States
  BY DEF ConInv, Own, Shuts, Flags
<1>2. CASE c.istate = "TRANSPORT_INIT" /\ Initiated(c, d)
  <2>1. c.istate \notin Answering /\ c.writes = <<>> /\ ~Up(c)
    BY <1>2, NoneUnderWay DEF Answering, Writing, Up
  <2>2. CASE \E ec : Terminated(c, d, ec)
    BY <2>2, <1>1, ForwardsTerminated
  <2>3. CASE Sets(c, d, {"timer", "live", "istate", "reads"}) /\ d.istate = "READ_HTTP_REQUEST"
    <3>1. /\ d.is_server = c.is_server /\ d.writes = c.writes /\ d.queue = c.queue /\ d.sent = c.sent
          /\ d.shut = c.shut /\ d.state = c.state
      BY <2>3 DEF Sets, Fields
    <3>2. Unsent(d) = Unsent(c) /\ ~Spoken(d)
      BY <3>1, <2>1, <2>3 DEF Unsent, Spoken, Up
    <3>3. Forwards(c, d)
      BY <3>1, <3>2, <2>1, <1>1, ForwardsLike
    <3>4. QED BY <3>1, <3>3, <1>1 DEF Shuts
  <2>4. CASE /\ Sets(c, d, {"timer", "live", "istate", "writes"}) /\ d.istate = "WRITE_HTTP_REQUEST"
             /\ d.writes = WriteOp("request", Item("request", "ws"))
    <3> DEFINE x == Item("request", "ws")
    <3>1. x \in Items /\ x.k # "data"
      <4>1. "ws" \in Payload /\ "request" \in Kinds
        BY Strings DEF Kinds, Values, Requests
      <4>2. QED BY <4>1, ItemIn DEF Item
    <3> HIDE DEF x
    <3>2. /\ d.is_server = c.is_server /\ d.queue = c.queue /\ d.sent = c.sent
          /\ d.shut = c.shut /\ d.state = c.state
      BY <2>4 DEF Sets, Fields
    <3>3. d.writes = WriteOp("request", x) /\ ~Up(d)
      BY <2>4 DEF x, Up
    <3>4. Forwards(c, d)
      BY <3>1, <3>2, <3>3, <2>1, <1>1, ForwardsWriting
    <3>5. QED BY <3>2, <3>4, <1>1 DEF Shuts
  <2>5. QED BY <1>2, <2>2, <2>3, <2>4 DEF Initiated
<1>3. CASE Sets(c, d, {"live", "due"}) \/ Sets(c, d, {"call", "sends", "rflag", "closer"})
  BY <1>1, <1>3, ForwardsMute
<1>4. CASE TimesOut(c, d)
  <2>1. PICK f, ec : Sets(c, f, {"due"}) /\ Terminated(f, d, ec)
    BY <1>4 DEF TimesOut
  <2>2. Forwards(c, f) /\ Shuts(f)
    BY <2>1, <1>1, ForwardsMute
  <2>3. ConInv(f)
    <3>1. Sets(c, f, {"timer", "live", "due", "ec", "lcode", "report"})
      BY <2>1, SetsMore
    <3>2. QED BY <3>1, QuietKeeps
  <2>4. Lists(f)
    BY <2>3 DEF ConInv
  <2>5. Forwards(f, d) /\ Shuts(d)
    BY <2>1, <2>2, <2>3, ForwardsTerminated
  <2>6. QED BY <2>2, <2>4, <2>5, <1>1, ForwardsChain
<1>5. CASE Up(c) /\ Pushes(c, d)
  BY <1>1, <1>5, ForwardsPushes
<1>6. CASE c.state = "open" /\ \E code \in Codes : ClosingWith(c, d, code, FALSE)
  BY <1>1, <1>6, ForwardsClosing
<1>7. CASE RespondsLater(c, d)
  <2>1. PICK g : Sets(c, g, {"status", "http"}) /\ Responds(g, d)
    BY <1>7 DEF RespondsLater
  <2>2. c.istate = "PROCESS_HTTP_REQUEST" /\ c.writes = <<>>
    BY <1>7 DEF RespondsLater, ConInv, Phased
  <2>3. g.writes = <<>> /\ ~Up(g)
    BY <2>1, <2>2 DEF Sets, Fields, Up
  <2>4. Lists(g)
    BY <2>1, <1>1, ListsStay
  <2>5. Forwards(c, g) /\ Shuts(g)
    BY <2>1, <1>1, ForwardsMute
  <2>6. Forwards(g, d) /\ Shuts(d)
    BY <2>1, <2>3, <2>4, <2>5, ForwardsResponds
  <2>7. QED BY <2>4, <2>5, <2>6, <1>1, ForwardsChain
<1>8. CASE \E r : Received(c, d, r, c.buf)
  <2>1. Sets(c, d, {"reads", "buf"})
    BY <1>8 DEF Received
  <2>2. QED BY <2>1, <1>1, ForwardsMute
<1>9. CASE Transmitted(c, d, "error")
  <2>1. /\ d.is_server = c.is_server /\ d.istate = c.istate /\ d.queue = c.queue /\ d.sent = c.sent
        /\ d.shut = c.shut /\ d.state = c.state
    BY <1>9 DEF Transmitted, Sets, Fields
  <2>2. c.writes # <<>> /\ c.writes[1].r = "pending"
    BY <1>9 DEF Transmitted
  <2>3. d.writes # <<>> /\ d.writes[1].r = "error" /\ d.writes[1].items = c.writes[1].items
    BY <1>9, TransmittedItems
  <2>4. Unsent(d) = Unsent(c)
    BY <2>2, <2>3 DEF Unsent
  <2>5. Spoken(d) => Spoken(c)
    BY <2>1, <2>3 DEF Spoken, Up
  <2>6. Forwards(c, d)
    BY <2>1, <2>4, <2>5, <1>1, ForwardsLike
  <2>7. QED BY <2>1, <2>6, <1>1 DEF Shuts
<1>10. QED
  BY <1>1, <1>2, <1>3, <1>4, <1>5, <1>6, <1>7, <1>8, <1>9, ForwardsReadEnds, ForwardsWriteEnds, ForwardsWritesFrames
  DEF Effect

-----------------------------------------------------------------------------
(* The end that receives.                                                  *)
Ignores(c, d) ==
  /\ d.is_server = c.is_server /\ d.got = c.got /\ d.rest = c.rest /\ d.buf = c.buf
  /\ Live(d) => Live(c)
  /\ d.state = "connecting" => c.state = "connecting"
  /\ Up(d) => Up(c)

LEMMA IgnoresKeep ==
  ASSUME NEW c, NEW d, NEW o, NEW w, Ignores(c, d), Flows(c, o, w), Greeted(c, o, w)
  PROVE  Flows(d, o, w) /\ Greeted(d, o, w)
<1>1. \A n : Arriving(c, w, n, o.sent) <=> Arriving(d, w, n, o.sent)
  BY DEF Ignores, Arriving
<1>2. Flows(d, o, w)
  BY <1>1 DEF Ignores, Flows
<1>3. Greeted(d, o, w)
  BY DEF Ignores, Greeted
<1>4. QED BY <1>2, <1>3

LEMMA AnswersGets ==
  ASSUME NEW c, NEW d, NEW m, Answers(c, d, m)
  PROVE  d.got = c.got /\ (d.state = "open" => c.state = "open")
<1>1. ASSUME NEW f, NEW g, NEW ec, Terminated(f, g, ec) PROVE g.got = f.got /\ g.state = "closed"
  BY <1>1 DEF Terminated, Sets, Fields
<1>2. ASSUME NEW f, NEW g, NEW code, NEW ack, ClosingWith(f, g, code, ack) PROVE g.got = f.got /\ g.state = "closing"
  BY <1>2 DEF ClosingWith, Sets, Fields
<1>3. CASE Sets(c, d, {"live"})
  BY <1>3 DEF Sets, Fields
<1>4. CASE \E x \in Items : x.k = "pong" /\ Pushed(c, d, x)
  BY <1>4 DEF Pushed, Sets, Fields
<1>5. CASE /\ m.k = "close" /\ c.state \in {"open", "closing"}
           /\ \E f : /\ Sets(c, f, {"rcode"}) /\ f.rcode = m.v
               /\ \/ invalid(m.v) /\ ClosingWith(f, d, "protocol_error", TRUE)
                  \/ ~invalid(m.v) /\ c.state = "open" /\ ClosingWith(f, d, "blank", TRUE)
                  \/ /\ ~invalid(m.v) /\ c.state = "closing"
                     /\ \E g : /\ Sets(f, g, {"clean"}) /\ g.clean = TRUE
                               /\ d = g \/ Terminated(g, d, "none")
                  \/ c.state = "closing" /\ c.clean = TRUE /\ d = f
  <2>1. PICK f : /\ Sets(c, f, {"rcode"})
                 /\ \/ ClosingWith(f, d, "protocol_error", TRUE)
                    \/ ClosingWith(f, d, "blank", TRUE)
                    \/ \E g : Sets(f, g, {"clean"}) /\ (d = g \/ Terminated(g, d, "none"))
                    \/ d = f
    BY <1>5
  <2>2. f.got = c.got /\ f.state = c.state
    BY <2>1 DEF Sets, Fields
  <2>3. CASE \E g : Sets(f, g, {"clean"}) /\ (d = g \/ Terminated(g, d, "none"))
    <3>1. PICK g : Sets(f, g, {"clean"}) /\ (d = g \/ Terminated(g, d, "none"))
      BY <2>3
    <3>2. g.got = f.got /\ g.state = f.state
      BY <3>1 DEF Sets, Fields
    <3>3. QED BY <3>1, <3>2, <2>2, <1>1
  <2>4. QED BY <2>1, <2>2, <2>3, <1>2
<1>6. QED BY <1>3, <1>4, <1>5 DEF Answers

LEMMA TakesGets ==
  ASSUME NEW c, NEW d, NEW m, TakesOrStops(c, d, m)
  PROVE  \/ m.k = "data" /\ c.state = "open" /\ d.got = Append(c.got, m.v) /\ d.state = "open"
         \/ d.got = c.got /\ (d.state = "open" => c.state = "open" /\ m.k # "data")
<1>1. CASE m.k = "data" /\ c.state = "open" /\ Sets(c, d, {"got"}) /\ d.got = Append(c.got, m.v)
  BY <1>1 DEF Sets, Fields
<1>2. CASE m.k = "data" /\ c.state # "open" /\ Sets(c, d, {})
  BY <1>2 DEF Sets, Fields
<1>3. CASE m.k \in {"ping", "pong", "close"} /\ Answers(c, d, m)
  BY <1>3, AnswersGets
<1>4. CASE ClosingWith(c, d, "protocol_error", FALSE)
  BY <1>4 DEF ClosingWith, Sets, Fields
<1>5. CASE Terminated(c, d, "invalid_state")
  BY <1>5 DEF Terminated, Sets, Fields
<1>6. CASE c.state # "open" /\ d = c
  BY <1>6
<1>7. QED BY <1>1, <1>2, <1>3, <1>4, <1>5, <1>6 DEF TakesOrStops, Takes

\* The messages of a batch reach the application as long as the connection
\* is open, each after those before it.
LEMMA RunsGets ==
  ASSUME NEW k, NEW c, NEW items \in Seq(Items), Runs(k, c, items), NEW sent \in Seq(Payload), Begins(c.got, sent),
         NEW m \in Nat, c.state = "open" => Carries(items, Len(c.got), m, sent), m <= Len(sent)
  PROVE  /\ Begins(k[Len(items)].got, sent)
         /\ k[Len(items)].state = "open" => c.state = "open" /\ Len(k[Len(items)].got) = m
<1> DEFINE N == Len(items)
<1>1. PICK h : c.state = "open" => Counts(items, h, Len(c.got), m, sent)
  BY DEF Carries
<1> DEFINE Q(i) == /\ Begins(k[i].got, sent)
                   /\ k[i].state = "open" => c.state = "open" /\ Len(k[i].got) = h[i]
           P == {i \in Nat : i <= N => Q(i)}
<1>2. N \in Nat /\ \A i \in 1 .. N : items[i] \in Items
  OBVIOUS
<1>3. k[0] = c /\ \A i \in 0 .. N : k[i].got \in Seq(Payload)
  BY DEF Runs, ConInv, Lists
<1>4. \A i \in 1 .. N : TakesOrStops(k[i - 1], k[i], items[i])
  BY DEF Runs
<1>5. c.state = "open" =>
        /\ h[0] = Len(c.got) /\ h[N] = m
        /\ \A i, j \in 0 .. N : h[i] \in Nat /\ (i <= j => h[i] <= h[j])
        /\ \A i \in 1 .. N : items[i].k = "data" => h[i] = h[i - 1] + 1 /\ items[i].v = sent[h[i]]
        /\ \A i \in 1 .. N : items[i].k # "data" => h[i] = h[i - 1]
  BY <1>1 DEF Counts
<1> HIDE DEF N
<1>6. 0 \in P
  BY <1>3, <1>5
<1>7. ASSUME NEW i \in Nat, i \in P PROVE i + 1 \in P
  <2>1. SUFFICES ASSUME i + 1 <= N PROVE Q(i + 1)
    OBVIOUS
  <2> DEFINE a == k[i]
             b == k[i + 1]
             x == items[i + 1]
  <2>2. Begins(a.got, sent) /\ (a.state = "open" => c.state = "open" /\ Len(a.got) = h[i])
    BY <2>1, <1>2, <1>7
  <2>3. TakesOrStops(a, b, x)
    BY <2>1, <1>2, <1>4
  <2>4. a.got \in Seq(Payload)
    BY <2>1, <1>2, <1>3
  <2>5. c.state = "open" => /\ x.k = "data" => h[i + 1] = h[i] + 1 /\ x.v = sent[h[i + 1]]
                            /\ x.k # "data" => h[i + 1] = h[i]
                            /\ h[i] \in Nat /\ h[i + 1] <= m /\ h[i + 1] \in Nat
    <3>1. i + 1 \in 1 .. N /\ (i + 1) - 1 = i /\ i \in 0 .. N /\ i + 1 \in 0 .. N /\ N \in 0 .. N
      BY <2>1, <1>2
    <3>2. QED BY <3>1, <1>5
  <2> HIDE DEF a, b, x
  <2>6. CASE x.k = "data" /\ a.state = "open" /\ b.got = Append(a.got, x.v) /\ b.state = "open"
    <3>1. c.state = "open" /\ h[i + 1] = Len(a.got) + 1 /\ x.v = sent[Len(a.got) + 1] /\ Len(a.got) + 1 <= Len(sent)
      BY <2>2, <2>5, <2>6
    <3>2. Len(b.got) = Len(a.got) + 1 /\ b.got[Len(a.got) + 1] = x.v /\ \A j \in 1 .. Len(a.got) : b.got[j] = a.got[j]
      BY <2>4, <2>6
    <3>3. Begins(b.got, sent)
      BY <3>1, <3>2, <2>2, <2>4 DEF Begins
    <3>4. QED BY <3>1, <3>2, <3>3 DEF b
  <2>7. CASE b.got = a.got /\ (b.state = "open" => a.state = "open" /\ x.k # "data")
    <3>1. Begins(b.got, sent) /\ (b.state = "open" => c.state = "open" /\ Len(b.got) = h[i + 1])
      BY <2>2, <2>5, <2>7
    <3>2. QED BY <3>1 DEF b
  <2>8. QED BY <2>3, <2>6, <2>7, TakesGets
<1>8. Nat \subseteq P
  <2> HIDE DEF P
  <2>1. QED BY <1>6, <1>7, InductionOver
<1>9. Q(N)
  BY <1>2, <1>8
<1>10. QED BY <1>5, <1>9 DEF N

\* What is left on the wire then goes on where the batch has ended.
LEMMA ReadsFramesGets ==
  ASSUME NEW c, ConInv(c), Up(c), c.rest = <<>>, c.buf = <<>>, c.reads = <<>>, NEW d, NEW r,
         NEW items \in Seq(Items), NEW sent \in Seq(Payload), NEW w, NEW n \in 0 .. Len(sent), Begins(c.got, sent),
         w \in Seq(Items), ReadsFrames(c, d, r, items),
         c.state = "open" => \E m \in Nat : Carries(items, Len(c.got), m, sent) /\ Carries(w, m, n, sent)
  PROVE  /\ Begins(d.got, sent) /\ (d.state = "open" => c.state = "open" /\ Arriving(d, w, n, sent))
         /\ d.rest = <<>> /\ d.buf = <<>> /\ Len(d.reads) <= 1 /\ d.writes = c.writes
         /\ d.istate = c.istate /\ d.is_server = c.is_server
<1>1. Sets(c, d, LoopFields \union {"reads"})
  BY ReadsFramesSets DEF ConInv
<1>2. /\ d.rest = <<>> /\ d.buf = <<>> /\ d.writes = c.writes /\ d.istate = c.istate /\ d.is_server = c.is_server
  BY <1>1 DEF Sets, Fields, LoopFields
<1>3. CASE \E k : /\ Runs(k, c, items)
                  /\ \/ d = k[Len(items)]
                     \/ /\ Sets(k[Len(items)], d, {"reads"})
                        /\ d.reads = Append(k[Len(items)].reads, [h |-> "frame", r |-> "pending"])
  <2>1. PICK k : /\ Runs(k, c, items)
                 /\ \/ d = k[Len(items)]
                    \/ /\ Sets(k[Len(items)], d, {"reads"})
                       /\ d.reads = Append(k[Len(items)].reads, [h |-> "frame", r |-> "pending"])
    BY <1>3
  <2> DEFINE f == k[Len(items)]
  <2>2. Sets(c, f, LoopFields)
    <3>1. Len(items) \in 0 .. Len(items)
      OBVIOUS
    <3>2. QED BY <2>1, <3>1, RunsSets
  <2>3. f.reads = <<>>
    BY <2>2 DEF Sets, Fields, LoopFields
  <2>4. PICK m \in Nat : /\ m <= n
                         /\ c.state = "open" => Carries(items, Len(c.got), m, sent) /\ Carries(w, m, n, sent)
    <3>1. CASE c.state = "open"
      <4>1. PICK m \in Nat : Carries(items, Len(c.got), m, sent) /\ Carries(w, m, n, sent)
        BY <3>1
      <4>2. m <= n
        BY <4>1, CarriesNothing
      <4>3. QED BY <4>1, <4>2
    <3>2. CASE c.state # "open"
      <4>1. 0 \in Nat /\ 0 <= n
        OBVIOUS
      <4>2. QED BY <3>2, <4>1
    <3>3. QED BY <3>1, <3>2
  <2>5. m <= Len(sent)
    BY <2>4
  <2>6. Begins(f.got, sent) /\ (f.state = "open" => c.state = "open" /\ Len(f.got) = m)
    BY <2>1, <2>4, <2>5, RunsGets
  <2> HIDE DEF f
  <2>7. d.got = f.got /\ d.state = f.state /\ Len(d.reads) <= 1
    <3>1. CASE d = f
      BY <3>1, <2>3
    <3>2. CASE Sets(f, d, {"reads"}) /\ d.reads = Append(f.reads, [h |-> "frame", r |-> "pending"])
      <4>1. d.got = f.got /\ d.state = f.state
        BY <3>2 DEF Sets, Fields
      <4>2. QED BY <4>1, <3>2, <2>3
    <3>3. QED BY <3>1, <3>2, <2>1 DEF f
  <2>8. ASSUME d.state = "open" PROVE Arriving(d, w, n, sent)
    <3>1. Len(d.got) = m /\ Carries(w, m, n, sent)
      BY <2>4, <2>6, <2>7, <2>8
    <3>2. Carries(<<>>, m, m, sent)
      BY CarriesNone
    <3>3. QED BY <3>1, <3>2, <1>2 DEF Arriving
  <2>9. QED BY <1>2, <2>6, <2>7, <2>8
<1>4. CASE c.state = "closed" /\ d = c
  BY <1>2, <1>4
<1>5. CASE \E ec : Terminated(c, d, ec)
  <2>1. d.got = c.got /\ d.state = "closed" /\ d.reads = c.reads
    BY <1>5, SMTT(60) DEF Terminated, Sets, Fields
  <2>2. QED BY <2>1, <1>2
<1>6. QED BY <1>3, <1>4, <1>5 DEF ReadsFrames

Opposite(c, o) ==
  \/ c.is_server = TRUE /\ o.is_server = FALSE
  \/ c.is_server = FALSE /\ o.is_server = TRUE

\* c and o are the ends, w the wire to c and wo the one to o.
Joined(c, o, w, wo) ==
  /\ ConInv(c) /\ ConInv(o) /\ Opposite(c, o) /\ w \in Seq(Items) /\ wo \in Seq(Items)
  /\ Own(c) /\ Flows(c, o, w) /\ Greeted(c, o, w) /\ Greeted(o, c, wo)

LEMMA OwnStays ==
  ASSUME NEW c, NEW d, Own(c), Shuts(d), d.reads = c.reads, d.buf = c.buf, d.rest = c.rest, d.istate = c.istate,
         d.is_server = c.is_server, d.writes = c.writes
  PROVE  Own(d)
BY DEF Own, Shuts

LEMMA NoDataParsed ==
  ASSUME NEW s \in Seq(Items), Parsed(s) # <<>>, \A i \in 1 .. Len(s) : s[i].k # "data"
  PROVE  /\ Tail(Parsed(s)) \in Seq(Items)
         /\ \A i \in 1 .. Len(Tail(Parsed(s))) : Tail(Parsed(s))[i].k # "data"
<1>1. PICK n \in Whole(s) : Parsed(s) = SubSeq(s, n, Len(s))
  BY ParsedPart
<1>2. n \in 1 .. Len(s) /\ Len(s) \in Nat
  BY <1>1 DEF Whole
<1> DEFINE p == SubSeq(s, n, Len(s))
           t == Tail(p)
<1>3. p \in Seq(Items) /\ p # <<>> /\ Len(p) = Len(s) - n + 1 /\ \A i \in 1 .. Len(p) : p[i] = s[n + i - 1]
  <2>1. p \in Seq(Items) /\ Len(p) = Len(s) - n + 1
    BY <1>2
  <2>2. p # <<>>
    BY <1>1
  <2>3. \A i \in 1 .. Len(p) : p[i] = s[n + i - 1]
    BY <1>2
  <2>4. QED BY <2>1, <2>2, <2>3
<1>4. t \in Seq(Items) /\ Len(t) = Len(p) - 1 /\ \A i \in 1 .. Len(t) : t[i] = p[i + 1]
  <2> HIDE DEF p
  <2>1. QED BY <1>3
<1> HIDE DEF p, t
<1>5. \A i \in 1 .. Len(t) : n + i \in 1 .. Len(s) /\ t[i] = s[n + i]
  <2>1. ASSUME NEW i \in 1 .. Len(t) PROVE n + i \in 1 .. Len(s) /\ t[i] = s[n + i]
    <3>1. i + 1 \in 1 .. Len(p) /\ n + (i + 1) - 1 = n + i /\ n + i \in 1 .. Len(s)
      BY <2>1, <1>2, <1>3, <1>4
    <3>2. QED BY <2>1, <3>1, <1>3, <1>4
  <2>2. QED BY <2>1
<1>6. QED BY <1>1, <1>4, <1>5 DEF p, t

LEMMA WholeFirst ==
  ASSUME NEW s \in Seq(Items), s # <<>>, Reply(s) PROVE Parsed(s) = s
<1>1. Len(s) \in Nat /\ 1 \in 1 .. Len(s) /\ DOMAIN s = 1 .. Len(s)
  OBVIOUS
<1>2. 1 \in Whole(s) /\ \A j \in Whole(s) : 1 <= j
  BY <1>1 DEF Whole, Reply
<1>3. ASSUME NEW n \in Whole(s), \A j \in Whole(s) : n <= j PROVE n = 1
  BY <1>1, <1>2, <1>3 DEF Whole
<1>4. (CHOOSE i \in Whole(s) : \A j \in Whole(s) : i <= j) = 1
  BY <1>2, <1>3
<1>5. Parsed(s) = SubSeq(s, 1, Len(s))
  BY <1>2, <1>4 DEF Parsed
<1>6. SubSeq(s, 1, Len(s)) = s
  BY <1>1
<1>7. QED BY <1>5, <1>6

LEMMA ReadTakenOwn ==
  ASSUME NEW c, ConInv(c), Own(c), NEW f, ReadTaken(c, f)
  PROVE  /\ f.reads = <<>> /\ f.buf = <<>> /\ f.is_server = c.is_server /\ f.state = c.state /\ f.istate = c.istate
         /\ f.got = c.got /\ f.rest = c.rest /\ f.writes = c.writes /\ f.shut = c.shut
<1>1. c.reads \in Seq(ReadOps) /\ c.reads # <<>> /\ Len(c.reads) <= 1
  BY DEF ConInv, Lists, Own, ReadTaken
<1>2. Len(c.reads) = 1 /\ Tail(c.reads) = <<>>
  BY <1>1, TailOfOne
<1>3. f.buf = <<>> /\ f.reads = <<>>
  BY <1>2 DEF ReadTaken
<1>4. /\ f.is_server = c.is_server /\ f.state = c.state /\ f.istate = c.istate
      /\ f.got = c.got /\ f.rest = c.rest /\ f.writes = c.writes /\ f.shut = c.shut
  BY DEF ReadTaken, Sets, Fields
<1>5. QED BY <1>3, <1>4

\* A server that has read no whole request has been sent no message.
LEMMA NothingSentYet ==
  ASSUME NEW c, NEW o, NEW w, NEW wo, Joined(c, o, w, wo), c.istate = "READ_HTTP_REQUEST", Live(c)
  PROVE  /\ o.sent = <<>> /\ c.got = <<>> /\ Departing(o, 0) /\ Carries(w, 0, 0, <<>>)
         /\ \A i \in 1 .. Len(c.buf) : c.buf[i].k # "data"
<1>1. /\ ConInv(c) /\ ConInv(o) /\ Flows(c, o, w) /\ Greeted(o, c, wo) /\ Own(c) /\ Opposite(c, o) /\ w \in Seq(Items)
  BY DEF Joined
<1>2. c.is_server = TRUE /\ o.is_server = FALSE /\ c.istate \notin Answering /\ ~Up(c)
  BY <1>1 DEF Own, Opposite, Answering, Up
<1>3. ~Up(o)
  BY <1>1, <1>2 DEF Greeted
<1>4. o.sent = <<>> /\ c.got = <<>> /\ c.buf \in Seq(Items) /\ c.rest \in Seq(Items)
  BY <1>1, <1>2, <1>3 DEF ConInv, Phased, Lists
<1>5. PICK n \in 0 .. Len(o.sent) : Arriving(c, w, n, o.sent) /\ Departing(o, n)
  BY <1>1 DEF Flows
<1>6. n = 0 /\ Len(c.got) = 0
  BY <1>4, <1>5
<1>7. PICK n1, n2 \in Nat : /\ Carries(c.rest, Len(c.got), n1, o.sent) /\ Carries(c.buf, n1, n2, o.sent)
                            /\ Carries(w, n2, n, o.sent)
  BY <1>5 DEF Arriving
<1>8. n1 <= n2 /\ n2 <= n
  BY <1>7, <1>4, <1>1, CarriesNothing
<1>9. n1 = 0 /\ n2 = 0
  BY <1>6, <1>8
<1>10. \A i \in 1 .. Len(c.buf) : c.buf[i].k # "data"
  BY <1>4, <1>7, <1>9, CarriesNothing
<1>11. QED BY <1>4, <1>5, <1>6, <1>7, <1>9, <1>10

LEMMA RequestReadGets ==
  ASSUME NEW c, NEW d, NEW o, NEW w, NEW wo, Joined(c, o, w, wo), NEW f, ReadTaken(c, f), Shuts(d),
         c.istate = "READ_HTTP_REQUEST", RequestRead(f, d, c.reads[1].r, c.buf)
  PROVE  Own(d) /\ Flows(d, o, w) /\ Greeted(d, o, w)
<1>1. ConInv(c) /\ Own(c) /\ Flows(c, o, w) /\ c.buf \in Seq(Items) /\ o.sent \in Seq(Payload)
  BY DEF Joined, ConInv, Lists
<1>2. /\ f.reads = <<>> /\ f.buf = <<>> /\ f.is_server = c.is_server /\ f.state = c.state /\ f.istate = c.istate
      /\ f.got = c.got /\ f.rest = c.rest /\ f.writes = c.writes /\ f.shut = c.shut
  BY <1>1, ReadTakenOwn
<1>3. c.is_server = TRUE /\ c.rest = <<>>
  BY <1>1 DEF Own
<1>4. Begins(c.got, o.sent)
  BY <1>1 DEF Flows
<1>5. ASSUME d.is_server = c.is_server, d.got = c.got, d.buf = <<>>, d.rest \in Seq(Items),
             Live(d) => Live(c) /\ \A i \in 1 .. Len(d.rest) : d.rest[i].k # "data"
      PROVE  Flows(d, o, w) /\ Greeted(d, o, w)
  <2>1. Greeted(d, o, w)
    BY <1>3, <1>5 DEF Greeted
  <2>2. ASSUME Live(d) PROVE \E n \in 0 .. Len(o.sent) : Arriving(d, w, n, o.sent) /\ Departing(o, n)
    <3>1. o.sent = <<>> /\ c.got = <<>> /\ Departing(o, 0) /\ Carries(w, 0, 0, <<>>)
      BY <1>5, <2>2, NothingSentYet
    <3>2. Carries(d.rest, 0, 0, <<>>) /\ Carries(d.buf, 0, 0, <<>>)
      BY <1>5, <2>2, CarriesPlain, CarriesNone
    <3>3. Len(d.got) = 0 /\ 0 \in 0 .. Len(o.sent) /\ 0 \in Nat
      BY <3>1, <1>5
    <3>4. Arriving(d, w, 0, o.sent)
      BY <3>1, <3>2, <3>3 DEF Arriving
    <3>5. QED BY <3>1, <3>3, <3>4
  <2>3. QED BY <2>1, <2>2, <1>4, <1>5 DEF Flows
<1>6. <<>> \in Seq(Items) /\ \A i \in 1 .. Len(<<>>) : <<>>[i].k # "data"
  OBVIOUS
<1>7. CASE f.state = "closed" /\ d = f
  <2>1. ~Live(d) /\ d.rest = <<>>
    BY <1>2, <1>3, <1>7 DEF Live
  <2>2. Own(d)
    BY <1>1, <1>2, <1>7 DEF Own
  <2>3. QED BY <2>1, <2>2, <1>2, <1>5, <1>6, <1>7
<1>8. CASE \E ec : Terminated(f, d, ec)
  <2>1. /\ d.is_server = f.is_server /\ d.got = f.got /\ d.buf = f.buf /\ d.rest = f.rest /\ d.state = "closed"
        /\ d.reads = f.reads /\ d.istate = f.istate /\ d.writes = f.writes
    BY <1>8 DEF Terminated, Sets, Fields
  <2>2. ~Live(d) /\ d.rest = <<>>
    BY <2>1, <1>2, <1>3 DEF Live
  <2>3. Own(d)
    BY <2>1, <1>1, <1>2 DEF Own, Shuts
  <2>4. QED BY <2>1, <2>2, <2>3, <1>2, <1>5, <1>6
<1>9. CASE Sets(f, d, {"reads"}) /\ d.reads = ReadOp("handshake")
  <2>1. /\ d.is_server = f.is_server /\ d.got = f.got /\ d.buf = f.buf /\ d.rest = f.rest /\ d.state = f.state
        /\ d.istate = f.istate /\ d.writes = f.writes /\ Len(d.reads) <= 1
    BY <1>9 DEF Sets, Fields, ReadOp
  <2>2. Own(d)
    BY <2>1, <1>1, <1>2 DEF Own, Shuts
  <2>3. Live(d) => Live(c)
    BY <2>1, <1>2 DEF Live
  <2>4. QED BY <2>1, <2>2, <2>3, <1>2, <1>3, <1>5, <1>6
<1>10. CASE /\ Parsed(c.buf) # <<>> /\ f.state = "connecting"
            /\ \E g : \E rest \in {f.rest, Tail(Parsed(c.buf))} :
                 /\ Asked(f, g, rest)
                 /\ d = g \/ (\E ec : Terminated(g, d, ec)) \/ Responds(g, d)
  <2>1. PICK g, rest : /\ rest \in {f.rest, Tail(Parsed(c.buf))}
                       /\ Asked(f, g, rest)
                       /\ d = g \/ (\E ec : Terminated(g, d, ec)) \/ Responds(g, d)
    BY <1>10
  <2>2. Live(c)
    BY <1>2, <1>10 DEF Live
  <2>3. \A i \in 1 .. Len(c.buf) : c.buf[i].k # "data"
    BY <2>2, NothingSentYet
  <2>4. rest \in Seq(Items) /\ \A i \in 1 .. Len(rest) : rest[i].k # "data"
    <3>1. CASE rest = f.rest
      <4>1. rest = <<>>
        BY <3>1, <1>2, <1>3
      <4>2. QED BY <4>1
    <3>2. CASE rest = Tail(Parsed(c.buf))
      BY <3>2, <2>3, <1>1, <1>10, NoDataParsed
    <3>3. QED BY <2>1, <3>1, <3>2
  <2>5. /\ g.is_server = f.is_server /\ g.got = f.got /\ g.buf = f.buf /\ g.rest = rest
        /\ g.reads = f.reads /\ g.istate = "PROCESS_HTTP_REQUEST" /\ g.writes = f.writes
    BY <2>1 DEF Asked, Sets, Fields
  <2>6. /\ d.is_server = g.is_server /\ d.got = g.got /\ d.buf = g.buf /\ d.rest = g.rest
        /\ d.reads = g.reads /\ d.istate = g.istate
    <3>1. CASE \E ec : Terminated(g, d, ec)
      BY <3>1 DEF Terminated, Sets, Fields
    <3>2. CASE Responds(g, d)
      BY <3>2 DEF Responds, Sets, Fields
    <3>3. QED BY <2>1, <3>1, <3>2
  <2>7. d.writes # <<>> => d.writes[1].items # <<>> /\ Reply(d.writes[1].items)
    <3>1. f.writes = <<>>
      BY <1>1, <1>2, NoneUnderWay DEF Writing
    <3>2. CASE d = g
      BY <3>1, <3>2, <2>5
    <3>3. CASE \E ec : Terminated(g, d, ec)
      BY <3>1, <3>3, <2>5 DEF Terminated, Sets, Fields
    <3>4. CASE Responds(g, d)
      BY <3>4, RespondsReply
    <3>5. QED BY <2>1, <3>2, <3>3, <3>4
  <2>8. Own(d)
    BY <2>5, <2>6, <2>7, <1>2, <1>3 DEF Own, Shuts
  <2>9. QED BY <2>2, <2>4, <2>5, <2>6, <2>8, <1>2, <1>5
<1>11. QED BY <1>7, <1>8, <1>9, <1>10 DEF RequestRead

LEMMA CarriesEmpty ==
  ASSUME NEW s, s = <<>>, NEW a, NEW b, NEW sent, Carries(s, a, b, sent) PROVE a = b
<1>1. <<>> \in Seq(Items)
  OBVIOUS
<1>2. QED BY <1>1, CarriesNothing

\* An open end that reads a batch and then what is left on the wire.
LEMMA FramesReach ==
  ASSUME NEW g, ConInv(g), Up(g), g.rest = <<>>, g.buf = <<>>, g.reads = <<>>, NEW d, ConInv(d), Shuts(d), NEW r,
         NEW items \in Seq(Items), ReadsFrames(g, d, r, items), NEW o, ConInv(o), NEW w \in Seq(Items),
         Begins(g.got, o.sent), g.is_server = FALSE => o.istate \in Answering,
         g.state = "open" => \E n \in 0 .. Len(o.sent), m \in Nat :
                                /\ Carries(items, Len(g.got), m, o.sent) /\ Carries(w, m, n, o.sent)
                                /\ Departing(o, n)
  PROVE  Own(d) /\ Flows(d, o, w) /\ Greeted(d, o, w)
<1>1. o.sent \in Seq(Payload) /\ 0 \in 0 .. Len(o.sent)
  BY DEF ConInv, Lists
<1>2. PICK n \in 0 .. Len(o.sent) :
         g.state = "open" => /\ \E m \in Nat : Carries(items, Len(g.got), m, o.sent) /\ Carries(w, m, n, o.sent)
                             /\ Departing(o, n)
  BY <1>1
<1>3. /\ Begins(d.got, o.sent) /\ (d.state = "open" => g.state = "open" /\ Arriving(d, w, n, o.sent))
      /\ d.rest = <<>> /\ d.buf = <<>> /\ Len(d.reads) <= 1
      /\ d.istate = g.istate /\ d.is_server = g.is_server
  <2>1. g.state = "open" => \E m \in Nat : Carries(items, Len(g.got), m, o.sent) /\ Carries(w, m, n, o.sent)
    BY <1>2
  <2>2. QED BY <1>1, <2>1, ReadsFramesGets
<1>4. Up(d) /\ d.istate = "PROCESS_CONNECTION"
  BY <1>3 DEF Up
<1>5. d.state # "connecting"
  BY <1>4 DEF ConInv, Handled
<1>6. Live(d) => d.state = "open"
  BY <1>5 DEF Live
<1>7. Own(d)
  BY <1>3, <1>4 DEF Own, Shuts
<1>8. Flows(d, o, w)
  BY <1>2, <1>3, <1>6 DEF Flows
<1>9. Greeted(d, o, w)
  BY <1>3, <1>5 DEF Greeted
<1>10. QED BY <1>7, <1>8, <1>9

LEMMA FramesReadGets ==
  ASSUME NEW c, NEW d, NEW o, NEW w, NEW wo, Joined(c, o, w, wo), NEW f, ReadTaken(c, f), ConInv(d), Shuts(d),
         Up(c), ReadsFrames(f, d, c.reads[1].r, c.buf)
  PROVE  Own(d) /\ Flows(d, o, w) /\ Greeted(d, o, w)
<1>1. /\ ConInv(c) /\ Own(c) /\ Flows(c, o, w) /\ Greeted(c, o, w) /\ ConInv(o) /\ w \in Seq(Items)
      /\ c.buf \in Seq(Items) /\ c.rest \in Seq(Items)
  BY DEF Joined, ConInv, Lists
<1>2. /\ f.reads = <<>> /\ f.buf = <<>> /\ f.is_server = c.is_server /\ f.state = c.state /\ f.istate = c.istate
      /\ f.got = c.got /\ f.rest = c.rest
  BY <1>1, ReadTakenOwn
<1>3. ConInv(f) /\ Up(f)
  BY <1>1, <1>2, ReadTakenKeeps DEF Up
<1>4. c.rest = <<>>
  BY <1>1 DEF Own, Up
<1>5. f.is_server = FALSE => o.istate \in Answering
  BY <1>1, <1>2 DEF Greeted
<1>6. Begins(f.got, o.sent)
  BY <1>1, <1>2 DEF Flows
<1>7. ASSUME f.state = "open"
      PROVE  \E n \in 0 .. Len(o.sent), m \in Nat :
                /\ Carries(c.buf, Len(f.got), m, o.sent) /\ Carries(w, m, n, o.sent) /\ Departing(o, n)
  <2>1. PICK n \in 0 .. Len(o.sent) : Arriving(c, w, n, o.sent) /\ Departing(o, n)
    BY <1>1, <1>2, <1>7 DEF Flows, Live
  <2>2. PICK n1, n2 \in Nat : /\ Carries(c.rest, Len(c.got), n1, o.sent) /\ Carries(c.buf, n1, n2, o.sent)
                              /\ Carries(w, n2, n, o.sent)
    BY <2>1 DEF Arriving
  <2>3. Len(f.got) = n1
    BY <2>2, <1>2, <1>4, CarriesEmpty
  <2>4. QED BY <2>1, <2>2, <2>3
<1>8. QED BY <1>1, <1>2, <1>3, <1>4, <1>5, <1>6, <1>7, FramesReach

LEMMA ResponseReadGets ==
  ASSUME NEW c, NEW d, NEW o, NEW w, NEW wo, Joined(c, o, w, wo), NEW f, ReadTaken(c, f), ConInv(d), Shuts(d),
         c.istate = "READ_HTTP_RESPONSE", ResponseRead(f, d, c.reads[1].r, c.buf)
  PROVE  Own(d) /\ Flows(d, o, w) /\ Greeted(d, o, w)
<1>1. /\ ConInv(c) /\ Own(c) /\ Flows(c, o, w) /\ Greeted(c, o, w) /\ ConInv(o) /\ w \in Seq(Items)
      /\ c.buf \in Seq(Items) /\ c.rest \in Seq(Items) /\ c.state \in States
  BY DEF Joined, ConInv, Lists, Flags
<1>2. /\ f.reads = <<>> /\ f.buf = <<>> /\ f.is_server = c.is_server /\ f.state = c.state /\ f.istate = c.istate
      /\ f.got = c.got /\ f.rest = c.rest /\ f.writes = c.writes
  BY <1>1, ReadTakenOwn
<1>3. c.is_server = FALSE /\ c.rest = <<>> /\ ~Up(c)
  BY <1>1 DEF Own, Up
<1>4. ASSUME d.is_server = c.is_server, d.got = c.got, d.buf = <<>>, d.state = "closed", ~Up(d)
      PROVE  Flows(d, o, w) /\ Greeted(d, o, w)
  <2>1. Flows(d, o, w)
    BY <1>1, <1>4 DEF Flows, Live
  <2>2. Greeted(d, o, w)
    BY <1>1, <1>3, <1>4 DEF Greeted
  <2>3. QED BY <2>1, <2>2
<1>5. c.state \in {"connecting", "closed"}
  BY <1>1, <1>3 DEF ConInv, Handled
<1>6. c.state = "connecting" /\ c.buf # <<>> => Reply(c.buf) /\ Parsed(c.buf) = c.buf
  BY <1>1, <1>3, WholeFirst DEF Greeted
<1>7. ASSUME d.is_server = f.is_server, d.got = f.got, d.buf = f.buf, d.rest = f.rest, d.istate = f.istate,
             Len(d.reads) <= 1
      PROVE  Own(d) /\ ~Up(d)
  BY <1>2, <1>3, <1>7 DEF Own, Shuts, Up
<1>8. CASE f.state = "closed" /\ d = f
  <2>1. Len(d.reads) <= 1
    BY <1>2, <1>8
  <2>2. QED BY <2>1, <1>2, <1>4, <1>7, <1>8
<1>9. CASE \E g, ec : Sets(f, g, {"timer", "live", "ec"}) /\ Terminated(g, d, ec)
  <2>1. PICK g, ec : Sets(f, g, {"timer", "live", "ec"}) /\ Terminated(g, d, ec)
    BY <1>9
  <2>2. /\ d.is_server = f.is_server /\ d.got = f.got /\ d.buf = f.buf /\ d.rest = f.rest /\ d.istate = f.istate
        /\ d.reads = f.reads /\ d.state = "closed"
    BY <2>1 DEF Terminated, Sets, Fields
  <2>3. Len(d.reads) <= 1
    BY <1>2, <2>2
  <2>4. QED BY <2>2, <2>3, <1>2, <1>4, <1>7
<1>10. CASE Parsed(c.buf) = <<>> /\ Sets(f, d, {"reads"}) /\ d.reads = ReadOp("response")
  <2>1. /\ d.is_server = f.is_server /\ d.got = f.got /\ d.buf = f.buf /\ d.rest = f.rest /\ d.istate = f.istate
        /\ d.state = f.state
    BY <1>10 DEF Sets, Fields
  <2>2. Len(d.reads) <= 1
    BY <1>10 DEF ReadOp
  <2>3. Own(d) /\ ~Up(d)
    BY <2>1, <2>2, <1>7
  <2>4. CASE c.state = "closed"
    BY <2>1, <2>3, <2>4, <1>2, <1>4
  <2>5. CASE c.state = "connecting"
    <3>1. c.buf = <<>>
      BY <2>5, <1>6, <1>10
    <3>2. Ignores(c, d)
      BY <3>1, <2>1, <2>3, <1>2 DEF Ignores, Live
    <3>3. QED BY <3>2, <2>3, <1>1, IgnoresKeep
  <2>6. QED BY <2>4, <2>5, <1>5
<1>11. CASE \E g : Parsed(c.buf) # <<>> /\ Opened(f, g, f.rest) /\ ReadsFrames(g, d, "ok", Tail(Parsed(c.buf)))
  <2>1. PICK g : Parsed(c.buf) # <<>> /\ Opened(f, g, f.rest) /\ ReadsFrames(g, d, "ok", Tail(Parsed(c.buf)))
    BY <1>11
  <2>2. /\ g.is_server = f.is_server /\ g.got = f.got /\ g.buf = f.buf /\ g.reads = f.reads /\ g.rest = <<>>
        /\ f.state = "connecting"
    BY <2>1, <1>2, <1>3 DEF Opened, Sets, Fields
  <2>3. ConInv(g) /\ Up(g)
    <3>1. ConInv(f)
      BY <1>1, ReadTakenKeeps
    <3>2. f.writes = <<>> /\ ~Up(f) /\ f.http # "deferred"
      BY <3>1, <1>2, NoneUnderWay DEF Writing, Up, ConInv, Phased
    <3>3. f.rest \in Seq(Items)
      BY <1>1, <1>2
    <3>4. QED BY <3>1, <3>2, <3>3, <2>1, <1>2, OpenedKeeps
  <2>4. c.buf # <<>>
    <3>1. PICK n \in Whole(c.buf) : TRUE
      BY <2>1, <1>1, ParsedPart
    <3>2. n \in 1 .. Len(c.buf)
      BY <3>1, <1>1 DEF Whole
    <3>3. QED BY <3>2
  <2>5. Reply(c.buf) /\ Parsed(c.buf) = c.buf /\ c.buf[1].k # "data"
    BY <2>2, <2>4, <1>2, <1>6 DEF Reply
  <2>6. PICK n \in 0 .. Len(o.sent) : Arriving(c, w, n, o.sent) /\ Departing(o, n)
    BY <2>2, <1>1, <1>2 DEF Flows, Live
  <2>7. PICK n1, n2 \in Nat : /\ Carries(c.rest, Len(c.got), n1, o.sent) /\ Carries(c.buf, n1, n2, o.sent)
                              /\ Carries(w, n2, n, o.sent)
    BY <2>6 DEF Arriving
  <2>8. Len(g.got) = n1
    BY <2>2, <2>7, <1>2, <1>3, CarriesEmpty
  <2>9. Tail(c.buf) \in Seq(Items) /\ Carries(Tail(c.buf), Len(g.got), n2, o.sent)
    BY <2>4, <2>5, <2>7, <2>8, <1>1, CarriesTail
  <2>10. o.istate \in Answering
    BY <2>4, <1>1, <1>3 DEF Greeted
  <2>11. Begins(g.got, o.sent)
    BY <2>2, <1>1, <1>2 DEF Flows
  <2>12. ReadsFrames(g, d, "ok", Tail(c.buf))
    BY <2>1, <2>5
  <2>13. g.buf = <<>> /\ g.reads = <<>>
    BY <2>2, <1>2
  <2>14. \E k \in 0 .. Len(o.sent), m \in Nat :
            /\ Carries(Tail(c.buf), Len(g.got), m, o.sent) /\ Carries(w, m, k, o.sent) /\ Departing(o, k)
    BY <2>6, <2>7, <2>9
  <2>15. QED BY <2>2, <2>3, <2>9, <2>10, <2>11, <2>12, <2>13, <2>14, <1>1, FramesReach
<1>12. QED BY <1>8, <1>9, <1>10, <1>11 DEF ResponseRead

LEMMA ReadEndsGets ==
  ASSUME NEW c, NEW d, NEW o, NEW w, NEW wo, Joined(c, o, w, wo), ConInv(d), Shuts(d), ReadEnds(c, d)
  PROVE  Own(d) /\ Flows(d, o, w) /\ Greeted(d, o, w)
BY RequestReadGets, ResponseReadGets, FramesReadGets DEF ReadEnds

LEMMA Unmoved ==
  ASSUME NEW c, NEW d, NEW ch, Sets(c, d, ch), Own(c), Shuts(d), d.state \in {c.state, "closing", "closed"},
         ch \intersect {"is_server", "got", "rest", "buf", "istate", "reads"} = {},
         d.istate = "PROCESS_HTTP_REQUEST" /\ d.writes # <<>> =>
           d.writes[1].items # <<>> /\ Reply(d.writes[1].items)
  PROVE  Own(d) /\ Ignores(c, d)
<1>1. /\ d.is_server = c.is_server /\ d.got = c.got /\ d.rest = c.rest /\ d.buf = c.buf /\ d.istate = c.istate
      /\ d.reads = c.reads
  BY DEF Sets, Fields
<1>2. Own(d)
  BY <1>1 DEF Own, Shuts
<1>3. Live(d) => Live(c)
  BY DEF Live
<1>4. QED BY <1>1, <1>2, <1>3 DEF Ignores, Up

LEMMA UnmovedByTermination ==
  ASSUME NEW c, NEW f, NEW d, NEW ch, NEW ec, Sets(c, f, ch), Own(c), Shuts(d), Terminated(f, d, ec),
         ch \subseteq {"writes", "current", "timer", "live", "ec", "due"}, f.writes \in {c.writes, <<>>}
  PROVE  Own(d) /\ Ignores(c, d)
<1> DEFINE ci == ch \union {"timer", "live", "ec", "lcode", "http", "state", "shut", "fails", "closes", "report"}
<1>1. Sets(c, d, ci) /\ d.state = "closed"
  BY SetsTwice DEF Terminated
<1>2. d.writes \in {c.writes, <<>>} /\ d.istate = c.istate
  BY DEF Terminated, Sets, Fields
<1>3. ci \intersect {"is_server", "got", "rest", "buf", "istate", "reads"} = {}
  OBVIOUS
<1> HIDE DEF ci
<1>4. d.istate = "PROCESS_HTTP_REQUEST" /\ d.writes # <<>> =>
         d.writes[1].items # <<>> /\ Reply(d.writes[1].items)
  BY <1>2 DEF Own
<1>5. QED BY <1>1, <1>3, <1>4, Unmoved

LEMMA WriteEndsGets ==
  ASSUME NEW c, NEW d, NEW o, NEW w, NEW wo, Joined(c, o, w, wo), ConInv(d), Shuts(d), WriteEnds(c, d)
  PROVE  Own(d) /\ Flows(d, o, w) /\ Greeted(d, o, w)
<1>1. /\ ConInv(c) /\ Own(c) /\ Flows(c, o, w) /\ Greeted(c, o, w) /\ ConInv(o) /\ w \in Seq(Items)
      /\ c.rest \in Seq(Items) /\ c.writes # <<>>
  BY DEF Joined, ConInv, Lists, WriteEnds
<1>2. SUFFICES \/ Own(d) /\ Ignores(c, d)
               \/ Own(d) /\ Flows(d, o, w) /\ Greeted(d, o, w)
  BY <1>1, IgnoresKeep
<1>3. CASE Up(c) /\ FramesWritten(c, d)
  <2>1. PICK g : /\ Sets(c, g, {"writes", "current"}) /\ g.writes = <<>>
                 /\ (\E ec : Terminated(g, d, ec)) \/ Sets(g, d, {"wflag", "posted"})
    BY <1>3 DEF FramesWritten
  <2>2. CASE \E ec : Terminated(g, d, ec)
    BY <2>1, <2>2, <1>1, UnmovedByTermination
  <2>3. CASE Sets(g, d, {"wflag", "posted"})
    <3>1. Sets(c, d, {"writes", "current"} \union {"wflag", "posted"})
      BY <2>1, <2>3, SetsTwice
    <3>2. d.state = c.state /\ d.writes = <<>>
      BY <2>1, <2>3 DEF Sets, Fields
    <3>3. QED BY <3>1, <3>2, <1>1, Unmoved
  <2>4. QED BY <2>1, <2>2, <2>3
<1>4. CASE \E f : /\ Sets(c, f, {"writes"}) /\ f.writes = <<>>
                  /\ \/ c.istate = "PROCESS_HTTP_REQUEST" /\ Responded(f, d, c.writes[1].r)
                     \/ c.istate = "WRITE_HTTP_REQUEST" /\ Requested(f, d, c.writes[1].r)
  <2>1. PICK f : /\ Sets(c, f, {"writes"}) /\ f.writes = <<>>
                 /\ \/ c.istate = "PROCESS_HTTP_REQUEST" /\ Responded(f, d, c.writes[1].r)
                    \/ c.istate = "WRITE_HTTP_REQUEST" /\ Requested(f, d, c.writes[1].r)
    BY <1>4
  <2>2. /\ f.is_server = c.is_server /\ f.got = c.got /\ f.rest = c.rest /\ f.buf = c.buf /\ f.reads = c.reads
        /\ f.state = c.state /\ f.istate = c.istate
    BY <2>1 DEF Sets, Fields
  <2>3. c.reads = <<>> /\ c.buf = <<>>
    <3>1. c.reads = <<>>
      BY <2>1, <1>1, NoneUnderWay DEF Reading
    <3>2. QED BY <3>1, <1>1 DEF Own
  <2>4. CASE d = f
    BY <2>1, <2>2, <2>4, <1>1, Unmoved
  <2>5. CASE \E ec : Terminated(f, d, ec)
    BY <2>1, <2>5, <1>1, UnmovedByTermination
  <2>6. CASE \E g, ec : Sets(f, g, {"timer", "live", "ec"}) /\ Terminated(g, d, ec)
    <3>1. PICK g, ec : Sets(f, g, {"timer", "live", "ec"}) /\ Terminated(g, d, ec)
      BY <2>6
    <3>2. Sets(c, g, {"writes"} \union {"timer", "live", "ec"})
      BY <2>1, <3>1, SetsTwice
    <3>3. g.writes = <<>>
      BY <2>1, <3>1 DEF Sets, Fields
    <3>4. QED BY <3>1, <3>2, <3>3, <1>1, UnmovedByTermination
  <2>7. CASE /\ c.istate = "WRITE_HTTP_REQUEST" /\ Sets(f, d, {"istate", "reads"})
             /\ d.istate = "READ_HTTP_RESPONSE" /\ d.reads = ReadOp("response")
    <3>1. /\ d.is_server = f.is_server /\ d.got = f.got /\ d.rest = f.rest /\ d.buf = f.buf
          /\ d.state = f.state
      BY <2>7 DEF Sets, Fields
    <3>2. Len(d.reads) <= 1
      BY <2>7 DEF ReadOp
    <3>3. Own(d)
      BY <3>1, <3>2, <2>2, <2>3, <2>7, <1>1 DEF Own, Shuts
    <3>4. Ignores(c, d)
      BY <3>1, <2>2, <2>7 DEF Ignores, Up, Live
    <3>5. QED BY <3>3, <3>4
  <2>8. CASE /\ c.istate = "PROCESS_HTTP_REQUEST"
             /\ \E g : Opened(f, g, <<>>) /\ ReadsFrames(g, d, "ok", f.rest)
    <3>1. PICK g : Opened(f, g, <<>>) /\ ReadsFrames(g, d, "ok", f.rest)
      BY <2>8
    <3>2. /\ g.is_server = f.is_server /\ g.got = f.got /\ g.buf = f.buf /\ g.reads = f.reads /\ g.rest = <<>>
          /\ f.state = "connecting"
      BY <3>1 DEF Opened, Sets, Fields
    <3>3. ConInv(g) /\ Up(g) /\ f.rest \in Seq(Items)
      BY <2>1, <2>8, <3>1, <1>1, OpenedByResponse
    <3>4. PICK n \in 0 .. Len(o.sent) : Arriving(c, w, n, o.sent) /\ Departing(o, n)
      BY <3>2, <2>2, <1>1 DEF Flows, Live
    <3>5. PICK n1, n2 \in Nat : /\ Carries(c.rest, Len(c.got), n1, o.sent) /\ Carries(c.buf, n1, n2, o.sent)
                                /\ Carries(w, n2, n, o.sent)
      BY <3>4 DEF Arriving
    <3>6. n1 = n2
      BY <3>5, <2>3, CarriesEmpty
    <3>7. \E k \in 0 .. Len(o.sent), m \in Nat :
             /\ Carries(f.rest, Len(g.got), m, o.sent) /\ Carries(w, m, k, o.sent) /\ Departing(o, k)
      BY <3>2, <3>4, <3>5, <3>6, <2>2
    <3>8. g.buf = <<>> /\ g.reads = <<>> /\ Begins(g.got, o.sent)
      BY <3>2, <2>2, <2>3, <1>1 DEF Flows
    <3>9. g.is_server = TRUE
      BY <3>2, <2>2, <2>8, <1>1 DEF Own
    <3>10. QED BY <3>1, <3>2, <3>3, <3>7, <3>8, <3>9, <1>1, FramesReach
  <2>9. QED BY <2>1, <2>4, <2>5, <2>6, <2>7, <2>8 DEF Responded, Requested
<1>5. QED BY <1>3, <1>4 DEF WriteEnds

\* While a read is under way nothing is in the buffer.
LEMMA ReadUnderWay ==
  ASSUME NEW c, ConInv(c), Own(c), NEW d, NEW r, NEW buf, Received(c, d, r, buf)
  PROVE  c.buf = <<>> /\ Len(d.reads) <= 1 /\ d.reads # <<>> /\ d.reads[1].r = r
<1>1. c.reads \in Seq(ReadOps) /\ Len(c.reads) <= 1
  BY DEF ConInv, Lists, Own
<1>2. PICK i \in DOMAIN c.reads : /\ c.reads[i].r = "pending"
                                  /\ d.reads = [c.reads EXCEPT ![i] = [h |-> c.reads[i].h, r |-> r]]
  BY DEF Received
<1>3. c.reads # <<>>
  BY <1>1, <1>2
<1>4. DOMAIN c.reads = {1} /\ Len(c.reads) = 1
  BY <1>1, <1>3, TailOfOne
<1>5. i = 1
  BY <1>2, <1>4
<1>6. c.buf = <<>>
  BY <1>2, <1>5 DEF Own
<1> DEFINE x == [h |-> c.reads[i].h, r |-> r]
<1>7. x.r = r
  OBVIOUS
<1>8. d.reads = [c.reads EXCEPT ![i] = x]
  BY <1>2
<1> HIDE DEF x
<1>9. d.reads = <<x>>
  BY <1>1, <1>4, <1>5, <1>8
<1>10. Len(<<x>>) <= 1 /\ <<x>> # <<>> /\ <<x>>[1] = x
  OBVIOUS
<1>11. QED BY <1>6, <1>7, <1>9, <1>10, Zenon

LEMMA EffectGets ==
  ASSUME NEW c, NEW d, NEW o, NEW w, NEW wo, Joined(c, o, w, wo), ConInv(d), Shuts(d), NEW calls,
         Effect(c, d, calls), "resume" \notin calls
  PROVE  Own(d) /\ Flows(d, o, w) /\ Greeted(d, o, w)
<1>1. /\ ConInv(c) /\ Own(c) /\ Flows(c, o, w) /\ Greeted(c, o, w) /\ Len(c.reads) <= 1
      /\ DOMAIN c = Fields
  BY DEF Joined, Own, ConInv
<1>2. SUFFICES \/ Own(d) /\ Ignores(c, d)
               \/ Own(d) /\ Flows(d, o, w) /\ Greeted(d, o, w)
  BY <1>1, IgnoresKeep
<1>3. d.istate = "PROCESS_HTTP_REQUEST" /\ d.istate = c.istate /\ d.writes = c.writes /\ d.writes # <<>> =>
         d.writes[1].items # <<>> /\ Reply(d.writes[1].items)
  BY <1>1 DEF Own
<1>4. Sets(c, c, {})
  BY <1>1 DEF Sets
<1>5. CASE c.istate = "TRANSPORT_INIT" /\ Initiated(c, d)
  <2>1. c.reads = <<>> /\ c.buf = <<>> /\ c.rest = <<>>
    <3>1. c.reads = <<>>
      BY <1>1, <1>5, NoneUnderWay DEF Reading
    <3>2. QED BY <3>1, <1>1, <1>5 DEF Own
  <2>2. CASE \E ec : Terminated(c, d, ec)
    BY <2>2, <1>1, <1>4, UnmovedByTermination
  <2>3. CASE /\ c.is_server = TRUE /\ Sets(c, d, {"timer", "live", "istate", "reads"})
             /\ d.istate = "READ_HTTP_REQUEST" /\ d.reads = ReadOp("handshake")
    <3>1. /\ d.is_server = c.is_server /\ d.got = c.got /\ d.rest = c.rest /\ d.buf = c.buf /\ d.state = c.state
      BY <2>3 DEF Sets, Fields
    <3>2. Len(d.reads) <= 1
      BY <2>3 DEF ReadOp
    <3>3. Own(d)
      BY <3>1, <3>2, <2>1, <2>3 DEF Own, Shuts
    <3>4. Ignores(c, d)
      BY <3>1, <2>3 DEF Ignores, Up, Live
    <3>5. QED BY <3>3, <3>4
  <2>4. CASE /\ c.is_server = FALSE /\ Sets(c, d, {"timer", "live", "istate", "writes"})
             /\ d.istate = "WRITE_HTTP_REQUEST"
    <3>1. /\ d.is_server = c.is_server /\ d.got = c.got /\ d.rest = c.rest /\ d.buf = c.buf /\ d.state = c.state
          /\ d.reads = c.reads
      BY <2>4 DEF Sets, Fields
    <3>2. Own(d)
      BY <3>1, <2>1, <2>4, <1>1 DEF Own, Shuts
    <3>3. Ignores(c, d)
      BY <3>1, <2>4 DEF Ignores, Up, Live
    <3>4. QED BY <3>2, <3>3
  <2>5. QED BY <1>5, <2>2, <2>3, <2>4 DEF Initiated
<1>6. CASE Up(c) /\ WritesFrames(c, d)
  <2>1. Sets(c, d, {"posted", "queue", "current", "wflag", "writes"})
    BY <1>6, SetsMore DEF WritesFrames
  <2>2. d.state = c.state /\ d.istate = c.istate
    BY <2>1 DEF Sets, Fields
  <2>3. QED BY <2>1, <2>2, <1>1, <1>6, Unmoved DEF Up
<1>7. CASE Sets(c, d, {"live", "due"}) \/ Sets(c, d, {"call", "sends", "rflag", "closer"})
  <2>1. Sets(c, d, {"live", "due", "call", "sends", "rflag", "closer"})
    BY <1>7, SetsMore
  <2>2. d.state = c.state /\ d.istate = c.istate /\ d.writes = c.writes
    BY <2>1 DEF Sets, Fields
  <2>3. QED BY <2>1, <2>2, <1>1, <1>3, Unmoved
<1>8. CASE TimesOut(c, d)
  <2>1. PICK f, ec : Sets(c, f, {"due"}) /\ Terminated(f, d, ec)
    BY <1>8 DEF TimesOut
  <2>2. f.writes = c.writes
    BY <2>1 DEF Sets, Fields
  <2>3. QED BY <2>1, <2>2, <1>1, UnmovedByTermination
<1>9. CASE Up(c) /\ Pushes(c, d)
  <2>1. PICK f, m : Sets(c, f, {"call", "sent", "live"}) /\ Pushed(f, d, m)
    BY <1>9 DEF Pushes
  <2>2. /\ d.is_server = c.is_server /\ d.got = c.got /\ d.rest = c.rest /\ d.buf = c.buf /\ d.istate = c.istate
        /\ d.reads = c.reads /\ d.state = c.state /\ d.writes = c.writes
    BY <2>1 DEF Pushed, Sets, Fields
  <2>3. Own(d)
    BY <2>2, <1>1, OwnStays
  <2>4. Ignores(c, d)
    BY <2>2 DEF Ignores, Up, Live
  <2>5. QED BY <2>3, <2>4
<1>10. CASE \E code \in Codes : ClosingWith(c, d, code, FALSE)
  <2>1. Sets(c, d, {"lcode", "state", "clean", "timer", "live", "queue", "posted", "closer"}) /\ d.state = "closing"
    BY <1>10 DEF ClosingWith
  <2>2. d.istate = c.istate /\ d.writes = c.writes
    BY <2>1 DEF Sets, Fields
  <2>3. QED BY <2>1, <2>2, <1>1, <1>3, Unmoved
<1>11. CASE RespondsLater(c, d)
  <2>1. PICK g : Sets(c, g, {"status", "http"}) /\ Responds(g, d)
    BY <1>11 DEF RespondsLater
  <2>2. d.writes[1].items # <<>> /\ Reply(d.writes[1].items)
    BY <2>1, RespondsReply
  <2>3. Sets(c, d, {"status", "http"} \union {"status", "ec", "writes"})
    BY <2>1, SetsTwice DEF Responds
  <2>4. d.state = c.state
    BY <2>3 DEF Sets, Fields
  <2>5. QED BY <2>2, <2>3, <2>4, <1>1, Unmoved
<1>12. CASE \E r : Received(c, d, r, c.buf)
  <2>1. PICK r : Received(c, d, r, c.buf)
    BY <1>12
  <2>2. c.buf = <<>> /\ Len(d.reads) <= 1
    BY <2>1, <1>1, ReadUnderWay
  <2>3. /\ d.is_server = c.is_server /\ d.got = c.got /\ d.rest = c.rest /\ d.buf = c.buf /\ d.istate = c.istate
        /\ d.state = c.state /\ d.writes = c.writes
    BY <2>1 DEF Received, Sets, Fields
  <2>4. Own(d)
    BY <2>2, <2>3, <1>1 DEF Own, Shuts
  <2>5. Ignores(c, d)
    BY <2>3 DEF Ignores, Up, Live
  <2>6. QED BY <2>4, <2>5
<1>13. CASE Transmitted(c, d, "error")
  <2>1. Sets(c, d, {"writes", "tail"}) /\ c.writes # <<>>
    BY <1>13 DEF Transmitted
  <2>2. d.istate = c.istate /\ d.state = c.state /\ d.writes[1].items = c.writes[1].items
    BY <2>1, <1>13, TransmittedItems DEF Sets, Fields
  <2>3. d.istate = "PROCESS_HTTP_REQUEST" => d.writes[1].items # <<>> /\ Reply(d.writes[1].items)
    BY <2>1, <2>2, <1>1 DEF Own
  <2>4. QED BY <2>1, <2>2, <2>3, <1>1, Unmoved
<1>14. QED
  BY <1>5, <1>6, <1>7, <1>8, <1>9, <1>10, <1>11, <1>12, <1>13, ReadEndsGets, WriteEndsGets DEF Effect

\* Part of what is on the wire is read.
LEMMA ReceivedFlow ==
  ASSUME NEW c, NEW d, NEW o, NEW w, NEW wo, Joined(c, o, w, wo), NEW n \in 1 .. Len(w),
         Received(c, d, "ok", SubSeq(w, 1, n))
  PROVE  Own(d) /\ Flows(d, o, SubSeq(w, n + 1, Len(w))) /\ Greeted(d, o, SubSeq(w, n + 1, Len(w)))
<1> DEFINE u == SubSeq(w, 1, n)
           v == SubSeq(w, n + 1, Len(w))
<1>1. /\ ConInv(c) /\ Own(c) /\ Flows(c, o, w) /\ Greeted(c, o, w) /\ ConInv(o) /\ w \in Seq(Items)
      /\ c.rest \in Seq(Items)
  BY DEF Joined, ConInv, Lists
<1>2. /\ d.is_server = c.is_server /\ d.got = c.got /\ d.rest = c.rest /\ d.buf = u /\ d.istate = c.istate
      /\ d.state = c.state /\ d.shut = c.shut /\ d.writes = c.writes
  BY DEF Received, Sets, Fields
<1>3. c.buf = <<>> /\ Len(d.reads) <= 1 /\ d.reads # <<>> /\ d.reads[1].r = "ok"
  BY <1>1, ReadUnderWay
<1>4. Own(d)
  BY <1>1, <1>2, <1>3 DEF Own
<1>5. n \in Nat /\ n >= 1 /\ n <= Len(w) /\ n \in 0 .. Len(w)
  BY <1>1
<1>6. w # <<>> /\ u # <<>> /\ u[1] = w[1]
  <2>1. w # <<>>
    BY <1>5
  <2>2. Len(u) = n
    BY <1>1, <1>5
  <2>3. u # <<>>
    BY <1>5, <2>2
  <2>4. u[1] = w[1]
    BY <1>1, <1>5
  <2>5. QED BY <2>1, <2>3, <2>4
<1>7. ASSUME Live(d) PROVE \E k \in 0 .. Len(o.sent) : Arriving(d, v, k, o.sent) /\ Departing(o, k)
  <2>1. PICK k \in 0 .. Len(o.sent) : Arriving(c, w, k, o.sent) /\ Departing(o, k)
    BY <1>1, <1>2, <1>7 DEF Flows, Live
  <2>2. PICK n1, n2 \in Nat : /\ Carries(c.rest, Len(c.got), n1, o.sent) /\ Carries(c.buf, n1, n2, o.sent)
                              /\ Carries(w, n2, k, o.sent)
    BY <2>1 DEF Arriving
  <2>3. n1 = n2
    BY <2>2, <1>3, CarriesEmpty
  <2>4. PICK m \in Nat : Carries(u, n2, m, o.sent) /\ Carries(v, m, k, o.sent)
    BY <2>2, <1>1, <1>5, CarriesParts
  <2> HIDE DEF u, v
  <2>5. Arriving(d, v, k, o.sent)
    BY <2>2, <2>3, <2>4, <1>2 DEF Arriving
  <2>6. QED BY <2>1, <2>5
<1> HIDE DEF u, v
<1>8. Flows(d, o, v)
  BY <1>1, <1>2, <1>7 DEF Flows
<1>9. Greeted(d, o, v)
  <2>1. SUFFICES ASSUME c.is_server = FALSE PROVE Greeted(d, o, v)
    BY <1>2 DEF Greeted
  <2>2. o.istate \in Answering
    BY <2>1, <1>1, <1>6 DEF Greeted
  <2>3. d.state = "connecting" => Reply(d.buf)
    BY <2>1, <1>1, <1>2, <1>3, <1>6 DEF Greeted, Reply
  <2>4. d.buf # <<>>
    BY <1>2, <1>6
  <2>5. QED BY <2>2, <2>3, <2>4 DEF Greeted
<1>10. QED BY <1>4, <1>8, <1>9 DEF v

\* What is written is put on the wire to o, after what is there.
LEMMA TransmittedFlow ==
  ASSUME NEW c, NEW d, NEW o, NEW w, NEW wo, Joined(c, o, w, wo), Flows(o, c, wo), c.shut = FALSE, Transmitted(c, d, "ok")
  PROVE  /\ Own(d) /\ Flows(d, o, w) /\ Greeted(d, o, w)
         /\ Flows(o, d, wo \o c.writes[1].items) /\ Greeted(o, d, wo \o c.writes[1].items)
<1> DEFINE items == c.writes[1].items
           vo == wo \o items
<1>1. /\ ConInv(c) /\ Own(c) /\ Flows(c, o, w) /\ Greeted(c, o, w) /\ ConInv(o) /\ Greeted(o, c, wo)
      /\ w \in Seq(Items) /\ wo \in Seq(Items) /\ Opposite(c, o)
  BY DEF Joined
<1>2. /\ d.is_server = c.is_server /\ d.istate = c.istate /\ d.state = c.state /\ d.shut = c.shut
      /\ d.sent = c.sent /\ d.queue = c.queue /\ Sets(c, d, {"writes", "tail"})
      /\ c.writes # <<>> /\ c.writes[1].r = "pending"
  BY DEF Transmitted, Sets, Fields
<1>3. d.writes # <<>> /\ d.writes[1].items = items /\ d.writes[1].r = "ok"
  BY TransmittedItems
<1>4. items \in Seq(Items) /\ c.writes[1] \in WriteOps /\ c.writes[1].h \in Writing(c.istate)
  <2>1. c.writes \in Seq(WriteOps) /\ Len(c.writes) <= 1
    BY <1>1 DEF ConInv, Lists, Phased
  <2>2. c.writes[1] \in WriteOps /\ 1 \in DOMAIN c.writes
    BY <1>2, <2>1, TailOfOne
  <2>3. QED BY <2>2, <1>1 DEF WriteOps, ConInv, Phased
<1>5. d.istate = "PROCESS_HTTP_REQUEST" => items # <<>> /\ Reply(items)
  BY <1>1, <1>2 DEF Own
<1>6. Own(d) /\ Ignores(c, d)
  <2>1. Shuts(d)
    BY <1>1, <1>2 DEF Own, Shuts
  <2>2. d.istate = "PROCESS_HTTP_REQUEST" /\ d.writes # <<>> => d.writes[1].items # <<>> /\ Reply(d.writes[1].items)
    BY <1>3, <1>5
  <2>3. QED BY <2>1, <2>2, <1>1, <1>2, Unmoved
<1>7. Flows(d, o, w) /\ Greeted(d, o, w)
  BY <1>1, <1>6, IgnoresKeep
<1> HIDE DEF items
<1>8. Unsent(c) = items /\ Unsent(d) = <<>>
  BY <1>2, <1>3 DEF Unsent, items
<1>9. /\ wo # <<>> => vo # <<>> /\ vo[1] = wo[1]
      /\ items # <<>> => vo # <<>>
      /\ wo = <<>> => vo = items
  <2>1. Len(wo) \in Nat /\ Len(items) \in Nat /\ Len(vo) = Len(wo) + Len(items) /\ vo \in Seq(Items)
    BY <1>1, <1>4
  <2>2. ASSUME wo # <<>> PROVE vo # <<>> /\ vo[1] = wo[1]
    <3>1. Len(wo) >= 1
      BY <1>1, <2>2
    <3>2. vo[1] = wo[1]
      BY <3>1, <1>1, <1>4
    <3>3. Len(vo) >= 1
      BY <3>1, <2>1
    <3>4. vo # <<>>
      BY <3>3
    <3>5. QED BY <3>2, <3>4
  <2>3. ASSUME items # <<>> PROVE vo # <<>>
    <3>1. Len(items) >= 1
      BY <1>4, <2>3
    <3>2. Len(vo) >= 1
      BY <3>1, <2>1
    <3>3. QED BY <3>2
  <2>4. ASSUME wo = <<>> PROVE vo = items
    BY <1>4, <2>4
  <2>5. QED BY <2>2, <2>3, <2>4
<1>10. ASSUME Live(o) PROVE \E n \in 0 .. Len(d.sent) : Arriving(o, vo, n, d.sent) /\ Departing(d, n)
  <2>1. PICK n \in 0 .. Len(c.sent) : Arriving(o, wo, n, c.sent) /\ Departing(c, n)
    BY <1>10 DEF Flows
  <2>2. PICK n1, n2 \in Nat : /\ Carries(o.rest, Len(o.got), n1, c.sent) /\ Carries(o.buf, n1, n2, c.sent)
                              /\ Carries(wo, n2, n, c.sent)
    BY <2>1 DEF Arriving
  <2>3. PICK k \in Nat : Carries(items, n, k, c.sent) /\ Carries(c.queue, k, Len(c.sent), c.sent)
    BY <2>1, <1>8 DEF Departing
  <2>4. Carries(vo, n2, k, c.sent)
    BY <2>2, <2>3, <1>1, <1>4, CarriesBoth
  <2>5. c.queue \in Seq(Items) /\ Len(c.sent) \in Nat
    BY <1>1 DEF ConInv, Lists
  <2>6. k <= Len(c.sent)
    BY <2>3, <2>5, CarriesNothing
  <2>7. k \in 0 .. Len(c.sent)
    BY <2>5, <2>6
  <2> HIDE DEF vo
  <2>8. Arriving(o, vo, k, d.sent)
    BY <2>2, <2>4, <1>2 DEF Arriving
  <2>9. Carries(<<>>, k, k, c.sent)
    BY CarriesNone
  <2>10. Departing(d, k)
    BY <2>3, <2>9, <1>2, <1>8 DEF Departing
  <2>11. QED BY <2>7, <2>8, <2>10, <1>2
<1> HIDE DEF vo
<1>11. Flows(o, d, vo)
  BY <1>2, <1>10 DEF Flows
<1>12. Greeted(o, d, vo)
  <2>1. SUFFICES ASSUME o.is_server = FALSE PROVE Greeted(o, d, vo)
    BY DEF Greeted
  <2>2. c.is_server = TRUE
    BY <2>1, <1>1 DEF Opposite
  <2>3. c.istate \in Answering
    <3>1. c.istate # "WRITE_HTTP_REQUEST"
      BY <2>2, <1>1 DEF Own
    <3>2. QED BY <3>1, <1>4 DEF Writing, Answering
  <2>4. CASE c.istate = "PROCESS_CONNECTION"
    <3>1. Spoken(c)
      BY <2>4 DEF Spoken, Up
    <3>2. o.state = "connecting" => o.buf # <<>> \/ wo # <<>>
      BY <3>1, <2>1, <1>1 DEF Greeted
    <3>3. o.state = "connecting" /\ o.buf = <<>> => vo # <<>> /\ Reply(vo)
      BY <3>2, <2>1, <1>1, <1>9 DEF Greeted, Reply
    <3>4. QED BY <3>3, <2>1, <2>3, <1>1, <1>2 DEF Greeted
  <2>5. CASE c.istate = "PROCESS_HTTP_REQUEST"
    <3>1. items # <<>> /\ Reply(items) /\ vo # <<>>
      BY <2>5, <1>2, <1>5, <1>9
    <3>2. o.state = "connecting" /\ o.buf = <<>> => Reply(vo)
      BY <3>1, <2>1, <1>1, <1>9 DEF Greeted, Reply
    <3>3. QED BY <3>1, <3>2, <2>1, <2>3, <1>1, <1>2 DEF Greeted
  <2>6. QED BY <2>3, <2>4, <2>5 DEF Answering
<1>13. QED BY <1>6, <1>7, <1>11, <1>12 DEF vo, items

LEMMA MovesFlow ==
  ASSUME EndsInv, FlowInv, NEW e \in Ends, Moves(e), "resume" \notin Calls["pair"][e]
  PROVE  FlowInv'
<1>1. PICK d : /\ con' = [con EXCEPT ![e] = d] /\ ConInv(d) /\ mode' = mode
               /\ \/ wire' = wire /\ Effect(con[e], d, Calls[mode][e])
                  \/ \E n \in 1 .. Len(wire[e]) :
                       /\ Received(con[e], d, "ok", SubSeq(wire[e], 1, n))
                       /\ wire' = [wire EXCEPT ![e] = SubSeq(wire[e], n + 1, Len(wire[e]))]
                  \/ /\ con[e].shut = FALSE /\ Transmitted(con[e], d, "ok")
                     /\ wire' = [wire EXCEPT ![Other(e)] =
                                   IF Other(e) \in Active THEN wire[Other(e)] \o con[e].writes[1].items
                                   ELSE wire[Other(e)]]
  BY DEF Moves
<1>2. /\ DOMAIN con = Ends /\ DOMAIN wire = Ends
      /\ \A f \in Ends : ConInv(con[f]) /\ con[f].is_server = (f = "server") /\ wire[f] \in Seq(Items)
  BY DEF EndsInv
<1>3. SUFFICES ASSUME mode = "pair"
               PROVE  \A f \in Ends : /\ Own(con'[f]) /\ Flows(con'[f], con'[Other(f)], wire'[f])
                                      /\ Greeted(con'[f], con'[Other(f)], wire'[f])
  BY <1>1 DEF FlowInv
<1> DEFINE c == con[e]
           o == con[Other(e)]
           w == wire[e]
           wo == wire[Other(e)]
<1>4. /\ Other(e) \in Ends /\ Other(e) # e /\ Other(Other(e)) = e /\ Other(e) \in Active
      /\ \A f \in Ends : f \in {e, Other(e)}
  BY TwoEnds, <1>3 DEF Ends, Active
<1>5. con'[e] = d /\ con'[Other(e)] = o
  BY <1>1, <1>2, <1>4
<1>6. /\ Own(c) /\ Flows(c, o, w) /\ Greeted(c, o, w) /\ Own(o) /\ Flows(o, c, wo) /\ Greeted(o, c, wo)
  BY <1>3, <1>4 DEF FlowInv
<1>7. ConInv(c) /\ ConInv(o) /\ w \in Seq(Items) /\ wo \in Seq(Items)
  BY <1>2, <1>4
<1>8. Opposite(c, o)
  <2>1. con["server"].is_server = TRUE /\ con["client"].is_server = FALSE
    BY <1>2 DEF Ends
  <2>2. CASE e = "server"
    BY <2>1, <2>2, TwoEnds DEF Opposite
  <2>3. CASE e = "client"
    BY <2>1, <2>3, TwoEnds DEF Opposite
  <2>4. QED BY <2>2, <2>3 DEF Ends
<1> HIDE DEF c, o, w, wo
<1>9. Joined(c, o, w, wo) /\ (c.is_server = TRUE \/ o.is_server = TRUE)
  BY <1>6, <1>7, <1>8 DEF Joined, Opposite
<1>10. Lists(c) /\ Lists(d) /\ Lists(o) /\ Shuts(c)
  BY <1>1, <1>6, <1>7 DEF ConInv, Own, Shuts
<1>11. /\ Own(d) /\ Flows(d, o, wire'[e]) /\ Greeted(d, o, wire'[e])
       /\ Flows(o, d, wire'[Other(e)]) /\ Greeted(o, d, wire'[Other(e)])
  <2>1. CASE wire' = wire /\ Effect(c, d, Calls[mode][e])
    <3>1. "resume" \notin Calls[mode][e]
      BY <1>3
    <3>2. Forwards(c, d) /\ Shuts(d)
      BY <2>1, <3>1, <1>1, <1>6, <1>7, ForwardsEffect
    <3>3. Own(d) /\ Flows(d, o, w) /\ Greeted(d, o, w)
      BY <2>1, <3>1, <3>2, <1>1, <1>9, EffectGets
    <3>4. Flows(o, d, wo) /\ Greeted(o, d, wo)
      BY <3>2, <1>6, <1>7, <1>9, <1>10, ForwardsKeep
    <3>5. wire'[e] = w /\ wire'[Other(e)] = wo
      BY <2>1 DEF w, wo
    <3>6. QED BY <3>3, <3>4, <3>5
  <2>2. CASE \E n \in 1 .. Len(w) : /\ Received(c, d, "ok", SubSeq(w, 1, n))
                                    /\ wire' = [wire EXCEPT ![e] = SubSeq(w, n + 1, Len(w))]
    <3>1. PICK n \in 1 .. Len(w) : /\ Received(c, d, "ok", SubSeq(w, 1, n))
                                   /\ wire' = [wire EXCEPT ![e] = SubSeq(w, n + 1, Len(w))]
      BY <2>2
    <3> DEFINE v == SubSeq(w, n + 1, Len(w))
    <3>2. wire'[e] = v /\ wire'[Other(e)] = wo
      BY <3>1, <1>2, <1>4 DEF wo
    <3>3. Own(d) /\ Flows(d, o, v) /\ Greeted(d, o, v)
      BY <3>1, <1>9, ReceivedFlow
    <3> HIDE DEF v
    <3>4. Sets(c, d, {"reads", "buf"})
      BY <3>1 DEF Received
    <3>5. Forwards(c, d)
      BY <3>4, <1>10, ForwardsMute
    <3>6. Flows(o, d, wo) /\ Greeted(o, d, wo)
      BY <3>5, <1>6, <1>7, <1>9, <1>10, ForwardsKeep
    <3>7. QED BY <3>2, <3>3, <3>6
  <2>3. CASE /\ c.shut = FALSE /\ Transmitted(c, d, "ok")
             /\ wire' = [wire EXCEPT ![Other(e)] = wo \o c.writes[1].items]
    <3> DEFINE vo == wo \o c.writes[1].items
    <3>1. wire'[e] = w /\ wire'[Other(e)] = vo
      BY <2>3, <1>2, <1>4 DEF w
    <3>2. /\ Own(d) /\ Flows(d, o, w) /\ Greeted(d, o, w) /\ Flows(o, d, vo) /\ Greeted(o, d, vo)
      BY <2>3, <1>6, <1>9, TransmittedFlow
    <3> HIDE DEF vo
    <3>3. QED BY <3>1, <3>2
  <2>4. QED BY <1>1, <1>4, <2>1, <2>2, <2>3 DEF c, w, wo
<1>12. QED BY <1>4, <1>5, <1>6, <1>11

LEMMA NextFlow ==
  ASSUME EndsInv, FlowInv, "badext" \notin Responses, \A e \in Ends : "resume" \notin Calls["pair"][e], [Next]_vars, Timely'
  PROVE  FlowInv'
<1>1. CASE \E e \in Active : Machine(e) \/ Application(e)
  <2>1. PICK e \in Active : Machine(e) \/ Application(e)
    BY <1>1
  <2>2. e \in Ends
    BY <2>1 DEF Active, Ends, EndsInv
  <2>3. Moves(e)
    BY <2>1, <2>2, MachineMoves, ApplicationMoves
  <2>4. QED BY <2>2, <2>3, MovesFlow
<1>2. CASE PeerSend \/ PeerGone
  BY <1>2, PeerKeeps DEF FlowInv
<1>3. CASE UNCHANGED vars
  BY <1>3 DEF FlowInv, vars
<1>4. QED BY <1>1, <1>2, <1>3 DEF Next

LEMMA InitFlow ==
  ASSUME Init PROVE FlowInv
<1>1. \A e \in Ends : Other(e) \in Ends
  BY TwoEnds DEF Ends
<1>2. ASSUME NEW e \in Ends
      PROVE  /\ con[e].state = "connecting" /\ con[e].istate = "TRANSPORT_INIT" /\ con[e].shut = FALSE
             /\ con[e].reads = <<>> /\ con[e].buf = <<>> /\ con[e].rest = <<>> /\ con[e].queue = <<>>
             /\ con[e].writes = <<>> /\ con[e].got = <<>> /\ con[e].sent = <<>> /\ wire[e] = <<>>
  BY DEF Init, start, connection
<1>3. ASSUME NEW e \in Ends PROVE Own(con[e])
  <2>1. con[e].shut = (con[e].state = "closed")
    <3>1. con[e].shut = FALSE /\ ~(con[e].state = "closed")
      BY <1>2
    <3>2. QED BY <3>1, Zenon
  <2>2. Len(con[e].reads) <= 1
    <3>1. con[e].reads = <<>>
      BY <1>2
    <3>2. Len(<<>>) <= 1
      OBVIOUS
    <3>3. QED BY <3>1, <3>2, Zenon
  <2>3. QED BY <2>1, <2>2, <1>2 DEF Own
<1>4. ASSUME NEW e \in Ends, NEW f \in Ends PROVE Flows(con[e], con[f], wire[e])
  <2> DEFINE c == con[e]
             o == con[f]
             w == wire[e]
  <2>1. /\ c.buf = <<>> /\ c.rest = <<>> /\ c.got = <<>> /\ w = <<>> /\ o.sent = <<>> /\ o.queue = <<>>
        /\ o.writes = <<>>
    BY <1>2
  <2> HIDE DEF c, o, w
  <2>2. Carries(<<>>, 0, 0, <<>>) /\ 0 \in Nat /\ 0 \in 0 .. 0 /\ Len(<<>>) = 0
    BY CarriesNone
  <2>3. Begins(c.got, o.sent)
    BY <2>1 DEF Begins
  <2>4. Arriving(c, w, 0, o.sent)
    BY <2>1, <2>2 DEF Arriving
  <2>5. Departing(o, 0)
    BY <2>1, <2>2 DEF Departing, Unsent
  <2>6. Flows(c, o, w)
    BY <2>1, <2>2, <2>3, <2>4, <2>5 DEF Flows
  <2>7. QED BY <2>6 DEF c, o, w
<1>5. ASSUME NEW e \in Ends, NEW f \in Ends PROVE Greeted(con[e], con[f], wire[e])
  BY <1>2 DEF Greeted, Spoken, Up
<1>6. QED BY <1>1, <1>3, <1>4, <1>5 DEF FlowInv

LEMMA FlowInOrder ==
  ASSUME EndsInv, FlowInv PROVE FifoDelivery
<1>1. SUFFICES ASSUME mode = "pair", NEW e \in Ends PROVE IsPrefix(con[e].got, con[Other(e)].sent)
  BY DEF FifoDelivery
<1>2. Other(e) \in Ends
  BY TwoEnds DEF Ends
<1> DEFINE s == con[e].got
           t == con[Other(e)].sent
<1>3. Begins(s, t)
  BY <1>1 DEF FlowInv, Flows
<1>4. s \in Seq(Payload) /\ t \in Seq(Payload)
  BY <1>2 DEF EndsInv, ConInv, Lists
<1> HIDE DEF s, t
<1>5. Len(s) \in Nat /\ Len(s) <= Len(t) /\ \A i \in 1 .. Len(s) : s[i] = t[i]
  BY <1>3, <1>4 DEF Begins
<1>6. SubSeq(s, 1, Len(s)) = SubSeq(t, 1, Len(s))
  BY <1>4, <1>5
<1>7. QED BY <1>5, <1>6 DEF IsPrefix, s, t

(* connection (send, push_message, write_frame, handle_read_frame): what   *)
(* one end's application gets is at all times the beginning of what the    *)
(* other end's application sent, in its order and with none left out or    *)
(* taken twice, whatever the reads and the writes cut it into; at most one *)
(* write is under way; and nothing follows a terminal frame.  The ends do  *)
(* not call resume_reading: a second read would then share the buffer of   *)
(* the first; and no close is overtaken by the end of its connection.      *)
THEOREM AlwaysInOrder ==
  ASSUME "badext" \notin Responses, \A e \in Ends : "resume" \notin Calls["pair"][e]
  PROVE  Spec /\ []Timely => []SendsInOrder
<1>1. Init => EndsInv /\ FlowInv
  BY InitEnds, InitFlow
<1>2. EndsInv /\ FlowInv /\ [Next]_vars /\ Timely' => EndsInv' /\ FlowInv'
  BY NextEnds, NextFlow
<1>3. EndsInv /\ FlowInv => SendsInOrder
  BY EndsAgree, FlowInOrder DEF SendsInOrder
<1>4. QED BY <1>1, <1>2, <1>3, PTL DEF Spec

=============================================================================
