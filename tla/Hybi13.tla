------------------------------- MODULE Hybi13 -------------------------------
(***************************************************************************)
(* Frames of RFC 6455 as websocketpp writes and reads them (frame.hpp,     *)
(* processors/hybi13.hpp).  A peer puts frames on the wire, prepared by    *)
(* this library or made by another; the reader is fed the bytes in chunks  *)
(* of any size and consumes them iteration by iteration.  The reference    *)
(* looks at whole frames only.                                             *)
(*                                                                         *)
(* The limits of the length field are scaled: a size up to PayloadBasic is *)
(* in the basic header, and a byte of the extended sizes is a bit, so that *)
(* two of them hold up to 3.  A masked byte is known by the key and the    *)
(* index it was masked with; any other index makes garbage of it.          *)
(***************************************************************************)
EXTENDS Integers, Sequences, SequencesExt

CONSTANTS Payloads,       \* the payloads of frames, as types of UTF-8 bytes
          PayloadBasic,   \* limits::payload_size_basic
          MaxMessage,     \* m_max_message_size
          MaxChunk,       \* most bytes of one read
          Deflate         \* whether permessage-deflate was negotiated

VARIABLES peer,   \* the frame being sent and its bytes not yet read
          hy,     \* the processor and the buffer it consumes
          ref     \* the reference: the message so far, what is due, and a verdict
vars == <<peer, hy, ref>>

U == INSTANCE Utf8 WITH MaxText <- 0, text <- <<>>, validator <- 0

payload_size_code_16bit == PayloadBasic + 1
payload_size_code_64bit == PayloadBasic + 2
payload_size_extended == 3
BASIC_HEADER_LENGTH == 2
Control == {"close", "ping", "pong", "control_rsv"}
is_control(op) == op \in Control
reserved(op) == op \in {"rsv", "control_rsv"}
None == "none"
Idle == [op |-> None]
Garbage == 8      \* a byte of a type that is never valid UTF-8

-----------------------------------------------------------------------------
\* Headers.  The shortest of the three length codes is chosen.
basic_size(size) ==
  IF size <= PayloadBasic THEN size
  ELSE IF size <= payload_size_extended THEN payload_size_code_16bit ELSE payload_size_code_64bit
basic_header(op, size, fin, mask, rsv1, rsv2) ==
  [b0 |-> [fin |-> fin, rsv1 |-> rsv1, rsv2 |-> rsv2, op |-> op],
   b1 |-> [mask |-> mask, size |-> basic_size(size)]]
Bytes(n, width) == [i \in 1..width |-> (n \div 2^(width - i)) % 2]
copy_payload(h, size) ==
  CASE h.b1.size = payload_size_code_16bit -> Bytes(size, 2)
    [] h.b1.size = payload_size_code_64bit -> Bytes(size, 8)
    [] OTHER -> <<>>
extended_header(h, size, key) ==
  copy_payload(h, size) \o (IF h.b1.mask THEN [i \in 1..4 |-> <<key, i - 1>>] ELSE <<>>)
prepare_header(h, e) == <<h.b0, h.b1>> \o e

get_masking_key_offset(h) ==
  CASE h.b1.size = payload_size_code_16bit -> 2
    [] h.b1.size = payload_size_code_64bit -> 8
    [] OTHER -> 0
get_header_len(h) == BASIC_HEADER_LENGTH + get_masking_key_offset(h) + (IF h.b1.mask THEN 4 ELSE 0)
Number(e, width) == FoldLeft(LAMBDA n, b : 2 * n + b, 0, SubSeq(e, 1, width))
get_payload_size(h, e) ==
  CASE h.b1.size <= PayloadBasic -> h.b1.size
    [] h.b1.size = payload_size_code_16bit -> Number(e, 2)
    [] OTHER -> Number(e, 8)
\* The key is prepared as a word that circles: the key and where it stands.
get_masking_key(h, e) ==
  IF h.b1.mask THEN e[get_masking_key_offset(h) + 1] ELSE <<None, 0>>
circshift_prepared_key(key, offset) == <<key[1], (key[2] + offset) % 4>>

\* Masking and unmasking are one operation: what a byte was masked with
\* cancels out, and anything else leaves garbage.
Xor(byte, mask) ==
  CASE byte.mask = None -> [byte EXCEPT !.mask = mask]
    [] byte.mask = mask -> [byte EXCEPT !.mask = None]
    [] OTHER -> [byte EXCEPT !.mask = None, !.v = <<Garbage>>]
byte_mask(s, key) == [i \in 1..Len(s) |-> Xor(s[i], <<key, (i - 1) % 4>>)]
byte_mask_circ(s, key) == [i \in 1..Len(s) |-> Xor(s[i], circshift_prepared_key(key, i - 1))]

\* A byte of the wire and what it stands for: a compressed one for two bytes of
\* the payload, so that a payload shrinks by half, and any other for itself.
Smaller(m, n) == IF m < n THEN m ELSE n
WireSize(s, z) == IF z THEN (Len(s) + 1) \div 2 ELSE Len(s)
compress(s) == [i \in 1..WireSize(s, TRUE) |-> SubSeq(s, 2 * i - 1, Smaller(2 * i, Len(s)))]
Octets(s, z) ==
  [i \in 1..WireSize(s, z) |-> [v |-> IF z THEN compress(s)[i] ELSE <<s[i]>>, mask |-> None, z |-> z]]

-----------------------------------------------------------------------------
\* Writing.  A frame is what goes on the wire, or an error and nothing does.
validate(s) ==
  LET v == FoldLeft(U!decode, U!NewValidator, s) IN v.ok /\ U!complete(v)
Wire(h, payload, z) ==
  LET o == Octets(payload, z)
      key == IF h.b1.mask THEN "key" ELSE None
  IN  [h |-> h, payload |-> payload, z |-> z, size |-> Len(o),
       bytes |-> prepare_header(h, extended_header(h, Len(o), key))
                 \o (IF h.b1.mask THEN byte_mask(o, key) ELSE o)]
\* prepare_data_frame: text that is no UTF-8 is refused.
prepare_data_frame(op, payload, fin, compressed, masked) ==
  IF is_control(op) \/ (op = "text" /\ ~validate(payload)) THEN {}
  ELSE LET z == compressed /\ Deflate
       IN  {Wire(basic_header(op, WireSize(payload, z), fin, masked, z, FALSE), payload, z)}
\* prepare_control, also behind prepare_ping, prepare_pong and prepare_close.
prepare_control(op, payload, masked) ==
  IF ~is_control(op) \/ Len(payload) > PayloadBasic THEN {}
  ELSE {Wire(basic_header(op, Len(payload), TRUE, masked, FALSE, FALSE), payload, FALSE)}

-----------------------------------------------------------------------------
\* Reading.
\* The rest of a message's state outlives its frames, the key does not.
reset_headers(y) ==
  [y EXCEPT !.m_state = "HEADER_BASIC", !.m_bytes_needed = BASIC_HEADER_LENGTH,
            !.h = <<>>, !.e = <<>>]
msg_metadata(op, key, z) ==
  [op |-> op, key |-> key, out |-> <<>>, validator |-> U!NewValidator, z |-> z]
Header(y) == [b0 |-> y.h[1], b1 |-> y.h[2]]
Fails(y, error) == [y EXCEPT !.ec = error]

\* The errors are told apart by the close code they lead to.
validate_incoming_basic_header(h, is_server, new_msg) ==
  LET op == h.b0.op
  IN  IF \/ is_control(op) /\ (h.b1.size > PayloadBasic \/ ~h.b0.fin)
         \/ h.b0.rsv1 /\ (~Deflate \/ is_control(op))
         \/ h.b0.rsv2 \/ reserved(op)
         \/ new_msg /\ op = "continuation"
         \/ ~new_msg /\ ~is_control(op) /\ op # "continuation"
         \/ is_server # h.b1.mask
      THEN "protocol_error" ELSE None
validate_incoming_extended_header(h, e) ==
  LET size == get_payload_size(h, e)
  IN  IF \/ h.b1.size = payload_size_code_16bit /\ size <= PayloadBasic
         \/ h.b1.size = payload_size_code_64bit /\ size <= payload_size_extended
      THEN "protocol_error" ELSE None

Take(y, n) == [y EXCEPT !.buf = SubSeq(@, n + 1, Len(@)), !.m_bytes_needed = @ - n]
\* Two bytes at once only if none has been read and two are there.
copy_basic_header_bytes(y) ==
  LET n == IF Len(y.buf) > 1 /\ y.m_bytes_needed = 2 THEN 2 ELSE 1
  IN  [Take(y, n) EXCEPT !.h = @ \o SubSeq(y.buf, 1, n)]
copy_extended_header_bytes(y) ==
  LET n == Smaller(y.m_bytes_needed, Len(y.buf))
  IN  [Take(y, n) EXCEPT !.e = @ \o SubSeq(y.buf, 1, n)]

\* The header is complete: a control message, a new message or more of one.
StartPayload(y) ==
  LET h == Header(y)
      key == get_masking_key(h, y.e)
      size == get_payload_size(h, y.e)
      z == [y EXCEPT !.m_state = "APPLICATION", !.m_bytes_needed = size]
  IN  CASE is_control(h.b0.op) ->
             [z EXCEPT !.control = msg_metadata(h.b0.op, key, FALSE), !.current = "control"]
        [] ~is_control(h.b0.op) /\ Len(IF y.data = Idle THEN <<>> ELSE y.data.out) + size > MaxMessage ->
             Fails(z, "message_too_big")
        [] ~is_control(h.b0.op) /\ Len(IF y.data = Idle THEN <<>> ELSE y.data.out) + size <= MaxMessage ->
             [z EXCEPT !.current = "data",
                       !.data = IF @ = Idle THEN msg_metadata(h.b0.op, key, Deflate /\ h.b0.rsv1)
                                ELSE [@ EXCEPT !.key = key]]

\* zlib gives back what was compressed, which is longer than what came, and
\* nothing looks at its size; a copy does not look inside.
decompress(s) == FlattenSeq([i \in 1..Len(s) |-> s[i].v])
Copied(s) == [i \in 1..Len(s) |-> IF s[i].z THEN Garbage ELSE s[i].v[1]]
process_payload_bytes(y, n) ==
  LET m == y[y.current]
      s == IF Header(y).b1.mask THEN byte_mask_circ(SubSeq(y.buf, 1, n), m.key) ELSE SubSeq(y.buf, 1, n)
      new == IF m.z THEN decompress(s) ELSE Copied(s)
      v == IF m.op = "text" THEN FoldLeft(U!decode, m.validator, new) ELSE m.validator
      m2 == [m EXCEPT !.out = @ \o new, !.key = circshift_prepared_key(@, n % 4), !.validator = v]
  IN  CASE m.z /\ \E i \in 1..n : ~s[i].z -> Fails(y, "protocol_error")
        [] ~(m.z /\ \E i \in 1..n : ~s[i].z) /\ ~v.ok -> Fails(y, "invalid_payload")
        [] OTHER -> [Take(y, n) EXCEPT ![y.current] = m2]

\* The opcode is that of the last frame, which in a message of several frames
\* is a continuation.
finalize_message(y) ==
  IF Header(y).b0.op = "text" /\ ~U!complete(y[y.current].validator) THEN Fails(y, "invalid_payload")
  ELSE [y EXCEPT !.m_state = "READY"]
EndFrame(y) == IF Header(y).b0.fin THEN finalize_message(y) ELSE reset_headers(y)

\* One iteration of consume.
ConsumeBasic(y) ==
  LET z == copy_basic_header_bytes(y)
      h == Header(z)
      ec == validate_incoming_basic_header(h, y.is_server, y.data = Idle)
  IN  IF z.m_bytes_needed > 0 THEN z
      ELSE IF ec # None THEN Fails(z, ec)
      ELSE [z EXCEPT !.m_state = "HEADER_EXTENDED", !.m_bytes_needed = get_header_len(h) - BASIC_HEADER_LENGTH]
ConsumeExtended(y) ==
  LET z == copy_extended_header_bytes(y)
      ec == validate_incoming_extended_header(Header(z), z.e)
  IN  IF z.m_bytes_needed > 0 THEN z ELSE IF ec # None THEN Fails(z, ec) ELSE StartPayload(z)
ConsumePayload(y) ==
  LET n == Smaller(y.m_bytes_needed, Len(y.buf))
      z == IF n > 0 THEN process_payload_bytes(y, n) ELSE y
  IN  IF z.ec # None \/ z.m_bytes_needed > 0 THEN z ELSE EndFrame(z)

\* With one variable for both kinds, a ping would end the message it is in.
GetMessageClearsBoth(y) ==
  [msg |-> [op |-> y[y.current].op, out |-> y[y.current].out],
   y |-> reset_headers([y EXCEPT !.data = Idle, !.control = Idle])]
\* get_message hands over the message; a control frame leaves the data alone.
get_message(y) ==
  [msg |-> [op |-> y[y.current].op, out |-> y[y.current].out],
   y |-> reset_headers([y EXCEPT ![y.current] = Idle])]

-----------------------------------------------------------------------------
\* The reference: what a frame f means after the frames before it.
NoMessage == [op |-> None, out |-> <<>>, z |-> FALSE]
\* The message f belongs to, f included.
Joined(f, open) ==
  LET op == IF f.h.b0.op = "continuation" THEN open.op ELSE f.h.b0.op
      z == IF f.h.b0.op = "continuation" THEN open.z ELSE f.h.b0.rsv1
      content == IF f.z /\ ~z THEN [i \in 1..f.size |-> Garbage] ELSE f.payload
  IN  [op |-> op, out |-> IF is_control(op) THEN content ELSE open.out \o content, z |-> z]
\* The size of a frame that is compared with the limit is its size on the wire.
Legal(f, open) ==
  LET h == f.h
      m == Joined(f, open)
      v == FoldLeft(U!decode, U!NewValidator, m.out)
  IN  /\ h.b0.op \in {"continuation", "text", "binary", "close", "ping", "pong"}
      /\ h.b1.mask = hy.is_server /\ ~h.b0.rsv2 /\ (h.b0.rsv1 => Deflate)
      /\ h.b1.size = basic_size(f.size)
      /\ IF is_control(h.b0.op) THEN h.b0.fin /\ ~h.b0.rsv1 /\ f.size <= PayloadBasic
         ELSE /\ (h.b0.op = "continuation") = (open # NoMessage)
              /\ Len(open.out) + f.size <= MaxMessage
              /\ m.z => f.z \/ f.payload = <<>>
              /\ m.op = "text" => v.ok
              /\ h.b0.op = "text" /\ h.b0.fin => U!complete(v)
Meaning(f, r) ==
  LET m == Joined(f, r.open)
  IN  IF ~Legal(f, r.open) THEN [r EXCEPT !.due = Append(@, "bad"), !.bad = TRUE]
      ELSE [r EXCEPT !.due = IF f.h.b0.fin THEN Append(@, [op |-> m.op, out |-> m.out]) ELSE @,
                     !.open = IF is_control(m.op) THEN @ ELSE IF f.h.b0.fin THEN NoMessage ELSE m]

-----------------------------------------------------------------------------
Init ==
  \E server \in BOOLEAN :
    /\ peer = <<>>
    /\ hy = [m_state |-> "HEADER_BASIC", m_bytes_needed |-> BASIC_HEADER_LENGTH, h |-> <<>>, e |-> <<>>,
             data |-> Idle, control |-> Idle, current |-> "data", buf |-> <<>>, ec |-> None,
             is_server |-> server]
    /\ ref = [open |-> NoMessage, due |-> <<>>, bad |-> FALSE, agree |-> TRUE]

\* A peer that is another implementation may break a rule: one at a time.
Defects == {"mask", "rsv1", "rsv2", "opcode", "code16", "code64"}
Broken(f, defect) ==
  CASE defect = "mask" -> [f EXCEPT !.b1.mask = ~@]
    [] defect = "rsv1" -> [f EXCEPT !.b0.rsv1 = ~@]
    [] defect = "rsv2" -> [f EXCEPT !.b0.rsv2 = TRUE]
    [] defect = "opcode" -> [f EXCEPT !.b0.op = IF is_control(@) THEN "control_rsv" ELSE "rsv"]
    [] defect = "code16" -> [f EXCEPT !.b1.size = payload_size_code_16bit]
    [] defect = "code64" -> [f EXCEPT !.b1.size = payload_size_code_64bit]
OtherFrames(masked) ==
  {Wire(basic_header(op, WireSize(p, z), fin, masked, FALSE, FALSE), p, z) :
     op \in {"continuation", "text", "ping"}, p \in Payloads, fin \in BOOLEAN, z \in {FALSE, Deflate}}
  \union {Wire(Broken(basic_header(op, Len(p), TRUE, masked, FALSE, FALSE), defect), p, FALSE) :
     op \in {"continuation", "ping"}, p \in Payloads, defect \in Defects}
LibraryFrames(masked) ==
  UNION {prepare_data_frame("text", p, fin, z, masked) : p \in Payloads, fin \in BOOLEAN, z \in BOOLEAN}
  \union UNION {prepare_data_frame("binary", p, TRUE, z, masked) : p \in Payloads, z \in BOOLEAN}
  \union UNION {prepare_control(op, p, masked) : op \in {"ping", "pong", "close"}, p \in Payloads}

\* A short frame may begin before the last byte of the one before is read, so
\* that one chunk holds parts of both.
Send ==
  /\ ~ref.bad /\ Len(peer) <= 1
  /\ \E f \in OtherFrames(hy.is_server) \union LibraryFrames(hy.is_server) :
       /\ peer # <<>> => hy.buf = <<>> /\ f \in prepare_control("ping", <<>>, hy.is_server)
       /\ peer' = peer \o f.bytes
       /\ ref' = Meaning(f, ref)
  /\ UNCHANGED hy

CanConsume == hy.ec = None /\ hy.m_state # "READY" /\ (hy.buf # <<>> \/ hy.m_bytes_needed = 0)
Read ==
  /\ hy.ec = None /\ hy.m_state # "READY" /\ ~CanConsume
  /\ \E n \in 1..MaxChunk :
       /\ n <= Len(peer)
       /\ hy' = [hy EXCEPT !.buf = SubSeq(peer, 1, n)]
       /\ peer' = SubSeq(peer, n + 1, Len(peer))
  /\ UNCHANGED ref

\* The reference compares what the reader puts out with what is due.
Compare(r, output) ==
  [r EXCEPT !.due = IF @ = <<>> THEN @ ELSE Tail(@), !.agree = @ /\ r.due # <<>> /\ Head(r.due) = output]
consume ==
  /\ CanConsume
  /\ hy' = CASE hy.m_state = "HEADER_BASIC" -> ConsumeBasic(hy)
             [] hy.m_state = "HEADER_EXTENDED" -> ConsumeExtended(hy)
             [] hy.m_state = "APPLICATION" -> ConsumePayload(hy)
  /\ ref' = IF hy'.ec # None THEN Compare(ref, "bad") ELSE ref
  /\ UNCHANGED peer
Deliver ==
  /\ hy.m_state = "READY"
  /\ LET g == get_message(hy) IN hy' = g.y /\ ref' = Compare(ref, g.msg)
  /\ UNCHANGED peer

Next == Send \/ Read \/ consume \/ Deliver

-----------------------------------------------------------------------------
\* Whatever the chunks: the messages delivered are those the frames carry, in
\* their order, bytes unmasked and decompressed, control frames in the middle
\* of others included; and a frame is refused exactly when it is illegal: for
\* its size, if the message so far and what of the frame is on the wire exceed
\* the limit.
ReadsWhatWasSent ==
  /\ ref.agree
  /\ hy.ec = None /\ hy.m_state # "READY" /\ ~CanConsume /\ peer = <<>> => ref.due = <<>>

\* "Maximum message size determines the point at which the connection will fail
\* with the message_too_big protocol error" (set_max_message_size).  It does not
\* hold of a message that is compressed: README, section 6.
WithinLimit == hy.m_state = "READY" /\ hy.current = "data" => Len(hy.data.out) <= MaxMessage

\* A text message ends on a code point: finalize_message says it ensures that.
\* It does not hold: README, section 6.
TextEndsOnCodePoint ==
  hy.m_state = "READY" /\ hy.current = "data" /\ hy.data.op = "text" => U!complete(hy.data.validator)
=============================================================================
