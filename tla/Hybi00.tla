------------------------------- MODULE Hybi00 -------------------------------
(***************************************************************************)
(* The frames of the draft protocol hybi 00 (processors/hybi00.hpp): a     *)
(* message is a header byte, its text and a footer byte, and there are no  *)
(* control frames.  The connection reads chunks of any size; consume stops *)
(* at the end of a message and is called again with the rest.              *)
(***************************************************************************)
EXTENDS Integers, Sequences

CONSTANTS Texts,      \* the messages that are sent, valid UTF-8 or not
          MaxSent     \* bound on the messages sent

VARIABLES wire,   \* the bytes on their way
          hy00,   \* the processor and the buffer it consumes
          said    \* the messages sent and not yet delivered, and a verdict
vars == <<wire, hy00, said>>

msg_hdr == 0
msg_ftr == 255
Invalid == 200      \* a byte that is no UTF-8
ValidUtf8(s) == \A i \in 1..Len(s) : s[i] \notin {Invalid, msg_ftr}

\* Every message that is read is a text.
NoMessage == [opcode |-> "none", payload |-> <<>>]
NewMessage == [opcode |-> "text", payload |-> <<>>]

Init ==
  /\ wire = <<>>
  /\ hy00 = [m_state |-> "HEADER", msg |-> NoMessage, buf |-> <<>>]
  /\ said = [due |-> <<>>, sent |-> 0, agree |-> TRUE, foreign |-> FALSE]

\* prepare_data_frame refuses what is no text, and what is no UTF-8, so that no
\* footer byte is inside.
prepare_data_frame(opcode, text) ==
  IF opcode = "text" /\ ValidUtf8(text) THEN {<<msg_hdr>> \o text \o <<msg_ftr>>} ELSE {}
prepare_close == <<msg_ftr, msg_hdr>>

Send(opcode, text) ==
  /\ said.sent < MaxSent /\ ~said.foreign
  /\ \E bytes \in prepare_data_frame(opcode, text) :
       /\ wire' = wire \o bytes
       /\ said' = [said EXCEPT !.due = Append(@, [opcode |-> opcode, payload |-> text]), !.sent = @ + 1]
  /\ UNCHANGED hy00
\* The frame that closes is no message to the reader: a protocol violation.
Close ==
  /\ ~said.foreign
  /\ wire' = wire \o prepare_close
  /\ said' = [said EXCEPT !.foreign = TRUE]
  /\ UNCHANGED hy00

Read ==
  /\ hy00.buf = <<>> /\ hy00.m_state \in {"HEADER", "PAYLOAD"}
  /\ \E n \in 1..Len(wire) :
       hy00' = [hy00 EXCEPT !.buf = SubSeq(wire, 1, n)] /\ wire' = SubSeq(wire, n + 1, Len(wire))
  /\ UNCHANGED said

\* One iteration of consume.
From(s, n) == SubSeq(s, n, Len(s))
Footers(s) == {i \in 1..Len(s) : s[i] = msg_ftr}
Payload(y) ==
  LET end == CHOOSE i \in Footers(y.buf) : \A j \in Footers(y.buf) : i <= j
  IN  IF Footers(y.buf) = {} THEN [y EXCEPT !.msg.payload = @ \o y.buf, !.buf = <<>>]
      ELSE [y EXCEPT !.msg.payload = @ \o SubSeq(y.buf, 1, end - 1), !.buf = From(@, end + 1), !.m_state = "READY"]

Consumed(y) ==
  CASE y.m_state = "HEADER" /\ y.buf[1] = msg_hdr ->
         [y EXCEPT !.buf = From(@, 2), !.m_state = "PAYLOAD", !.msg = NewMessage]
    [] y.m_state = "HEADER" /\ y.buf[1] # msg_hdr -> [y EXCEPT !.m_state = "FATAL_ERROR"]
    [] y.m_state = "PAYLOAD" -> Payload(y)
consume ==
  /\ hy00.buf # <<>> /\ hy00.m_state \in {"HEADER", "PAYLOAD"}
  /\ hy00' = Consumed(hy00)
  /\ UNCHANGED <<wire, said>>
get_message ==
  /\ hy00.m_state = "READY"
  /\ hy00' = [hy00 EXCEPT !.m_state = "HEADER", !.msg = NoMessage]
  /\ said' = [said EXCEPT !.due = IF @ = <<>> THEN @ ELSE Tail(@),
                          !.agree = @ /\ said.due # <<>> /\ hy00.msg = Head(said.due)]
  /\ UNCHANGED wire

Next == (\E opcode \in {"text", "binary"}, text \in Texts : Send(opcode, text)) \/ Close \/ Read \/ consume \/ get_message

\* However the bytes are cut and joined, the texts sent are delivered each
\* once and in order, and only a closing frame stops the reader.
TextsInOrder ==
  /\ said.agree
  /\ hy00.m_state = "FATAL_ERROR" => said.foreign /\ said.due = <<>>
  /\ wire = <<>> /\ hy00.buf = <<>> /\ hy00.m_state = "HEADER" => said.due = <<>>
=============================================================================
