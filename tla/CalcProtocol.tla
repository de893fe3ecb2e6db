---------------------------- MODULE CalcProtocol ----------------------------
(***************************************************************************)
(* The calculator's protocol (lesson_IO/Reactor/Protocol.hpp, copied from  *)
(* lesson10/cal/protol.hpp): a JSON text with its length before it and the *)
(* line separator after both.  A stream is a sequence of bytes, where the  *)
(* digits of the length are one byte, its number, and a JSON text is its   *)
(* object in the first byte and filling in the others.                     *)
(***************************************************************************)
EXTENDS Integers, Sequences, SequencesExt

\* Bytes are records, so that they can be compared.
CR == [t |-> "\r"]
LF == [t |-> "\n"]
Pad == [t |-> "pad"]
Length(n) == [t |-> "length", n |-> n]
LINE_SEP == <<CR, LF>>

\* The codes of a Repose.
OK == 0
DIV_ZERO == 1
MOD_ZERO == 2

\* Requse::serialize and Repose::serialize; the texts differ in length.
SerializeRequest(req) ==
  <<[t |-> "request", r |-> req]>> \o (IF req.op = "+" THEN <<>> ELSE <<Pad>>)
SerializeResponse(rep) == <<[t |-> "response", r |-> rep]>>

\* Requse::deserialize: reader.parse leaves an empty object of anything but a
\* whole text, of which the members are 0.
Deserialize(in) ==
  IF in # <<>> /\ in[1].t = "request" /\ in = SerializeRequest(in[1].r)
  THEN in[1].r ELSE [x |-> 0, y |-> 0, op |-> "none"]

enLength(text) == <<Length(Len(text))>> \o LINE_SEP \o text \o LINE_SEP

\* inbuffer.find(LINE_SEP), from 0; -1 for npos.
FindSep(s) ==
  LET at == {i \in 1 .. (Len(s) - 1) : s[i] = CR /\ s[i + 1] = LF} IN
    IF at = {} THEN -1 ELSE (CHOOSE i \in at : \A j \in at : i <= j) - 1

\* The text of a package.
deLength(package) == SubSeq(package, FindSep(package) + 3, FindSep(package) + 2 + package[1].n)

\* The length of the first package, or 0 if it is not whole yet.
Total(s) ==
  IF FindSep(s) = -1 THEN 0
  ELSE LET total == 1 + 2 * Len(LINE_SEP) + s[1].n IN IF Len(s) < total THEN 0 ELSE total

\* The package taken, and what is left; ok says whether there was one.
ParseOnePackage(s) ==
  [ok |-> Total(s) > 0, text |-> SubSeq(s, 1, Total(s)), rest |-> SubSeq(s, Total(s) + 1, Len(s))]

\* my_string: what is computed for a request.  '/' and '%' add.
my_string(req) ==
  CASE req.op = "+" -> [exitcode |-> OK, result |-> req.x + req.y]
    [] req.op = "-" -> [exitcode |-> OK, result |-> req.x - req.y]
    [] req.op = "*" -> [exitcode |-> OK, result |-> req.x * req.y]
    [] req.op \in {"/", "%"} /\ req.y # 0 -> [exitcode |-> OK, result |-> req.x + req.y]
    [] req.op = "/" /\ req.y = 0 -> [exitcode |-> DIV_ZERO, result |-> 0]
    [] req.op = "%" /\ req.y = 0 -> [exitcode |-> MOD_ZERO, result |-> 0]
    [] OTHER -> [exitcode |-> OK, result |-> 0]

\* The answer to a package, as it is sent.
Answer(package) == enLength(SerializeResponse(my_string(Deserialize(deLength(package)))))

\* What a client that sent these requests sent, and should get.
Asked(requests) == FlattenSeq([i \in DOMAIN requests |-> enLength(SerializeRequest(requests[i]))])
Expected(requests) == FlattenSeq([i \in DOMAIN requests |-> enLength(SerializeResponse(my_string(requests[i])))])
=============================================================================
