------------------------------ MODULE Iostream ------------------------------
(***************************************************************************)
(* The iostream transport of websocketpp (transport/iostream), of which    *)
(* the program moves the bytes itself: the reading side and the writing    *)
(* side, two machines that share no state.                                 *)
(***************************************************************************)
EXTENDS Integers, Sequences

-----------------------------------------------------------------------------
(***************************************************************************)
(* The iostream transport of websocketpp (transport/iostream): the program *)
(* hands the bytes in itself.  One read may be asked for at a time; bytes  *)
(* are copied into it until it has what it needs, and then its handler is  *)
(* called, which may ask for the next.  Only the supply of bytes is under  *)
(* m_read_mutex: a read may be asked for by any thread between two         *)
(* iterations of a supply.                                                 *)
(***************************************************************************)
CONSTANTS MaxBytes,    \* bound on the bytes that come in
          MaxLen       \* the largest buffer of a read

VARIABLES io,      \* the read under way, and the supply that holds the mutex
          got      \* the bytes given to read handlers, and the calls of them
readVars == <<io, got>>

\* The reads that were asked for, answered with an error or served.
Asked(g, n) == [g EXCEPT !.asked = @ + n]

\* async_read_at_least.
Start(i, num_bytes, len) ==
  [i EXCEPT !.m_reading = TRUE, !.m_len = len, !.m_bytes_needed = num_bytes, !.buf = <<>>]
async_read_at_least(num_bytes, len) ==
  /\ got.asked < MaxBytes
  /\ \/ /\ num_bytes > len \/ io.m_reading \/ num_bytes = 0 \/ len = 0
        /\ got' = [got EXCEPT !.asked = @ + 1, !.called = @ + 1] /\ UNCHANGED io
     \/ /\ ~(num_bytes > len \/ io.m_reading \/ num_bytes = 0 \/ len = 0)
        /\ io' = Start(io, num_bytes, len) /\ got' = Asked(got, 1)

\* complete_read: the handler gets what has been copied so far.
complete_read(i) == [i EXCEPT !.m_reading = FALSE, !.buf = <<>>]
Handled(g, bytes) == [g EXCEPT !.bytes = @ \o bytes, !.called = @ + 1]

\* read_some_impl: as many of the n bytes offered, of which the first is
\* io.next, as the buffer holds; none if nothing is reading.
Room == io.m_len - Len(io.buf)
Smaller(a, b) == IF a < b THEN a ELSE b
read_some_impl(n) ==
  LET copied == IF io.m_reading THEN Smaller(n, Room) ELSE 0
      i == [io EXCEPT !.buf = @ \o [k \in 1..copied |-> io.next + k - 1], !.next = @ + copied,
                      !.supply = IF @ = 0 THEN 0 ELSE @ - copied]
  IN  IF io.m_reading /\ Len(i.buf) >= io.m_bytes_needed
      THEN /\ io' = (IF copied = 0 THEN [complete_read(i) EXCEPT !.supply = 0] ELSE complete_read(i))
           /\ got' = Handled(got, i.buf)
      ELSE io' = (IF copied = 0 THEN [i EXCEPT !.supply = 0] ELSE i) /\ UNCHANGED got

\* What is not copied stays with the caller, who is told how much was.
read_some(n) ==
  /\ io.supply = 0 /\ io.next + n - 1 <= MaxBytes
  /\ read_some_impl(n)
\* read_all, and the operator >> on a stream of as many bytes: iterations
\* until nothing is left or nothing is taken.
read_all(n) ==
  /\ io.supply = 0 /\ n > 0 /\ io.next + n - 1 <= MaxBytes
  /\ \E stream \in BOOLEAN : io' = [io EXCEPT !.supply = n, !.stream = stream]
  /\ UNCHANGED got
read == io.supply > 0 /\ read_some_impl(io.supply)

\* The stream has gone bad after it gave some bytes: the read is completed with
\* the error and, if it has all it needed and its handler has not asked for
\* another meanwhile, completed again.  There is no handler to call by then,
\* and the call of none throws.
read_bad ==
  LET copied == Smaller(io.supply, Room)
      bytes == io.buf \o [k \in 1..copied |-> io.next + k - 1]
      i == [complete_read(io) EXCEPT !.next = @ + copied, !.supply = 0]
  IN  /\ io.supply > 0 /\ io.stream /\ io.m_reading /\ copied > 0
      /\ \/ /\ io' = i
            /\ got' = [Handled(got, bytes) EXCEPT !.thrown = @ \/ Len(bytes) >= io.m_bytes_needed]
         \/ \E n \in 1..MaxLen :
              /\ got.asked < MaxBytes
              /\ io' = Start(i, n, MaxLen) /\ got' = Asked(Handled(got, bytes), 1)

\* The end of the input, or an error of it, is told to the read under way.
eof ==
  /\ io.supply = 0 /\ io.m_reading
  /\ io' = complete_read(io) /\ got' = Handled(got, io.buf)
fatal_error == eof

-----------------------------------------------------------------------------
ReadInit ==
  /\ io = [m_reading |-> FALSE, m_len |-> 0, m_bytes_needed |-> 0, buf |-> <<>>, next |-> 1,
           supply |-> 0, stream |-> FALSE]
  /\ got = [bytes |-> <<>>, asked |-> 0, called |-> 0, thrown |-> FALSE]

ReadNext ==
  \/ \E n \in 0..MaxLen, len \in 0..MaxLen : async_read_at_least(n, len)
  \/ \E n \in 1..MaxBytes : read_some(n) \/ read_all(n)
  \/ read \/ read_bad \/ eof \/ fatal_error

-----------------------------------------------------------------------------
\* The bytes taken reach the read handlers, each once and in order, and those
\* not yet handed over are in the read under way.
NoByteLost == got.bytes \o io.buf = [k \in 1..(io.next - 1) |-> k]

\* Every read that is asked for has its handler called once: at once if it is
\* refused, else when it completes, with an error or not.
OneCallPerRead == got.called = got.asked - (IF io.m_reading THEN 1 ELSE 0)

\* "It MUST NOT be called when m_reading is false" (complete_read).  It does not
\* hold: README, section 6.
CompletedWhileReading == ~got.thrown

-----------------------------------------------------------------------------
(***************************************************************************)
(* The writing side of the iostream transport: a write goes to the ostream *)
(* if one is registered, else to the program's write handlers, which the   *)
(* program may set and replace on the endpoint, for connections to come,   *)
(* and on a connection.  The library writes one thing at a time and stops  *)
(* after the first error.  Buffers are numbered in the order of writing.   *)
(***************************************************************************)
CONSTANTS MaxBufs      \* bound on the buffers written

VARIABLES ep,      \* the endpoint's defaults: is there a stream, a handler
          con,     \* the connection's outputs, and whether it was initialised
          bad,     \* the registered stream is bad
          out,     \* history: the buffers that reached an output, all right
          asked,   \* history: the buffers the library wrote
          status   \* what the last write, or the shutdown, reported
writeVars == <<ep, con, bad, out, asked, status>>

Outputs == {"ostream", "write_handler", "vector_write_handler", "shutdown_handler"}
NoOutputs == [o \in Outputs |-> FALSE]

WriteInit ==
  /\ ep = NoOutputs
  /\ con = [init |-> FALSE, has |-> NoOutputs]
  /\ bad = FALSE /\ out = <<>> /\ asked = 0 /\ status = "ok"

\* endpoint::register_ostream, set_write_handler and set_shutdown_handler;
\* there is no default for the vectored handler.
ep_register_ostream(v) == ep' = [ep EXCEPT !["ostream"] = v]
ep_set_write_handler == ep' = [ep EXCEPT !["write_handler"] = TRUE]
ep_set_shutdown_handler == ep' = [ep EXCEPT !["shutdown_handler"] = TRUE]
SetDefault ==
  /\ \E v \in BOOLEAN : ep_register_ostream(v) \/ ep_set_write_handler \/ ep_set_shutdown_handler
  /\ UNCHANGED <<con, bad, out, asked, status>>

\* endpoint::init: the stream is registered even if there is none.
init ==
  /\ ~con.init
  /\ con' = [init |-> TRUE,
             has |-> [o \in Outputs |-> IF o = "ostream" THEN ep[o] ELSE con.has[o] \/ ep[o]]]
  /\ UNCHANGED <<ep, bad, out, asked, status>>

\* connection::register_ostream: another stream, or none.
register_ostream(v) == con' = [con EXCEPT !.has["ostream"] = v] /\ bad' = FALSE
set_write_handler == con' = [con EXCEPT !.has["write_handler"] = TRUE] /\ UNCHANGED bad
set_vector_write_handler == con' = [con EXCEPT !.has["vector_write_handler"] = TRUE] /\ UNCHANGED bad
set_shutdown_handler == con' = [con EXCEPT !.has["shutdown_handler"] = TRUE] /\ UNCHANGED bad
SetOutput ==
  /\ con.init
  /\ \/ \E v \in BOOLEAN : register_ostream(v)
     \/ set_write_handler \/ set_vector_write_handler \/ set_shutdown_handler
  /\ UNCHANGED <<ep, out, asked, status>>

Bufs(n) == [i \in 1 .. n |-> asked + i]
Writing(n) == con.init /\ status = "ok" /\ asked + n <= MaxBufs /\ asked' = asked + n

\* The first k of n buffers get through; the stream is bad after a failure.
Through(n, k, error) ==
  /\ k \in 0 .. n
  /\ out' = out \o SubSeq(Bufs(n), 1, k)
  /\ status' = IF k = n THEN "ok" ELSE error
ToStream(n, k) == Through(n, k, "bad_stream") /\ (bad => k = 0) /\ bad' = (bad \/ k < n)
ToHandler(n, k) == Through(n, k, "handler's error") /\ UNCHANGED bad
ToNothing == status' = "output_stream_required" /\ UNCHANGED <<out, bad>>

\* async_write of one buffer.
async_write ==
  /\ Writing(1)
  /\ \E k \in 0 .. 1 :
       IF con.has["ostream"] THEN ToStream(1, k)
       ELSE IF con.has["write_handler"] THEN ToHandler(1, k) ELSE ToNothing
  /\ UNCHANGED <<ep, con>>

\* async_write of several buffers: the vectored handler gets them at once, and
\* what it wrote of them when it fails is up to it.
async_write_vector(n) ==
  /\ Writing(n)
  /\ \E k \in 0 .. n :
       IF con.has["ostream"] THEN ToStream(n, k)
       ELSE IF con.has["vector_write_handler"] \/ con.has["write_handler"] THEN ToHandler(n, k)
       ELSE ToNothing
  /\ UNCHANGED <<ep, con>>

\* The end: with a handler, what it returns is reported.
async_shutdown ==
  /\ con.init /\ status # "shut"
  /\ status' = "shut"
  /\ UNCHANGED <<ep, con, bad, out, asked>>

WriteNext ==
  \/ SetDefault \/ init \/ SetOutput \/ async_write \/ async_shutdown
  \/ \E n \in 0 .. 3 : async_write_vector(n)

WriteSpec == WriteInit /\ [][WriteNext]_writeVars

-----------------------------------------------------------------------------
(* What the outputs got is what was written, in order and without a gap,   *)
(* whatever outputs were set meanwhile; and a write that reports success   *)
(* has written all of it (async_write, init).                              *)
WrittenAsReported ==
  /\ out = [i \in 1 .. Len(out) |-> i]
  /\ status = "ok" => Len(out) = asked
=============================================================================
