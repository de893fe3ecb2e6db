------------------------------- MODULE Deflate -------------------------------
(***************************************************************************)
(* permessage-deflate in websocketpp (extensions/permessage_deflate/       *)
(* enabled.hpp and the negotiation of processors/hybi13.hpp).  A client    *)
(* sends one or two offers, the server takes the first it can, the client  *)
(* negotiates the response in the same way, and then each compresses for   *)
(* the other.  zlib is external: what it deflates refers to what it has    *)
(* deflated before, unless it was fully flushed, and inflates only against *)
(* the same history and with a window as large.                            *)
(***************************************************************************)
EXTENDS Integers, Sequences, SequencesExt

CONSTANTS Bits,         \* the window bits that occur in settings and offers
          MaxMessages   \* bound on the messages compressed

VARIABLES neg,    \* the negotiation: its phase, the offers and the response
          end,    \* end["server"], end["client"]: the extension objects
          flow    \* compressed messages on their way to each, and a verdict
vars == <<neg, end, flow>>

Sides == {"server", "client"}
Other(side) == IF side = "server" THEN "client" ELSE "server"
Modes == {"decline", "accept", "largest", "smallest"}
default_max_window_bits == 15
min_max_window_bits == 8
Blank == 0               \* an attribute without a value

\* enabled(): both windows at their largest, whatever is offered is accepted.
enabled ==
  [m_enabled |-> FALSE, m_initialized |-> FALSE,
   server_nct |-> FALSE, client_nct |-> FALSE,
   server_bits |-> default_max_window_bits, client_bits |-> default_max_window_bits,
   server_mode |-> "accept", client_mode |-> "accept",
   ec |-> FALSE, flush |-> "sync", deflate |-> 0, inflate |-> 0, dhist |-> <<>>, ihist |-> <<>>]

\* zlib refuses 8, so 8 is turned into 9.
Adjusted(bits) == IF bits = 8 THEN 9 ELSE bits
InRange(bits) == bits \in min_max_window_bits..default_max_window_bits
Smaller(a, b) == IF a < b THEN a ELSE b
set_max_window_bits(x, who, bits, mode) ==
  IF ~InRange(bits) THEN x
  ELSE IF who = "server" THEN [x EXCEPT !.server_bits = Adjusted(bits), !.server_mode = mode]
  ELSE [x EXCEPT !.client_bits = Adjusted(bits), !.client_mode = mode]

\* The value of an attribute is read into eight bits.
atoi(value) == value % 256
Agreed(mode, bits, own) ==
  Adjusted(CASE mode = "decline" -> default_max_window_bits
             [] mode = "accept" -> bits
             [] mode = "largest" -> Smaller(bits, own)
             [] mode = "smallest" -> min_max_window_bits)
\* Each sets the extension as it goes; a bad value stops the offer.
negotiate_server_max_window_bits(x, value) ==
  IF ~InRange(atoi(value)) THEN [x EXCEPT !.server_bits = default_max_window_bits, !.ec = TRUE]
  ELSE [x EXCEPT !.server_bits = Agreed(x.server_mode, atoi(value), x.server_bits)]
negotiate_client_max_window_bits(x, value) ==
  LET bits == IF value = Blank THEN default_max_window_bits ELSE atoi(value)
  IN  IF ~InRange(bits) THEN [x EXCEPT !.client_bits = default_max_window_bits, !.ec = TRUE]
      ELSE [x EXCEPT !.client_bits = Agreed(x.client_mode, bits, x.client_bits)]
negotiate_server_no_context_takeover(x, value) ==
  IF value # Blank THEN [x EXCEPT !.ec = TRUE] ELSE [x EXCEPT !.server_nct = TRUE]
negotiate_client_no_context_takeover(x, value) ==
  IF value # Blank THEN [x EXCEPT !.ec = TRUE] ELSE [x EXCEPT !.client_nct = TRUE]

\* generate_response: what is in force, defaults left out.
Value(x, n) == CASE n = "client_bits" -> x.client_bits [] n = "server_bits" -> x.server_bits [] OTHER -> Blank
generate_response(x) ==
  LET in_force == {n \in {"client_bits", "server_bits"} : Value(x, n) < default_max_window_bits}
                  \union (IF x.client_nct THEN {"client_nct"} ELSE {})
                  \union (IF x.server_nct THEN {"server_nct"} ELSE {})
  IN  [n \in in_force |-> Value(x, n)]
generate_offer == [n \in {"client_nct", "client_bits"} |-> Blank]

\* negotiate goes through the attributes, a map, in the order of their names.
\* What an offer that fails has set stays set.
Names == <<"client_bits", "client_nct", "server_bits", "server_nct", "unknown">>
Attribute(x, name, value) ==
  CASE name = "server_nct" -> negotiate_server_no_context_takeover(x, value)
    [] name = "client_nct" -> negotiate_client_no_context_takeover(x, value)
    [] name = "server_bits" -> negotiate_server_max_window_bits(x, value)
    [] name = "client_bits" -> negotiate_client_max_window_bits(x, value)
    [] OTHER -> [x EXCEPT !.ec = TRUE]
negotiate(x, offer) ==
  LET y == FoldLeft(LAMBDA z, n : IF z.ec \/ n \notin DOMAIN offer THEN z ELSE Attribute(z, n, offer[n]),
                    [x EXCEPT !.ec = FALSE], Names)
  IN  IF y.ec THEN y ELSE [y EXCEPT !.m_enabled = TRUE]

InitAsServer(x, side) ==
  [x EXCEPT !.m_initialized = TRUE, !.deflate = x.server_bits, !.inflate = x.client_bits,
            !.flush = IF x.server_nct THEN "full" ELSE "sync"]
\* init hands the windows to zlib; a side that takes no context over flushes
\* fully after every message.
init(x, side) ==
  [x EXCEPT !.m_initialized = TRUE,
            !.deflate = IF side = "server" THEN x.server_bits ELSE x.client_bits,
            !.inflate = IF side = "server" THEN x.client_bits ELSE x.server_bits,
            !.flush = IF (IF side = "server" THEN x.server_nct ELSE x.client_nct) THEN "full" ELSE "sync"]

\* negotiate_extensions: the first offer that can be taken, if any.
negotiate_extensions(x, offers, side) ==
  FoldLeft(LAMBDA z, o : IF z.m_enabled THEN z
                         ELSE LET y == negotiate(z, o) IN IF y.ec THEN y ELSE init(y, side),
           x, offers)

-----------------------------------------------------------------------------
\* compress and decompress.  An empty message is a constant block.
compress(x, data) ==
  IF data = <<>> THEN [x |-> x, out |-> [data |-> data, history |-> <<>>, bits |-> min_max_window_bits]]
  ELSE [x |-> [x EXCEPT !.dhist = IF x.flush = "full" THEN <<>> ELSE @ \o data],
        out |-> [data |-> data, history |-> x.dhist, bits |-> x.deflate]]
inflates(x, z) == z.history \in {<<>>, x.ihist} /\ z.bits <= x.inflate
\* The window of the reader keeps what it has inflated, flushed or not; a
\* writer that was flushed does not refer to it.
decompress(x, z) == [x EXCEPT !.ihist = IF z.history = <<>> THEN z.data ELSE @ \o z.data]

-----------------------------------------------------------------------------
Init ==
  /\ neg = [phase |-> "settings", offers |-> <<>>]
  /\ end = [side \in Sides |-> enabled]
  /\ flow = [to |-> [side \in Sides |-> <<>>], sent |-> 0, readable |-> TRUE]

\* The settings of the server, before the handshake.
set_server_max_window_bits(bits, mode) ==
  /\ neg.phase = "settings"
  /\ end' = [end EXCEPT !["server"] = set_max_window_bits(@, "server", bits, mode)]
  /\ UNCHANGED <<neg, flow>>
set_client_max_window_bits(bits, mode) ==
  /\ neg.phase = "settings"
  /\ end' = [end EXCEPT !["server"] = set_max_window_bits(@, "client", bits, mode)]
  /\ UNCHANGED <<neg, flow>>
enable_no_context_takeover ==
  /\ neg.phase = "settings"
  /\ \E field \in {"server_nct", "client_nct"} : end' = [end EXCEPT !["server"][field] = TRUE]
  /\ UNCHANGED <<neg, flow>>

\* The offers come from this library's client or from another one.
Offers ==
  {generate_offer} \union [{"client_bits", "server_bits"} -> Bits] \union [{"server_nct", "unknown"} -> {Blank}]
  \union [{"client_bits", "server_nct"} -> Bits \union {Blank}] \union {<<>>}
Offer ==
  /\ neg.phase = "settings"
  /\ \E o \in BoundedSeq(Offers, 2) :
       LET x == negotiate_extensions(end["server"], o, "server")
       IN  /\ end' = [end EXCEPT !["server"] = x]
           /\ neg' = [phase |-> IF x.m_enabled THEN "response" ELSE "plain", offers |-> o]
  /\ UNCHANGED flow
\* The offers and the modes are not read again.
Settled(x) == [x EXCEPT !.server_mode = "accept", !.client_mode = "accept"]
\* The client takes the response as it takes an offer.
Response ==
  /\ neg.phase = "response"
  /\ LET x == negotiate_extensions(end["client"], <<generate_response(end["server"])>>, "client")
     IN  /\ end' = [end EXCEPT !["client"] = x, !["server"] = Settled(@)]
         /\ neg' = [phase |-> IF x.m_enabled THEN "open" ELSE "failed", offers |-> <<>>]
  /\ UNCHANGED flow

Compress(side) ==
  /\ neg.phase = "open" /\ flow.sent < MaxMessages
  /\ \E data \in {<<>>, <<flow.sent>>} :
       LET c == compress(end[side], data)
       IN  /\ end' = [end EXCEPT ![side] = c.x]
           /\ flow' = [flow EXCEPT !.to[Other(side)] = Append(@, c.out), !.sent = @ + 1]
  /\ UNCHANGED neg
Decompress(side) ==
  /\ flow.to[side] # <<>>
  /\ LET z == Head(flow.to[side])
     IN  /\ flow' = [flow EXCEPT !.to[side] = Tail(@), !.readable = @ /\ inflates(end[side], z)]
         /\ end' = [end EXCEPT ![side] = decompress(@, z)]
  /\ UNCHANGED neg

Next ==
  \/ \E bits \in {b \in Bits : b < 256}, mode \in Modes :
       set_server_max_window_bits(bits, mode) \/ set_client_max_window_bits(bits, mode)
  \/ enable_no_context_takeover \/ Offer \/ Response
  \/ \E side \in Sides : Compress(side) \/ Decompress(side)

-----------------------------------------------------------------------------
\* Whatever was set and offered, and whatever an offer that failed half-way
\* left behind, the two ends agree: the client takes the response, and what
\* one compresses the other can decompress.
EndsAgree == flow.readable /\ neg.phase # "failed"

\* zlib is never given a window it rejects.
WindowsAccepted ==
  \A side \in Sides : end[side].m_initialized => end[side].deflate \in 9..15 /\ end[side].inflate \in 9..15

\* A server limits the window of the client only if the client supports it.
\* It does not hold: README, section 6.
LimitsOnlyIfOffered ==
  neg.phase = "response" /\ "client_bits" \in DOMAIN generate_response(end["server"]) =>
    \E i \in 1..Len(neg.offers) : "client_bits" \in DOMAIN neg.offers[i]
=============================================================================
