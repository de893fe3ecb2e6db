----------------------------- MODULE MCWebSocket -----------------------------
(* Small instances of WebSocket. *)
EXTENDS WebSocket

AllModes == {"pair", "server", "client"}
Pair == {"pair"}
ServerOnly == {"server"}
ClientOnly == {"client"}

\* Two websocketpp ends, of which the server sends and both close; a server
\* that faces a raw peer closes, pauses its reading and answers late, and a
\* client pings, pauses and resumes.
At(s, c) == [server |-> s, client |-> c]
CallsOf ==
  [pair |-> At({"send", "close"}, {"close"}),
   server |-> At({"time", "close", "pause", "send_http_response"}, {}),
   client |-> At({}, {"time", "ping", "pong", "pause", "resume"})]

SendsOf == [m \in Modes |-> IF m = "pair" THEN 2 ELSE 1]

GoodResponses == {"101", "error", "partial"}
AllResponses == GoodResponses \union {"badext"}
SomeCodes == {"blank", "protocol_error"}
=============================================================================
