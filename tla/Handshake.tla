----------------------------- MODULE Handshake ------------------------------
(***************************************************************************)
(* The two handshakes of websocketpp: opening, the uri that a client asks  *)
(* for on its way to the server, and the codes and reasons of closing.     *)
(* Three machines that share no state.                                     *)
(***************************************************************************)
EXTENDS Integers, Sequences, SequencesExt

-----------------------------------------------------------------------------
(***************************************************************************)
(* The opening handshake of websocketpp between a client and a server:     *)
(* what the client asks for, how the server chooses a processor and        *)
(* answers, and how the client judges the answer (impl/connection_impl.hpp *)
(* and processors/).  The client is this library's or another that leaves  *)
(* something out; an intermediary may answer the client with a response to *)
(* another key.  Hashes are injective.                                     *)
(***************************************************************************)
CONSTANTS Protocols,   \* subprotocols that are well-formed tokens
          Keys         \* handshake keys, as base64 of random bytes

VARIABLES client,   \* the client's connection
          server,   \* the server's connection
          wire      \* the request and the response under way
openVars == <<client, server, wire>>

None == "none"
NoVersion == -1       \* a Sec-WebSocket-Version that is no number
versions_supported == {0, 7, 8, 13}
Accept(key) == <<"sha1", key>>      \* process_handshake_key, base64 included
KeyOf(keys) == <<"md5", keys>>      \* the three keys of version 0, decoded

-----------------------------------------------------------------------------
\* The client.
NewClient == [istate |-> "USER_INIT", requested |-> <<>>, headers |-> {}, key |-> None, m_subprotocol |-> None]

add_subprotocol(value) ==
  /\ Len(client.requested) < 2 /\ client.istate = "USER_INIT"
  /\ client' = IF value \notin Protocols THEN client ELSE [client EXCEPT !.requested = Append(@, value)]
  /\ UNCHANGED <<server, wire>>

\* append_header, replace_header and remove_header throw in any other state.
replace_header(header) ==
  /\ client' = IF client.istate # "USER_INIT" THEN client ELSE [client EXCEPT !.headers = @ \union {header}]
  /\ UNCHANGED <<server, wire>>
remove_header(header) ==
  /\ client' = IF client.istate # "USER_INIT" THEN client ELSE [client EXCEPT !.headers = @ \ {header}]
  /\ UNCHANGED <<server, wire>>

\* client_handshake_request of version 13; the older versions refuse.
client_handshake_request(key) ==
  [method |-> "GET", http |-> "HTTP/1.1", upgrade |-> TRUE, connection |-> TRUE, version |-> 13, host |-> "valid",
   key |-> key, keys |-> None, protocols |-> client.requested, extensions |-> "offer", headers |-> client.headers]
send_http_request ==
  /\ client.istate = "USER_INIT"
  /\ \E key \in Keys :
       /\ client' = [client EXCEPT !.istate = "READ_HTTP_RESPONSE", !.key = key]
       /\ wire' = [wire EXCEPT !.request = <<client_handshake_request(key)>>]
  /\ UNCHANGED server

\* Another client: a request of any version with something changed.
OtherRequests ==
  LET base(v) == [method |-> "GET", http |-> "HTTP/1.1", upgrade |-> TRUE, connection |-> TRUE, version |-> v,
                  host |-> "valid", key |-> IF v = 0 THEN None ELSE "other", keys |-> IF v = 0 THEN "other" ELSE None,
                  protocols |-> <<>>, extensions |-> None, headers |-> {}]
  IN  UNION {{base(v), [base(v) EXCEPT !.method = "POST"], [base(v) EXCEPT !.http = "HTTP/1.0"],
              [base(v) EXCEPT !.upgrade = FALSE], [base(v) EXCEPT !.connection = FALSE],
              [base(v) EXCEPT !.host = "invalid"], [base(v) EXCEPT !.key = None, !.keys = None],
              [base(v) EXCEPT !.extensions = "malformed"], [base(v) EXCEPT !.extensions = "offer"]} :
             v \in {0, 7, 8, 13, 14, NoVersion}}
OtherClient ==
  /\ client.istate = "USER_INIT"
  /\ client' = [client EXCEPT !.istate = "OTHER"]
  /\ \E r \in OtherRequests : wire' = [wire EXCEPT !.request = <<r>>]
  /\ UNCHANGED server

-----------------------------------------------------------------------------
\* The server.
NewServer == [istate |-> "READ_HTTP_REQUEST", requested |-> <<>>, m_subprotocol |-> None, processor |-> None,
              extensions |-> None, headers |-> {}, request |-> <<>>]
NoResponse == [status |-> 0, accept |-> None, upgrade |-> FALSE, versions |-> {}, subprotocol |-> None,
               extensions |-> None, headers |-> {}]

is_websocket_handshake(r) == r.upgrade /\ r.connection
get_websocket_version(r) == r.version
get_processor(version) == CASE version = 0 -> "hybi00" [] version = 7 -> "hybi07" [] version = 8 -> "hybi08"
                            [] version = 13 -> "hybi13"
\* The error a request meets before the user is asked, in the order of the
\* code: a plain request, no version, no processor, then the processor's own.
HasKey(r) == r.key # None
HasKeys(r) == r.keys # None      \* of version 0
validate_handshake(r) ==
  r.method = "GET" /\ r.http = "HTTP/1.1" /\ (IF r.version = 0 THEN HasKeys(r) ELSE HasKey(r))
get_uri(r) == r.host
initialize_processor(r) ==
  IF ~is_websocket_handshake(r) \/ r.version \in versions_supported THEN NoResponse
  ELSE IF r.version = NoVersion THEN [NoResponse EXCEPT !.status = 400]
  ELSE [NoResponse EXCEPT !.status = 400, !.versions = versions_supported]
\* negotiate_extensions: only version 13 knows any.
negotiate_extensions(r) ==
  IF r.version # 13 THEN None ELSE IF r.extensions = "offer" THEN "agreed" ELSE r.extensions
extract_subprotocols(r) == r.protocols

ReadRequest ==
  /\ wire.request # <<>> /\ server.istate = "READ_HTTP_REQUEST"
  /\ LET r == Head(wire.request)
         refused == initialize_processor(r)
         plain == ~is_websocket_handshake(r)
         bad == \/ plain \/ ~validate_handshake(r) \/ get_uri(r) = "invalid"
                \/ negotiate_extensions(r) = "malformed"
     IN  IF refused.status # 0 \/ bad
         THEN /\ server' = [server EXCEPT !.istate = "REFUSED", !.request = <<r>>]
              /\ wire' = [request |-> <<>>,
                          response |-> <<IF refused.status # 0 THEN refused
                                         ELSE [NoResponse EXCEPT !.status = IF plain /\ get_uri(r) = "valid"
                                                                            THEN 426 ELSE 400]>>]
         ELSE /\ server' = [server EXCEPT !.istate = "PROCESS_HTTP_REQUEST", !.request = <<r>>,
                                          !.processor = get_processor(r.version),
                                          !.requested = extract_subprotocols(r),
                                          !.extensions = negotiate_extensions(r)]
              /\ wire' = [wire EXCEPT !.request = <<>>]
  /\ UNCHANGED client

\* Inside the validate handler the user may choose a subprotocol and set
\* headers; outside it neither has an effect.
select_subprotocol(value) ==
  /\ server.istate = "PROCESS_HTTP_REQUEST"
  /\ server' = IF \A i \in 1..Len(server.requested) : server.requested[i] # value THEN server
               ELSE [server EXCEPT !.m_subprotocol = value]
  /\ UNCHANGED <<client, wire>>
append_header(header) ==
  /\ server' = IF server.istate # "PROCESS_HTTP_REQUEST" THEN server
               ELSE [server EXCEPT !.headers = @ \union {header}]
  /\ UNCHANGED <<client, wire>>

\* process_handshake of the processor fills in the response.
process_handshake(r) ==
  [NoResponse EXCEPT !.status = 101, !.upgrade = TRUE,
                     !.accept = IF r.version = 0 THEN KeyOf(r.keys) ELSE Accept(r.key),
                     !.subprotocol = server.m_subprotocol, !.extensions = server.extensions,
                     !.headers = server.headers]
Validate(accepts) ==
  /\ server.istate = "PROCESS_HTTP_REQUEST"
  /\ LET r == Head(server.request)
         response == IF accepts THEN process_handshake(r)
                     ELSE [NoResponse EXCEPT !.status = 400, !.extensions = server.extensions, !.headers = server.headers]
     IN  wire' = [wire EXCEPT !.response = <<response>>]
  /\ server' = [server EXCEPT !.istate = IF accepts THEN "PROCESS_CONNECTION" ELSE "REFUSED"]
  /\ UNCHANGED client

\* An intermediary answers with what was the answer to another request.
Intermediary ==
  /\ wire.request # <<>> /\ client.istate = "READ_HTTP_RESPONSE"
  /\ \E key \in Keys :
       wire' = [request |-> <<>>, response |-> <<[NoResponse EXCEPT !.status = 101, !.upgrade = TRUE,
                                                                    !.accept = Accept(key)]>>]
  /\ server' = [server EXCEPT !.istate = "UNREACHED"]
  /\ UNCHANGED client

\* validate_server_handshake_response, and the extensions.
validate_server_handshake_response(r) ==
  r.status = 101 /\ r.upgrade /\ r.accept = Accept(client.key)
handle_read_http_response ==
  /\ wire.response # <<>> /\ client.istate = "READ_HTTP_RESPONSE"
  /\ LET r == Head(wire.response)
     IN  client' = [client EXCEPT !.istate = IF validate_server_handshake_response(r) THEN "PROCESS_CONNECTION"
                                             ELSE "TERMINATED"]
  /\ UNCHANGED <<server, wire>>

OpenInit == client = NewClient /\ server = NewServer /\ wire = [request |-> <<>>, response |-> <<>>]
OpenNext ==
  \/ \E p \in Protocols \union {"not a token"} : add_subprotocol(p) \/ select_subprotocol(p)
  \/ \E h \in {"h1"} : replace_header(h) \/ remove_header(h) \/ append_header(h)
  \/ send_http_request \/ OtherClient \/ ReadRequest \/ Intermediary \/ handle_read_http_response
  \/ \E accepts \in BOOLEAN : Validate(accepts)

-----------------------------------------------------------------------------
\* The two ends of a connection agree that it is open: the client believes it
\* only of a response to its own key, and a server that switched to this
\* library's client, and was heard, is believed.
OpenTogether ==
  /\ client.istate = "PROCESS_CONNECTION" => \/ server.istate = "PROCESS_CONNECTION" /\ server.processor = "hybi13"
                                             \/ server.istate = "UNREACHED" /\ Head(wire.response).accept = Accept(client.key)
  /\ client.istate = "TERMINATED" => server.istate # "PROCESS_CONNECTION"

\* A server switches protocols only for a complete handshake in a version it
\* supports, and agrees only to a subprotocol that was asked for.
SwitchesForValidRequest ==
  server.istate = "PROCESS_CONNECTION" =>
    LET r == Head(server.request)
        s == server.m_subprotocol
    IN  /\ r.method = "GET" /\ r.http = "HTTP/1.1" /\ r.upgrade /\ r.connection /\ r.host = "valid"
        /\ \/ r.version = 0 /\ r.keys # None
           \/ r.version \in {7, 8, 13} /\ r.key # None
        /\ s # None => s \in Protocols /\ \E i \in 1..Len(r.protocols) : r.protocols[i] = s

\* The headers the user set are those that are sent: none is changed later.
HeadersAsSent ==
  /\ wire.request # <<>> /\ client.istate = "READ_HTTP_RESPONSE" => Head(wire.request).headers = client.headers
  /\ server.istate = "PROCESS_CONNECTION" => Head(wire.response).headers = server.headers

\* get_subprotocol gives the subprotocol that was negotiated.
\* It does not hold: README, section 6.
SubprotocolIsKnown ==
  client.istate = "PROCESS_CONNECTION" => client.m_subprotocol = Head(wire.response).subprotocol

-----------------------------------------------------------------------------
(***************************************************************************)
(* The uri class of websocketpp (uri.hpp) on its way from a client to a    *)
(* server: the client parses the text of a uri, sends the host and port in *)
(* the Host header and the resource in the request line, and the server    *)
(* builds its own uri from them (processors/processor.hpp).  A text is a   *)
(* sequence of cells: a scheme, punctuation, names, and numbers.           *)
(***************************************************************************)
CONSTANT Ports      \* the decimal texts that occur as ports

VARIABLES text,     \* the text of the uri
          ours,     \* the client's uri
          theirs    \* the server's
uriVars == <<text, ours, theirs>>

uri_default_port == 80
uri_default_secure_port == 443
Secure(scheme) == scheme \in {"wss://", "https://"}
Default(secure) == IF secure THEN uri_default_secure_port ELSE uri_default_port
NoUri == [valid |-> FALSE]

\* Numbers and their decimal texts, in both directions.
Decimals == [n \in {0, 1, 80, 443, 9000, 65536} |->
  CASE n = 0 -> "0" [] n = 1 -> "1" [] n = 80 -> "80" [] n = 443 -> "443" [] n = 9000 -> "9000" [] n = 65536 -> "65536"]
atoi(s) == CHOOSE n \in DOMAIN Decimals : Decimals[n] = s
\* get_port_from_string: what does not fit 16 bits and 0 are errors, and an
\* absent port is the default of the scheme.
get_port_from_string(port, secure) ==
  CASE port = <<>> -> Default(secure)
    [] port # <<>> -> IF atoi(port[1]) \in 1..65535 THEN atoi(port[1]) ELSE -1

uri(scheme, host, port, resource) ==
  IF get_port_from_string(port, Secure(scheme)) = -1 THEN NoUri
  ELSE [valid |-> TRUE, scheme |-> scheme, host |-> host,
        port |-> get_port_from_string(port, Secure(scheme)), resource |-> resource]

\* The constructor from a text.
FirstOf(s, chars, from) ==
  LET hits == {i \in from..Len(s) : s[i] \in chars}
  IN  IF hits = {} THEN Len(s) + 1 ELSE CHOOSE i \in hits : \A j \in hits : i <= j
From(s, n) == SubSeq(s, n, Len(s))
\* At the colon or the slash after the host.
PortAndResource(s, host, i) ==
  LET slash == FirstOf(s, {"/"}, i)
  IN  IF i <= Len(s) /\ s[i] = ":" THEN uri(s[1], host, SubSeq(s, i + 1, slash - 1), From(s, slash + 1))
      ELSE uri(s[1], host, <<>>, From(s, i + 1))
Parse(s) ==
  LET close == FirstOf(s, {"]"}, 2)
      stop == FirstOf(s, {":", "/"}, 2)
  IN  CASE s[1] \notin {"ws://", "wss://", "http://", "https://"} \/ Len(s) < 2 -> NoUri
        [] OTHER ->
           IF s[2] # "[" THEN PortAndResource(s, SubSeq(s, 2, stop - 1), stop)
           ELSE IF close > Len(s) THEN NoUri
           ELSE IF close < Len(s) /\ s[close + 1] \notin {"/", ":"} THEN NoUri
           ELSE PortAndResource(s, SubSeq(s, 3, close - 1), close + 1)

\* The Host header, without the port if it is the scheme's own.
get_host_port(u) == IF u.port = Default(Secure(u.scheme)) THEN u.host ELSE u.host \o <<":", Decimals[u.port]>>
\* rfind; 0 if there is none.
LastOf(h, char) ==
  LET hits == {i \in 1..Len(h) : h[i] = char}
  IN  IF hits = {} THEN 0 ELSE CHOOSE i \in hits : \A j \in hits : i >= j
get_uri_from_host(h, scheme, resource) ==
  LET last_colon == LastOf(h, ":")
  IN  IF last_colon = 0 \/ LastOf(h, "]") > last_colon THEN uri(scheme, h, <<>>, resource)
      ELSE uri(scheme, SubSeq(h, 1, last_colon - 1), From(h, last_colon + 1), resource)

Hosts == {<<"host">>, <<"[", "0", ":", "0", ":", "1", "]">>, <<"[", "0">>}
Texts ==
  {<<scheme>> \o host \o port \o resource :
     scheme \in {"ws://", "wss://", "http://", "https://", "ftp://"}, host \in Hosts,
     port \in {<<>>, <<":">>} \union {<<":", p>> : p \in Ports}, resource \in {<<>>, <<"/">>, <<"/", "chat", "/", ":">>}}
UriInit == text \in Texts /\ ours = NoUri /\ theirs = NoUri

Connect == ours = NoUri /\ ours' = Parse(text) /\ ours'.valid /\ UNCHANGED <<text, theirs>>
\* Another client leaves the brackets of an IPv6 literal in the Host header.
Bracketed(host) == <<"[">> \o host \o <<"]">>
Request ==
  /\ ours.valid /\ theirs = NoUri
  /\ \E host \in {ours.host} \union {Bracketed(h) : h \in {x \in {ours.host} : text[2] = "["}} :
       theirs' = get_uri_from_host(get_host_port([ours EXCEPT !.host = host]),
                                   IF Secure(ours.scheme) THEN "wss://" ELSE "ws://", ours.resource)
  /\ UNCHANGED <<text, ours>>
UriNext == Connect \/ Request

\* The server knows the connection by the host, port and resource the client
\* asked for.  An IPv6 literal loses its brackets on the way from a client of
\* this library, so this holds of it only where a port follows the last colon.
ServerSeesUri ==
  theirs # NoUri =>
    /\ theirs.resource = ours.resource
    /\ text[2] # "[" \/ theirs.host[1] = "[" \/ ours.port # Default(Secure(ours.scheme)) =>
         theirs.host \in {ours.host, Bracketed(ours.host)} /\ theirs.port = ours.port

-----------------------------------------------------------------------------
(***************************************************************************)
(* The codes and reasons of the closing handshake of websocketpp, between  *)
(* the application's close and the wire (close.hpp, prepare_close,         *)
(* send_close_frame, process_control_frame).  An end "a" closes and "b"    *)
(* answers, or "b" answers a peer that sends what it likes.  A code is two *)
(* bytes; a byte of a reason is its type: 0 ASCII, 2 the first of a        *)
(* character of two, 1 its second.                                         *)
(***************************************************************************)
CONSTANTS Codes,          \* codes an application or a peer uses
          ReasonSize,     \* close_reason_size, 123 in the code
          MaxReason       \* bound on the reason an application gives

VARIABLES end,     \* m_local_close_* and m_remote_close_* of "a" and "b"
          frame,   \* payload of the close frame under way, or None
          step,    \* "open", "closing" (a frame to b), "ack" (a frame back), "done"
          closer   \* who sent the first frame, "a" or "peer"
closeVars == <<end, frame, step, closer>>

NoFrame == <<-1>>
Ends == {"a", "b"}

blank == 0
normal == 1000
protocol_error == 1002
no_status == 1005
abnormal_close == 1006
tls_handshake == 1015

reserved(code) == code \in 1016 .. 2999 \/ code = 1004

invalid(code) == code <= 999 \/ code >= 5000 \/ code \in {no_status, abnormal_close, tls_handshake}

validate(r) ==    \* utf8_validator::validate, for these three types
  /\ \A i \in DOMAIN r : r[i] = 2 => i < Len(r) /\ r[i + 1] = 1
  /\ \A i \in DOMAIN r : r[i] = 1 => i > 1 /\ r[i - 1] = 2

-----------------------------------------------------------------------------

extract_code(p) ==
  LET code == 256 * p[1] + p[2] IN
    IF p = <<>> THEN [code |-> no_status, ec |-> FALSE]
    ELSE IF Len(p) = 1 THEN [code |-> protocol_error, ec |-> TRUE]
    ELSE [code |-> code, ec |-> invalid(code) \/ reserved(code)]

extract_reason(p) == SubSeq(p, 3, Len(p))

prepare_close(code, reason) ==
  IF \/ reserved(code) \/ (invalid(code) /\ code # no_status)
     \/ (code = no_status /\ reason # <<>>) \/ Len(reason) > ReasonSize
  THEN NoFrame
  ELSE IF code = no_status THEN <<>> ELSE <<code \div 256, code % 256>> \o reason

\* What send_close_frame of an end keeps and sends: what it was given;
\* without a code nothing, or in an acknowledgement what the peer sent.
send_close_frame(e, code, reason, ack) ==
  LET l == IF code # blank THEN [code |-> code, reason |-> reason]
           ELSE IF ~ack THEN [code |-> no_status, reason |-> <<>>]
           ELSE IF e.rcode = no_status THEN [code |-> normal, reason |-> <<>>]
           ELSE [code |-> e.rcode, reason |-> e.rreason]
  IN  [end |-> [e EXCEPT !.lcode = l.code, !.lreason = l.reason],
       payload |-> prepare_close(l.code, l.reason)]

CloseInit ==
  /\ end = [e \in Ends |-> [lcode |-> abnormal_close, lreason |-> <<>>, rcode |-> abnormal_close, rreason |-> <<>>]]
  /\ frame = NoFrame /\ step = "open" /\ closer = "a"

\* connection::close; the reason is cut to what fits.  When the frame is
\* refused the call returns an error and the connection stays open.
close(code, reason) ==
  LET cut == SubSeq(reason, 1, IF Len(reason) > ReasonSize THEN ReasonSize ELSE Len(reason))
      sent == send_close_frame(end["a"], code, cut, FALSE) IN
    /\ step = "open"
    /\ end' = [end EXCEPT !["a"] = sent.end]
    /\ frame' = sent.payload
    /\ step' = IF frame' = NoFrame THEN "open" ELSE "closing"
    /\ UNCHANGED closer

\* A peer's close frame: empty, cut short, or any code and reason.
PeerCloses ==
  /\ step = "open"
  /\ frame' \in {<<>>, <<3>>} \union {<<c \div 256, c % 256>> \o r : c \in Codes, r \in {<<>>, <<0>>, <<2>>}}
  /\ step' = "closing" /\ closer' = "peer"
  /\ UNCHANGED end

\* process_control_frame at an open end: it answers with the codes it was
\* sent, or with protocol_error.
Answer ==
  LET c == extract_code(frame)
      r == extract_reason(frame)
      b == [end["b"] EXCEPT !.rcode = c.code, !.rreason = IF c.ec THEN @ ELSE r]
      sent == IF c.ec \/ ~validate(r) THEN send_close_frame(b, protocol_error, <<0>>, TRUE)
              ELSE send_close_frame(b, blank, <<>>, TRUE) IN
    /\ step = "closing"
    /\ end' = [end EXCEPT !["b"] = sent.end]
    /\ frame' = sent.payload
    /\ step' = "ack"
    /\ UNCHANGED closer

\* The acknowledgement arrives at the end that closed.
Acknowledged ==
  LET c == extract_code(frame) IN
    /\ step = "ack" /\ frame # NoFrame /\ closer = "a"
    /\ end' = [end EXCEPT !["a"].rcode = c.code, !["a"].rreason = extract_reason(frame)]
    /\ step' = "done"
    /\ UNCHANGED <<frame, closer>>

Reasons == UNION {[1 .. n -> {0, 1, 2}] : n \in 0 .. MaxReason}
CloseNext ==
  \/ \E c \in Codes, r \in Reasons : close(c, r)
  \/ PeerCloses \/ Answer \/ Acknowledged

CloseSpec == CloseInit /\ [][CloseNext]_closeVars

-----------------------------------------------------------------------------
(* A close frame is always answered: whatever the peer sent, the codes and *)
(* the reason chosen for the acknowledgement are ones prepare_close        *)
(* accepts (process_control_frame, send_close_ack).                        *)
CloseIsAnswered == step = "ack" => frame # NoFrame

(* What one end calls its own code and reason the other calls the remote   *)
(* ones, and the acknowledgement repeats them, unless the reason was no    *)
(* UTF-8 any more when it was sent (close, prepare_close, extract_code,    *)
(* extract_reason).                                                        *)
CodesMatch ==
  step = "done" =>
    /\ end["b"].rcode = end["a"].lcode /\ end["b"].rreason = end["a"].lreason
    /\ end["a"].rcode = end["b"].lcode /\ end["a"].rreason = end["b"].lreason
    /\ validate(end["a"].lreason) =>
         end["b"].lcode = (IF end["a"].lcode = no_status THEN normal ELSE end["a"].lcode)

(* Only codes that the protocol allows on the wire are sent: those defined *)
(* for it and those of libraries and applications (reserved, invalid).     *)
LegalOnWire ==
  \/ step = "open" \/ Len(frame) < 2
  \/ step = "closing" /\ closer = "peer"
  \/ 256 * frame[1] + frame[2] \in 1000 .. 1003 \union 1007 .. 1014 \union 3000 .. 4999
=============================================================================
