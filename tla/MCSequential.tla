---------------------------- MODULE MCSequential ----------------------------
(***************************************************************************)
(* The parsers, codecs, negotiations and iostream transport of websocketpp,*)
(* the sessions, users and board of the game, the buffer of the Reactor,   *)
(* the servers of lesson_IO and the sequences and pointers of Algorithm,   *)
(* checked in one run: a behaviour is one of one of them, and the          *)
(* variables of the others stay unused, or in their initial state.         *)
(***************************************************************************)
EXTENDS Game

VARIABLES which,
          u_text, u_validator, h_peer, h_hy, h_ref, p_sent, p_wire, p_http,
          d_neg, d_end, d_flow, l_list, l_text, l_parse, s_client, s_server, s_wire,
          z_wire, z_hy00, z_said, b_input, b_coded, r_text, r_ours, r_theirs,
          i_io, i_got, f_buffer, f_reader_idx, f_writer_idx, f_written, f_taken,
          mk_machine, mk_key, mk_masked, cl_end, cl_frame, cl_step, cl_closer, se_ep, se_cons,
          se_seen, se_own, se_calls, wr_ep, wr_con, wr_bad, wr_out, wr_asked, wr_status,
          ca_conn, ca_loop, ca_errno, ca_freed, ca_asked, ca_faults, mx_kind, mx_kern, mx_srv,
          mx_blocked, mx_refused, li_heap, li_list, li_ref, ve_vec, ve_ref, st_str, st_ref, po_ptr,
          po_count, po_made, po_deleted, dg_md5, dg_sha1, dg_given

utf8 == <<u_text, u_validator>>
hybi13 == <<h_peer, h_hy, h_ref>>
parser == <<p_sent, p_wire, p_http>>
deflate == <<d_neg, d_end, d_flow>>
parameters == <<l_list, l_text, l_parse>>
handshake == <<s_client, s_server, s_wire>>
hybi00 == <<z_wire, z_hy00, z_said>>
base64 == <<b_input, b_coded>>
uri == <<r_text, r_ours, r_theirs>>
iostream == <<i_io, i_got>>
gobang == boardVars
buffer == <<f_buffer, f_reader_idx, f_writer_idx, f_written, f_taken>>
sessions == sessionVars
rest == <<iostream, gobang, buffer, sessions>>
websocketpp == <<utf8, hybi13, parser, deflate, parameters, handshake, hybi00, base64, uri>>
masking == <<mk_machine, mk_key, mk_masked>>
closing == <<cl_end, cl_frame, cl_step, cl_closer>>
settings == <<se_ep, se_cons, se_seen, se_own, se_calls>>
writer == <<wr_ep, wr_con, wr_bad, wr_out, wr_asked, wr_status>>
calculator == <<ca_conn, ca_loop, ca_errno, ca_freed, ca_asked, ca_faults>>
multiplexer == <<mx_kind, mx_kern, mx_srv, mx_blocked, mx_refused>>
users == userVars
lists == <<li_heap, li_list, li_ref>>
vectors == <<ve_vec, ve_ref>>
strings == <<st_str, st_ref>>
pointers == <<po_ptr, po_count, po_made, po_deleted>>
digests == <<dg_md5, dg_sha1, dg_given>>
others == <<digests, masking, closing, settings, writer, calculator, multiplexer, users, lists, vectors, strings, pointers>>
vars == <<which, websocketpp, rest, others>>
Components == {"utf8", "hybi13", "parser", "deflate", "parameters", "handshake", "hybi00", "base64", "uri",
               "iostream", "gobang", "buffer", "sessions",
               "masking", "closing", "settings", "writer", "calculator", "multiplexer", "users",
               "lists", "vectors", "strings", "pointers", "md5", "sha1"}

\* Types of UTF-8 bytes: 2 begins a character of two, 1 continues one.
Payloads == {<<>>, <<2>>, <<1>>, <<2, 1, 2>>, <<2, 1, 2, 1>>}
Values == {<<>>, <<"c">>, <<"a", "quote">>, <<"c", " ">>}
HeaderLines == {"host", "cl0", "cl2", "clbig", "malformed", "anonymous"}
Texts == {<<>>, <<1>>, <<0, 1>>, <<200>>}
\* Around every bound that reserved and invalid test.
CloseCodes == {0, 1, 999, 1000, 1003, 1004, 1005, 1006, 1007, 1014, 1015, 1016, 2999, 3000, 4999, 5000, 65535}
Sums == {[x |-> 1, y |-> 2, op |-> "+"], [x |-> 1, y |-> 0, op |-> "/"]}

U == INSTANCE Utf8 WITH MaxText <- 5, text <- u_text, validator <- u_validator
H == INSTANCE Hybi13 WITH PayloadBasic <- 1, MaxMessage <- 4, MaxChunk <- 2, Deflate <- TRUE,
                          peer <- h_peer, hy <- h_hy, ref <- h_ref
Z == INSTANCE Hybi00 WITH MaxSent <- 3, wire <- z_wire, hy00 <- z_hy00, said <- z_said
P == INSTANCE HttpParser WITH MaxLines <- 2, MaxHeaderSizes <- {10, 40}, MaxChunk <- 3, MaxBody <- 2,
                              sent <- p_sent, wire <- p_wire, http <- p_http,
                              MaxParameters <- 2, MaxAttributes <- 2, list <- l_list, text <- l_text, parse <- l_parse
D == INSTANCE Deflate WITH Bits <- {8, 12, 265}, MaxMessages <- 2, neg <- d_neg, end <- d_end, flow <- d_flow
S == INSTANCE Handshake WITH Protocols <- {"p", "q"}, Keys <- {"k1", "k2"},
                             client <- s_client, server <- s_server, wire <- s_wire,
                             Ports <- {"0", "80", "443", "9000", "65536"},
                             text <- r_text, ours <- r_ours, theirs <- r_theirs,
                             Codes <- CloseCodes, ReasonSize <- 3, MaxReason <- 4,
                             end <- cl_end, frame <- cl_frame, step <- cl_step, closer <- cl_closer
K == INSTANCE Codecs WITH MaxChunk <- 11, MaxPayload <- 14,
                          machine <- mk_machine, key <- mk_key, masked <- mk_masked,
                          Bytes <- {0, 1, 77, 255}, MaxInput <- 4, input <- b_input, coded <- b_coded,
                          WordBits <- 11, Pieces <- {0, 1, 8, 55, 56, 64, 65, 130}, MaxPieces <- 3, MaxLength <- 200,
                          md5 <- dg_md5, sha1 <- dg_sha1, given <- dg_given
E == INSTANCE EndpointSettings WITH Values <- {0, 1}, MaxCons <- 2, MaxCalls <- 3,
                                    ep <- se_ep, cons <- se_cons, seen <- se_seen, own <- se_own, calls <- se_calls
I == INSTANCE Iostream WITH MaxBytes <- 5, MaxLen <- 2, io <- i_io, got <- i_got,
                            MaxBufs <- 5, ep <- wr_ep, con <- wr_con, bad <- wr_bad, out <- wr_out,
                            asked <- wr_asked, status <- wr_status
F == INSTANCE Buffer WITH Capacity <- 3, MaxLen <- 4, MaxBytes <- 12, LineLength <- 3,
                          buffer <- f_buffer, reader_idx <- f_reader_idx, writer_idx <- f_writer_idx,
                          written <- f_written, taken <- f_taken
X == INSTANCE IoServers WITH Fdnum <- 3, MaxFd <- 4, MaxBytes <- 1, MaxUnread <- 1,
                             kind <- mx_kind, kern <- mx_kern, srv <- mx_srv, blocked <- mx_blocked, refused <- mx_refused,
                             Clients <- {"c1", "c2"}, Requests <- Sums, MaxAsked <- [c1 |-> 2, c2 |-> 0], MaxRecv <- 12,
                             SndBuf <- 8, conn <- ca_conn, loop <- ca_loop, errno <- ca_errno, freed <- ca_freed,
                             asked <- ca_asked, faults <- ca_faults
Y == INSTANCE AlgorithmSequences WITH
       ListData <- {1, 2}, MaxList <- 2, heap <- li_heap, list <- li_list, list_ref <- li_ref,
       Data <- {"x", "y"}, First <- 2, MaxVector <- 3, vec <- ve_vec, vec_ref <- ve_ref,
       Chars <- {"x", "y"}, MaxString <- 3, BuffSize <- 3, str <- st_str, str_ref <- st_ref
O == INSTANCE SharedPtr WITH Handles <- {1, 2, 3}, Objects <- {"x", "y"}, Blocks <- {1, 2, 3}, Null <- "null",
                             ptr <- po_ptr, count <- po_count, made <- po_made, deleted <- po_deleted

Unused2(a, b) == a = 0 /\ b = 0
Unused3(a, b, c) == a = 0 /\ b = 0 /\ c = 0
Init ==
  /\ which \in Components
  /\ IF which = "utf8" THEN U!Init ELSE Unused2(u_text, u_validator)
  /\ IF which = "hybi13" THEN H!Init ELSE Unused3(h_peer, h_hy, h_ref)
  /\ IF which = "parser" THEN P!MessageInit ELSE Unused3(p_sent, p_wire, p_http)
  /\ IF which = "deflate" THEN D!Init ELSE Unused3(d_neg, d_end, d_flow)
  /\ IF which = "parameters" THEN P!ListInit ELSE Unused3(l_list, l_text, l_parse)
  /\ IF which = "handshake" THEN S!OpenInit ELSE Unused3(s_client, s_server, s_wire)
  /\ IF which = "hybi00" THEN Z!Init ELSE Unused3(z_wire, z_hy00, z_said)
  /\ IF which = "base64" THEN K!Base64Init ELSE Unused2(b_input, b_coded)
  /\ IF which = "uri" THEN S!UriInit ELSE Unused3(r_text, r_ours, r_theirs)
  /\ I!ReadInit /\ BoardInit /\ F!Init /\ SessionInit
  /\ S!CloseInit /\ E!Init /\ I!WriteInit /\ X!CalcInit /\ UserInit /\ Y!ListInit /\ Y!VectorInit /\ O!Init
  /\ IF which = "masking" THEN K!MaskInit ELSE Unused3(mk_machine, mk_key, mk_masked)
  /\ IF which = "multiplexer" THEN X!EchoInit ELSE Unused3(mx_kind, mx_kern, mx_srv) /\ Unused2(mx_blocked, mx_refused)
  /\ IF which \in {"md5", "sha1"} THEN K!DigestInit /\ (which = "md5" => dg_sha1.bytelength = 0)
                                  ELSE Unused3(dg_md5, dg_sha1, dg_given)
  /\ IF which = "strings" THEN Y!StringInit ELSE Unused2(st_str, st_ref)

Utf8Next == which = "utf8" /\ U!Next
            /\ UNCHANGED <<which, hybi13, parser, deflate, parameters, handshake, hybi00, base64, uri, rest, others>>
Hybi13Next == which = "hybi13" /\ H!Next
              /\ UNCHANGED <<which, utf8, parser, deflate, parameters, handshake, hybi00, base64, uri, rest, others>>
ParserNext == which = "parser" /\ P!MessageNext
              /\ UNCHANGED <<which, utf8, hybi13, deflate, parameters, handshake, hybi00, base64, uri, rest, others>>
DeflateNext == which = "deflate" /\ D!Next
               /\ UNCHANGED <<which, utf8, hybi13, parser, parameters, handshake, hybi00, base64, uri, rest, others>>
ParametersNext == which = "parameters" /\ P!ListNext
                  /\ UNCHANGED <<which, utf8, hybi13, parser, deflate, handshake, hybi00, base64, uri, rest, others>>
HandshakeNext == which = "handshake" /\ S!OpenNext
                 /\ UNCHANGED <<which, utf8, hybi13, parser, deflate, parameters, hybi00, base64, uri, rest, others>>
Hybi00Next == which = "hybi00" /\ Z!Next
              /\ UNCHANGED <<which, utf8, hybi13, parser, deflate, parameters, handshake, base64, uri, rest, others>>
Base64Next == which = "base64" /\ K!Base64Next
              /\ UNCHANGED <<which, utf8, hybi13, parser, deflate, parameters, handshake, hybi00, uri, rest, others>>
UriNext == which = "uri" /\ S!UriNext
           /\ UNCHANGED <<which, utf8, hybi13, parser, deflate, parameters, handshake, hybi00, base64, rest, others>>
IostreamNext == which = "iostream" /\ I!ReadNext
                /\ UNCHANGED <<which, websocketpp, gobang, buffer, sessions, others>>
GobangNext == which = "gobang" /\ BoardNext
              /\ UNCHANGED <<which, websocketpp, iostream, buffer, sessions, others>>
BufferNext == which = "buffer" /\ F!Next
              /\ UNCHANGED <<which, websocketpp, iostream, gobang, sessions, others>>
SessionsNext == which = "sessions" /\ SessionNext
                /\ UNCHANGED <<which, websocketpp, iostream, gobang, buffer, others>>
MaskingNext == which = "masking" /\ K!MaskNext
  /\ UNCHANGED <<which, websocketpp, rest, digests, closing, settings, writer, calculator, multiplexer, users, lists, vectors, strings, pointers>>
ClosingNext == which = "closing" /\ S!CloseNext
  /\ UNCHANGED <<which, websocketpp, rest, digests, masking, settings, writer, calculator, multiplexer, users, lists, vectors, strings, pointers>>
SettingsNext == which = "settings" /\ E!Next
  /\ UNCHANGED <<which, websocketpp, rest, digests, masking, closing, writer, calculator, multiplexer, users, lists, vectors, strings, pointers>>
WriterNext == which = "writer" /\ I!WriteNext
  /\ UNCHANGED <<which, websocketpp, rest, digests, masking, closing, settings, calculator, multiplexer, users, lists, vectors, strings, pointers>>
CalculatorNext == which = "calculator" /\ X!CalcNext
  /\ UNCHANGED <<which, websocketpp, rest, digests, masking, closing, settings, writer, multiplexer, users, lists, vectors, strings, pointers>>
MultiplexerNext == which = "multiplexer" /\ X!EchoNext
  /\ UNCHANGED <<which, websocketpp, rest, digests, masking, closing, settings, writer, calculator, users, lists, vectors, strings, pointers>>
UsersNext == which = "users" /\ UserNext
  /\ UNCHANGED <<which, websocketpp, rest, digests, masking, closing, settings, writer, calculator, multiplexer, lists, vectors, strings, pointers>>
ListsNext == which = "lists" /\ Y!ListNext
  /\ UNCHANGED <<which, websocketpp, rest, digests, masking, closing, settings, writer, calculator, multiplexer, users, vectors, strings, pointers>>
VectorsNext == which = "vectors" /\ Y!VectorNext
  /\ UNCHANGED <<which, websocketpp, rest, digests, masking, closing, settings, writer, calculator, multiplexer, users, lists, strings, pointers>>
StringsNext == which = "strings" /\ Y!StringNext
  /\ UNCHANGED <<which, websocketpp, rest, digests, masking, closing, settings, writer, calculator, multiplexer, users, lists, vectors, pointers>>
PointersNext == which = "pointers" /\ O!Next
  /\ UNCHANGED <<which, websocketpp, rest, digests, masking, closing, settings, writer, calculator, multiplexer, users, lists, vectors, strings>>
Md5Next == which = "md5" /\ K!Md5 /\ UNCHANGED <<which, websocketpp, rest, dg_sha1, masking, closing, settings,
  writer, calculator, multiplexer, users, lists, vectors, strings, pointers>>
Sha1Next == which = "sha1" /\ K!Sha1 /\ UNCHANGED <<which, websocketpp, rest, dg_md5, dg_given, masking, closing,
  settings, writer, calculator, multiplexer, users, lists, vectors, strings, pointers>>
Next ==
  \/ Md5Next \/ Sha1Next
  \/ Utf8Next \/ Hybi13Next \/ ParserNext \/ DeflateNext \/ ParametersNext
  \/ HandshakeNext \/ Hybi00Next \/ Base64Next \/ UriNext
  \/ IostreamNext \/ GobangNext \/ BufferNext \/ SessionsNext
  \/ MaskingNext \/ ClosingNext \/ SettingsNext \/ WriterNext \/ CalculatorNext \/ MultiplexerNext
  \/ UsersNext \/ ListsNext \/ VectorsNext \/ StringsNext \/ PointersNext
Spec == Init /\ [][Next]_vars

-----------------------------------------------------------------------------
(***************************************************************************)
(* What the components promise, each in its own module; only the promise   *)
(* of the one that runs is looked at.                                      *)
(***************************************************************************)
Promise(component, holds) == which = component => holds

(* What the codecs of websocketpp give back is what went in: the validator *)
(* accepts exactly well-formed UTF-8 byte by byte, every payload byte      *)
(* meets its byte of the key however the payload is cut, base64 decodes to *)
(* what was encoded, and md5 and sha1 digest the padded message, in        *)
(* whatever pieces it comes (utf8_validator.hpp, frame.hpp, base64.hpp,    *)
(* md5.hpp, sha1.hpp).                                                     *)
CodecsFaithful ==
  /\ Promise("utf8", U!AcceptsUtf8)
  /\ Promise("masking", K!MaskAligned)
  /\ Promise("base64", K!DecodesToItself)
  /\ Promise("md5", K!PiecesDoNotMatter)
  /\ Promise("sha1", K!DigestsPadded)

(* However a stream is cut, what is read is what was sent: frames of       *)
(* hybi13 and hybi00, HTTP messages and their parameter lists, the bytes   *)
(* of the iostream transport in both directions and those of the Reactor's *)
(* Buffer; and what breaks a limit or a rule is refused (consume of the    *)
(* processors and parsers, read_some, async_write, ReadAndPop).            *)
ReadAsSent ==
  /\ Promise("hybi13", H!ReadsWhatWasSent)
  /\ Promise("hybi00", Z!TextsInOrder)
  /\ Promise("parser", P!ChunksDoNotMatter /\ P!HeaderBounded)
  /\ Promise("parameters", P!ReadsWhatWasWritten)
  /\ Promise("iostream", I!NoByteLost /\ I!OneCallPerRead)
  /\ Promise("writer", I!WrittenAsReported)
  /\ Promise("buffer", F!HoldsUnread)

(* Every iteration of extract_parameters and extract_attributes gets       *)
(* further in the text, whatever the text, so their loops end.             *)
GetsFurther == [][which = "parameters" => P!Rank(l_parse') > P!Rank(l_parse)]_parameters

(* The two ends of a websocketpp connection come to the same view: of the  *)
(* compression they negotiated, of whether the connection is open and for  *)
(* which uri, of the code and reason of its closing, and, inside one end,  *)
(* the connection and its processor of the settings in force               *)
(* (permessage_deflate/enabled.hpp, process_handshake_request,             *)
(* handle_read_http_response, uri.hpp, send_close_frame,                   *)
(* set_max_message_size).                                                  *)
PeersAgree ==
  /\ Promise("deflate", D!EndsAgree /\ D!WindowsAccepted)
  /\ Promise("handshake", S!OpenTogether /\ S!SwitchesForValidRequest /\ S!HeadersAsSent)
  /\ Promise("uri", S!ServerSeesUri)
  /\ Promise("closing", S!CloseIsAnswered /\ S!CodesMatch /\ S!LegalOnWire)
  /\ Promise("settings", E!AsConfigured /\ E!LimitInForce)

(* The one thread of the servers of lesson_IO serves all its clients: it   *)
(* waits for none of them to send, only for one that leaves its answers    *)
(* unread; it watches each connection once, frees none in use without a    *)
(* fault, and leaves no request unread, unanswered or answered out of      *)
(* order (SelectServer, pollServer, epollServer, Recver, Sender).          *)
ServesAll ==
  /\ Promise("multiplexer", X!WaitsOnlyToAnswer /\ X!EachWatchedOnce)
  /\ Promise("calculator", X!AnswersInOrder /\ X!NothingForgotten /\ X!FreedOnlyAfterFault)

(* Growing, shifting, splicing and copying keep what the sequences of      *)
(* Algorithm hold, and an object is deleted once, when its last handle     *)
(* goes (List.hpp, Vector.hpp, String.hpp, SmartPtr.hpp).                  *)
SequencesHold ==
  /\ Promise("lists", Y!RingsAreWhole)
  /\ Promise("vectors", Y!VectorHolds)
  /\ Promise("strings", Y!StringHolds)
  /\ Promise("pointers", O!DeletedOnce)
=============================================================================
