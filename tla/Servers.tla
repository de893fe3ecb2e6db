------------------------------- MODULE Servers -------------------------------
(***************************************************************************)
(* The servers that give a connection to a thread or to a process of its   *)
(* own: my_Http and the calculator of lesson10.  They share no state.      *)
(***************************************************************************)
EXTENDS HttpServer, ForkServer

(* A request reaches one handler, whole and as it was sent but for an LF   *)
(* that begins a body after a bare CR, and is answered as it asked: the    *)
(* pool of my_Http handles a connection once, its response is as long as   *)
(* announced and its pipe ends are returned, and a client of lesson10 is   *)
(* shown the answers to its own questions by the one process that holds    *)
(* its connection (getinstance, ThreadRoutine, HandlerRequest, the forks   *)
(* of TcpServer::Start).                                                   *)
ServedRight ==
  /\ HandledOnce
  /\ RequestAsSent /\ BodyAsAnnounced /\ EndsReturned
  /\ ShownOwnAnswers /\ HeldByOne
=============================================================================
