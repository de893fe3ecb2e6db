----------------------------- MODULE ForkServer -----------------------------
(***************************************************************************)
(* The calculator of lesson10/cal: a server that forks twice for every     *)
(* connection, so that the one that serves it is nobody's child to wait    *)
(* for, and the clients, which ask one question at a time.  Either fork    *)
(* may fail.  The protocol is the one of CalcProtocol.  An answer is small *)
(* and sent by one call: a client reads it whole.                          *)
(***************************************************************************)
EXTENDS CalcProtocol

CONSTANTS Clients,
          Questions,   \* what the user of each client enters, in order
          RecvSizes,   \* bytes a recv of the server may return, if there are as many
          MaxFailed    \* bound on the forks that fail

VARIABLES client,    \* [pc, asked, printed] of each client
          link,      \* of each connection: bytes both ways, and which processes hold it
          backlog,   \* connections to accept, in order
          listener,  \* the accept loop: [pc, sock]
          worker,    \* per connection, the one that serves it: [pc, inbuffer, text]
          nofork     \* forks that failed
forkVars == <<client, link, backlog, listener, worker, nofork>>

NoSock == [to |-> <<>>, back |-> <<>>, held |-> {}]
ForkInit ==
  /\ client = [c \in Clients |-> [pc |-> "connect", asked |-> <<>>, printed |-> <<>>]]
  /\ link = [c \in Clients |-> NoSock]
  /\ backlog = <<>>
  /\ listener = [pc |-> "accept", sock |-> {}]
  /\ worker = [c \in Clients |-> [pc |-> "none", inbuffer |-> <<>>, text |-> <<>>]]
  /\ nofork = 0

-----------------------------------------------------------------------------
(* TcpServer::Start, a statement at a time.                                *)
AcceptLink ==
  /\ listener.pc = "accept" /\ backlog # <<>>
  /\ listener' = [pc |-> "fork", sock |-> {Head(backlog)}]
  /\ backlog' = Tail(backlog)
  /\ link' = [link EXCEPT ![Head(backlog)].held = {"server"}]
  /\ UNCHANGED <<client, worker, nofork>>

Fork(c) ==
  /\ listener.pc = "fork" /\ c \in listener.sock
  /\ listener' = [listener EXCEPT !.pc = "close"]
  /\ \/ /\ link' = [link EXCEPT ![c].held = @ \union {"child"}]
        /\ worker' = [worker EXCEPT ![c].pc = "child"]
        /\ UNCHANGED nofork
     \/ /\ nofork < MaxFailed
        /\ nofork' = nofork + 1
        /\ UNCHANGED <<link, worker>>
  /\ UNCHANGED <<client, backlog>>

CloseSock(c) ==
  /\ listener.pc = "close" /\ c \in listener.sock
  /\ listener' = [listener EXCEPT !.pc = "wait"]
  /\ link' = [link EXCEPT ![c].held = @ \ {"server"}]
  /\ UNCHANGED <<client, backlog, worker, nofork>>

\* waitpid: returns when the child has ended, or at once if there is none.
Waitpid(c) ==
  /\ listener.pc = "wait" /\ c \in listener.sock
  /\ worker[c].pc # "child" /\ "child" \notin link[c].held
  /\ listener' = [pc |-> "accept", sock |-> {}]
  /\ UNCHANGED <<client, link, backlog, worker, nofork>>

\* The child forks and exits; if the fork fails it serves the connection.
ChildForks(c) ==
  /\ worker[c].pc = "child"
  /\ worker' = [worker EXCEPT ![c].pc = "recv"]
  /\ \/ /\ link' = [link EXCEPT ![c].held = (@ \ {"child"}) \union {"handler"}]
        /\ UNCHANGED nofork
     \/ /\ nofork < MaxFailed
        /\ nofork' = nofork + 1
        /\ UNCHANGED link
  /\ UNCHANGED <<client, backlog, listener>>

-----------------------------------------------------------------------------
(* handlerEntery of the one that serves c.                                 *)

\* RecvPackage, after a recv: a package, or another recv.
RecvPackage(s) == ParseOnePackage(s)

Recv(c) ==
  \E n \in {k \in RecvSizes : k < Len(link[c].to)} \union {Len(link[c].to)} :
    LET took == RecvPackage(worker[c].inbuffer \o SubSeq(link[c].to, 1, n)) IN
      /\ worker[c].pc = "recv" /\ n > 0
      /\ link' = [link EXCEPT ![c].to = SubSeq(@, n + 1, Len(@))]
      /\ worker' = [worker EXCEPT ![c] =
           IF took.ok THEN [pc |-> "answer", inbuffer |-> took.rest, text |-> took.text]
           ELSE [@ EXCEPT !.inbuffer = worker[c].inbuffer \o SubSeq(link[c].to, 1, n)]]
      /\ UNCHANGED <<client, backlog, listener, nofork>>

\* deLength, deserialize, the calculation and send; if the client has gone
\* the next recv says so.
Send(c) ==
  /\ worker[c].pc = "answer"
  /\ link' = [link EXCEPT ![c].back = @ \o Answer(worker[c].text)]
  /\ worker' = [worker EXCEPT ![c].pc = "recv", ![c].text = <<>>]
  /\ UNCHANGED <<client, backlog, listener, nofork>>

\* recv returns 0: close(sock) and exit.
RecvEnds(c) ==
  /\ worker[c].pc = "recv" /\ client[c].pc = "gone" /\ link[c].to = <<>>
  /\ worker' = [worker EXCEPT ![c].pc = "exited"]
  /\ link' = [link EXCEPT ![c].held = @ \ {"child", "handler"}]
  /\ UNCHANGED <<client, backlog, listener, nofork>>

handlerEntery(c) == Recv(c) \/ Send(c) \/ RecvEnds(c)

-----------------------------------------------------------------------------
(* TcpClinet::Start.                                                       *)
Connect(c) ==
  /\ client[c].pc = "connect"
  /\ client' = [client EXCEPT ![c].pc = "ask"]
  /\ backlog' = Append(backlog, c)
  /\ UNCHANGED <<link, listener, worker, nofork>>

Ask(c) ==
  LET q == Questions[c][Len(client[c].asked) + 1] IN
  /\ client[c].pc = "ask" /\ Len(client[c].asked) < Len(Questions[c])
  /\ client' = [client EXCEPT ![c].pc = "recv", ![c].asked = Append(@, q)]
  /\ link' = [link EXCEPT ![c].to = @ \o enLength(SerializeRequest(q))]
  /\ UNCHANGED <<backlog, listener, worker, nofork>>

\* deLength, deserialize and the lines printed.
Show(c) ==
  /\ client[c].pc = "recv" /\ link[c].back # <<>>
  /\ client' = [client EXCEPT ![c].pc = "ask",
                              ![c].printed = Append(@, deLength(link[c].back)[1].r)]
  /\ link' = [link EXCEPT ![c].back = <<>>]
  /\ UNCHANGED <<backlog, listener, worker, nofork>>

\* The client is ended by its user, or by the end of a connection that
\* nobody serves.
Leave(c) ==
  /\ client[c].pc \in {"ask", "recv"}
  /\ client' = [client EXCEPT ![c].pc = "gone"]
  /\ UNCHANGED <<link, backlog, listener, worker, nofork>>

\* The server, and the processes it forks.
Start == AcceptLink \/ \E c \in Clients : Fork(c) \/ CloseSock(c) \/ Waitpid(c)
Forked(c) == ChildForks(c) \/ handlerEntery(c)

ForkNext ==
  \/ Start
  \/ \E c \in Clients :
       \/ Forked(c)
       \/ Connect(c) \/ Ask(c) \/ Show(c) \/ Leave(c)

ForkFairness ==
  /\ WF_forkVars(Start)
  /\ \A c \in Clients : WF_forkVars(Forked(c)) /\ WF_forkVars(Show(c))

ForkSpec == ForkInit /\ [][ForkNext]_forkVars /\ ForkFairness

-----------------------------------------------------------------------------
(* Every client is shown the answers to its own questions, in order,       *)
(* however its packages are cut (RecvPackage, handlerEntery, Start).       *)
ShownOwnAnswers ==
  \A c \in Clients :
    client[c].printed = [i \in DOMAIN client[c].printed |-> my_string(client[c].asked[i])]

(* When the server accepts again, a connection is held by at most one      *)
(* process, and by none after the one that served it has ended: the        *)
(* copies that the two forks made are closed (Start, handlerEntery).       *)
HeldByOne ==
  listener.pc = "accept" =>
    \A c \in Clients : link[c].held \in {{}, {"handler"}} /\ (worker[c].pc = "exited" => link[c].held = {})

(* Unless a fork fails, a question is answered or its client leaves,       *)
(* however long the other clients stay (Start: the second fork, waitpid).  *)
EveryQuestionIsAnswered ==
  \A c \in Clients :
    client[c].pc = "recv" ~> (client[c].pc # "recv" \/ nofork > 0)
=============================================================================
