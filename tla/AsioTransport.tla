--------------------------- MODULE AsioTransport ----------------------------
(***************************************************************************)
(* The asio transport of websocketpp (transport/asio): the connections     *)
(* that a client makes, and the endpoint that accepts, two machines that   *)
(* share no state.                                                         *)
(***************************************************************************)
EXTENDS Integers, FiniteSets

-----------------------------------------------------------------------------
(***************************************************************************)
(* The asio transport of websocketpp (transport/asio/endpoint.hpp and      *)
(* connection.hpp) with its two socket policies, and what the client       *)
(* endpoint does with it: connections that are resolved, connected,        *)
(* tunnelled through a proxy, secured, and shut down.  Every stage is an   *)
(* operation raced by a timer; whoever comes first calls back, exactly     *)
(* once.  By the time a handler looks at a timer that has expired the      *)
(* clock has moved past it.  The endpoint that accepts follows.           *)
(***************************************************************************)
CONSTANTS Attempts,   \* connections a client makes
          Tls,        \* those with the tls policy; the others are plain
          Proxied     \* those that go through a proxy

VARIABLES at,  \* at[i]: the transport of connection i
          sni  \* sni[i]: whether its pre-init failed, the callbacks of init to come then and that came
attemptVars == <<at, sni>>

\* op and timer are the operation and the timer of the stage; sop and stimer
\* those of the shutdown, which may begin before the other has been called.
NewAttempt ==
  [stage |-> "idle", op |-> "none", timer |-> "off", due |-> FALSE,
   sop |-> "none", stimer |-> "off", sdue |-> FALSE,
   connected |-> 0, inited |-> 0, shut |-> 0]

begin(a, stage) == [a EXCEPT !.stage = stage, !.op = "pending", !.timer = "running"]
cancel(a) == [a EXCEPT !.timer = "off"]
callback(a, field) == [a EXCEPT ![field] = @ + 1]

\* An operation that was aborted, or whose timer has passed, leaves the
\* callback to whatever aborted it.
OvertakenIfAborted(a) == a.op = "aborted"
Overtaken(a) == a.op = "aborted" \/ a.timer = "past"
cancel_socket_checked(a) == [a EXCEPT !.op = IF @ = "pending" THEN "aborted" ELSE @]

\* The shutdown: at once on a plain socket, an operation of its own under tls.
handle_async_shutdown(a) ==
  IF a.sop = "aborted" \/ a.stimer = "past" THEN [a EXCEPT !.sop = "none"]
  ELSE callback([a EXCEPT !.sop = "none", !.stimer = "off", !.stage = "down"], "shut")
handle_async_shutdown_timeout(a) ==
  callback([a EXCEPT !.sop = IF @ = "pending" THEN "aborted" ELSE @, !.stage = "down",
                     !.op = IF @ = "pending" THEN "aborted" ELSE @], "shut")
async_shutdown(a, i) ==
  LET d == [a EXCEPT !.stage = "shutdown", !.stimer = "running"]
  IN  IF i \in Tls THEN [d EXCEPT !.sop = "pending"]
      ELSE handle_async_shutdown([d EXCEPT !.sop = "ok"])

\* A callback with an error makes the connection terminate, which shuts down.
Fail(a, i, field) == async_shutdown(callback(a, field), i)

\* After the pre-init: the proxy if there is one, then the socket policy.
handle_post_init(a, i) ==
  CASE Overtaken(a) -> [a EXCEPT !.op = "none"]
    [] ~Overtaken(a) /\ a.op = "error" -> Fail([cancel(a) EXCEPT !.op = "none"], i, "inited")
    [] OTHER -> callback([cancel(a) EXCEPT !.op = "none", !.stage = "ready"], "inited")
post_init(a, i) ==
  IF i \in Tls THEN begin(a, "post_init")
  ELSE handle_post_init([begin(a, "post_init") EXCEPT !.op = "ok"], i)
proxy_write(a) == begin(a, "proxy_write")
proxy_read(a) == [a EXCEPT !.stage = "proxy_read", !.op = "pending"]
handle_pre_init(a, i) == IF i \in Proxied THEN proxy_write(a) ELSE post_init(a, i)
init(a, i) == handle_pre_init(a, i)

handle_proxy_write(a, i) ==
  CASE Overtaken(a) -> [a EXCEPT !.op = "none"]
    [] ~Overtaken(a) /\ a.op = "error" -> Fail([cancel(a) EXCEPT !.op = "none"], i, "inited")
    [] OTHER -> proxy_read(a)
\* A proxy may also answer with an error status, or with no proper headers.
handle_proxy_read(a, i) ==
  CASE Overtaken(a) -> [a EXCEPT !.op = "none"]
    [] ~Overtaken(a) /\ a.op = "error" -> Fail([cancel(a) EXCEPT !.op = "none"], i, "inited")
    [] OTHER -> post_init([cancel(a) EXCEPT !.op = "none"], i)

handle_connect(a, i) ==
  CASE Overtaken(a) -> [a EXCEPT !.op = "none"]
    [] ~Overtaken(a) /\ a.op = "error" -> Fail([cancel(a) EXCEPT !.op = "none"], i, "connected")
    [] OTHER -> init(callback([cancel(a) EXCEPT !.op = "none"], "connected"), i)
handle_resolve(a, i) ==
  CASE Overtaken(a) -> [a EXCEPT !.op = "none"]
    [] ~Overtaken(a) /\ a.op = "error" -> Fail([cancel(a) EXCEPT !.op = "none"], i, "connected")
    [] OTHER -> begin(cancel(a), "connect")

handle_post_init_timeout(a, i) == Fail(cancel_socket_checked(a), i, "inited")
handle_proxy_timeout(a, i) == Fail(cancel_socket_checked(a), i, "inited")
handle_connect_timeout(a, i) == Fail(cancel_socket_checked(a), i, "connected")
\* The resolver is shared: its cancel aborts every resolve under way.
handle_resolve_timeout(i) ==
  [j \in Attempts |->
    LET a == IF at[j].stage = "resolve" THEN cancel_socket_checked(at[j]) ELSE at[j]
    IN  IF j = i THEN Fail([a EXCEPT !.due = FALSE], i, "connected") ELSE a]

-----------------------------------------------------------------------------
AttemptInit ==
  /\ at = [i \in Attempts |-> NewAttempt]
  /\ sni = [i \in Attempts |-> [name |-> "set", late |-> 0, again |-> 0]]

Become(i, a) == at' = [at EXCEPT ![i] = a]
Set(i, a) == Become(i, a) /\ UNCHANGED sni

\* connect of the client endpoint; a proxy that is no uri fails at once.
async_connect(i) ==
  /\ at[i].stage = "idle"
  /\ \/ Set(i, begin(at[i], "resolve"))
     \/ i \in Proxied /\ Set(i, Fail(at[i], i, "connected"))

\* The kernel ends an operation.
Completes(i) ==
  \E r \in {"ok", "error"} :
    \/ at[i].op = "pending" /\ Set(i, [at[i] EXCEPT !.op = r])
    \/ at[i].sop = "pending" /\ Set(i, [at[i] EXCEPT !.sop = r])

\* Its handler runs.
Handler(i) ==
  LET a == at[i]
  IN  \/ /\ a.op \notin {"none", "pending"}
         /\ Set(i, CASE a.stage \in {"shutdown", "down"} -> [a EXCEPT !.op = "none"]
                     [] a.stage = "resolve" -> handle_resolve(a, i)
                     [] a.stage = "connect" -> handle_connect(a, i)
                     [] a.stage = "proxy_write" -> handle_proxy_write(a, i)
                     [] a.stage = "proxy_read" -> handle_proxy_read(a, i)
                     [] a.stage = "post_init" -> handle_post_init(a, i))
      \/ a.sop \notin {"none", "pending"} /\ Set(i, handle_async_shutdown(a))

\* The pre-init of the tls policy fails, for a host name it cannot set: it
\* calls back with the error and then again without, and handle_pre_init does
\* not return after its own callback.  The connection terminates and two runs
\* of what follows the pre-init are begun; of a proxy they share the timer.
PreInitFails(i) ==
  /\ i \in Tls /\ at[i].stage = "connect" /\ at[i].op = "ok" /\ ~Overtaken(at[i])
  /\ Become(i, Fail(callback([cancel(at[i]) EXCEPT !.op = "none"], "connected"), i, "inited"))
  /\ sni' = [sni EXCEPT ![i] = [name |-> "failed", late |-> IF i \in Proxied THEN 3 ELSE 2, again |-> 0]]

\* Such a run, or a timer that its twin left behind, calls back too; a timeout
\* cancels the socket.  A timer of the proxy may have been cancelled.
LateInit(i) ==
  \E r \in {at[i].sop, "aborted"}, n \in {0, 1} :
    /\ sni[i].late > 0 /\ (r # at[i].sop => at[i].sop = "pending")
    /\ n = 0 => i \in Proxied /\ sni[i].late = 1
    /\ Become(i, [at[i] EXCEPT !.sop = r])
    /\ sni' = [sni EXCEPT ![i].late = @ - 1, ![i].again = @ + n]

\* A timer passes; its handler can no longer be cancelled.
Expires(i) ==
  \/ at[i].timer = "running" /\ Set(i, [at[i] EXCEPT !.timer = "past", !.due = TRUE])
  \/ at[i].stimer = "running" /\ Set(i, [at[i] EXCEPT !.stimer = "past", !.sdue = TRUE])

Timeout(i) ==
  LET a == [at[i] EXCEPT !.due = FALSE]
  IN  \/ at[i].due /\ at[i].stage = "resolve" /\ at' = handle_resolve_timeout(i) /\ UNCHANGED sni
      \/ /\ at[i].due /\ at[i].stage # "resolve"
         /\ Set(i, CASE a.stage = "connect" -> handle_connect_timeout(a, i)
                     [] a.stage \in {"proxy_write", "proxy_read"} -> handle_proxy_timeout(a, i)
                     [] OTHER -> handle_post_init_timeout(a, i))
      \/ at[i].sdue /\ Set(i, handle_async_shutdown_timeout([at[i] EXCEPT !.sdue = FALSE]))

\* The connection is done and terminates.
Terminate(i) == at[i].stage = "ready" /\ Set(i, async_shutdown(at[i], i))

AttemptNext ==
  \E i \in Attempts :
    \/ async_connect(i) \/ Completes(i) \/ Handler(i) \/ PreInitFails(i) \/ LateInit(i)
    \/ Expires(i) \/ Timeout(i) \/ Terminate(i)

AttemptSpec == AttemptInit /\ [][AttemptNext]_attemptVars

\* The event loop runs handlers and the clock goes on; the kernel need not
\* end an operation, as when the peer is silent.
AttemptFairness == \A i \in Attempts : WF_attemptVars(Handler(i) \/ Expires(i) \/ Timeout(i))

-----------------------------------------------------------------------------
\* Each of connect, init and shutdown calls back at most once, and in this
\* order, however its completion, its timer and the timers of the others that
\* share the resolver race; but init may call back again when its pre-init
\* failed.
CalledBackOnce ==
  \A i \in Attempts :
    LET a == at[i]
        inited == a.inited + sni[i].again
    IN  /\ a.connected <= 1 /\ a.shut <= a.connected
        /\ a.stage \in {"connect", "resolve"} => a.connected = 0
        /\ sni[i].name # "failed" =>
             /\ inited <= a.connected
             /\ a.stage = "ready" => inited = 1
             /\ a.stage \in {"proxy_write", "proxy_read", "post_init"} => inited = 0

\* That init calls back once even then is false of the code.
InitedOnce == \A i \in Attempts : at[i].inited + sni[i].again <= 1

\* Every connection that is begun is called back: it becomes ready or is shut
\* down, and a shutdown is called back too.
AttemptEnds ==
  \A i \in Attempts :
    /\ at[i].stage \notin {"idle", "ready", "down"} ~> at[i].stage \in {"ready", "down"}
    /\ at[i].stage = "shutdown" ~> at[i].shut = 1

-----------------------------------------------------------------------------
(***************************************************************************)
(* The listening side of websocketpp's asio transport: the state of the    *)
(* endpoint (transport/asio/endpoint.hpp) and the loop of accepts that the *)
(* server endpoint runs on it (roles/server_endpoint.hpp).                 *)
(***************************************************************************)
CONSTANT MaxListen   \* bound on the calls of listen

VARIABLE ep          \* the endpoint's state, its accepts under way, those aborted,
                     \* and the loops of accepts that ended for want of a connection
listenVars == <<ep>>

ListenInit == ep = [state |-> "UNINITIALIZED", accepts |-> 0, aborted |-> 0, halted |-> 0,
                    started |-> FALSE, listens |-> 0]

init_asio == ep.state = "UNINITIALIZED" /\ ep' = [ep EXCEPT !.state = "READY"]

clean_up_listen_after_error(e) == e
listen ==
  /\ ep.state = "READY" /\ ep.listens < MaxListen
  /\ \E e \in {clean_up_listen_after_error(ep), [ep EXCEPT !.state = "LISTENING"]} :
       ep' = [e EXCEPT !.listens = @ + 1, !.started = FALSE, !.halted = 0]

\* start_accept of the server endpoint: a new accept, if the transport listens
\* and a connection can be created for it.
create_connection(e) == {[e EXCEPT !.accepts = @ + 1], [e EXCEPT !.halted = @ + 1]}
start_accept(e) == IF e.state = "LISTENING" THEN create_connection(e) ELSE {e}

\* A call that fails throws.
StartAccept ==
  \E e \in start_accept(ep) :
    /\ ep.state = "LISTENING" /\ ~ep.started /\ e.accepts > ep.accepts
    /\ ep' = [e EXCEPT !.started = TRUE]

\* Closing the acceptor aborts what it was waiting for.
stop_listening ==
  /\ ep.state = "LISTENING"
  /\ ep' = [ep EXCEPT !.state = "READY", !.accepts = 0, !.aborted = @ + ep.accepts]

\* handle_accept: a connection is started, or terminated for an error, and
\* in either case the loop goes on; a start_accept that fails is only logged.
handle_accept(e) == start_accept(e)
Accepted ==
  /\ \/ ep.accepts > 0 /\ ep' \in handle_accept([ep EXCEPT !.accepts = @ - 1])
     \/ ep.aborted > 0 /\ ep' \in handle_accept([ep EXCEPT !.aborted = @ - 1])

ListenNext == init_asio \/ listen \/ StartAccept \/ stop_listening \/ Accepted

ListenSpec == ListenInit /\ [][ListenNext]_listenVars

-----------------------------------------------------------------------------
\* Once its acceptance loop has begun, an endpoint that listens is accepting:
\* no error and no restart ends the loop, only a connection that could not be
\* created.
KeepsAccepting == ep.state = "LISTENING" /\ ep.started => ep.accepts + ep.halted > 0

\* That not even this ends it is false of the code.
AlwaysAccepting == ep.state = "LISTENING" /\ ep.started => ep.accepts > 0

(* The asio transport keeps its promises on both sides: every stage of a   *)
(* connection calls back once, whatever its timer does, and neither an     *)
(* error nor listening again ends the loop of accepts; the exceptions are  *)
(* a failed pre-init and a connection that cannot be created (handle_* of  *)
(* transport/asio, handle_accept).                                         *)
TransportSound == CalledBackOnce /\ KeepsAccepting
=============================================================================
