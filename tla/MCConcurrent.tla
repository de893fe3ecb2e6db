---------------------------- MODULE MCConcurrent ----------------------------
(***************************************************************************)
(* The components whose hazard is concurrency, checked in one run: the     *)
(* asio transport of websocketpp, the queues and pools of the lessons, the *)
(* HTTP server and the loops of the Reactor.  A behaviour is one of one of *)
(* them; the others stay in their initial state.                           *)
(***************************************************************************)
EXTENDS AsioTransport, LessonQueues, LoopPool, Servers

VARIABLE which

mcVars == <<which, attemptVars, listenVars, blockVars, ringVars, poolVars, endVars, vars, forkVars>>
Components == {"asio", "listener", "queue", "ring", "pool", "http", "loops", "fork"}

\* The first peer asks for a program; the second for one thing of each kind,
\* with each of the line ends, a body that begins with LF and a length that
\* is negative.
Request(method, query, res, length, eol) ==
  [method |-> method, uri |-> [query |-> query, res |-> res], length |-> length,
   body |-> IF length < 0 THEN 0 ELSE length, eol |-> eol, feeds |-> {}]
PeerRequests ==
  <<{Request("GET", TRUE, "program", -1, <<Lf>>)},
    {Request("GET", FALSE, "file", -1, <<Cr, Lf>>), Request("GET", TRUE, "file", -1, <<Cr>>),
     [Request("POST", FALSE, "program", 2, <<Cr, Lf>>) EXCEPT !.feeds = {1}],
     [Request("POST", FALSE, "none", 1, <<Cr>>) EXCEPT !.feeds = {1}, !.body = 2],
     [Request("POST", FALSE, "file", -2, <<Lf>>) EXCEPT !.body = 1],
     Request("GET", FALSE, "bare directory", -1, <<Lf>>),
     Request("PUT", FALSE, "file", 1, <<Cr>>)}>>

\* What the users of two calculators enter.
Addition == [x |-> 1, y |-> 2, op |-> "+"]
Quotient == [x |-> 1, y |-> 0, op |-> "/"]
UserQuestions == [c1 |-> <<Addition, Quotient>>, c2 |-> <<Quotient>>]

MCInit ==
  /\ which \in Components
  /\ AttemptInit /\ ListenInit
  /\ BlockInit /\ RingInit
  /\ PoolInit
  /\ IF which = "http" THEN EndInit
     ELSE endpoint = <<>> /\ pipes = {} /\ child = <<>>
  /\ Init
  /\ ForkInit

RunAsio == which = "asio" /\ AttemptNext
           /\ UNCHANGED <<which, listenVars, blockVars, ringVars, poolVars, endVars, vars, forkVars>>
RunListener == which = "listener" /\ ListenNext
               /\ UNCHANGED <<which, attemptVars, blockVars, ringVars, poolVars, endVars, vars, forkVars>>
RunQueue == which = "queue" /\ BlockNext
            /\ UNCHANGED <<which, attemptVars, listenVars, ringVars, poolVars, endVars, vars, forkVars>>
RunRing == which = "ring" /\ RingNext
           /\ UNCHANGED <<which, attemptVars, listenVars, blockVars, poolVars, endVars, vars, forkVars>>
RunPool == which = "pool" /\ PoolNext
           /\ UNCHANGED <<which, attemptVars, listenVars, blockVars, ringVars, endVars, vars, forkVars>>
RunHttp == which = "http" /\ EndNext
           /\ UNCHANGED <<which, attemptVars, listenVars, blockVars, ringVars, poolVars, vars, forkVars>>
RunLoops == which = "loops" /\ Next
            /\ UNCHANGED <<which, attemptVars, listenVars, blockVars, ringVars, poolVars, endVars, forkVars>>
RunFork == which = "fork" /\ ForkNext
           /\ UNCHANGED <<which, attemptVars, listenVars, blockVars, ringVars, poolVars, endVars, vars>>
MCNext ==
  \/ RunAsio \/ RunListener \/ RunQueue \/ RunRing \/ RunPool
  \/ RunHttp \/ RunLoops \/ RunFork

\* The fairness of each component's module, for a behaviour of it.
MCFairness ==
  /\ \A i \in {1, 2} :
       WF_attemptVars(which = "asio" /\ (Handler(i) \/ Expires(i) \/ Timeout(i)))
  /\ \A t \in QueueThreads : WF_blockVars(which = "queue" /\ Step(t))
  /\ \A a \in Acceptors : WF_poolVars(which = "pool" /\ Loop(a) /\ ~Accept(a))
  /\ \A w \in PoolThreads : WF_poolVars(which = "pool" /\ ThreadRoutine(w))
  /\ \A t \in {1, 2} : /\ WF_endVars(which = "http" /\ HandlerRequest(t))
                       /\ WF_endVars(which = "http" /\ ChildEnds(t))
  /\ WF_vars(which = "loops" /\ \E i \in {1, 2} : NewThread(i) \/ GetLoop(i))
  /\ \A i \in {1, 2} : /\ WF_vars(which = "loops" /\ ThreadEntry(i))
                       /\ WF_vars(which = "loops" /\ RunTask(i))
  /\ WF_vars(which = "loops" /\ RunBaseTask)
  /\ WF_forkVars(which = "fork" /\ Start)
  /\ \A c \in {"c1", "c2"} : /\ WF_forkVars(which = "fork" /\ Forked(c))
                             /\ WF_forkVars(which = "fork" /\ Show(c))
MCSpec == MCInit /\ [][MCNext]_mcVars /\ MCFairness

-----------------------------------------------------------------------------
(* TransportSound, ServedRight, LoopsConsistent and ImplementsBuffers are  *)
(* stated in their modules.  A component that does not run is in its       *)
(* initial state, where they hold; HandlerRequest then has no request.     *)

(* What was begun comes to its end: a connection that asio makes is called *)
(* back, a task that is produced is saved, a connection pushed to the pool *)
(* is handled unless silent peers hold every thread, a request ends        *)
(* however the pipes are inherited or waits for a peer that does not quit, *)
(* the loops of the Reactor start, and a question is answered however long *)
(* other clients stay.                                                     *)
WorkEnds ==
  /\ AttemptEnds
  /\ EveryTaskIsSaved
  /\ EveryLinkIsHandled
  /\ \A t \in {1, 2} :
       (which = "http" /\ (endpoint[t].pc = "line" \/ endpoint[t].quits))
         ~> (which = "http" /\ (endpoint[t].pc = "done" \/ Waits(t)))
  /\ which = "loops" ~> Running
  /\ EveryQuestionIsAnswered
=============================================================================
