--------------------------- MODULE ConcurrentProofs -------------------------
(***************************************************************************)
(* Proofs about the components whose hazard is the interleaving of threads *)
(* or of completions: AsioTransport, LessonQueues, LoopPool and Servers,   *)
(* which share no state, each for every value of its constants.            *)
(***************************************************************************)
EXTENDS AsioTransport, LessonQueues, LoopPool, Servers, SequenceTheorems, FiniteSetTheorems, TLAPS

-----------------------------------------------------------------------------
(***************************************************************************)
(* The asio transport, for any set of connections and any of them with tls *)
(* or through a proxy: connect, init and shutdown call back at most once   *)
(* and in this order, and a listening endpoint keeps accepting.            *)
(***************************************************************************)
Begun == {"resolve", "connect", "proxy_write", "proxy_read", "post_init"}
Ended == {"shutdown", "down"}
Transport ==
  [stage : {"idle", "ready"} \union Begun \union Ended,
   op : {"none", "pending", "ok", "error", "aborted"}, timer : {"off", "running", "past"},
   due : BOOLEAN,
   sop : {"none", "pending", "ok", "error", "aborted"}, stimer : {"off", "running", "past"},
   sdue : BOOLEAN,
   connected : Nat, inited : Nat, shut : Nat]

\* Whose turn the timer of the stage leaves to call back: its expiry is
\* handled once, and only where a stage is under way.
Timed(a) ==
  /\ a.stage \in Begun => (a.due <=> a.timer = "past")
  /\ a.stage \notin Begun => ~a.due /\ a.timer # "running"
  /\ a.stage \in {"idle", "ready"} => a.op = "none"

\* The same for the shutdown.
Undisturbed(a) == a.sop = "none" /\ a.stimer = "off" /\ ~a.sdue /\ a.shut = 0
Ending(a) ==
  /\ a.stage \notin Ended => Undisturbed(a)
  /\ a.stage = "shutdown" => a.shut = 0 /\ (a.sdue <=> a.stimer = "past")
  /\ a.stage = "down" => /\ a.shut = 1 /\ ~a.sdue /\ a.stimer # "running"
                         /\ a.sop # "none" => a.stimer = "past"

\* What each stage has called back.
Called(a) ==
  /\ a.stage \in {"idle", "resolve", "connect"} => a.connected = 0 /\ a.inited = 0
  /\ a.stage \in {"proxy_write", "proxy_read", "post_init"} => a.connected = 1 /\ a.inited = 0
  /\ a.stage = "ready" => a.connected = 1 /\ a.inited = 1
  /\ a.stage \in Ended => a.connected = 1 /\ a.inited \in {0, 1}

Good(a) == a \in Transport /\ Timed(a) /\ Ending(a) /\ Called(a)

(* A connection that begins its shutdown.                                  *)
Stopped(a) == a \in Transport /\ Undisturbed(a) /\ ~a.due /\ a.timer # "running"

LEMMA ShutdownGood ==
  ASSUME NEW a, NEW i, Stopped(a), a.connected = 1, a.inited \in {0, 1}
  PROVE  Good(async_shutdown(a, i))
<1> DEFINE d == [a EXCEPT !.stage = "shutdown", !.stimer = "running"]
<1>1. CASE i \in Tls
  <2> DEFINE b == [d EXCEPT !.sop = "pending"]
  <2>1. async_shutdown(a, i) = b
    BY <1>1 DEF async_shutdown
  <2>2. b \in Transport /\ b.stage = "shutdown" /\ b.shut = 0 /\ ~b.sdue /\ b.stimer = "running"
        /\ ~b.due /\ b.timer # "running" /\ b.connected = 1 /\ b.inited \in {0, 1}
    BY DEF Stopped, Undisturbed, Transport, Ended
  <2> HIDE DEF b
  <2>3. Good(b)
    BY <2>2 DEF Good, Timed, Ending, Called, Begun, Ended
  <2> QED
    BY <2>1, <2>3
<1>2. CASE i \notin Tls
  <2> DEFINE e == [d EXCEPT !.sop = "ok"]
             b == callback([e EXCEPT !.sop = "none", !.stimer = "off", !.stage = "down"], "shut")
  <2>1. async_shutdown(a, i) = handle_async_shutdown(e)
    BY <1>2 DEF async_shutdown
  <2>2. /\ e \in Transport /\ e.sop = "ok" /\ e.stimer = "running" /\ ~e.sdue /\ e.shut = 0
        /\ ~e.due /\ e.timer # "running" /\ e.connected = 1 /\ e.inited \in {0, 1}
    BY DEF Stopped, Undisturbed, Transport, Ended
  <2> HIDE DEF e
  <2>3. handle_async_shutdown(e) = b
    BY <2>2, Zenon DEF handle_async_shutdown
  <2>4. b \in Transport /\ b.stage = "down" /\ b.shut = 1 /\ ~b.sdue /\ b.stimer = "off" /\ b.sop = "none"
        /\ ~b.due /\ b.timer # "running" /\ b.connected = 1 /\ b.inited \in {0, 1}
    <3> DEFINE g == [e EXCEPT !.sop = "none", !.stimer = "off", !.stage = "down"]
    <3>1. /\ g \in Transport /\ g.stage = "down" /\ g.shut = 0 /\ ~g.sdue /\ g.stimer = "off" /\ g.sop = "none"
          /\ ~g.due /\ g.timer # "running" /\ g.connected = 1 /\ g.inited \in {0, 1}
      BY <2>2 DEF Transport, Ended
    <3>2. b = callback(g, "shut")
      OBVIOUS
    <3> HIDE DEF b, g
    <3> QED
      BY <3>1, <3>2 DEF Transport, callback
  <2> HIDE DEF b
  <2>5. Good(b)
    BY <2>4 DEF Good, Timed, Ending, Called, Begun, Ended
  <2> QED
    BY <2>1, <2>3, <2>5
<1> QED
  BY <1>1, <1>2

LEMMA FailGood ==
  ASSUME NEW a, NEW i, Stopped(a), a.inited = 0
  PROVE  /\ a.connected = 0 => Good(Fail(a, i, "connected"))
         /\ a.connected = 1 => Good(Fail(a, i, "inited"))
<1>1. ASSUME a.connected = 0 PROVE Good(Fail(a, i, "connected"))
  <2> DEFINE b == callback(a, "connected")
  <2>1. Stopped(b) /\ b.connected = 1 /\ b.inited \in {0, 1}
    BY <1>1 DEF Stopped, Undisturbed, Transport, callback
  <2> HIDE DEF b
  <2>2. Good(async_shutdown(b, i))
    BY <2>1, ShutdownGood
  <2> QED
    BY <2>2 DEF Fail, b
<1>2. ASSUME a.connected = 1 PROVE Good(Fail(a, i, "inited"))
  <2> DEFINE b == callback(a, "inited")
  <2>1. Stopped(b) /\ b.connected = 1 /\ b.inited \in {0, 1}
    BY <1>2 DEF Stopped, Undisturbed, Transport, callback
  <2> HIDE DEF b
  <2>2. Good(async_shutdown(b, i))
    BY <2>1, ShutdownGood
  <2> QED
    BY <2>2 DEF Fail, b
<1> QED
  BY <1>1, <1>2

-----------------------------------------------------------------------------
(* What the kernel does to an operation changes nothing else.              *)
Results == {"none", "pending", "ok", "error", "aborted"}

LEMMA OpGood ==
  ASSUME NEW a, Good(a), NEW r \in Results, a.stage \in {"idle", "ready"} => r = "none"
  PROVE  LET b == [a EXCEPT !.op = r]
         IN  Good(b) /\ b.op = r /\ b.stage = a.stage /\ b.timer = a.timer
<1> DEFINE b == [a EXCEPT !.op = r]
<1>1. /\ b \in Transport /\ b.op = r
      /\ b.stage = a.stage /\ b.timer = a.timer /\ b.due = a.due
      /\ b.sop = a.sop /\ b.stimer = a.stimer /\ b.sdue = a.sdue
      /\ b.connected = a.connected /\ b.inited = a.inited /\ b.shut = a.shut
  BY DEF Good, Transport, Results
<1> HIDE DEF b
<1>2. Good(b)
  BY <1>1 DEF Good, Timed, Ending, Undisturbed, Called
<1> QED
  BY <1>1, <1>2 DEF b

LEMMA SopGood ==
  ASSUME NEW a, Good(a), a.sop # "none", NEW r \in Results, a.stage \in Ended
  PROVE  Good([a EXCEPT !.sop = r])
<1> DEFINE b == [a EXCEPT !.sop = r]
<1>1. /\ b \in Transport /\ b.sop = r
      /\ b.stage = a.stage /\ b.timer = a.timer /\ b.due = a.due
      /\ b.op = a.op /\ b.stimer = a.stimer /\ b.sdue = a.sdue
      /\ b.connected = a.connected /\ b.inited = a.inited /\ b.shut = a.shut
  BY DEF Good, Transport, Results
<1> HIDE DEF b
<1>2. Good(b)
  BY <1>1 DEF Good, Timed, Ending, Undisturbed, Called, Ended
<1> QED
  BY <1>2 DEF b

(* A stage that begins.                                                    *)
Clear(a) == a \in Transport /\ Undisturbed(a) /\ ~a.due /\ a.inited = 0

LEMMA BeginGood ==
  ASSUME NEW a, Clear(a), NEW s \in Begun,
         a.connected = IF s \in {"resolve", "connect"} THEN 0 ELSE 1
  PROVE  Good(begin(a, s)) /\ begin(a, s).stage = s /\ begin(a, s).timer = "running"
<1> DEFINE b == begin(a, s)
<1>1. /\ b \in Transport /\ b.stage = s /\ b.op = "pending" /\ b.timer = "running"
      /\ b.due = a.due /\ b.sop = a.sop /\ b.stimer = a.stimer /\ b.sdue = a.sdue
      /\ b.connected = a.connected /\ b.inited = a.inited /\ b.shut = a.shut
  BY DEF Clear, Transport, begin
<1>2. s \notin Ended /\ s \notin {"idle", "ready"}
  BY DEF Begun, Ended
<1> HIDE DEF b
<1>3. Timed(b) /\ Ending(b)
  BY <1>1, <1>2 DEF Clear, Timed, Ending, Undisturbed, Ended
<1>4. Called(b)
  BY <1>1, <1>2 DEF Clear, Called, Begun
<1> QED
  BY <1>1, <1>3, <1>4 DEF Good, b

(* The handler of an operation that has ended leaves the callback to the   *)
(* timer, or calls back itself once the timer is cancelled.                *)
Over(a, s) == Good(a) /\ a.stage = s /\ s \in Begun /\ a.op \in {"ok", "error", "aborted"}
Freed(a) == [cancel(a) EXCEPT !.op = "none"]

LEMMA OverGives ==
  ASSUME NEW a, NEW s, Over(a, s)
  PROVE  /\ Good([a EXCEPT !.op = "none"])
         /\ ~Overtaken(a) => /\ Stopped(Freed(a)) /\ Clear(Freed(a)) /\ Clear(cancel(a))
                             /\ cancel(a).connected = a.connected
                             /\ Freed(a).connected = a.connected
                             /\ Freed(a).inited = 0
         /\ a.connected = IF s \in {"resolve", "connect"} THEN 0 ELSE 1
<1>1. Good([a EXCEPT !.op = "none"])
  BY OpGood DEF Over, Results
<1>2. a \in Transport /\ Undisturbed(a) /\ a.inited = 0
      /\ a.connected = IF s \in {"resolve", "connect"} THEN 0 ELSE 1
  BY DEF Over, Good, Ending, Called, Begun, Ended
<1>3. ASSUME ~Overtaken(a)
      PROVE  /\ Stopped(Freed(a)) /\ Clear(Freed(a)) /\ Clear(cancel(a))
             /\ cancel(a).connected = a.connected
             /\ Freed(a).connected = a.connected
             /\ Freed(a).inited = 0
  <2>1. ~a.due
    BY <1>3 DEF Over, Good, Timed, Overtaken
  <2> DEFINE b == cancel(a)
             c == Freed(a)
  <2>2. /\ b \in Transport /\ b.timer = "off" /\ b.due = a.due /\ b.sop = a.sop /\ b.stimer = a.stimer
        /\ b.sdue = a.sdue /\ b.connected = a.connected /\ b.inited = a.inited /\ b.shut = a.shut
    BY <1>2 DEF Transport, cancel
  <2>3. c = [b EXCEPT !.op = "none"]
    BY DEF Freed
  <2> HIDE DEF b, c
  <2>4. /\ c \in Transport /\ c.timer = "off" /\ c.due = a.due /\ c.sop = a.sop /\ c.stimer = a.stimer
        /\ c.sdue = a.sdue /\ c.connected = a.connected /\ c.inited = a.inited /\ c.shut = a.shut
    BY <2>2, <2>3 DEF Transport
  <2>5. Stopped(c) /\ Clear(c) /\ Clear(b)
    BY <1>2, <2>1, <2>2, <2>4 DEF Stopped, Clear, Undisturbed
  <2> QED
    BY <1>2, <2>2, <2>4, <2>5 DEF b, c
<1> QED
  BY <1>1, <1>2, <1>3

LEMMA PostInitGood ==
  ASSUME NEW a, NEW i, Over(a, "post_init")
  PROVE  Good(handle_post_init(a, i))
<1>0. a.connected = 1
  BY DEF Over, Good, Called
<1>1. CASE Overtaken(a)
  <2>1. handle_post_init(a, i) = [a EXCEPT !.op = "none"]
    BY <1>1 DEF handle_post_init
  <2> QED
    BY <2>1, OverGives
<1>2. CASE ~Overtaken(a) /\ a.op = "error"
  <2>1. handle_post_init(a, i) = Fail(Freed(a), i, "inited")
    BY <1>2 DEF handle_post_init, Freed
  <2> QED
    BY <1>0, <1>2, <2>1, OverGives, FailGood
<1>3. CASE ~Overtaken(a) /\ a.op # "error"
  <2> DEFINE b == [cancel(a) EXCEPT !.op = "none", !.stage = "ready"]
             c == callback(b, "inited")
  <2>1. handle_post_init(a, i) = c
    BY <1>3 DEF handle_post_init
  <2>2. Clear(cancel(a)) /\ cancel(a).connected = 1 /\ cancel(a).timer = "off"
    <3>1. cancel(a).timer = "off"
      BY DEF Over, Good, Transport, cancel
    <3> QED
      BY <1>0, <1>3, <3>1, OverGives
  <2>3. /\ c \in Transport /\ c.stage = "ready" /\ c.op = "none" /\ c.timer = "off" /\ ~c.due
        /\ Undisturbed(c) /\ c.connected = 1 /\ c.inited = 1
    <3> DEFINE f == cancel(a)
    <3>1. f \in Transport /\ Undisturbed(f) /\ ~f.due /\ f.connected = 1 /\ f.inited = 0 /\ f.timer = "off"
      BY <2>2 DEF Clear
    <3> HIDE DEF f
    <3> DEFINE g == [f EXCEPT !.op = "none", !.stage = "ready"]
    <3>2. /\ g \in Transport /\ g.stage = "ready" /\ g.op = "none" /\ g.timer = "off" /\ ~g.due
          /\ Undisturbed(g) /\ g.connected = 1 /\ g.inited = 0
      BY <3>1 DEF Transport, Undisturbed
    <3>3. c = callback(g, "inited")
      BY DEF f
    <3> HIDE DEF b, c, g
    <3> QED
      BY <3>2, <3>3 DEF Transport, Undisturbed, callback
  <2> HIDE DEF c
  <2>4. Good(c)
    BY <2>3 DEF Good, Timed, Ending, Called, Begun, Ended
  <2> QED
    BY <2>1, <2>4
<1> QED
  BY <1>1, <1>2, <1>3

LEMMA InitGood ==
  ASSUME NEW a, NEW i, Clear(a), a.connected = 1
  PROVE  Good(post_init(a, i)) /\ Good(init(a, i))
<1> DEFINE b == begin(a, "post_init")
<1>1. Good(b) /\ b.stage = "post_init"
  BY BeginGood DEF Begun
<1>2. Good(begin(a, "proxy_write"))
  BY BeginGood DEF Begun
<1> HIDE DEF b
<1>3. Over([b EXCEPT !.op = "ok"], "post_init")
  BY <1>1, OpGood DEF Over, Results, Begun
<1>4. Good(handle_post_init([b EXCEPT !.op = "ok"], i))
  BY <1>3, PostInitGood
<1>5. Good(post_init(a, i))
  BY <1>1, <1>4 DEF post_init, b
<1> QED
  BY <1>2, <1>5 DEF init, handle_pre_init, proxy_write

LEMMA HandlersGood ==
  ASSUME NEW a, NEW i
  PROVE  /\ Over(a, "resolve") => Good(handle_resolve(a, i))
         /\ Over(a, "connect") => Good(handle_connect(a, i))
         /\ Over(a, "proxy_write") => Good(handle_proxy_write(a, i))
         /\ Over(a, "proxy_read") => Good(handle_proxy_read(a, i))
<1>1. ASSUME Over(a, "resolve") PROVE Good(handle_resolve(a, i))
  <2>0. a.connected = 0
    BY <1>1 DEF Over, Good, Called
  <2>1. CASE Overtaken(a)
    BY <1>1, <2>1, OverGives DEF handle_resolve
  <2>2. CASE ~Overtaken(a) /\ a.op = "error"
    <3>1. handle_resolve(a, i) = Fail(Freed(a), i, "connected")
      BY <2>2 DEF handle_resolve, Freed
    <3> QED
      BY <1>1, <2>0, <2>2, <3>1, OverGives, FailGood
  <2>3. CASE ~Overtaken(a) /\ a.op # "error"
    <3>1. handle_resolve(a, i) = begin(cancel(a), "connect")
      BY <2>3 DEF handle_resolve
    <3> DEFINE b == cancel(a)
    <3>2. Clear(b) /\ b.connected = 0
      BY <1>1, <2>0, <2>3, OverGives
    <3> HIDE DEF b
    <3>3. Good(begin(b, "connect"))
      BY <3>2, BeginGood DEF Begun
    <3> QED
      BY <3>1, <3>3 DEF b
  <2> QED
    BY <2>1, <2>2, <2>3
<1>2. ASSUME Over(a, "connect") PROVE Good(handle_connect(a, i))
  <2>0. a.connected = 0
    BY <1>2 DEF Over, Good, Called
  <2>1. CASE Overtaken(a)
    BY <1>2, <2>1, OverGives DEF handle_connect
  <2>2. CASE ~Overtaken(a) /\ a.op = "error"
    <3>1. handle_connect(a, i) = Fail(Freed(a), i, "connected")
      BY <2>2 DEF handle_connect, Freed
    <3> QED
      BY <1>2, <2>0, <2>2, <3>1, OverGives, FailGood
  <2>3. CASE ~Overtaken(a) /\ a.op # "error"
    <3> DEFINE f == Freed(a)
               b == callback(f, "connected")
    <3>1. handle_connect(a, i) = init(b, i)
      BY <2>3 DEF handle_connect, Freed
    <3>2. Clear(f) /\ f.connected = 0
      BY <1>2, <2>0, <2>3, OverGives
    <3> HIDE DEF f
    <3>3. Clear(b) /\ b.connected = 1
      BY <3>2 DEF Clear, Transport, Undisturbed, callback
    <3> HIDE DEF b
    <3> QED
      BY <3>1, <3>3, InitGood
  <2> QED
    BY <2>1, <2>2, <2>3
<1>3. ASSUME Over(a, "proxy_write") PROVE Good(handle_proxy_write(a, i))
  <2>0. a.connected = 1
    BY <1>3 DEF Over, Good, Called
  <2>1. CASE Overtaken(a)
    BY <1>3, <2>1, OverGives DEF handle_proxy_write
  <2>2. CASE ~Overtaken(a) /\ a.op = "error"
    <3>1. handle_proxy_write(a, i) = Fail(Freed(a), i, "inited")
      BY <2>2 DEF handle_proxy_write, Freed
    <3> QED
      BY <1>3, <2>0, <2>2, <3>1, OverGives, FailGood
  <2>3. CASE ~Overtaken(a) /\ a.op # "error"
    <3> DEFINE b == proxy_read(a)
    <3>1. handle_proxy_write(a, i) = b
      BY <2>3 DEF handle_proxy_write
    <3>2. /\ b \in Transport /\ b.stage = "proxy_read" /\ b.op = "pending"
          /\ b.timer = a.timer /\ b.due = a.due
          /\ b.sop = a.sop /\ b.stimer = a.stimer /\ b.sdue = a.sdue
          /\ b.connected = a.connected /\ b.inited = a.inited /\ b.shut = a.shut
      BY <1>3 DEF Over, Good, Transport, Begun, proxy_read
    <3> HIDE DEF b
    <3>3. Timed(b) /\ Ending(b) /\ Called(b)
      BY <1>3, <3>2 DEF Over, Good, Timed, Ending, Undisturbed, Called, Begun, Ended
    <3> QED
      BY <3>1, <3>2, <3>3 DEF Good
  <2> QED
    BY <2>1, <2>2, <2>3
<1>4. ASSUME Over(a, "proxy_read") PROVE Good(handle_proxy_read(a, i))
  <2>0. a.connected = 1
    BY <1>4 DEF Over, Good, Called
  <2>1. CASE Overtaken(a)
    BY <1>4, <2>1, OverGives DEF handle_proxy_read
  <2>2. CASE ~Overtaken(a) /\ a.op = "error"
    <3>1. handle_proxy_read(a, i) = Fail(Freed(a), i, "inited")
      BY <2>2 DEF handle_proxy_read, Freed
    <3> QED
      BY <1>4, <2>0, <2>2, <3>1, OverGives, FailGood
  <2>3. CASE ~Overtaken(a) /\ a.op # "error"
    <3> DEFINE f == Freed(a)
    <3>1. handle_proxy_read(a, i) = post_init(f, i)
      BY <2>3 DEF handle_proxy_read, Freed
    <3>2. Clear(f) /\ f.connected = 1
      BY <1>4, <2>0, <2>3, OverGives
    <3> HIDE DEF f
    <3> QED
      BY <3>1, <3>2, InitGood
  <2> QED
    BY <2>1, <2>2, <2>3
<1> QED
  BY <1>1, <1>2, <1>3, <1>4

(* The handler of the shutdown, and that of its timer.                     *)
LEMMA ShutdownHandlersGood ==
  ASSUME NEW a, Good(a)
  PROVE  /\ a.sop # "none" => Good(handle_async_shutdown(a))
         /\ a.sdue => Good(handle_async_shutdown_timeout([a EXCEPT !.sdue = FALSE]))
<1>1. ASSUME a.sop # "none" PROVE Good(handle_async_shutdown(a)) /\ a.stage \in Ended
  <2>0. a.stage \in Ended
    BY <1>1 DEF Good, Ending, Undisturbed
  <2>1. CASE a.sop = "aborted" \/ a.stimer = "past"
    <3>1. handle_async_shutdown(a) = [a EXCEPT !.sop = "none"]
      BY <2>1 DEF handle_async_shutdown
    <3> QED
      BY <1>1, <2>0, <3>1, SopGood DEF Results
  <2>2. CASE ~(a.sop = "aborted" \/ a.stimer = "past")
    <3>0. a.stage = "shutdown" /\ a.shut = 0 /\ ~a.sdue
      BY <1>1, <2>0, <2>2 DEF Good, Ending, Ended
    <3> DEFINE g == [a EXCEPT !.sop = "none", !.stimer = "off", !.stage = "down"]
               b == callback(g, "shut")
    <3>1. handle_async_shutdown(a) = b
      BY <2>2 DEF handle_async_shutdown
    <3>2. /\ g \in Transport /\ g.stage = "down" /\ g.op = a.op /\ g.timer = a.timer /\ g.due = a.due
          /\ g.sop = "none" /\ g.stimer = "off" /\ g.sdue = a.sdue
          /\ g.connected = a.connected /\ g.inited = a.inited /\ g.shut = 0
      BY <3>0 DEF Good, Transport, Ended
    <3> HIDE DEF g
    <3>3. /\ b \in Transport /\ b.stage = "down" /\ b.timer = a.timer /\ b.due = a.due
          /\ b.sop = "none" /\ b.stimer = "off" /\ b.sdue = a.sdue
          /\ b.connected = a.connected /\ b.inited = a.inited /\ b.shut = 1
      BY <3>2 DEF Transport, callback
    <3> HIDE DEF b
    <3>4. Timed(b) /\ Ending(b) /\ Called(b)
      BY <3>0, <3>3 DEF Good, Timed, Ending, Called, Begun, Ended
    <3> QED
      BY <2>0, <3>1, <3>3, <3>4 DEF Good
  <2> QED
    BY <2>1, <2>2
<1>2. ASSUME a.sdue PROVE Good(handle_async_shutdown_timeout([a EXCEPT !.sdue = FALSE]))
  <2>0. a.stage = "shutdown" /\ a.shut = 0 /\ a.stimer = "past"
    BY <1>2 DEF Good, Ending, Undisturbed, Ended
  <2> DEFINE f == [a EXCEPT !.sdue = FALSE]
  <2>1. /\ f \in Transport /\ f.timer = a.timer /\ f.due = a.due /\ f.stimer = "past" /\ f.sdue = FALSE
        /\ f.connected = a.connected /\ f.inited = a.inited /\ f.shut = 0
    BY <2>0 DEF Good, Transport
  <2> HIDE DEF f
  <2> DEFINE g == [f EXCEPT !.sop = IF @ = "pending" THEN "aborted" ELSE @, !.stage = "down",
                            !.op = IF @ = "pending" THEN "aborted" ELSE @]
             b == callback(g, "shut")
  <2>2. handle_async_shutdown_timeout(f) = b
    BY DEF handle_async_shutdown_timeout
  <2>3. /\ g \in Transport /\ g.stage = "down" /\ g.timer = a.timer /\ g.due = a.due
        /\ g.stimer = "past" /\ g.sdue = FALSE
        /\ g.connected = a.connected /\ g.inited = a.inited /\ g.shut = 0
    BY <2>1 DEF Transport, Ended
  <2> HIDE DEF g
  <2>4. /\ b \in Transport /\ b.stage = "down" /\ b.timer = a.timer /\ b.due = a.due
        /\ b.stimer = "past" /\ b.sdue = FALSE
        /\ b.connected = a.connected /\ b.inited = a.inited /\ b.shut = 1
    BY <2>3 DEF Transport, callback
  <2> HIDE DEF b
  <2>5. Timed(b) /\ Ending(b) /\ Called(b)
    BY <2>0, <2>4 DEF Good, Timed, Ending, Called, Begun, Ended
  <2> QED
    BY <2>2, <2>4, <2>5 DEF Good, f
<1> QED
  BY <1>1, <1>2

(* A timer that fires, where the operation it races is aborted.            *)
LEMMA CancelIs ==
  ASSUME NEW a \in Transport
  PROVE  LET b == cancel_socket_checked(a)
         IN  /\ b \in Transport /\ b.stage = a.stage /\ b.timer = a.timer /\ b.due = a.due
             /\ b.sop = a.sop /\ b.stimer = a.stimer /\ b.sdue = a.sdue
             /\ b.connected = a.connected /\ b.inited = a.inited /\ b.shut = a.shut
BY DEF Transport, cancel_socket_checked

LEMMA DueIs ==
  ASSUME NEW a \in Transport
  PROVE  LET b == [a EXCEPT !.due = FALSE]
         IN  /\ b \in Transport /\ b.stage = a.stage /\ b.timer = a.timer /\ ~b.due
             /\ b.sop = a.sop /\ b.stimer = a.stimer /\ b.sdue = a.sdue
             /\ b.connected = a.connected /\ b.inited = a.inited /\ b.shut = a.shut
BY DEF Transport

LEMMA FiresGood ==
  ASSUME NEW a, NEW i, Good(a), a.due
  PROVE  LET b == [a EXCEPT !.due = FALSE]
         IN  /\ a.stage \in Begun
             /\ a.stage = "resolve" =>
                  Good(Fail([cancel_socket_checked(a) EXCEPT !.due = FALSE], i, "connected"))
             /\ a.stage = "connect" => Good(handle_connect_timeout(b, i))
             /\ a.stage \in {"proxy_write", "proxy_read"} => Good(handle_proxy_timeout(b, i))
             /\ a.stage = "post_init" => Good(handle_post_init_timeout(b, i))
<1> DEFINE b == [a EXCEPT !.due = FALSE]
           c == cancel_socket_checked(b)
           d == cancel_socket_checked(a)
           e == [d EXCEPT !.due = FALSE]
<1>1. a \in Transport /\ a.stage \in Begun /\ a.timer = "past"
  BY DEF Good, Timed
<1>2. Undisturbed(a) /\ a.inited = 0
      /\ (a.stage \in {"resolve", "connect"} => a.connected = 0)
      /\ (a.stage \in {"proxy_write", "proxy_read", "post_init"} => a.connected = 1)
  BY <1>1 DEF Good, Ending, Called, Begun, Ended
<1>3. b \in Transport /\ b.timer = a.timer /\ ~b.due
      /\ b.sop = a.sop /\ b.stimer = a.stimer /\ b.sdue = a.sdue
      /\ b.connected = a.connected /\ b.inited = a.inited /\ b.shut = a.shut
  BY <1>1, DueIs
<1>4. d \in Transport /\ d.timer = a.timer
      /\ d.sop = a.sop /\ d.stimer = a.stimer /\ d.sdue = a.sdue
      /\ d.connected = a.connected /\ d.inited = a.inited /\ d.shut = a.shut
  BY <1>1, CancelIs
<1> HIDE DEF b, d
<1>5. c \in Transport /\ c.timer = b.timer /\ c.due = b.due
      /\ c.sop = b.sop /\ c.stimer = b.stimer /\ c.sdue = b.sdue
      /\ c.connected = b.connected /\ c.inited = b.inited /\ c.shut = b.shut
  BY <1>3, CancelIs
<1>6. e \in Transport /\ e.timer = d.timer /\ ~e.due
      /\ e.sop = d.sop /\ e.stimer = d.stimer /\ e.sdue = d.sdue
      /\ e.connected = d.connected /\ e.inited = d.inited /\ e.shut = d.shut
  BY <1>4, DueIs
<1> HIDE DEF c, e
<1>7. Stopped(c) /\ c.inited = 0 /\ c.connected = a.connected
  BY <1>1, <1>2, <1>3, <1>5 DEF Stopped, Undisturbed
<1>8. Stopped(e) /\ e.inited = 0 /\ e.connected = a.connected
  BY <1>1, <1>2, <1>4, <1>6 DEF Stopped, Undisturbed
<1>9. /\ a.connected = 0 => Good(Fail(e, i, "connected")) /\ Good(Fail(c, i, "connected"))
      /\ a.connected = 1 => Good(Fail(c, i, "inited"))
  BY <1>7, <1>8, FailGood
<1>10. /\ handle_connect_timeout(b, i) = Fail(c, i, "connected")
       /\ handle_proxy_timeout(b, i) = Fail(c, i, "inited")
       /\ handle_post_init_timeout(b, i) = Fail(c, i, "inited")
  BY DEF handle_connect_timeout, handle_proxy_timeout, handle_post_init_timeout, c
<1>11. Fail(e, i, "connected") = Fail([cancel_socket_checked(a) EXCEPT !.due = FALSE], i, "connected")
  BY DEF e, d
<1>12. /\ a.stage = "resolve" => Good(Fail(e, i, "connected"))
       /\ a.stage = "connect" => Good(handle_connect_timeout(b, i))
       /\ a.stage \in {"proxy_write", "proxy_read"} => Good(handle_proxy_timeout(b, i))
       /\ a.stage = "post_init" => Good(handle_post_init_timeout(b, i))
  BY <1>2, <1>9, <1>10
<1> QED
  BY <1>1, <1>11, <1>12 DEF b

LEMMA ExpiresGood ==
  ASSUME NEW a, Good(a)
  PROVE  /\ a.timer = "running" => Good([a EXCEPT !.timer = "past", !.due = TRUE])
         /\ a.stimer = "running" => Good([a EXCEPT !.stimer = "past", !.sdue = TRUE])
<1>1. ASSUME a.timer = "running" PROVE Good([a EXCEPT !.timer = "past", !.due = TRUE])
  <2> DEFINE b == [a EXCEPT !.timer = "past", !.due = TRUE]
  <2>1. b \in Transport /\ b.stage = a.stage /\ b.timer = "past" /\ b.due = TRUE /\ b.op = a.op
        /\ b.sop = a.sop /\ b.stimer = a.stimer /\ b.sdue = a.sdue
        /\ b.connected = a.connected /\ b.inited = a.inited /\ b.shut = a.shut
    BY DEF Good, Transport
  <2> HIDE DEF b
  <2>2. Timed(b) /\ Ending(b) /\ Called(b)
    BY <1>1, <2>1 DEF Good, Timed, Ending, Undisturbed, Called, Begun
  <2> QED
    BY <2>1, <2>2 DEF Good, b
<1>2. ASSUME a.stimer = "running" PROVE Good([a EXCEPT !.stimer = "past", !.sdue = TRUE])
  <2> DEFINE b == [a EXCEPT !.stimer = "past", !.sdue = TRUE]
  <2>1. b \in Transport /\ b.stage = a.stage /\ b.timer = a.timer /\ b.due = a.due /\ b.op = a.op
        /\ b.sop = a.sop /\ b.stimer = "past" /\ b.sdue = TRUE
        /\ b.connected = a.connected /\ b.inited = a.inited /\ b.shut = a.shut
    BY DEF Good, Transport
  <2>2. a.stage = "shutdown"
    BY <1>2 DEF Good, Transport, Ending, Undisturbed, Ended
  <2> HIDE DEF b
  <2>3. Timed(b) /\ Ending(b) /\ Called(b)
    BY <2>1, <2>2 DEF Good, Timed, Ending, Called, Begun, Ended
  <2> QED
    BY <2>1, <2>3 DEF Good, b
<1> QED
  BY <1>1, <1>2

-----------------------------------------------------------------------------
GoodInv == at \in [Attempts -> Transport] /\ \A i \in Attempts : Good(at[i])

\* init calls back again only after a pre-init that failed.
Names == [name : {"set", "failed"}, late : Nat, again : Nat]
Named(n) == n \in Names /\ (n.name = "set" => n.late = 0 /\ n.again = 0)
NamesInv == sni \in [Attempts -> Names] /\ \A i \in Attempts : Named(sni[i])
AttemptInv == GoodInv /\ NamesInv

(* A step that leaves a good record for one connection.                    *)
LEMMA SetGood ==
  ASSUME AttemptInv, NEW i \in Attempts, NEW a, Set(i, a), Good(a)
  PROVE  AttemptInv'
BY DEF AttemptInv, GoodInv, NamesInv, Set, Become, Good

LEMMA ConnectStep ==
  ASSUME AttemptInv, NEW i \in Attempts, async_connect(i)
  PROVE  AttemptInv'
<1> DEFINE a == at[i]
<1>1. Good(a) /\ a.stage = "idle"
  BY DEF AttemptInv, GoodInv, async_connect
<1>2. Set(i, begin(a, "resolve")) \/ Set(i, Fail(a, i, "connected"))
  BY DEF async_connect
<1> HIDE DEF a
<1>3. Clear(a) /\ Stopped(a) /\ a.connected = 0
  BY <1>1 DEF Good, Timed, Ending, Called, Clear, Stopped, Begun, Ended
<1>4. Good(begin(a, "resolve")) /\ Good(Fail(a, i, "connected"))
  BY <1>3, BeginGood, FailGood DEF Begun, Clear
<1> QED
  BY <1>2, <1>4, SetGood

LEMMA CompletesStep ==
  ASSUME AttemptInv, NEW i \in Attempts, Completes(i)
  PROVE  AttemptInv'
<1> DEFINE a == at[i]
<1>1. Good(a)
  BY DEF AttemptInv, GoodInv
<1>2. PICK r \in {"ok", "error"} : \/ a.op = "pending" /\ Set(i, [a EXCEPT !.op = r])
                                   \/ a.sop = "pending" /\ Set(i, [a EXCEPT !.sop = r])
  BY DEF Completes
<1>3. r \in Results
  BY DEF Results
<1> HIDE DEF a
<1>4. a.op = "pending" => Good([a EXCEPT !.op = r])
  BY <1>1, <1>3, OpGood DEF Good, Timed
<1>5. a.sop = "pending" => Good([a EXCEPT !.sop = r])
  BY <1>1, <1>3, SopGood DEF Good, Ending, Undisturbed
<1> QED
  BY <1>2, <1>4, <1>5, SetGood

LEMMA HandlerStep ==
  ASSUME AttemptInv, NEW i \in Attempts, Handler(i)
  PROVE  AttemptInv'
<1> DEFINE a == at[i]
<1>1. Good(a)
  BY DEF AttemptInv, GoodInv
<1>2. CASE a.sop \notin {"none", "pending"} /\ Set(i, handle_async_shutdown(a))
  <2> HIDE DEF a
  <2> QED
    BY <1>1, <1>2, ShutdownHandlersGood, SetGood
<1>3. CASE /\ a.op \notin {"none", "pending"}
           /\ Set(i, CASE a.stage \in {"shutdown", "down"} -> [a EXCEPT !.op = "none"]
                       [] a.stage = "resolve" -> handle_resolve(a, i)
                       [] a.stage = "connect" -> handle_connect(a, i)
                       [] a.stage = "proxy_write" -> handle_proxy_write(a, i)
                       [] a.stage = "proxy_read" -> handle_proxy_read(a, i)
                       [] a.stage = "post_init" -> handle_post_init(a, i))
  <2> HIDE DEF a
  <2>1. Good([a EXCEPT !.op = "none"])
    BY <1>1, OpGood DEF Results
  <2>2. CASE a.stage \in {"shutdown", "down"}
    <3> DEFINE b == [a EXCEPT !.op = "none"]
    <3>1. Good(b)
      BY <2>1
    <3>2. Set(i, b)
      BY <1>3, <2>2
    <3> HIDE DEF b
    <3> QED
      BY <3>1, <3>2, SetGood
  <2>3. CASE ~(a.stage \in {"shutdown", "down"})
    <3>1. a.op \in {"ok", "error", "aborted"} /\ a.stage \in Begun
      BY <1>1, <1>3, <2>3 DEF Good, Transport, Timed, Ended
    <3>2. Over(a, a.stage)
      BY <1>1, <3>1 DEF Over
    <3>3. CASE a.stage = "resolve"
      <4>1. Set(i, handle_resolve(a, i))
        BY <1>3, <2>3, <3>3
      <4> QED
        BY <3>2, <3>3, <4>1, HandlersGood, SetGood
    <3>4. CASE a.stage = "connect"
      <4>1. Set(i, handle_connect(a, i))
        BY <1>3, <2>3, <3>4
      <4> QED
        BY <3>2, <3>4, <4>1, HandlersGood, SetGood
    <3>5. CASE a.stage = "proxy_write"
      <4>1. Set(i, handle_proxy_write(a, i))
        BY <1>3, <2>3, <3>5
      <4> QED
        BY <3>2, <3>5, <4>1, HandlersGood, SetGood
    <3>6. CASE a.stage = "proxy_read"
      <4>1. Set(i, handle_proxy_read(a, i))
        BY <1>3, <2>3, <3>6
      <4> QED
        BY <3>2, <3>6, <4>1, HandlersGood, SetGood
    <3>7. CASE a.stage = "post_init"
      <4>1. Set(i, handle_post_init(a, i))
        BY <1>3, <2>3, <3>7
      <4> QED
        BY <3>2, <3>7, <4>1, PostInitGood, SetGood
    <3> QED
      BY <3>1, <3>3, <3>4, <3>5, <3>6, <3>7 DEF Begun
  <2> QED
    BY <2>2, <2>3
<1> QED
  BY <1>2, <1>3 DEF Handler

LEMMA TimeoutStep ==
  ASSUME AttemptInv, NEW i \in Attempts, Timeout(i)
  PROVE  AttemptInv'
<1> DEFINE a == at[i]
           b == [a EXCEPT !.due = FALSE]
<1>1. Good(a)
  BY DEF AttemptInv, GoodInv
<1>2. CASE a.sdue /\ Set(i, handle_async_shutdown_timeout([a EXCEPT !.sdue = FALSE]))
  <2> HIDE DEF a
  <2> QED
    BY <1>1, <1>2, ShutdownHandlersGood, SetGood
<1>3. CASE a.due /\ a.stage = "resolve" /\ at' = handle_resolve_timeout(i) /\ UNCHANGED sni
  <2> DEFINE new(j) == LET c == IF at[j].stage = "resolve" THEN cancel_socket_checked(at[j]) ELSE at[j]
                       IN  IF j = i THEN Fail([c EXCEPT !.due = FALSE], i, "connected") ELSE c
  <2>1. at' = [j \in Attempts |-> new(j)]
    BY <1>3 DEF handle_resolve_timeout
  <2>2. ASSUME NEW j \in Attempts PROVE Good(new(j))
    <3>1. Good(at[j])
      BY DEF AttemptInv, GoodInv
    <3>2. CASE j = i
      <4>1. new(j) = Fail([cancel_socket_checked(a) EXCEPT !.due = FALSE], i, "connected")
        BY <1>3, <3>2
      <4> HIDE DEF a, new
      <4> QED
        BY <1>1, <1>3, <4>1, FiresGood
    <3>3. CASE j # i /\ at[j].stage = "resolve"
      <4>1. new(j) = [at[j] EXCEPT !.op = IF at[j].op = "pending" THEN "aborted" ELSE at[j].op]
        BY <3>3 DEF cancel_socket_checked
      <4>2. (IF at[j].op = "pending" THEN "aborted" ELSE at[j].op) \in Results
        BY <3>1 DEF Good, Transport, Results
      <4> HIDE DEF new
      <4> QED
        BY <3>1, <3>3, <4>1, <4>2, OpGood
    <3>4. CASE j # i /\ at[j].stage # "resolve"
      <4>1. new(j) = at[j]
        BY <3>4
      <4> QED
        BY <3>1, <4>1
    <3> QED
      BY <3>2, <3>3, <3>4
  <2> HIDE DEF new
  <2> QED
    BY <1>3, <2>1, <2>2 DEF AttemptInv, GoodInv, NamesInv, Good
<1>4. CASE /\ a.due /\ a.stage # "resolve"
           /\ Set(i, CASE b.stage = "connect" -> handle_connect_timeout(b, i)
                       [] b.stage \in {"proxy_write", "proxy_read"} -> handle_proxy_timeout(b, i)
                       [] OTHER -> handle_post_init_timeout(b, i))
  <2>1. b.stage = a.stage
    BY <1>1 DEF Good, Transport
  <2> HIDE DEF a
  <2>2. /\ a.stage \in Begun
        /\ a.stage = "connect" => Good(handle_connect_timeout(b, i))
        /\ a.stage \in {"proxy_write", "proxy_read"} => Good(handle_proxy_timeout(b, i))
        /\ a.stage = "post_init" => Good(handle_post_init_timeout(b, i))
    BY <1>1, <1>4, FiresGood
  <2> HIDE DEF b
  <2>3. CASE a.stage = "connect"
    <3>1. Set(i, handle_connect_timeout(b, i))
      BY <1>4, <2>1, <2>3
    <3> QED
      BY <2>2, <2>3, <3>1, SetGood
  <2>4. CASE a.stage \in {"proxy_write", "proxy_read"}
    <3>1. Set(i, handle_proxy_timeout(b, i))
      BY <1>4, <2>1, <2>4
    <3> QED
      BY <2>2, <2>4, <3>1, SetGood
  <2>5. CASE a.stage = "post_init"
    <3>1. Set(i, handle_post_init_timeout(b, i))
      BY <1>4, <2>1, <2>5
    <3> QED
      BY <2>2, <2>5, <3>1, SetGood
  <2> QED
    BY <1>4, <2>2, <2>3, <2>4, <2>5 DEF Begun
<1> QED
  BY <1>2, <1>3, <1>4 DEF Timeout

(* A pre-init that fails ends in a shutdown, and the runs of init that it  *)
(* leaves change nothing but the shutdown they may abort.                  *)
LEMMA PreInitStep ==
  ASSUME AttemptInv, NEW i \in Attempts, PreInitFails(i)
  PROVE  AttemptInv'
<1> DEFINE a == at[i]
           f == callback(Freed(a), "connected")
           b == Fail(f, i, "inited")
           n == [name |-> "failed", late |-> IF i \in Proxied THEN 3 ELSE 2, again |-> 0]
<1>1. Good(a) /\ a.stage = "connect" /\ a.op = "ok" /\ ~Overtaken(a)
  BY DEF AttemptInv, GoodInv, PreInitFails
<1>2. at' = [at EXCEPT ![i] = b] /\ sni' = [sni EXCEPT ![i] = n]
  BY DEF PreInitFails, Become, Freed
<1> HIDE DEF a
<1>3. Over(a, "connect")
  BY <1>1 DEF Over, Begun
<1> DEFINE g == Freed(a)
<1>4. Stopped(g) /\ g.connected = 0 /\ g.inited = 0
  BY <1>1, <1>3, OverGives
<1>5. f = callback(g, "connected")
  OBVIOUS
<1> HIDE DEF f, g
<1>6. Stopped(f) /\ f.connected = 1 /\ f.inited = 0
  BY <1>4, <1>5 DEF Stopped, Undisturbed, Transport, callback
<1>7. Good(b)
  BY <1>6, FailGood
<1>8. Named(n)
  BY DEF Named, Names
<1> HIDE DEF b, n
<1>9. GoodInv'
  BY <1>2, <1>7 DEF AttemptInv, GoodInv, Good
<1>10. NamesInv'
  BY <1>2, <1>8 DEF AttemptInv, NamesInv, Named
<1> QED
  BY <1>9, <1>10 DEF AttemptInv

LEMMA LateInitStep ==
  ASSUME AttemptInv, NEW i \in Attempts, LateInit(i)
  PROVE  AttemptInv'
<1> DEFINE a == at[i]
           n == sni[i]
<1>1. PICK r \in {a.sop, "aborted"}, k \in {0, 1} :
        /\ n.late > 0 /\ (r # a.sop => a.sop = "pending")
        /\ at' = [at EXCEPT ![i] = [a EXCEPT !.sop = r]]
        /\ sni' = [sni EXCEPT ![i].late = @ - 1, ![i].again = @ + k]
  BY DEF LateInit, Become
<1> DEFINE b == [a EXCEPT !.sop = r]
           m == [n EXCEPT !.late = @ - 1, !.again = @ + k]
<1>2. Good(a) /\ Named(n)
  BY DEF AttemptInv, GoodInv, NamesInv
<1>3. at' = [at EXCEPT ![i] = b] /\ sni' = [sni EXCEPT ![i] = m]
  BY <1>1 DEF AttemptInv, NamesInv, Names
<1> HIDE DEF a, n
<1>4. Good(b)
  <2>1. CASE r = a.sop
    <3>1. b = a
      BY <1>2, <2>1 DEF Good, Transport
    <3> QED
      BY <1>2, <3>1
  <2>2. CASE r # a.sop
    <3>1. a.sop = "pending" /\ r \in Results
      BY <1>1, <2>2 DEF Results
    <3>2. a.stage \in Ended
      BY <1>2, <3>1 DEF Good, Ending, Undisturbed
    <3> QED
      BY <1>2, <3>1, <3>2, SopGood
  <2> QED
    BY <2>1, <2>2
<1>5. Named(m)
  <2>1. n \in Names /\ n.name = "failed"
    BY <1>1, <1>2 DEF Named, Names
  <2>2. n.late - 1 \in Nat /\ n.again + k \in Nat
    BY <1>1, <2>1 DEF Names
  <2>3. m = [n EXCEPT !.late = n.late - 1, !.again = n.again + k]
    OBVIOUS
  <2>4. m \in Names /\ m.name = "failed"
    BY <2>1, <2>2, <2>3 DEF Names
  <2> QED
    BY <2>4 DEF Named
<1> HIDE DEF b, m
<1>6. GoodInv'
  BY <1>3, <1>4 DEF AttemptInv, GoodInv, Good
<1>7. NamesInv'
  BY <1>3, <1>5 DEF AttemptInv, NamesInv, Named
<1> QED
  BY <1>6, <1>7 DEF AttemptInv

(* Each of connect, init and shutdown calls back at most once and in this  *)
(* order, for any number of connections, with tls or without and through a *)
(* proxy or not, whichever of operation and timer comes first; init calls  *)
(* back again only where the pre-init failed (handle_* of transport/asio). *)
THEOREM AttemptsCallBackOnce == AttemptSpec => []CalledBackOnce
<1>1. AttemptInit => AttemptInv
  <2> SUFFICES ASSUME AttemptInit PROVE AttemptInv
    OBVIOUS
  <2>1. NewAttempt \in Transport /\ Timed(NewAttempt) /\ Ending(NewAttempt) /\ Called(NewAttempt)
    BY DEF NewAttempt, Transport, Timed, Ending, Undisturbed, Called, Begun, Ended
  <2> QED
    BY <2>1 DEF AttemptInit, AttemptInv, GoodInv, NamesInv, Names, Named, Good
<1>2. AttemptInv /\ [AttemptNext]_attemptVars => AttemptInv'
  <2> SUFFICES ASSUME AttemptInv, [AttemptNext]_attemptVars PROVE AttemptInv'
    OBVIOUS
  <2>1. CASE UNCHANGED attemptVars
    BY <2>1 DEF attemptVars, AttemptInv, GoodInv, NamesInv
  <2>2. ASSUME NEW i \in Attempts, async_connect(i) \/ Completes(i) \/ Handler(i) \/ Timeout(i)
                                  \/ PreInitFails(i) \/ LateInit(i)
        PROVE  AttemptInv'
    BY <2>2, ConnectStep, CompletesStep, HandlerStep, TimeoutStep, PreInitStep, LateInitStep
  <2>3. ASSUME NEW i \in Attempts, Expires(i) PROVE AttemptInv'
    <3> DEFINE a == at[i]
    <3>1. Good(a) /\ (\/ a.timer = "running" /\ Set(i, [a EXCEPT !.timer = "past", !.due = TRUE])
                      \/ a.stimer = "running" /\ Set(i, [a EXCEPT !.stimer = "past", !.sdue = TRUE]))
      BY <2>3 DEF AttemptInv, GoodInv, Expires
    <3> HIDE DEF a
    <3>2. CASE a.timer = "running" /\ Set(i, [a EXCEPT !.timer = "past", !.due = TRUE])
      <4> DEFINE b == [a EXCEPT !.timer = "past", !.due = TRUE]
      <4>0. Good(a) /\ a.timer = "running"
        BY <3>1, <3>2
      <4>1. Good(b)
        BY <4>0, ExpiresGood, Zenon
      <4>2. Set(i, b)
        BY <3>2
      <4> HIDE DEF b
      <4> QED
        BY <4>1, <4>2, SetGood
    <3>3. CASE a.stimer = "running" /\ Set(i, [a EXCEPT !.stimer = "past", !.sdue = TRUE])
      <4> DEFINE b == [a EXCEPT !.stimer = "past", !.sdue = TRUE]
      <4>0. Good(a) /\ a.stimer = "running"
        BY <3>1, <3>3
      <4>1. Good(b)
        BY <4>0, ExpiresGood, Zenon
      <4>2. Set(i, b)
        BY <3>3
      <4> HIDE DEF b
      <4> QED
        BY <4>1, <4>2, SetGood
    <3> QED
      BY <3>1, <3>2, <3>3
  <2>4. ASSUME NEW i \in Attempts, Terminate(i) PROVE AttemptInv'
    <3> DEFINE a == at[i]
    <3>1. Good(a) /\ a.stage = "ready" /\ Set(i, async_shutdown(a, i))
      BY <2>4 DEF AttemptInv, GoodInv, Terminate
    <3> HIDE DEF a
    <3>2. Stopped(a) /\ a.connected = 1 /\ a.inited = 1
      BY <3>1 DEF Good, Timed, Ending, Called, Stopped, Begun, Ended
    <3>3. Good(async_shutdown(a, i))
      BY <3>2, ShutdownGood
    <3> QED
      BY <3>1, <3>3, SetGood
  <2> QED
    BY <2>1, <2>2, <2>3, <2>4 DEF AttemptNext
<1>3. AttemptInv => CalledBackOnce
  <2> SUFFICES ASSUME AttemptInv, NEW i \in Attempts
               PROVE  LET a == at[i]
                          inited == a.inited + sni[i].again
                      IN  /\ a.connected <= 1 /\ a.shut <= a.connected
                          /\ a.stage \in {"connect", "resolve"} => a.connected = 0
                          /\ sni[i].name # "failed" =>
                               /\ inited <= a.connected
                               /\ a.stage = "ready" => inited = 1
                               /\ a.stage \in {"proxy_write", "proxy_read", "post_init"} => inited = 0
    BY DEF CalledBackOnce
  <2> DEFINE a == at[i]
             n == sni[i]
  <2>1. Good(a) /\ Named(n)
    BY DEF AttemptInv, GoodInv, NamesInv
  <2> HIDE DEF a, n
  <2>2. a.stage \in {"idle", "ready"} \union Begun \union Ended
    BY <2>1 DEF Good, Transport
  <2>3. a.connected \in {0, 1} /\ a.inited \in {0, 1} /\ a.inited <= a.connected
    BY <2>1, <2>2 DEF Good, Called, Begun
  <2>4. a.shut \in {0, 1} /\ a.shut <= a.connected
    BY <2>1, <2>2, <2>3 DEF Good, Called, Ending, Undisturbed, Ended
  <2>5. /\ a.stage = "ready" => a.inited = 1
        /\ a.stage \in {"connect", "resolve"} => a.connected = 0
        /\ a.stage \in {"proxy_write", "proxy_read", "post_init"} => a.inited = 0
    BY <2>1 DEF Good, Called
  <2>6. n.name # "failed" => n.again = 0
    BY <2>1 DEF Named, Names
  <2>7. n.name # "failed" => a.inited + n.again = a.inited
    BY <2>3, <2>6
  <2> QED
    BY <2>3, <2>4, <2>5, <2>7 DEF a, n
<1> QED
  BY <1>1, <1>2, <1>3, PTL DEF AttemptSpec

-----------------------------------------------------------------------------
Endpoint ==
  [state : {"UNINITIALIZED", "READY", "LISTENING"}, accepts : Nat, aborted : Nat,
   halted : Nat, started : BOOLEAN, listens : Nat]

ListenInv == ep \in Endpoint /\ KeepsAccepting

(* A new accept replaces the one that is handled.                          *)
LEMMA StartAcceptIs ==
  ASSUME NEW e \in Endpoint, NEW f \in start_accept(e)
  PROVE  /\ f \in Endpoint /\ f.state = e.state /\ f.started = e.started
         /\ f.state = "LISTENING" => f.accepts + f.halted > 0
<1>1. CASE e.state = "LISTENING"
  BY <1>1 DEF start_accept, create_connection, Endpoint
<1>2. CASE e.state # "LISTENING"
  BY <1>2 DEF start_accept
<1> QED
  BY <1>1, <1>2

LEMMA ListenStep == ASSUME ListenInv, ListenNext PROVE ListenInv'
<1>1. CASE init_asio
  BY <1>1 DEF init_asio, ListenInv, KeepsAccepting, Endpoint
<1>2. CASE listen
  <2>1. PICK e \in {ep, [ep EXCEPT !.state = "LISTENING"]} :
          ep' = [e EXCEPT !.listens = @ + 1, !.started = FALSE, !.halted = 0]
    BY <1>2 DEF listen, clean_up_listen_after_error
  <2>2. e \in Endpoint
    BY DEF ListenInv, Endpoint
  <2>3. ep' \in Endpoint /\ ep'.started = FALSE
    <3>1. e.listens + 1 \in Nat
      BY <2>2 DEF Endpoint
    <3>2. ep' = [e EXCEPT !.listens = e.listens + 1, !.started = FALSE, !.halted = 0]
      BY <2>1
    <3> QED
      BY <2>2, <3>1, <3>2 DEF Endpoint
  <2> QED
    BY <2>3 DEF ListenInv, KeepsAccepting
<1>3. CASE StartAccept
  <2>1. PICK e \in start_accept(ep) : ep' = [e EXCEPT !.started = TRUE]
    BY <1>3 DEF StartAccept
  <2>2. e \in Endpoint /\ (e.state = "LISTENING" => e.accepts + e.halted > 0)
    BY <2>1, StartAcceptIs DEF ListenInv
  <2>3. ep' \in Endpoint /\ ep'.state = e.state /\ ep'.accepts = e.accepts /\ ep'.halted = e.halted
    BY <2>1, <2>2 DEF Endpoint
  <2> QED
    BY <2>2, <2>3 DEF ListenInv, KeepsAccepting
<1>4. CASE stop_listening
  <2>1. ep.accepts \in Nat /\ ep.aborted \in Nat /\ ep.aborted + ep.accepts \in Nat
    BY DEF ListenInv, Endpoint
  <2>2. ep' = [ep EXCEPT !.state = "READY", !.accepts = 0, !.aborted = ep.aborted + ep.accepts]
    BY <1>4 DEF stop_listening
  <2>3. ep' \in Endpoint /\ ep'.state = "READY"
    BY <2>1, <2>2 DEF ListenInv, Endpoint
  <2> QED
    BY <2>3 DEF ListenInv, KeepsAccepting
<1>5. CASE Accepted
  <2> DEFINE d == [ep EXCEPT !.accepts = @ - 1]
             e == [ep EXCEPT !.aborted = @ - 1]
  <2>1. \/ d \in Endpoint /\ ep' \in start_accept(d)
        \/ e \in Endpoint /\ ep' \in start_accept(e)
    BY <1>5 DEF Accepted, handle_accept, ListenInv, Endpoint
  <2> HIDE DEF d, e
  <2>2. ep' \in Endpoint /\ (ep'.state = "LISTENING" => ep'.accepts + ep'.halted > 0)
    BY <2>1, StartAcceptIs
  <2> QED
    BY <2>2 DEF ListenInv, KeepsAccepting
<1> QED
  BY <1>1, <1>2, <1>3, <1>4, <1>5 DEF ListenNext

(* Once it has begun to accept, an endpoint that listens has an accept     *)
(* under way: neither errors nor listening again end the loop, however     *)
(* often, only a connection that cannot be created (handle_accept,         *)
(* create_connection, stop_listening).                                     *)
THEOREM EndpointKeepsAccepting == ListenSpec => []KeepsAccepting
<1>1. ListenInit => ListenInv
  BY DEF ListenInit, ListenInv, KeepsAccepting, Endpoint
<1>2. ListenInv /\ [ListenNext]_listenVars => ListenInv'
  BY ListenStep DEF listenVars, ListenInv, KeepsAccepting
<1>3. ListenInv => KeepsAccepting
  BY DEF ListenInv
<1> QED
  BY <1>1, <1>2, <1>3, PTL DEF ListenSpec

(* Both sides of the asio transport, which share no state: callbacks come  *)
(* once and in order, and a listening endpoint keeps accepting (handle_*   *)
(* of transport/asio, handle_accept).                                      *)
THEOREM TransportStaysSound == AttemptSpec /\ ListenSpec => []TransportSound
BY AttemptsCallBackOnce, EndpointKeepsAccepting, PTL DEF TransportSound

-----------------------------------------------------------------------------
(***************************************************************************)
(* The BlockQueues of lesson6 and the ring_queue of lesson7 are bounded    *)
(* first-in first-out buffers, for any number of threads, any capacity and *)
(* any number of items.                                                    *)
(***************************************************************************)
-----------------------------------------------------------------------------
\* main.cc of lesson6: a capacity, and each thread runs one routine.
Pipeline ==
  /\ Cap \in Nat \ {0} /\ MaxTasks \in Nat
  /\ Producers \cap Workers = {} /\ Producers \cap Savers = {} /\ Workers \cap Savers = {}

Places == {"push", "pop", "full", "empty", "save"}

\* A queue is within its capacity, and a worker that is to push holds a task.
BlockInv ==
  /\ q \in [Queues -> Seq(1 .. MaxTasks)]
  /\ \A b \in Queues : Len(q[b]) <= Cap
  /\ made \in 0 .. MaxTasks
  /\ pc \in [QueueThreads -> Places]
  /\ hand \in [QueueThreads -> 0 .. MaxTasks]
  /\ \A t \in Workers : pc[t] \in {"push", "full"} => hand[t] # 0

\* What a step may do to a buffer.
PutOrGet(old, new) ==
  \/ new = old
  \/ old # <<>> /\ new = Tail(old)
  \/ \E item \in 1 .. MaxTasks : Len(old) < Cap /\ new = Append(old, item)

LEMMA BlockInit0 ==
  ASSUME Pipeline
  PROVE  BlockInit => BlockInv
BY DEF Pipeline, BlockInit, BlockInv, Queues, QueueThreads, Places

(* A signal moves a waiting thread back to the test it waited for; nobody  *)
(* but the caller goes anywhere else.                                      *)
LEMMA SignalMoves ==
  ASSUME BlockInv, NEW b, NEW cond \in {"full", "empty"}, NEW self \in QueueThreads, NEW next \in Places,
         pc[self] \in {"push", "pop"}, Signal(b, cond, self, next)
  PROVE  /\ pc' \in [QueueThreads -> Places] /\ pc'[self] = next
         /\ \A t \in QueueThreads : t # self =>
              pc'[t] = pc[t] \/ (pc[t] = "full" /\ pc'[t] = "push") \/ pc'[t] = "pop"
<1>1. CASE Waiting(b, cond) = {}
  BY <1>1 DEF Signal, BlockInv
<1>2. CASE Waiting(b, cond) # {}
  <2>1. PICK t \in Waiting(b, cond) :
          pc' = [pc EXCEPT ![self] = next, ![t] = IF cond = "full" THEN "push" ELSE "pop"]
    BY <1>2 DEF Signal
  <2>2. t \in QueueThreads /\ pc[t] = cond /\ t # self
    BY DEF Waiting
  <2> QED
    BY <2>1, <2>2 DEF BlockInv, Places
<1> QED
  BY <1>1, <1>2

(* push keeps the capacity: it appends only when the queue is not full.    *)
LEMMA PushStep ==
  ASSUME Pipeline, BlockInv, NEW t \in QueueThreads, NEW item \in 1 .. MaxTasks, NEW next \in Places,
         pc[t] = "push", push(t, item, next), t \in Producers => made < MaxTasks,
         t \in Workers => next = "pop"
  PROVE  BlockInv' /\ \A b \in Queues : PutOrGet(q[b], q'[b])
<1> DEFINE b == QueueOf(t, "push")
<1>0. b \in Queues
  BY DEF QueueOf, Queues
<1>1. CASE is_full(b)
  <2>1. pc' = [pc EXCEPT ![t] = "full"] /\ q' = q /\ hand' = hand /\ made' = made
    BY <1>1 DEF push
  <2> QED
    BY <2>1 DEF BlockInv, PutOrGet, Places
<1>2. CASE ~is_full(b)
  <2>1. /\ q' = [q EXCEPT ![b] = Append(q[b], item)]
        /\ Signal(b, "empty", t, next)
        /\ hand' = [hand EXCEPT ![t] = 0]
        /\ made' = IF t \in Producers THEN made + 1 ELSE made
    BY <1>2 DEF push
  <2> HIDE DEF b
  <2>2. Len(q[b]) < Cap /\ q[b] \in Seq(1 .. MaxTasks) /\ Len(q[b]) \in Nat
    BY <1>0, <1>2 DEF is_full, BlockInv, Pipeline
  <2>3. Append(q[b], item) \in Seq(1 .. MaxTasks) /\ Len(Append(q[b], item)) = Len(q[b]) + 1
    BY <2>2
  <2>4. q' \in [Queues -> Seq(1 .. MaxTasks)] /\ \A x \in Queues : Len(q'[x]) <= Cap
    BY <1>0, <2>1, <2>2, <2>3 DEF BlockInv, Pipeline
  <2>5. \A x \in Queues : PutOrGet(q[x], q'[x])
    BY <1>0, <2>1, <2>2 DEF BlockInv, PutOrGet
  <2>6. /\ pc' \in [QueueThreads -> Places] /\ pc'[t] = next
        /\ \A s \in QueueThreads : s # t =>
             pc'[s] = pc[s] \/ (pc[s] = "full" /\ pc'[s] = "push") \/ pc'[s] = "pop"
    BY <2>1, SignalMoves
  <2>7. made' \in 0 .. MaxTasks /\ hand' \in [QueueThreads -> 0 .. MaxTasks]
    BY <2>1 DEF BlockInv, Pipeline
  <2>8. \A s \in Workers : pc'[s] \in {"push", "full"} => hand'[s] # 0
    <3> SUFFICES ASSUME NEW s \in Workers, pc'[s] \in {"push", "full"}
                 PROVE  hand'[s] # 0
      OBVIOUS
    <3>1. s \in QueueThreads /\ s # t
      BY <2>6 DEF QueueThreads
    <3>2. pc[s] \in {"push", "full"} /\ hand'[s] = hand[s]
      BY <2>1, <2>6, <3>1 DEF BlockInv
    <3> QED
      BY <3>2 DEF BlockInv
  <2> QED
    BY <2>4, <2>5, <2>6, <2>7, <2>8 DEF BlockInv
<1> QED
  BY <1>1, <1>2

(* pop takes the head only when there is one.                              *)
LEMMA PopStep ==
  ASSUME Pipeline, BlockInv, NEW t \in QueueThreads, NEW next \in Places,
         pc[t] = "pop", pop(t, next), made' = made
  PROVE  BlockInv' /\ \A b \in Queues : PutOrGet(q[b], q'[b])
<1> DEFINE b == QueueOf(t, "pop")
<1>0. b \in Queues
  BY DEF QueueOf, Queues
<1>1. CASE is_empty(b)
  <2>1. pc' = [pc EXCEPT ![t] = "empty"] /\ q' = q /\ hand' = hand
    BY <1>1 DEF pop
  <2> QED
    BY <2>1 DEF BlockInv, PutOrGet, Places
<1>2. CASE ~is_empty(b)
  <2>1. /\ hand' = [hand EXCEPT ![t] = Head(q[b])]
        /\ q' = [q EXCEPT ![b] = Tail(q[b])]
        /\ Signal(b, "full", t, next)
    BY <1>2 DEF pop
  <2> HIDE DEF b
  <2>2. q[b] # <<>> /\ q[b] \in Seq(1 .. MaxTasks) /\ Len(q[b]) \in Nat /\ Len(q[b]) <= Cap
    BY <1>0, <1>2 DEF is_empty, BlockInv
  <2>3. /\ Tail(q[b]) \in Seq(1 .. MaxTasks) /\ Len(Tail(q[b])) = Len(q[b]) - 1
        /\ Head(q[b]) \in 1 .. MaxTasks
    BY <2>2, HeadTailProperties
  <2>4. q' \in [Queues -> Seq(1 .. MaxTasks)] /\ \A x \in Queues : Len(q'[x]) <= Cap
    BY <1>0, <2>1, <2>2, <2>3 DEF BlockInv, Pipeline
  <2>5. \A x \in Queues : PutOrGet(q[x], q'[x])
    BY <1>0, <2>1, <2>2 DEF BlockInv, PutOrGet
  <2>6. /\ pc' \in [QueueThreads -> Places] /\ pc'[t] = next
        /\ \A s \in QueueThreads : s # t =>
             pc'[s] = pc[s] \/ (pc[s] = "full" /\ pc'[s] = "push") \/ pc'[s] = "pop"
    BY <2>1, SignalMoves
  <2>7. hand' \in [QueueThreads -> 0 .. MaxTasks]
    BY <2>1, <2>3 DEF BlockInv, Pipeline
  <2>8. \A s \in Workers : pc'[s] \in {"push", "full"} => hand'[s] # 0
    <3> SUFFICES ASSUME NEW s \in Workers, pc'[s] \in {"push", "full"}
                 PROVE  hand'[s] # 0
      OBVIOUS
    <3>1. s \in QueueThreads
      BY DEF QueueThreads
    <3>2. CASE s = t
      BY <2>1, <2>3, <3>1, <3>2 DEF BlockInv
    <3>3. CASE s # t
      <4>1. pc[s] \in {"push", "full"} /\ hand'[s] = hand[s]
        BY <2>1, <2>6, <3>1, <3>3 DEF BlockInv
      <4> QED
        BY <4>1 DEF BlockInv
    <3> QED
      BY <3>2, <3>3
  <2> QED
    BY <2>4, <2>5, <2>6, <2>7, <2>8 DEF BlockInv
<1> QED
  BY <1>1, <1>2

(* The invariant is inductive, and every step is a step of each buffer.    *)
LEMMA BlockStep ==
  ASSUME Pipeline
  PROVE  BlockInv /\ [BlockNext]_blockVars =>
           BlockInv' /\ \A b \in Queues : PutOrGet(q[b], q'[b])
<1> SUFFICES ASSUME BlockInv, [BlockNext]_blockVars
             PROVE  BlockInv' /\ \A b \in Queues : PutOrGet(q[b], q'[b])
  OBVIOUS
<1>1. CASE UNCHANGED blockVars
  BY <1>1 DEF blockVars, BlockInv, PutOrGet
<1>2. ASSUME NEW t \in QueueThreads, produce(t)
      PROVE  BlockInv' /\ \A b \in Queues : PutOrGet(q[b], q'[b])
  <2>1. made + 1 \in 1 .. MaxTasks /\ made < MaxTasks /\ t \notin Workers
    BY <1>2 DEF produce, BlockInv, Pipeline
  <2> QED
    BY <1>2, <2>1, PushStep DEF produce, Places
<1>3. ASSUME NEW t \in QueueThreads, consume(t)
      PROVE  BlockInv' /\ \A b \in Queues : PutOrGet(q[b], q'[b])
  <2>1. t \in Workers /\ t \notin Producers
    BY <1>3 DEF consume, Pipeline
  <2>2. CASE pc[t] = "pop" /\ pop(t, "push") /\ UNCHANGED made
    BY <2>2, PopStep DEF Places
  <2>3. CASE pc[t] = "push" /\ push(t, hand[t], "pop")
    <3>1. hand[t] \in 1 .. MaxTasks
      BY <2>1, <2>3 DEF BlockInv, Pipeline
    <3> QED
      BY <2>1, <2>3, <3>1, PushStep DEF Places
  <2> QED
    BY <1>3, <2>2, <2>3 DEF consume
<1>4. ASSUME NEW t \in QueueThreads, saver(t)
      PROVE  BlockInv' /\ \A b \in Queues : PutOrGet(q[b], q'[b])
  <2>1. t \in Savers /\ t \notin Workers
    BY <1>4 DEF saver, Pipeline
  <2>2. CASE pc[t] = "pop" /\ pop(t, "save") /\ UNCHANGED <<made, saved>>
    BY <2>2, PopStep DEF Places
  <2>3. CASE pc[t] = "save" /\ hand' = [hand EXCEPT ![t] = 0] /\ pc' = [pc EXCEPT ![t] = "pop"]
             /\ UNCHANGED <<q, made>>
    BY <2>1, <2>3 DEF BlockInv, PutOrGet, Places, Pipeline
  <2> QED
    BY <1>4, <2>2, <2>3 DEF saver
<1>5. ASSUME NEW t \in QueueThreads, SpuriousWakeup(t)
      PROVE  BlockInv' /\ \A b \in Queues : PutOrGet(q[b], q'[b])
  BY <1>5 DEF SpuriousWakeup, BlockInv, PutOrGet, Places
<1> QED
  BY <1>1, <1>2, <1>3, <1>4, <1>5 DEF BlockNext, Step

(* BlockQueue: whatever threads push and pop, wait, are signalled or wake  *)
(* for no reason, each queue of the pipeline is a FIFO buffer that never   *)
(* holds more than its capacity.                                           *)
THEOREM BlockQueuesAreBuffers ==
  ASSUME Pipeline
  PROVE  BlockSpec => BlocksAreBuffers
<1>1. BlockInit => CBuffer!Init /\ SBuffer!Init
  BY DEF BlockInit, CBuffer!Init, SBuffer!Init, Queues
<1>2. BlockInv /\ [BlockNext]_blockVars => [CBuffer!Next]_(q["c_bq"])
  BY BlockStep DEF Queues, PutOrGet, CBuffer!Next, CBuffer!Get, CBuffer!Put
<1>3. BlockInv /\ [BlockNext]_blockVars => [SBuffer!Next]_(q["s_bq"])
  BY BlockStep DEF Queues, PutOrGet, SBuffer!Next, SBuffer!Get, SBuffer!Put
<1>4. BlockInv /\ [BlockNext]_blockVars => BlockInv'
  BY BlockStep
<1>5. BlockInit => BlockInv
  BY BlockInit0
<1> QED
  BY <1>1, <1>2, <1>3, <1>4, <1>5, PTL DEF BlockSpec, BlocksAreBuffers, CBuffer!Spec, SBuffer!Spec

-----------------------------------------------------------------------------
(* Division with remainder, and what the steps of the ring use of it.      *)
LEMMA Division ==
  ASSUME NEW k \in Nat \ {0}, NEW x \in Nat
  PROVE  x \div k \in Nat /\ x % k \in 0 .. k - 1 /\ x = (k * (x \div k)) + (x % k)
<1>1. x \div k \in Nat /\ x = (k * (x \div k)) + (x % k)
  BY Z3
<1>2. x % k \in 0 .. k - 1
  BY Z3
<1> QED
  BY <1>1, <1>2

LEMMA Remainder ==
  ASSUME NEW k \in Nat \ {0}, NEW a \in Nat, NEW r \in 0 .. k - 1
  PROVE  ((k * a) + r) % k = r
BY Z3

(* A step that is wrapped later leads to the same slot.                    *)
LEMMA WrapLater ==
  ASSUME NEW k \in Nat \ {0}, NEW x \in Nat, NEW y \in Nat
  PROVE  ((x % k) + y) % k = (x + y) % k
<1> DEFINE d == x \div k
           r == x % k
           a == (r + y) \div k
           s == (r + y) % k
<1>1. d \in Nat /\ r \in 0 .. k - 1 /\ x = (k * d) + r
  BY Division
<1>2. r + y \in Nat
  BY <1>1
<1>3. a \in Nat /\ s \in 0 .. k - 1 /\ r + y = (k * a) + s
  BY <1>2, Division
<1> HIDE DEF d, r, a, s
<1>4. k * (d + a) = (k * d) + (k * a)
  BY <1>1, <1>3, Z3
<1>5. x + y = (k * (d + a)) + s /\ d + a \in Nat
  BY <1>1, <1>3, <1>4, Z3
<1>6. (x + y) % k = s
  BY <1>3, <1>5, Remainder
<1> QED
  BY <1>6 DEF r, s

(* Items less than a lap apart are in different slots.                     *)
LEMMA WithinLap ==
  ASSUME NEW k \in Nat \ {0}, NEW x \in Nat, NEW y \in 1 .. k - 1
  PROVE  (x + y) % k # x % k
<1> DEFINE d == x \div k
           r == x % k
<1>1. d \in Nat /\ r \in 0 .. k - 1 /\ x = (k * d) + r
  BY Division
<1> HIDE DEF d, r
<1>2. CASE r + y < k
  <2>1. x + y = (k * d) + (r + y) /\ r + y \in 0 .. k - 1
    BY <1>1, <1>2, Z3
  <2>2. (x + y) % k = r + y
    BY <1>1, <2>1, Remainder
  <2> QED
    BY <1>1, <2>2 DEF r
<1>3. CASE ~(r + y < k)
  <2>1. k * (d + 1) = (k * d) + k /\ d + 1 \in Nat
    BY <1>1, Z3
  <2>2. x + y = (k * (d + 1)) + (r + y - k) /\ r + y - k \in 0 .. k - 1
    BY <1>1, <1>3, <2>1, Z3
  <2>3. (x + y) % k = r + y - k
    BY <2>1, <2>2, Remainder
  <2> QED
    BY <1>1, <2>3 DEF r
<1> QED
  BY <1>2, <1>3

-----------------------------------------------------------------------------
\* lesson7/main.cc gives the ring a capacity.
Ring == Cap \in Nat \ {0} /\ MaxItems \in Nat

One(b) == IF b THEN 1 ELSE 0

\* The semaphores count the slots nobody holds: what is neither full nor in the
\* hands of one of the threads.  The steps are the positions of the two
\* threads, one of which may still have to be wrapped.
Counted ==
  LET n == ring_made - Len(got) IN
    /\ n + space_sem + One(ppc = "write") + One(cpc \in {"wrap", "V"}) = Cap
    /\ n = data_sem + One(ppc \in {"wrap", "V"}) + One(cpc = "read")

Placed(step, wrapping, n) ==
  IF wrapping THEN n # 0 /\ step = ((n - 1) % Cap) + 1 ELSE step = n % Cap

RingInv ==
  /\ queue \in [Slots -> Nat] /\ got \in Seq(Nat)
  /\ space_sem \in Nat /\ data_sem \in Nat /\ ring_made \in 0 .. MaxItems
  /\ ppc \in {"P", "write", "wrap", "V"} /\ cpc \in {"P", "read", "wrap", "V"}
  /\ ppc = "write" => ring_made < MaxItems
  /\ Counted
  /\ Placed(productor_step, ppc = "wrap", ring_made)
  /\ Placed(consumer_step, cpc = "wrap", Len(got))

LEMMA RingInit0 ==
  ASSUME Ring
  PROVE  RingInit => RingInv
<1> SUFFICES ASSUME RingInit PROVE RingInv
  OBVIOUS
<1>1. 0 % Cap = 0
  BY Z3 DEF Ring
<1>2. Len(got) = 0 /\ got \in Seq(Nat) /\ queue \in [Slots -> Nat]
  BY DEF RingInit
<1>3. Placed(productor_step, ppc = "wrap", ring_made) /\ Placed(consumer_step, cpc = "wrap", Len(got))
  BY <1>1, <1>2 DEF RingInit, Placed
<1>4. Counted
  <2>1. /\ One(ppc = "write") = 0 /\ One(cpc \in {"wrap", "V"}) = 0
        /\ One(ppc \in {"wrap", "V"}) = 0 /\ One(cpc = "read") = 0
    BY DEF RingInit, One
  <2>a. ring_made = 0 /\ space_sem = Cap /\ data_sem = 0
    BY DEF RingInit
  <2>2. ring_made - Len(got) = 0 /\ space_sem = Cap /\ data_sem = 0 /\ Cap \in Nat
    BY <1>2, <2>a DEF Ring
  <2> QED
    BY <2>1, <2>2 DEF Counted
<1> QED
  <2>1. ring_made \in 0 .. MaxItems /\ space_sem \in Nat /\ data_sem \in Nat
    BY DEF RingInit, Ring
  <2> QED
    BY <1>2, <1>3, <1>4, <2>1 DEF RingInit, RingInv

(* Where a thread is, wrapped or not, is where its count says.             *)
LEMMA PlacedSlot ==
  ASSUME Ring, NEW step, NEW wrapping \in BOOLEAN, NEW n \in Nat, Placed(step, wrapping, n)
  PROVE  /\ step \in Nat
         /\ \A y \in Nat : (step + y) % Cap = (n + y) % Cap
<1>1. CASE ~wrapping
  <2>1. step = n % Cap /\ step \in Nat
    BY <1>1, Division DEF Placed, Ring
  <2>2. \A y \in Nat : (step + y) % Cap = (n + y) % Cap
    BY <2>1, WrapLater DEF Ring
  <2> QED
    BY <2>1, <2>2
<1>2. CASE wrapping
  <2>1. n - 1 \in Nat /\ step = ((n - 1) % Cap) + 1 /\ (n - 1) % Cap \in Nat
    BY <1>2, Division DEF Placed, Ring
  <2>2. ASSUME NEW y \in Nat
        PROVE  (step + y) % Cap = (n + y) % Cap
    <3>1. (((n - 1) % Cap) + (1 + y)) % Cap = ((n - 1) + (1 + y)) % Cap
      <4>1. 1 + y \in Nat /\ Cap \in Nat \ {0}
        BY DEF Ring
      <4> QED
        BY <2>1, <4>1, WrapLater, Zenon
    <3>2. ((n - 1) % Cap) + (1 + y) = step + y /\ (n - 1) + (1 + y) = n + y
      BY <2>1
    <3> QED
      BY <3>1, <3>2
  <2> QED
    BY <2>1, <2>2
<1> QED
  BY <1>1, <1>2

\* The n items from position g on.
Content(slots, g, n) == [i \in 1 .. n |-> slots[(g + (i - 1)) % Cap]]

LEMMA HeldIs ==
  ASSUME Ring, NEW slots, NEW step, NEW wrapping \in BOOLEAN, NEW g \in Nat, NEW n \in Nat,
         Placed(step, wrapping, g)
  PROVE  [i \in 1 .. n |-> slots[(step + i - 1) % Cap]] = Content(slots, g, n)
<1>1. ASSUME NEW i \in 1 .. n
      PROVE  (step + i - 1) % Cap = (g + (i - 1)) % Cap
  <2>1. i - 1 \in Nat /\ step \in Nat
    BY PlacedSlot
  <2>2. (step + (i - 1)) % Cap = (g + (i - 1)) % Cap
    BY <2>1, PlacedSlot
  <2>3. step + i - 1 = step + (i - 1)
    BY <2>1
  <2> QED
    BY <2>2, <2>3
<1> QED
  BY <1>1 DEF Content

LEMMA ContentType ==
  ASSUME Ring, NEW slots \in [Slots -> Nat], NEW g \in Nat, NEW n \in Nat
  PROVE  /\ Content(slots, g, n) \in Seq(Nat) /\ Len(Content(slots, g, n)) = n
         /\ \A i \in 1 .. n : (g + (i - 1)) % Cap \in Slots
<1>1. ASSUME NEW i \in 1 .. n
      PROVE  (g + (i - 1)) % Cap \in Slots
  <2>1. g + (i - 1) \in Nat
    OBVIOUS
  <2>2. \A x \in Nat : x % Cap \in 0 .. Cap - 1
    BY Division DEF Ring
  <2> QED
    BY <2>1, <2>2 DEF Slots
<1>2. Content(slots, g, n) \in [1 .. n -> Nat]
  BY <1>1 DEF Content
<1> QED
  BY <1>1, <1>2

(* Writing behind the last item, with a slot free, appends it and          *)
(* overwrites none.                                                        *)
LEMMA ContentWrite ==
  ASSUME Ring, NEW slots \in [Slots -> Nat], NEW g \in Nat, NEW n \in Nat, n < Cap, NEW v \in Nat
  PROVE  Content([slots EXCEPT ![(g + n) % Cap] = v], g, n + 1) = Append(Content(slots, g, n), v)
<1> DEFINE p == (g + n) % Cap
           new == [slots EXCEPT ![p] = v]
           old == Content(slots, g, n)
           big == Content(new, g, n + 1)
<1>0. Cap \in Nat \ {0} /\ g + n \in Nat
  BY DEF Ring
<1>1. p \in Slots /\ new \in [Slots -> Nat]
  <2>1. p \in 0 .. Cap - 1
    BY <1>0, Division
  <2> QED
    BY <2>1 DEF Slots
<1>2. old \in Seq(Nat) /\ Len(old) = n /\ \A i \in 1 .. n : (g + (i - 1)) % Cap \in Slots
  BY ContentType
<1>3. ASSUME NEW i \in 1 .. n
      PROVE  (g + (i - 1)) % Cap # p
  <2> DEFINE x == g + (i - 1)
             y == n - (i - 1)
  <2>1. x \in Nat /\ y \in 1 .. Cap - 1 /\ x + y = g + n
    BY <1>0
  <2> HIDE DEF x, y
  <2>2. (x + y) % Cap # x % Cap
    BY <1>0, <2>1, WithinLap
  <2> QED
    BY <2>1, <2>2 DEF x
<1>4. \A i \in 1 .. n : big[i] = old[i]
  <2> SUFFICES ASSUME NEW i \in 1 .. n PROVE big[i] = old[i]
    OBVIOUS
  <2>1. i \in 1 .. n + 1
    OBVIOUS
  <2>2. big[i] = new[(g + (i - 1)) % Cap] /\ old[i] = slots[(g + (i - 1)) % Cap]
    BY <2>1 DEF Content
  <2> HIDE DEF p
  <2> QED
    BY <1>2, <1>3, <2>2
<1>5. big[n + 1] = v
  <2>1. n + 1 \in 1 .. n + 1 /\ g + ((n + 1) - 1) = g + n
    OBVIOUS
  <2>2. big[n + 1] = new[(g + ((n + 1) - 1)) % Cap]
    BY <2>1 DEF Content
  <2> QED
    BY <1>1, <2>1, <2>2
<1>6. big \in Seq(Nat) /\ Len(big) = n + 1
  <2>1. n + 1 \in Nat
    OBVIOUS
  <2> HIDE DEF new
  <2> QED
    BY <1>1, <2>1, ContentType
<1>7. /\ Append(old, v) \in Seq(Nat) /\ Len(Append(old, v)) = n + 1
      /\ \A i \in 1 .. n : Append(old, v)[i] = old[i]
      /\ Append(old, v)[n + 1] = v
  BY <1>2, AppendProperties
<1> HIDE DEF big, old, new, p
<1>8. \A i \in 1 .. Len(big) : big[i] = Append(old, v)[i]
  BY <1>4, <1>5, <1>6, <1>7
<1>9. big = Append(old, v)
  BY <1>6, <1>7, <1>8, SeqEqual
<1> QED
  BY <1>9 DEF big, old, new, p

(* Reading the first item leaves the others.                               *)
LEMMA ContentRead ==
  ASSUME Ring, NEW slots \in [Slots -> Nat], NEW g \in Nat, NEW n \in Nat \ {0}
  PROVE  /\ Content(slots, g, n) # <<>>
         /\ Content(slots, g + 1, n - 1) = Tail(Content(slots, g, n))
<1> DEFINE old == Content(slots, g, n)
           rest == Content(slots, g + 1, n - 1)
<1>0. g + 1 \in Nat /\ n - 1 \in Nat
  OBVIOUS
<1>1. old \in Seq(Nat) /\ Len(old) = n
  BY ContentType
<1>2. rest \in Seq(Nat) /\ Len(rest) = n - 1
  BY <1>0, ContentType
<1>3. \A i \in 1 .. n - 1 : rest[i] = old[i + 1]
  <2> SUFFICES ASSUME NEW i \in 1 .. n - 1 PROVE rest[i] = old[i + 1]
    OBVIOUS
  <2>1. i + 1 \in 1 .. n /\ (g + 1) + (i - 1) = g + ((i + 1) - 1)
    OBVIOUS
  <2>2. rest[i] = slots[((g + 1) + (i - 1)) % Cap] /\ old[i + 1] = slots[(g + ((i + 1) - 1)) % Cap]
    BY <2>1 DEF Content
  <2> QED
    BY <2>1, <2>2
<1> HIDE DEF old, rest
<1>4. old # <<>>
  BY <1>1
<1>5. /\ Tail(old) \in Seq(Nat) /\ Len(Tail(old)) = n - 1
      /\ \A i \in 1 .. n - 1 : Tail(old)[i] = old[i + 1]
  BY <1>1, <1>4, HeadTailProperties
<1>6. \A i \in 1 .. Len(rest) : rest[i] = Tail(old)[i]
  BY <1>2, <1>3, <1>5
<1>7. rest = Tail(old)
  BY <1>2, <1>5, <1>6, SeqEqual
<1> QED
  BY <1>4, <1>7 DEF old, rest

\* What a step may do to the ring's content.
RingMove(old, new) ==
  \/ new = old
  \/ old # <<>> /\ new = Tail(old)
  \/ \E item \in 1 .. MaxItems : Len(old) < Cap /\ new = Append(old, item)

Now == Content(queue, Len(got), ring_made - Len(got))

(* What the counting says of each place of the two threads.                *)
LEMMA RingFacts ==
  ASSUME Ring, RingInv
  PROVE  /\ Len(got) \in Nat /\ ring_made - Len(got) \in Nat /\ ring_made \in Nat /\ Cap \in Nat \ {0}
         /\ ppc = "write" => ring_made - Len(got) < Cap
         /\ cpc = "read" => ring_made - Len(got) # 0
         /\ Held = Now
<1>1. Len(got) \in Nat /\ ring_made \in Nat /\ Cap \in Nat \ {0} /\ space_sem \in Nat /\ data_sem \in Nat
  BY DEF RingInv, Ring
<1>2. \A b \in BOOLEAN : One(b) \in Nat
  BY DEF One
<1>3. ppc = "write" => One(ppc = "write") = 1
  BY DEF One
<1>4. cpc = "read" => One(cpc = "read") = 1
  BY DEF One
<1>5. /\ One(ppc = "write") \in Nat /\ One(cpc \in {"wrap", "V"}) \in Nat
      /\ One(ppc \in {"wrap", "V"}) \in Nat /\ One(cpc = "read") \in Nat
  BY DEF One
<1>6. /\ (ring_made - Len(got)) + space_sem + One(ppc = "write") + One(cpc \in {"wrap", "V"}) = Cap
      /\ ring_made - Len(got) = data_sem + One(ppc \in {"wrap", "V"}) + One(cpc = "read")
  BY DEF RingInv, Counted
<1>7. ring_made - Len(got) \in Nat
  BY <1>1, <1>5, <1>6
<1>8. ppc = "write" => ring_made - Len(got) < Cap
  BY <1>1, <1>3, <1>5, <1>6, <1>7
<1>9. cpc = "read" => ring_made - Len(got) # 0
  BY <1>1, <1>4, <1>5, <1>6
<1>10. Held = Now
  <2>1. Placed(consumer_step, cpc = "wrap", Len(got)) /\ (cpc = "wrap") \in BOOLEAN
    BY DEF RingInv
  <2> DEFINE n == ring_made - Len(got)
             w == (cpc = "wrap")
  <2>2. Held = [i \in 1 .. n |-> queue[(consumer_step + i - 1) % Cap]]
    BY DEF Held
  <2>3. Placed(consumer_step, w, Len(got)) /\ w \in BOOLEAN /\ n \in Nat
    BY <1>7, <2>1
  <2> HIDE DEF n, w
  <2>4. Held = Content(queue, Len(got), n)
    BY <1>1, <2>2, <2>3, HeldIs
  <2> QED
    BY <2>4 DEF n, Now
<1> QED
  BY <1>1, <1>7, <1>8, <1>9, <1>10

(* The positions after a step.                                             *)
LEMMA PlacedMoves ==
  ASSUME Ring, NEW step, NEW n \in Nat
  PROVE  /\ Placed(step, FALSE, n) => Placed(step + 1, TRUE, n + 1)
         /\ Placed(step, TRUE, n) => Placed(step % Cap, FALSE, n)
<1>1. ASSUME Placed(step, FALSE, n)
      PROVE  Placed(step + 1, TRUE, n + 1)
  <2>1. step = n % Cap /\ (n + 1) - 1 = n /\ n + 1 # 0
    BY <1>1 DEF Placed
  <2> QED
    BY <2>1 DEF Placed
<1>2. ASSUME Placed(step, TRUE, n)
      PROVE  Placed(step % Cap, FALSE, n)
  <2>1. step \in Nat /\ (step + 0) % Cap = (n + 0) % Cap
    BY <1>2, PlacedSlot
  <2>2. step + 0 = step /\ n + 0 = n
    BY <2>1
  <2> QED
    BY <2>1, <2>2 DEF Placed
<1> QED
  BY <1>1, <1>2

(* Push: the slot it writes is free, for P(_space_sem) took it.            *)
LEMMA PushRing ==
  ASSUME Ring, RingInv, Push
  PROVE  RingInv' /\ RingMove(Now, Now')
<1>0. /\ got' = got /\ consumer_step' = consumer_step /\ cpc' = cpc
      /\ Len(got) \in Nat /\ ring_made - Len(got) \in Nat /\ ring_made \in Nat /\ Cap \in Nat \ {0}
      /\ space_sem \in Nat /\ data_sem \in Nat /\ MaxItems \in Nat /\ ring_made \in 0 .. MaxItems
      /\ queue \in [Slots -> Nat] /\ got \in Seq(Nat) /\ cpc \in {"P", "read", "wrap", "V"}
      /\ Placed(consumer_step, cpc = "wrap", Len(got))
  BY RingFacts DEF Push, consumer, RingInv, Ring
<1>1. CASE ppc = "P" /\ ring_made < MaxItems /\ space_sem > 0 /\ space_sem' = space_sem - 1
           /\ ppc' = "write" /\ UNCHANGED <<queue, data_sem, productor_step, ring_made, consumer>>
  <2>1. Counted'
    BY <1>0, <1>1 DEF RingInv, Counted, One
  <2>2. Placed(productor_step, ppc = "wrap", ring_made)'
    BY <1>1 DEF RingInv, Placed
  <2>3. Now' = Now
    BY <1>0, <1>1 DEF Now
  <2>4. RingInv'
    BY <1>0, <1>1, <2>1, <2>2 DEF RingInv
  <2> QED
    BY <2>3, <2>4 DEF RingMove
<1>2. CASE ppc = "write" /\ queue' = [queue EXCEPT ![productor_step] = ring_made + 1]
           /\ ring_made' = ring_made + 1 /\ productor_step' = productor_step + 1
           /\ ppc' = "wrap" /\ UNCHANGED <<space_sem, data_sem, consumer>>
  <2> DEFINE g == Len(got)
             n == ring_made - g
  <2>1. Counted'
    BY <1>0, <1>2, SMTT(60) DEF RingInv, Counted, One
  <2>2. Placed(productor_step, FALSE, ring_made)
    BY <1>2 DEF RingInv, Placed
  <2>3. Placed(productor_step + 1, TRUE, ring_made + 1)
    BY <1>0, <2>2, PlacedMoves
  <2>4. Placed(productor_step, ppc = "wrap", ring_made)'
    BY <1>2, <2>3 DEF Placed
  <2>5. productor_step = ring_made % Cap /\ ring_made % Cap \in Slots
    <3>1. ring_made % Cap \in 0 .. Cap - 1
      BY <1>0, Division
    <3> QED
      BY <2>2, <3>1 DEF Placed, Slots
  <2>6. g \in Nat /\ n \in Nat /\ n < Cap /\ g + n = ring_made /\ (ring_made + 1) - g = n + 1
    BY <1>0, <1>2, RingFacts
  <2>7. ring_made + 1 \in 1 .. MaxItems /\ ring_made + 1 \in Nat
    BY <1>0, <1>2 DEF RingInv
  <2>8. queue' \in [Slots -> Nat]
    BY <1>0, <1>2, <2>5, <2>7
  <2>9. RingInv'
    BY <1>0, <1>2, <2>1, <2>4, <2>7, <2>8 DEF RingInv
  <2>10. Now = Content(queue, g, n) /\ Now' = Content(queue', g, n + 1)
    BY <1>0, <1>2, <2>6 DEF Now
  <2>11. queue' = [queue EXCEPT ![(g + n) % Cap] = ring_made + 1]
    BY <1>2, <2>5, <2>6
  <2> HIDE DEF g, n
  <2>12. Now' = Append(Now, ring_made + 1)
    <3>1. queue \in [Slots -> Nat] /\ g \in Nat /\ n \in Nat /\ n < Cap /\ ring_made + 1 \in Nat
      BY <1>0, <2>6, <2>7
    <3>2. Content([queue EXCEPT ![(g + n) % Cap] = ring_made + 1], g, n + 1)
            = Append(Content(queue, g, n), ring_made + 1)
      BY <3>1, ContentWrite, Zenon
    <3> QED
      BY <2>10, <2>11, <3>2, Zenon
  <2>13. Len(Now) < Cap
    <3>1. queue \in [Slots -> Nat] /\ g \in Nat /\ n \in Nat /\ n < Cap
      BY <1>0, <2>6
    <3>2. Len(Content(queue, g, n)) = n
      BY <3>1, ContentType, Zenon
    <3> QED
      BY <2>10, <3>1, <3>2, Zenon
  <2> QED
    BY <2>7, <2>9, <2>12, <2>13 DEF RingMove
<1>3. CASE ppc = "wrap" /\ productor_step' = productor_step % Cap /\ ppc' = "V"
           /\ UNCHANGED <<queue, space_sem, data_sem, ring_made, consumer>>
  <2>1. Counted'
    BY <1>0, <1>3 DEF RingInv, Counted, One
  <2>2. Placed(productor_step, TRUE, ring_made)
    BY <1>3 DEF RingInv, Placed
  <2>3. Placed(productor_step % Cap, FALSE, ring_made)
    BY <1>0, <2>2, PlacedMoves
  <2>4. Placed(productor_step, ppc = "wrap", ring_made)'
    BY <1>3, <2>3 DEF Placed
  <2>5. RingInv'
    BY <1>0, <1>3, <2>1, <2>4 DEF RingInv
  <2>6. Now' = Now
    BY <1>0, <1>3 DEF Now
  <2> QED
    BY <2>5, <2>6 DEF RingMove
<1>4. CASE ppc = "V" /\ data_sem' = data_sem + 1 /\ ppc' = "P"
           /\ UNCHANGED <<queue, space_sem, productor_step, ring_made, consumer>>
  <2>1. Counted'
    BY <1>0, <1>4 DEF RingInv, Counted, One
  <2>2. Placed(productor_step, ppc = "wrap", ring_made)'
    BY <1>4 DEF RingInv, Placed
  <2>3. RingInv'
    BY <1>0, <1>4, <2>1, <2>2 DEF RingInv
  <2>4. Now' = Now
    BY <1>0, <1>4 DEF Now
  <2> QED
    BY <2>3, <2>4 DEF RingMove
<1> QED
  BY <1>1, <1>2, <1>3, <1>4 DEF Push

(* Pop: the slot it reads is full, for P(_data_sem) took it.               *)
LEMMA PopRing ==
  ASSUME Ring, RingInv, Pop
  PROVE  RingInv' /\ RingMove(Now, Now')
<1>0. /\ queue' = queue /\ productor_step' = productor_step /\ ppc' = ppc /\ ring_made' = ring_made
      /\ Len(got) \in Nat /\ ring_made - Len(got) \in Nat /\ ring_made \in Nat /\ Cap \in Nat \ {0}
      /\ space_sem \in Nat /\ data_sem \in Nat /\ ring_made \in 0 .. MaxItems
      /\ queue \in [Slots -> Nat] /\ got \in Seq(Nat) /\ ppc \in {"P", "write", "wrap", "V"}
      /\ (ppc = "write" => ring_made < MaxItems)
      /\ Placed(productor_step, ppc = "wrap", ring_made)
  BY RingFacts DEF Pop, producer, RingInv
<1>1. CASE cpc = "P" /\ data_sem > 0 /\ data_sem' = data_sem - 1 /\ cpc' = "read"
           /\ UNCHANGED <<space_sem, consumer_step, got, producer>>
  <2>1. Counted'
    BY <1>0, <1>1 DEF RingInv, Counted, One
  <2>2. Placed(consumer_step, cpc = "wrap", Len(got))'
    BY <1>1 DEF RingInv, Placed
  <2>3. RingInv'
    BY <1>0, <1>1, <2>1, <2>2 DEF RingInv
  <2>4. Now' = Now
    BY <1>0, <1>1 DEF Now
  <2> QED
    BY <2>3, <2>4 DEF RingMove
<1>2. CASE cpc = "read" /\ got' = Append(got, queue[consumer_step])
           /\ consumer_step' = consumer_step + 1 /\ cpc' = "wrap"
           /\ UNCHANGED <<space_sem, data_sem, producer>>
  <2> DEFINE g == Len(got)
             n == ring_made - g
  <2>1. g \in Nat /\ n \in Nat \ {0} /\ ring_made - (g + 1) = n - 1
    BY <1>0, <1>2, RingFacts
  <2>2. Placed(consumer_step, FALSE, g)
    BY <1>2 DEF RingInv, Placed
  <2>3. consumer_step \in Slots
    <3>1. g % Cap \in 0 .. Cap - 1
      BY <1>0, Division
    <3> QED
      BY <2>2, <3>1 DEF Placed, Slots
  <2>4. got' \in Seq(Nat) /\ Len(got') = g + 1
    BY <1>0, <1>2, <2>3
  <2>5. Placed(consumer_step + 1, TRUE, g + 1)
    BY <1>0, <2>2, PlacedMoves
  <2>6. Placed(consumer_step, cpc = "wrap", Len(got))'
    BY <1>2, <2>4, <2>5 DEF Placed
  <2>7. Counted'
    <3>1. ring_made' - Len(got)' = n - 1
      BY <1>0, <2>1, <2>4
    <3>2. /\ n + space_sem + One(ppc = "write") + One(cpc \in {"wrap", "V"}) = Cap
          /\ n = data_sem + One(ppc \in {"wrap", "V"}) + One(cpc = "read")
      BY DEF RingInv, Counted
    <3>3. /\ One(cpc \in {"wrap", "V"}) = 0 /\ One(cpc = "read") = 1
          /\ One(cpc' \in {"wrap", "V"}) = 1 /\ One(cpc' = "read") = 0
          /\ One(ppc = "write") \in Nat /\ One(ppc \in {"wrap", "V"}) \in Nat
      BY <1>2 DEF One
    <3>4. One(ppc' = "write") = One(ppc = "write") /\ One(ppc' \in {"wrap", "V"}) = One(ppc \in {"wrap", "V"})
      BY <1>0
    <3> HIDE DEF n
    <3>5. /\ (n - 1) + space_sem' + One(ppc' = "write") + One(cpc' \in {"wrap", "V"}) = Cap
          /\ n - 1 = data_sem' + One(ppc' \in {"wrap", "V"}) + One(cpc' = "read")
      <4>2. /\ n \in Nat /\ space_sem \in Nat /\ data_sem \in Nat
            /\ space_sem' = space_sem /\ data_sem' = data_sem
        BY <1>0, <1>2, <2>1
      <4>3. /\ n + space_sem + One(ppc = "write") + 0 = Cap
            /\ n = data_sem + One(ppc \in {"wrap", "V"}) + 1
        BY <3>2, <3>3, Zenon
      <4>4. /\ (n - 1) + space_sem + One(ppc = "write") + 1 = Cap
            /\ n - 1 = data_sem + One(ppc \in {"wrap", "V"}) + 0
        <5> DEFINE a == One(ppc = "write")
                   b == One(ppc \in {"wrap", "V"})
        <5>1. a \in Nat /\ b \in Nat /\ n + space_sem + a + 0 = Cap /\ n = data_sem + b + 1
          BY <3>3, <4>3, Zenon
        <5> HIDE DEF a, b
        <5>2. (n - 1) + space_sem + a + 1 = Cap /\ n - 1 = data_sem + b + 0
          BY <1>0, <4>2, <5>1, SMT
        <5> QED
          BY <5>2 DEF a, b
      <4> QED
        BY <3>3, <3>4, <4>2, <4>4, Zenon
    <3> QED
      BY <3>1, <3>5 DEF Counted
  <2>8. RingInv'
    BY <1>0, <1>2, <2>4, <2>6, <2>7 DEF RingInv
  <2>9. Now = Content(queue, g, n) /\ Now' = Content(queue, g + 1, n - 1)
    BY <1>0, <2>1, <2>4 DEF Now
  <2> HIDE DEF g, n
  <2>10. Now # <<>> /\ Now' = Tail(Now)
    BY <1>0, <2>1, <2>9, ContentRead
  <2> QED
    BY <2>8, <2>10 DEF RingMove
<1>3. CASE cpc = "wrap" /\ consumer_step' = consumer_step % Cap /\ cpc' = "V"
           /\ UNCHANGED <<space_sem, data_sem, got, producer>>
  <2>1. Counted'
    BY <1>0, <1>3 DEF RingInv, Counted, One
  <2>2. Placed(consumer_step, TRUE, Len(got))
    BY <1>3 DEF RingInv, Placed
  <2>3. Placed(consumer_step % Cap, FALSE, Len(got))
    BY <1>0, <2>2, PlacedMoves
  <2>4. Placed(consumer_step, cpc = "wrap", Len(got))'
    BY <1>3, <2>3 DEF Placed
  <2>5. RingInv'
    BY <1>0, <1>3, <2>1, <2>4 DEF RingInv
  <2>6. Now' = Now
    BY <1>0, <1>3 DEF Now
  <2> QED
    BY <2>5, <2>6 DEF RingMove
<1>4. CASE cpc = "V" /\ space_sem' = space_sem + 1 /\ cpc' = "P"
           /\ UNCHANGED <<data_sem, consumer_step, got, producer>>
  <2>1. Counted'
    BY <1>0, <1>4 DEF RingInv, Counted, One
  <2>2. Placed(consumer_step, cpc = "wrap", Len(got))'
    BY <1>4 DEF RingInv, Placed
  <2>3. RingInv'
    BY <1>0, <1>4, <2>1, <2>2 DEF RingInv
  <2>4. Now' = Now
    BY <1>0, <1>4 DEF Now
  <2> QED
    BY <2>3, <2>4 DEF RingMove
<1> QED
  BY <1>1, <1>2, <1>3, <1>4 DEF Pop

LEMMA RingStep ==
  ASSUME Ring
  PROVE  RingInv /\ [RingNext]_ringVars => RingInv' /\ RingMove(Now, Now')
<1> SUFFICES ASSUME RingInv, [RingNext]_ringVars
             PROVE  RingInv' /\ RingMove(Now, Now')
  OBVIOUS
<1>1. CASE UNCHANGED ringVars
  BY <1>1 DEF ringVars, RingInv, Counted, Placed, RingMove, Now
<1> QED
  BY <1>1, PushRing, PopRing DEF RingNext

(* ring_queue: for any capacity, and however the statements of Push and    *)
(* Pop interleave, the two semaphores alone make the ring a FIFO buffer:   *)
(* no slot is overwritten before it is read or read before it is written.  *)
THEOREM RingQueueIsBuffer ==
  ASSUME Ring
  PROVE  RingSpec => RingIsBuffer
<1>1. RingInit => Buffer!Init
  <2> SUFFICES ASSUME RingInit PROVE Held = <<>>
    BY DEF Buffer!Init
  <2>1. RingInv /\ ring_made - Len(got) = 0
    <3>1. Len(got) = 0 /\ ring_made = 0
      BY DEF RingInit
    <3> QED
      BY <3>1, RingInit0
  <2>2. Held = Content(queue, Len(got), 0)
    BY <2>1, RingFacts DEF Now
  <2> QED
    BY <2>2 DEF Content
<1>2. RingInit => RingInv
  BY RingInit0
<1>3. RingInv /\ [RingNext]_ringVars => RingInv'
  BY RingStep
<1>4. RingInv => Held = Now
  BY RingFacts
<1>5. RingInv' => (Held = Now)'
  BY <1>4, PTL
<1>6. RingInv /\ RingInv' /\ [RingNext]_ringVars => [Buffer!Next]_(Held)
  <2> SUFFICES ASSUME RingInv, RingInv', [RingNext]_ringVars, Held = Now, Held' = Now'
               PROVE  [Buffer!Next]_(Held)
    BY <1>4, <1>5
  <2>1. RingMove(Held, Held')
    BY RingStep
  <2> QED
    BY <2>1 DEF RingMove, Buffer!Next, Buffer!Get, Buffer!Put
<1> QED
  BY <1>1, <1>2, <1>3, <1>6, PTL DEF RingSpec, RingIsBuffer, Buffer!Spec

(* The queues of both lessons: for any threads, capacity and number of     *)
(* items they are bounded first-in first-out buffers.                      *)
THEOREM QueuesAreBuffers ==
  ASSUME Pipeline, Ring
  PROVE  BlockSpec /\ RingSpec => ImplementsBuffers
BY BlockQueuesAreBuffers, RingQueueIsBuffer DEF ImplementsBuffers

-----------------------------------------------------------------------------
(***************************************************************************)
(* The loops of the Reactor, for any number of loops and of ids: they share *)
(* the connections out evenly, timers and connections never have the same  *)
(* id, and the table of connections holds those that have not ended.       *)
(***************************************************************************)
\* _thread_count is at least 1, and the bound on the ids is a number.
Pool == ThreadCount \in Nat \ {0} /\ MaxId \in Nat

-----------------------------------------------------------------------------
(* What is in a queue of tasks, and what is in it once.                    *)
In(todo, t) == \E i \in 1 .. Len(todo) : todo[i] = t
Once(todo, t) == \A i, j \in 1 .. Len(todo) : todo[i] = t /\ todo[j] = t => i = j

(* What Append does to them.                                               *)
LEMMA InAppend ==
  ASSUME NEW S, NEW todo \in Seq(S), NEW u \in S, NEW t
  PROVE  /\ In(Append(todo, u), t) <=> In(todo, t) \/ t = u
         /\ Once(todo, t) /\ (t = u => ~In(todo, t)) => Once(Append(todo, u), t)
<1>1. /\ Len(Append(todo, u)) = Len(todo) + 1 /\ Append(todo, u)[Len(todo) + 1] = u /\ Len(todo) \in Nat
      /\ \A i \in 1 .. Len(todo) : Append(todo, u)[i] = todo[i]
  OBVIOUS
<1> DEFINE r == Append(todo, u)
<1> HIDE DEF r
<1>2. \A i \in 1 .. Len(r) : i \in 1 .. Len(todo) \/ i = Len(todo) + 1
  BY <1>1 DEF r
<1>3. In(r, t) <=> In(todo, t) \/ t = u
  <2>1. ASSUME In(r, t) PROVE In(todo, t) \/ t = u
    BY <1>1, <1>2, <2>1 DEF In, r
  <2>2. ASSUME In(todo, t) PROVE In(r, t)
    BY <1>1, <2>2 DEF In, r
  <2>3. ASSUME t = u PROVE In(r, t)
    <3>1. Len(todo) + 1 \in 1 .. Len(r)
      BY <1>1 DEF r
    <3> QED
      BY <1>1, <2>3, <3>1 DEF In, r
  <2> QED
    BY <2>1, <2>2, <2>3
<1>4. ASSUME Once(todo, t), t = u => ~In(todo, t)
      PROVE  Once(r, t)
  <2> SUFFICES ASSUME NEW i \in 1 .. Len(r), NEW j \in 1 .. Len(r), r[i] = t, r[j] = t
               PROVE  i = j
    BY DEF Once
  <2>1. CASE i \in 1 .. Len(todo) /\ j \in 1 .. Len(todo)
    BY <1>1, <1>4, <2>1 DEF Once, r
  <2>2. CASE i = Len(todo) + 1 /\ j = Len(todo) + 1
    BY <2>2
  <2>3. CASE i \in 1 .. Len(todo) /\ j = Len(todo) + 1
    BY <1>1, <1>4, <2>3 DEF In, r
  <2>4. CASE i = Len(todo) + 1 /\ j \in 1 .. Len(todo)
    BY <1>1, <1>4, <2>4 DEF In, r
  <2> QED
    BY <1>2, <2>1, <2>2, <2>3, <2>4
<1> QED
  BY <1>3, <1>4 DEF r

(* What Tail does to them.                                                 *)
LEMMA InTail ==
  ASSUME NEW S, NEW todo \in Seq(S), todo # <<>>, NEW t
  PROVE  /\ Head(todo) \in S /\ In(todo, Head(todo)) /\ Tail(todo) \in Seq(S)
         /\ In(Tail(todo), t) => In(todo, t)
         /\ In(todo, t) => In(Tail(todo), t) \/ t = Head(todo)
         /\ Once(todo, t) => Once(Tail(todo), t)
         /\ Once(todo, Head(todo)) => ~In(Tail(todo), Head(todo))
<1> DEFINE r == Tail(todo)
<1>1. /\ Head(todo) \in S /\ Head(todo) = todo[1] /\ r \in Seq(S)
      /\ Len(todo) \in Nat \ {0} /\ Len(r) = Len(todo) - 1
      /\ \A i \in 1 .. Len(r) : r[i] = todo[i + 1]
  OBVIOUS
<1> HIDE DEF r
<1>2. 1 \in 1 .. Len(todo) /\ \A i \in 1 .. Len(r) : i + 1 \in 1 .. Len(todo) /\ i + 1 # 1
  BY <1>1
<1>3. In(todo, Head(todo))
  BY <1>1, <1>2 DEF In
<1>4. In(r, t) => In(todo, t)
  BY <1>1, <1>2 DEF In
<1>5. ASSUME In(todo, t) PROVE In(r, t) \/ t = Head(todo)
  <2> PICK i \in 1 .. Len(todo) : todo[i] = t
    BY <1>5 DEF In
  <2>1. CASE i = 1
    BY <1>1, <2>1
  <2>2. CASE i # 1
    <3>1. i - 1 \in 1 .. Len(r) /\ (i - 1) + 1 = i
      BY <1>1, <2>2
    <3>2. r[i - 1] = t
      BY <1>1, <3>1
    <3> QED
      BY <3>1, <3>2 DEF In
  <2> QED
    BY <2>1, <2>2
<1>6. ASSUME Once(todo, t) PROVE Once(r, t)
  <2> SUFFICES ASSUME NEW i \in 1 .. Len(r), NEW j \in 1 .. Len(r), r[i] = t, r[j] = t
               PROVE  i = j
    BY DEF Once
  <2>1. todo[i + 1] = t /\ todo[j + 1] = t
    BY <1>1
  <2>2. i + 1 = j + 1
    BY <1>2, <1>6, <2>1 DEF Once
  <2> QED
    BY <2>2
<1>7. Once(todo, Head(todo)) => ~In(r, Head(todo))
  BY <1>1, <1>2 DEF In, Once
<1> QED
  BY <1>1, <1>3, <1>4, <1>5, <1>6, <1>7 DEF r

-----------------------------------------------------------------------------
(* The tasks of the loops.                                                 *)
Est(id) == <<"EsTablished", id>>
Rem(id) == <<"Remove", id>>
After == <<"RunAfter", 0>>
LoopTasks == {Est(id) : id \in Ids}
BaseTasks == {After} \union {Rem(id) : id \in Ids}

LEMMA TaskIs ==
  /\ \A x : Est(x)[2] = x /\ Rem(x)[1] = "Remove" /\ Rem(x)[2] = x /\ Rem(x) # After
  /\ After[1] # "Remove"
  /\ \A x, y : (Est(x) = Est(y) => x = y) /\ (Rem(x) = Rem(y) => x = y)
BY DEF Est, Rem, After

(* The inductive invariant: the types, the loops that Create has, what an  *)
(* id is used for, and where the tasks of a connection stand.              *)
States == {"none", "CONNECTING", "CONNECTED", "DISCONNECTED"}
TypeInv ==
  /\ next_loop_idx \in 0 .. ThreadCount - 1 /\ conn_id \in 0 .. MaxId
  /\ loops \in [Threads -> 0 .. ThreadCount]
  /\ owner \in [Ids -> 0 .. ThreadCount]
  /\ statu \in [Ids -> States]

TaskInv ==
  /\ DOMAIN tasks = 0 .. ThreadCount
  /\ tasks[0] \in Seq(BaseTasks)
  /\ \A l \in Threads : tasks[l] \in Seq(LoopTasks)

Passed(i) == main[1] = "start" \/ i < main[2]
StartInv == main[2] \in Nat /\ \A i \in Threads : Passed(i) => loops[i] = i

IdInv ==
  \A id \in Ids :
    /\ id > conn_id => statu[id] = "none" /\ id \notin timers
    /\ id \in timers => statu[id] = "none"
    /\ statu[id] = "none" <=> owner[id] = 0

QueueInv ==
  \A id \in Ids :
    /\ In(tasks[0], Rem(id)) => statu[id] = "DISCONNECTED"
    /\ \A l \in Threads :
         /\ Once(tasks[l], Est(id))
         /\ In(tasks[l], Est(id)) => statu[id] = "CONNECTING" /\ owner[id] = l
    /\ statu[id] \in {"CONNECTING", "CONNECTED"} => id \in conns
    /\ id \in conns => statu[id] \in {"CONNECTING", "CONNECTED"} \/ In(tasks[0], Rem(id))

\* The round robin: the loops 2 .. next_loop_idx + 1 have had their turn.
Turn(l) == IF 2 <= l /\ l <= next_loop_idx + 1 THEN 1 ELSE 0
EvenInv == \E b \in Nat : \A l \in Threads : Load(l) = b + Turn(l)

Inv == TypeInv /\ TaskInv /\ StartInv /\ IdInv /\ QueueInv /\ EvenInv

LEMMA PoolFacts ==
  ASSUME Pool
  PROVE  /\ ThreadCount \in Nat \ {0} /\ MaxId \in Nat
         /\ \A l \in Threads : l \in 0 .. ThreadCount /\ l # 0 /\ l \in Nat
         /\ 0 \in 0 .. ThreadCount /\ 1 \in Threads
         /\ \A id \in Ids : id \in Nat
BY DEF Pool, Threads, Ids

LEMMA InitInv == ASSUME Pool, Init PROVE Inv
<1> USE PoolFacts
<1>1. TypeInv
  BY DEF Init, TypeInv, States
<1>2. TaskInv
  BY DEF Init, TaskInv
<1>3. StartInv
  BY DEF Init, StartInv, Passed, Threads
<1>4. IdInv
  BY DEF Init, IdInv
<1>5. QueueInv
  <2>1. \A t : ~In(<<>>, t) /\ Once(<<>>, t)
    BY DEF In, Once
  <2>2. \A l \in 0 .. ThreadCount : tasks[l] = <<>>
    BY DEF Init
  <2>3. tasks[0] = <<>> /\ \A l \in Threads : tasks[l] = <<>>
    BY <2>2
  <2>4. conns = {} /\ \A id \in Ids : statu[id] = "none"
    BY DEF Init
  <2> QED
    BY <2>1, <2>3, <2>4 DEF QueueInv
<1>6. EvenInv
  <2>1. ASSUME NEW l \in Threads PROVE Load(l) = 0 + Turn(l)
    <3>1. {id \in Ids : owner[id] = l} = {}
      BY DEF Init
    <3>2. Load(l) = 0
      BY <3>1, FS_EmptySet DEF Load
    <3>3. Turn(l) = 0
      BY DEF Init, Turn
    <3> QED
      BY <3>2, <3>3
  <2> QED
    BY <2>1 DEF EvenInv
<1> QED
  BY <1>1, <1>2, <1>3, <1>4, <1>5, <1>6 DEF Inv

(* What the invariant says of the properties.                              *)
LEMMA InvGives == ASSUME Pool, Inv PROVE LoopsConsistent
<1> USE PoolFacts
<1>1. SpreadEvenly
  <2>1. \A id \in Ids : statu[id] # "none" => owner[id] \in Threads
    BY DEF Inv, TypeInv, IdInv, Threads
  <2>2. PICK b \in Nat : \A l \in Threads : Load(l) = b + Turn(l)
    BY DEF Inv, EvenInv
  <2>3. \A l \in Threads : Turn(l) \in {0, 1}
    BY DEF Turn
  <2>4. \A k, l \in Threads : Load(k) <= Load(l) + 1
    BY <2>2, <2>3
  <2> QED
    BY <2>1, <2>4 DEF SpreadEvenly
<1>2. IdsAreDistinct
  BY DEF Inv, IdInv, IdsAreDistinct
<1>3. TableMatches
  <2>1. DOMAIN tasks[0] = 1 .. Len(tasks[0])
    BY DEF Inv, TaskInv
  <2> QED
    BY <2>1 DEF Inv, QueueInv, TableMatches, In, Rem
<1> QED
  BY <1>1, <1>2, <1>3 DEF LoopsConsistent

-----------------------------------------------------------------------------
(* The start of the threads.                                               *)
LEMMA StartSteps ==
  ASSUME Pool, Inv, NEW i \in Threads, NewThread(i) \/ GetLoop(i) \/ ThreadEntry(i)
  PROVE  Inv'
<1> USE PoolFacts
<1>1. UNCHANGED server
  BY DEF NewThread, GetLoop, ThreadEntry
<1>2. TaskInv' /\ IdInv' /\ QueueInv' /\ EvenInv'
  BY <1>1 DEF Inv, TaskInv, IdInv, QueueInv, EvenInv, Turn, Load, server
<1>3. loops' = loops \/ loops' = [loops EXCEPT ![i] = i]
  BY DEF NewThread, GetLoop, ThreadEntry
<1>4. TypeInv'
  BY <1>1, <1>3 DEF Inv, TypeInv, server
<1>5. StartInv'
  <2>1. CASE NewThread(i)
    BY <2>1 DEF NewThread, Inv, StartInv, Passed
  <2>2. CASE ThreadEntry(i)
    BY <2>2 DEF ThreadEntry, Notified, Inv, StartInv, Passed
  <2>3. CASE GetLoop(i) /\ thread[i] # "loop"
    BY <2>3 DEF GetLoop, Inv, StartInv, Passed
  <2>4. CASE GetLoop(i) /\ thread[i] = "loop"
    <3>1. loops' = [loops EXCEPT ![i] = i] /\ main[2] = i
      BY <2>4 DEF GetLoop
    <3>2. \A k \in Threads : k < i => loops[k] = k
      BY <3>1 DEF Inv, StartInv, Passed
    <3>3. \A k \in Threads : k <= i => loops'[k] = k
      BY <3>1, <3>2 DEF Inv, TypeInv
    <3>4. CASE i = ThreadCount
      <4>1. main' = <<"start", 0>> /\ \A k \in Threads : k <= i
        BY <2>4, <3>4 DEF GetLoop, Threads
      <4> QED
        BY <3>3, <4>1 DEF StartInv
    <3>5. CASE i # ThreadCount
      <4>1. main' = <<"new", i + 1>>
        BY <2>4, <3>5 DEF GetLoop
      <4>2. \A k \in Threads : k < i + 1 => k <= i
        OBVIOUS
      <4> QED
        BY <3>3, <4>1, <4>2 DEF StartInv, Passed
    <3> QED
      BY <3>4, <3>5
  <2> QED
    BY <2>1, <2>2, <2>3, <2>4
<1> QED
  BY <1>2, <1>4, <1>5 DEF Inv

(* The round robin goes on from the loop it is at.                         *)
LEMMA NextIs ==
  ASSUME Pool, Inv, Running
  PROVE  /\ NextLoop.idx = IF next_loop_idx + 1 = ThreadCount THEN 0 ELSE next_loop_idx + 1
         /\ NextLoop.loop = NextLoop.idx + 1 /\ NextLoop.loop \in Threads
<1> USE PoolFacts
<1> DEFINE idx == (next_loop_idx + 1) % ThreadCount
<1>1. idx = IF next_loop_idx + 1 = ThreadCount THEN 0 ELSE next_loop_idx + 1
  BY DEF Inv, TypeInv
<1>2. idx + 1 \in Threads
  BY <1>1 DEF Inv, TypeInv, Threads
<1>3. loops[idx + 1] = idx + 1
  BY <1>2 DEF Running, Inv, StartInv, Passed
<1>4. NextLoop.idx = idx /\ NextLoop.loop = loops[idx + 1]
  BY DEF NextLoop
<1> QED
  BY <1>1, <1>2, <1>3, <1>4

LEMMA NewConnectionStep == ASSUME Pool, Inv, NewConnection PROVE Inv'
<1> USE PoolFacts
<1> DEFINE n == conn_id + 1
           k == NextLoop.loop
<1>1. /\ n \in Ids /\ conn_id' = n /\ k \in Threads
      /\ owner' = [owner EXCEPT ![n] = k] /\ statu' = [statu EXCEPT ![n] = "CONNECTING"]
      /\ tasks' = [tasks EXCEPT ![k] = Append(@, Est(n))]
      /\ conns' = conns \union {n} /\ timers' = timers
      /\ loops' = loops /\ main' = main
      /\ next_loop_idx' = NextLoop.idx
      /\ k = NextLoop.idx + 1
      /\ NextLoop.idx = IF next_loop_idx + 1 = ThreadCount THEN 0 ELSE next_loop_idx + 1
  BY NextIs DEF NewConnection, Inv, TypeInv, Ids, Queue, Est
<1>2. /\ statu[n] = "none" /\ owner[n] = 0 /\ n \notin timers
      /\ \A id \in Ids : id > n => id > conn_id /\ id # n
  BY <1>1 DEF Inv, IdInv, TypeInv
<1> HIDE DEF n, k
<1>3. TypeInv'
  BY <1>1 DEF Inv, TypeInv, States, Ids
<1>4. tasks'[0] = tasks[0] /\ tasks'[k] = Append(tasks[k], Est(n)) /\ Est(n) \in LoopTasks
      /\ (\A l \in Threads : l # k => tasks'[l] = tasks[l]) /\ DOMAIN tasks' = 0 .. ThreadCount
  BY <1>1 DEF Inv, TaskInv, LoopTasks
<1>5. TaskInv'
  <2>1. tasks'[k] \in Seq(LoopTasks)
    BY <1>1, <1>4 DEF Inv, TaskInv
  <2> QED
    BY <1>1, <1>4, <2>1 DEF Inv, TaskInv
<1>6. StartInv'
  BY <1>1 DEF Inv, StartInv, Passed
<1>7. IdInv'
  <2> SUFFICES ASSUME NEW id \in Ids
               PROVE  /\ id > n => statu'[id] = "none" /\ id \notin timers
                      /\ id \in timers => statu'[id] = "none"
                      /\ statu'[id] = "none" <=> owner'[id] = 0
    BY <1>1 DEF IdInv
  <2>1. CASE id = n
    <3>1. statu'[id] = "CONNECTING" /\ owner'[id] = k /\ k # 0 /\ ~(n > n)
      BY <1>1, <2>1 DEF Inv, TypeInv
    <3> QED
      BY <1>2, <2>1, <3>1
  <2>2. CASE id # n
    <3>1. statu'[id] = statu[id] /\ owner'[id] = owner[id]
      BY <1>1, <2>2 DEF Inv, TypeInv
    <3> QED
      BY <1>2, <3>1 DEF Inv, IdInv
  <2> QED
    BY <2>1, <2>2
<1>8. QueueInv'
  <2>1. ASSUME NEW id \in Ids
        PROVE  /\ In(tasks'[k], Est(id)) <=> In(tasks[k], Est(id)) \/ id = n
               /\ Once(tasks[k], Est(id)) /\ (id = n => ~In(tasks[k], Est(id)))
                    => Once(tasks'[k], Est(id))
    <3>1. tasks[k] \in Seq(LoopTasks)
      BY <1>1 DEF Inv, TaskInv
    <3>2. Est(id) = Est(n) <=> id = n
      BY TaskIs
    <3> QED
      BY <1>4, <3>1, <3>2, InAppend
  <2> SUFFICES ASSUME NEW id \in Ids
               PROVE  /\ In(tasks[0], Rem(id)) => statu'[id] = "DISCONNECTED"
                      /\ \A l \in Threads :
                           /\ Once(tasks'[l], Est(id))
                           /\ In(tasks'[l], Est(id)) => statu'[id] = "CONNECTING" /\ owner'[id] = l
                      /\ statu'[id] \in {"CONNECTING", "CONNECTED"} => id \in conns'
                      /\ id \in conns' => statu'[id] \in {"CONNECTING", "CONNECTED"} \/ In(tasks[0], Rem(id))
    BY <1>4 DEF QueueInv
  <2>2. CASE id = n
    <3>1. statu'[id] = "CONNECTING" /\ owner'[id] = k /\ id \in conns'
      BY <1>1, <2>2 DEF Inv, TypeInv
    <3>2. ~In(tasks[0], Rem(id)) /\ \A l \in Threads : ~In(tasks[l], Est(id))
      BY <1>2, <2>2 DEF Inv, QueueInv
    <3>3. \A l \in Threads : Once(tasks[l], Est(id))
      BY DEF Inv, QueueInv
    <3> QED
      BY <1>1, <1>4, <2>1, <2>2, <3>1, <3>2, <3>3
  <2>3. CASE id # n
    <3>1. statu'[id] = statu[id] /\ owner'[id] = owner[id] /\ (id \in conns' <=> id \in conns)
      BY <1>1, <2>3 DEF Inv, TypeInv
    <3>2. \A l \in Threads : /\ In(tasks'[l], Est(id)) => In(tasks[l], Est(id))
                             /\ Once(tasks[l], Est(id)) => Once(tasks'[l], Est(id))
      BY <1>4, <2>1, <2>3
    <3> QED
      BY <3>1, <3>2 DEF Inv, QueueInv
  <2> QED
    BY <2>2, <2>3
<1>9. EvenInv'
  <2> DEFINE ids(l) == {id \in Ids : owner[id] = l}
             new(l) == {id \in Ids : owner'[id] = l}
  <2>1. \A l \in Threads : /\ l # k => new(l) = ids(l)
                           /\ l = k => new(l) = ids(l) \union {n} /\ n \notin ids(l)
    BY <1>1, <1>2 DEF Inv, TypeInv
  <2>2. \A l \in Threads : Load(l) = Cardinality(ids(l)) /\ Load(l)' = Cardinality(new(l))
    BY DEF Load
  <2>3. \A l \in Threads : IsFiniteSet(ids(l))
    <3>1. IsFiniteSet(Ids)
      BY FS_Interval DEF Ids
    <3>2. \A l \in Threads : ids(l) \subseteq Ids
      OBVIOUS
    <3> HIDE DEF ids
    <3> QED
      BY <3>1, <3>2, FS_Subset
  <2> HIDE DEF ids, new
  <2>4. \A l \in Threads : l = k => Load(l)' = Load(l) + 1
    BY <2>1, <2>2, <2>3, FS_AddElement
  <2>5. \A l \in Threads : l # k => Load(l)' = Load(l)
    BY <2>1, <2>2
  <2>6. PICK b \in Nat : \A l \in Threads : Load(l) = b + Turn(l)
    BY DEF Inv, EvenInv
  <2>7. next_loop_idx \in 0 .. ThreadCount - 1
    BY DEF Inv, TypeInv
  <2>8. CASE next_loop_idx + 1 = ThreadCount
    <3>1. k = 1 /\ next_loop_idx' = 0
      BY <1>1, <2>8
    <3>2. \A l \in Threads : Turn(l)' = 0 /\ (l # 1 => Turn(l) = 1) /\ (l = 1 => Turn(l) = 0)
      BY <2>7, <2>8, <3>1 DEF Turn, Threads
    <3>3. \A l \in Threads : Load(l)' = (b + 1) + Turn(l)'
      BY <2>4, <2>5, <2>6, <3>1, <3>2
    <3> QED
      BY <3>3 DEF EvenInv
  <2>9. CASE next_loop_idx + 1 # ThreadCount
    <3>1. k = next_loop_idx + 2 /\ next_loop_idx' = next_loop_idx + 1
      BY <1>1, <2>7, <2>9
    <3>2. \A l \in Threads : (l # k => Turn(l)' = Turn(l)) /\ (l = k => Turn(l) = 0 /\ Turn(l)' = 1)
      BY <2>7, <3>1 DEF Turn
    <3>3. \A l \in Threads : Turn(l) \in {0, 1}
      BY DEF Turn
    <3>4. \A l \in Threads : Load(l)' = b + Turn(l)'
      BY <2>4, <2>5, <2>6, <3>2, <3>3
    <3> QED
      BY <3>4 DEF EvenInv
  <2> QED
    BY <2>8, <2>9
<1> QED
  BY <1>3, <1>5, <1>6, <1>7, <1>8, <1>9 DEF Inv

-----------------------------------------------------------------------------
(* A step that queues task t on the base loop or takes its first one.      *)
LEMMA BaseTasksStep ==
  ASSUME Pool, Inv, NEW r \in Seq(BaseTasks), tasks' = [tasks EXCEPT ![0] = r]
  PROVE  tasks'[0] = r /\ (\A l \in Threads : tasks'[l] = tasks[l]) /\ TaskInv'
BY PoolFacts DEF Inv, TaskInv

LEMMA RunAfterStep == ASSUME Pool, Inv, RunAfter PROVE Inv'
<1> USE PoolFacts
<1>1. /\ tasks' = [tasks EXCEPT ![0] = Append(@, After)]
      /\ UNCHANGED <<main, thread, loops, next_loop_idx, conn_id, conns, owner, statu, timers>>
  BY DEF RunAfter, Queue, After
<1>2. tasks[0] \in Seq(BaseTasks) /\ After \in BaseTasks
  BY DEF Inv, TaskInv, BaseTasks
<1>3. tasks'[0] = Append(tasks[0], After) /\ (\A l \in Threads : tasks'[l] = tasks[l]) /\ TaskInv'
  <2> DEFINE r == Append(tasks[0], After)
  <2>1. r \in Seq(BaseTasks) /\ tasks' = [tasks EXCEPT ![0] = r]
    BY <1>1, <1>2
  <2> HIDE DEF r
  <2>2. tasks'[0] = r /\ (\A l \in Threads : tasks'[l] = tasks[l]) /\ TaskInv'
    BY <2>1, BaseTasksStep
  <2> QED
    BY <2>2 DEF r
<1>4. \A id : In(tasks'[0], Rem(id)) <=> In(tasks[0], Rem(id))
  BY <1>2, <1>3, InAppend, TaskIs
<1>5. QueueInv'
  BY <1>1, <1>3, <1>4 DEF Inv, QueueInv
<1>6. TypeInv' /\ StartInv' /\ IdInv' /\ EvenInv'
  BY <1>1 DEF Inv, TypeInv, StartInv, Passed, IdInv, EvenInv, Turn, Load
<1> QED
  BY <1>3, <1>5, <1>6 DEF Inv

LEMMA ReleaseStep == ASSUME Pool, Inv, NEW n \in Ids, Release(n) PROVE Inv'
<1> USE PoolFacts
<1>1. /\ statu[n] \in {"CONNECTED", "DISCONNECTED"} /\ statu' = [statu EXCEPT ![n] = "DISCONNECTED"]
      /\ tasks' = [tasks EXCEPT ![0] = Append(@, Rem(n))]
      /\ UNCHANGED <<main, thread, loops, next_loop_idx, conn_id, conns, owner, timers>>
  BY DEF Release, Queue, Rem
<1>2. tasks[0] \in Seq(BaseTasks) /\ Rem(n) \in BaseTasks
  BY DEF Inv, TaskInv, BaseTasks
<1>3. tasks'[0] = Append(tasks[0], Rem(n)) /\ (\A l \in Threads : tasks'[l] = tasks[l]) /\ TaskInv'
  <2> DEFINE r == Append(tasks[0], Rem(n))
  <2>1. r \in Seq(BaseTasks) /\ tasks' = [tasks EXCEPT ![0] = r]
    BY <1>1, <1>2
  <2> HIDE DEF r
  <2>2. tasks'[0] = r /\ (\A l \in Threads : tasks'[l] = tasks[l]) /\ TaskInv'
    BY <2>1, BaseTasksStep
  <2> QED
    BY <2>2 DEF r
<1>4. \A id : In(tasks'[0], Rem(id)) <=> In(tasks[0], Rem(id)) \/ id = n
  BY <1>2, <1>3, InAppend, TaskIs
<1>5. /\ statu'[n] = "DISCONNECTED" /\ \A id \in Ids : id # n => statu'[id] = statu[id]
      /\ statu' \in [Ids -> States]
  BY <1>1 DEF Inv, TypeInv, States
<1>6. QueueInv'
  <2> SUFFICES ASSUME NEW id \in Ids
               PROVE  /\ In(tasks'[0], Rem(id)) => statu'[id] = "DISCONNECTED"
                      /\ \A l \in Threads :
                           /\ Once(tasks[l], Est(id))
                           /\ In(tasks[l], Est(id)) => statu'[id] = "CONNECTING" /\ owner[id] = l
                      /\ statu'[id] \in {"CONNECTING", "CONNECTED"} => id \in conns
                      /\ id \in conns => statu'[id] \in {"CONNECTING", "CONNECTED"} \/ In(tasks'[0], Rem(id))
    BY <1>1, <1>3 DEF QueueInv
  <2>1. CASE id = n
    BY <1>1, <1>4, <1>5, <2>1 DEF Inv, QueueInv
  <2>2. CASE id # n
    BY <1>4, <1>5, <2>2 DEF Inv, QueueInv
  <2> QED
    BY <2>1, <2>2
<1>7. TypeInv' /\ StartInv' /\ EvenInv'
  <2>1. TypeInv'
    BY <1>1, <1>5 DEF Inv, TypeInv
  <2>2. StartInv'
    BY <1>1, <1>5 DEF Inv, StartInv, Passed
  <2>3. EvenInv'
    BY <1>1, <1>5 DEF Inv, EvenInv, Turn, Load
  <2> QED
    BY <2>1, <2>2, <2>3
<1>8. IdInv'
  BY <1>1, <1>5 DEF Inv, IdInv
<1> QED
  BY <1>3, <1>6, <1>7, <1>8 DEF Inv

(* EsTablished of a connection runs once, so it never revives one that is  *)
(* over.                                                                   *)
LEMMA RunTaskStep == ASSUME Pool, Inv, NEW k \in Threads, RunTask(k) PROVE Inv'
<1> USE PoolFacts
<1>1. tasks[k] \in Seq(LoopTasks) /\ tasks[k] # <<>>
  BY DEF RunTask, Inv, TaskInv
<1>2. /\ Head(tasks[k]) \in LoopTasks /\ In(tasks[k], Head(tasks[k]))
      /\ Tail(tasks[k]) \in Seq(LoopTasks)
  BY <1>1, InTail
<1>3. PICK n \in Ids : Head(tasks[k]) = Est(n)
  BY <1>2 DEF LoopTasks
<1>4. /\ tasks' = [tasks EXCEPT ![k] = Tail(@)]
      /\ statu' = [statu EXCEPT ![n] = "CONNECTED"]
      /\ UNCHANGED <<main, thread, loops, next_loop_idx, conn_id, conns, owner, timers>>
  BY <1>3, TaskIs DEF RunTask
<1>5. /\ tasks'[k] = Tail(tasks[k]) /\ tasks'[0] = tasks[0]
      /\ \A l \in Threads : l # k => tasks'[l] = tasks[l]
      /\ DOMAIN tasks' = 0 .. ThreadCount
  BY <1>4 DEF Inv, TaskInv
<1>6. TaskInv'
  BY <1>2, <1>5 DEF Inv, TaskInv
<1>7. statu[n] = "CONNECTING" /\ owner[n] = k /\ Once(tasks[k], Est(n))
  BY <1>2, <1>3 DEF Inv, QueueInv
<1>8. /\ \A id : /\ In(tasks'[k], Est(id)) => In(tasks[k], Est(id))
                 /\ Once(tasks[k], Est(id)) => Once(tasks'[k], Est(id))
      /\ ~In(tasks'[k], Est(n))
  BY <1>1, <1>3, <1>5, <1>7, InTail
<1>9. /\ statu'[n] = "CONNECTED" /\ \A id \in Ids : id # n => statu'[id] = statu[id]
      /\ statu' \in [Ids -> States]
  BY <1>4 DEF Inv, TypeInv, States
<1>10. QueueInv'
  <2> SUFFICES ASSUME NEW id \in Ids
               PROVE  /\ In(tasks[0], Rem(id)) => statu'[id] = "DISCONNECTED"
                      /\ \A l \in Threads :
                           /\ Once(tasks'[l], Est(id))
                           /\ In(tasks'[l], Est(id)) => statu'[id] = "CONNECTING" /\ owner[id] = l
                      /\ statu'[id] \in {"CONNECTING", "CONNECTED"} => id \in conns
                      /\ id \in conns => statu'[id] \in {"CONNECTING", "CONNECTED"} \/ In(tasks[0], Rem(id))
    BY <1>4, <1>5 DEF QueueInv
  <2>1. CASE id = n
    <3>1. ~In(tasks[0], Rem(id)) /\ id \in conns
      BY <1>7, <2>1 DEF Inv, QueueInv
    <3>2. \A l \in Threads : Once(tasks'[l], Est(id)) /\ ~In(tasks'[l], Est(id))
      BY <1>5, <1>7, <1>8, <2>1 DEF Inv, QueueInv
    <3> QED
      BY <1>9, <2>1, <3>1, <3>2
  <2>2. CASE id # n
    <3>1. \A l \in Threads : /\ In(tasks'[l], Est(id)) => In(tasks[l], Est(id))
                             /\ Once(tasks[l], Est(id)) => Once(tasks'[l], Est(id))
      BY <1>5, <1>8
    <3> QED
      BY <1>9, <2>2, <3>1 DEF Inv, QueueInv
  <2> QED
    BY <2>1, <2>2
<1>11. TypeInv' /\ StartInv' /\ EvenInv'
  <2>1. TypeInv'
    BY <1>4, <1>9 DEF Inv, TypeInv
  <2>2. StartInv'
    BY <1>4, <1>9 DEF Inv, StartInv, Passed
  <2>3. EvenInv'
    BY <1>4, <1>9 DEF Inv, EvenInv, Turn, Load
  <2> QED
    BY <2>1, <2>2, <2>3
<1>12. IdInv'
  BY <1>4, <1>7, <1>9 DEF Inv, IdInv
<1> QED
  BY <1>6, <1>10, <1>11, <1>12 DEF Inv

(* The base loop erases a connection, or starts a timer under a new id.    *)
LEMMA RunBaseStep == ASSUME Pool, Inv, RunBaseTask PROVE Inv'
<1> USE PoolFacts
<1>1. tasks[0] \in Seq(BaseTasks) /\ tasks[0] # <<>>
  BY DEF RunBaseTask, Inv, TaskInv
<1>2. /\ Head(tasks[0]) \in BaseTasks /\ In(tasks[0], Head(tasks[0]))
      /\ Tail(tasks[0]) \in Seq(BaseTasks)
  BY <1>1, InTail
<1>3. /\ tasks' = [tasks EXCEPT ![0] = Tail(tasks[0])]
      /\ UNCHANGED <<main, thread, loops, next_loop_idx, owner, statu>>
  BY DEF RunBaseTask
<1>4. tasks'[0] = Tail(tasks[0]) /\ (\A l \in Threads : tasks'[l] = tasks[l]) /\ TaskInv'
  BY <1>2, <1>3, BaseTasksStep
<1>5. \A id : /\ In(tasks'[0], Rem(id)) => In(tasks[0], Rem(id))
              /\ In(tasks[0], Rem(id)) => In(tasks'[0], Rem(id)) \/ Rem(id) = Head(tasks[0])
  BY <1>1, <1>4, InTail
<1>6. StartInv' /\ EvenInv'
  BY <1>3 DEF Inv, StartInv, Passed, EvenInv, Turn, Load
<1>7. CASE Head(tasks[0]) = After
  <2>1. /\ conn_id < MaxId /\ conn_id' = conn_id + 1 /\ timers' = timers \union {conn_id + 1}
        /\ conns' = conns
    BY <1>7, TaskIs DEF RunBaseTask, RunAfterInLoop
  <2>2. QueueInv'
    BY <1>3, <1>4, <1>5, <1>7, <2>1, TaskIs DEF Inv, QueueInv
  <2>3. TypeInv'
    BY <1>3, <2>1 DEF Inv, TypeInv
  <2>4. conn_id + 1 \in Ids /\ \A id \in Ids : id > conn_id + 1 => id > conn_id /\ id # conn_id + 1
    BY <2>1 DEF Inv, TypeInv, Ids
  <2>5. IdInv'
    <3>1. conn_id + 1 > conn_id
      BY DEF Inv, TypeInv
    <3>2. statu[conn_id + 1] = "none"
      BY <2>4, <3>1 DEF Inv, IdInv
    <3> QED
      BY <1>3, <2>1, <2>4, <3>2 DEF Inv, IdInv
  <2> QED
    BY <1>4, <1>6, <2>2, <2>3, <2>5 DEF Inv
<1>8. ASSUME NEW n \in Ids, Head(tasks[0]) = Rem(n) PROVE Inv'
  <2>1. conns' = conns \ {n} /\ conn_id' = conn_id /\ timers' = timers
    BY <1>8, TaskIs DEF RunBaseTask, RemoveConnectionInLoop
  <2>2. statu[n] = "DISCONNECTED"
    BY <1>2, <1>8 DEF Inv, QueueInv
  <2>3. \A id \in Ids : id # n => Rem(id) # Head(tasks[0])
    BY <1>8, TaskIs
  <2>4. QueueInv'
    <3> SUFFICES ASSUME NEW id \in Ids
                 PROVE  /\ In(tasks'[0], Rem(id)) => statu[id] = "DISCONNECTED"
                        /\ \A l \in Threads :
                             /\ Once(tasks[l], Est(id))
                             /\ In(tasks[l], Est(id)) => statu[id] = "CONNECTING" /\ owner[id] = l
                        /\ statu[id] \in {"CONNECTING", "CONNECTED"} => id \in conns'
                        /\ id \in conns' => statu[id] \in {"CONNECTING", "CONNECTED"} \/ In(tasks'[0], Rem(id))
      BY <1>3, <1>4 DEF QueueInv
    <3>1. CASE id = n
      BY <1>5, <2>1, <2>2, <3>1 DEF Inv, QueueInv
    <3>2. CASE id # n
      BY <1>5, <2>1, <2>3, <3>2 DEF Inv, QueueInv
    <3> QED
      BY <3>1, <3>2
  <2>5. TypeInv' /\ IdInv'
    BY <1>3, <2>1 DEF Inv, TypeInv, IdInv
  <2> QED
    BY <1>4, <1>6, <2>4, <2>5 DEF Inv
<1> QED
  BY <1>2, <1>7, <1>8 DEF BaseTasks

-----------------------------------------------------------------------------
(* The loops share the connections out evenly and own every one of them,   *)
(* one counter never gives a timer and a connection the same id, and the   *)
(* table of the base loop holds the connections that have not ended, for   *)
(* any number of loops (LoopThreadPool, NewConnection, RunAfterInLoop,     *)
(* RemoveConnection).                                                      *)
THEOREM LoopsStayConsistent ==
  ASSUME Pool
  PROVE  Spec => []LoopsConsistent
<1>1. Init => Inv
  BY InitInv
<1>2. Inv /\ [Next]_vars => Inv'
  <2> SUFFICES ASSUME Inv, [Next]_vars PROVE Inv'
    OBVIOUS
  <2>1. CASE UNCHANGED vars
    BY <2>1 DEF vars, Inv, TypeInv, TaskInv, StartInv, Passed, IdInv, QueueInv, EvenInv, Turn, Load
  <2>2. ASSUME NEW i \in Threads, NewThread(i) \/ GetLoop(i) \/ ThreadEntry(i) \/ RunTask(i)
        PROVE  Inv'
    BY <2>2, StartSteps, RunTaskStep
  <2>3. CASE NewConnection
    BY <2>3, NewConnectionStep
  <2>4. CASE RunAfter
    BY <2>4, RunAfterStep
  <2>5. CASE RunBaseTask
    BY <2>5, RunBaseStep
  <2>6. ASSUME NEW id \in Ids, Release(id) PROVE Inv'
    BY <2>6, ReleaseStep
  <2> QED
    BY <2>1, <2>2, <2>3, <2>4, <2>5, <2>6 DEF Next
<1>3. Inv => LoopsConsistent
  BY InvGives
<1> QED
  BY <1>1, <1>2, <1>3, PTL DEF Spec

-----------------------------------------------------------------------------
(***************************************************************************)
(* The servers, for any threads, connections, requests and clients: the    *)
(* pool of my_Http handles a connection once, a request is read as it was  *)
(* sent and answered at the length announced, and a client of lesson10 is  *)
(* shown the answers to its own questions.                                 *)
(***************************************************************************)
(* The pool.  A connection is in one place at a time: site says in which.  *)

\* The threads in Loop are finitely many, and the names of the model differ.
PoolAssumed ==
  /\ IsFiniteSet(Acceptors) /\ "free" \notin Acceptors
  /\ {"none", "loop", "wait"} \intersect Socks = {}

Labels == {"accept", "check", "lock", "locked", "create", "push", "signal"}
InHand == {"check", "lock", "locked", "create", "push"}

PoolTypes ==
  /\ ts \in {0, 1} /\ my_lock \in Acceptors \union {"free"}
  /\ task_queue \in [Pools -> Seq(Socks)]
  /\ apc \in [Acceptors -> Labels] /\ sock \in [Acceptors -> Socks \union {"none"}]
  /\ wpc \in [PoolThreads -> {"loop", "wait"} \union Socks]
  /\ fresh \in SUBSET Socks /\ done \in Seq(Socks)

\* my_lock is held from the lock to the end of getinstance, and whoever is
\* past it finds the pool made.
LockHeld ==
  \A a \in Acceptors :
    /\ apc[a] \in {"locked", "create"} <=> my_lock = a
    /\ apc[a] \in {"create", "push", "signal"} => ts = 1

Distinct(s) == \A i, j \in 1 .. Len(s) : s[i] = s[j] => i = j

AtOnePlace(site) ==
  /\ \A s \in fresh : site[s] = <<"fresh", 0>>
  /\ \A a \in Acceptors : apc[a] \in InHand => sock[a] \in Socks /\ site[sock[a]] = <<"hand", a>>
  /\ \A p \in Pools : /\ \A i \in 1 .. Len(task_queue[p]) : site[task_queue[p][i]] = <<"queue", p>>
                      /\ Distinct(task_queue[p])
  /\ \A w \in PoolThreads : wpc[w] \in Socks => site[wpc[w]] = <<"worker", w>>
  /\ \A i \in 1 .. Len(done) : site[done[i]] = <<"done", 0>>
  /\ Distinct(done)

Where == {"fresh", "hand", "queue", "worker", "done"} \X ({0} \union Acceptors \union Pools \union PoolThreads)

PoolInv ==
  /\ PoolTypes /\ LockHeld
  /\ \E site \in [Socks -> Where] : AtOnePlace(site)

(* A connection that moves to the end of a queue, or out of its front,     *)
(* leaves the others where they are.                                       *)
LEMMA DistinctAppend ==
  ASSUME NEW S, NEW s \in Seq(S), NEW x \in S, Distinct(s),
         \A i \in 1 .. Len(s) : s[i] # x
  PROVE  /\ Append(s, x) \in Seq(S) /\ Distinct(Append(s, x))
         /\ Len(Append(s, x)) = Len(s) + 1 /\ Append(s, x)[Len(s) + 1] = x
         /\ \A i \in 1 .. Len(s) : Append(s, x)[i] = s[i]
  BY DEF Distinct

LEMMA DistinctTail ==
  ASSUME NEW S, NEW s \in Seq(S), s # <<>>, Distinct(s)
  PROVE  /\ Tail(s) \in Seq(S) /\ Distinct(Tail(s)) /\ Head(s) \in S
         /\ Len(Tail(s)) = Len(s) - 1
         /\ \A i \in 1 .. Len(Tail(s)) : Tail(s)[i] = s[i + 1] /\ s[i + 1] # Head(s)
  BY DEF Distinct

(* The initial state.                                                      *)
LEMMA PoolInvInit == PoolAssumed /\ PoolInit => PoolInv
<1> SUFFICES ASSUME PoolAssumed, PoolInit PROVE PoolInv
  OBVIOUS
<1>1. PoolTypes
  BY DEF PoolInit, PoolTypes, Labels
<1>2. LockHeld
  BY DEF PoolInit, PoolAssumed, LockHeld
<1>3. [s \in Socks |-> <<"fresh", 0>>] \in [Socks -> Where]
  BY DEF Where
<1>4. AtOnePlace([s \in Socks |-> <<"fresh", 0>>])
  <2>1. \A p \in Pools : task_queue[p] = <<>>
    BY DEF PoolInit
  <2>2. \A w \in PoolThreads : wpc[w] \notin Socks
    BY DEF PoolInit, PoolAssumed
  <2>3. \A a \in Acceptors : apc[a] \notin InHand
    BY DEF PoolInit, InHand
  <2>4. Distinct(<<>>)
    BY DEF Distinct
  <2>5. QED BY <2>1, <2>2, <2>3, <2>4 DEF PoolInit, AtOnePlace
<1>5. QED BY <1>1, <1>2, <1>3, <1>4 DEF PoolInv

(* Every step keeps the lock and moves at most one connection.             *)
LEMMA AcceptKeeps ==
  ASSUME PoolAssumed, PoolInv, NEW a \in Acceptors, Accept(a)
  PROVE  PoolInv'
<1>1. PICK site \in [Socks -> Where] : AtOnePlace(site)
  BY DEF PoolInv
<1>2. PICK s \in fresh : fresh' = fresh \ {s} /\ sock' = [sock EXCEPT ![a] = s]
  BY DEF Accept
<1>3. /\ apc[a] = "accept" /\ apc' = [apc EXCEPT ![a] = "check"]
      /\ UNCHANGED <<ts, my_lock, task_queue, wpc, done>>
  BY DEF Accept, Goto
<1>4. PoolTypes /\ LockHeld
  BY DEF PoolInv
<1>5. PoolTypes'
  BY <1>2, <1>3, <1>4 DEF PoolTypes, Labels
<1>6. LockHeld'
  BY <1>3, <1>4 DEF LockHeld, PoolTypes
<1> DEFINE to == [site EXCEPT ![s] = <<"hand", a>>]
<1>7. s \in Socks /\ site[s] = <<"fresh", 0>> /\ to[s] = <<"hand", a>>
      /\ \A x \in Socks : x # s => to[x] = site[x]
  BY <1>1, <1>4 DEF AtOnePlace, PoolTypes
<1>8. to \in [Socks -> Where]
  BY <1>7 DEF Where
<1> HIDE DEF to
<1>9. AtOnePlace(to)'
  <2>1. \A x \in fresh' : to[x] = <<"fresh", 0>>
    BY <1>1, <1>2, <1>4, <1>7 DEF AtOnePlace, PoolTypes
  <2>2. ASSUME NEW b \in Acceptors, apc'[b] \in InHand
        PROVE  sock'[b] \in Socks /\ to[sock'[b]] = <<"hand", b>>
    <3>1. CASE b = a
      BY <3>1, <1>2, <1>4, <1>7 DEF PoolTypes
    <3>2. CASE b # a
      <4>1. apc'[b] = apc[b] /\ sock'[b] = sock[b]
        BY <3>2, <1>2, <1>3, <1>4 DEF PoolTypes
      <4>2. sock[b] \in Socks /\ site[sock[b]] = <<"hand", b>>
        BY <4>1, <2>2, <1>1 DEF AtOnePlace
      <4>3. QED BY <4>1, <4>2, <1>7
    <3>3. QED BY <3>1, <3>2
  <2>3. ASSUME NEW p \in Pools
        PROVE  /\ \A i \in 1 .. Len(task_queue[p]) : to[task_queue[p][i]] = <<"queue", p>>
               /\ Distinct(task_queue[p])
    <3>1. \A i \in 1 .. Len(task_queue[p]) : task_queue[p][i] \in Socks
      BY <1>4 DEF PoolTypes
    <3>2. QED BY <3>1, <1>1, <1>7 DEF AtOnePlace
  <2>4. \A w \in PoolThreads : wpc[w] \in Socks => to[wpc[w]] = <<"worker", w>>
    BY <1>1, <1>7 DEF AtOnePlace
  <2>5. \A i \in 1 .. Len(done) : to[done[i]] = <<"done", 0>>
    <3>1. \A i \in 1 .. Len(done) : done[i] \in Socks
      BY <1>4 DEF PoolTypes
    <3>2. QED BY <3>1, <1>1, <1>7 DEF AtOnePlace
  <2>6. QED BY <2>1, <2>2, <2>3, <2>4, <2>5, <1>1, <1>3 DEF AtOnePlace
<1>10. QED BY <1>5, <1>6, <1>8, <1>9 DEF PoolInv, Where, Pools, PoolThreads

(* getinstance and the creation of the threads move no connection.         *)
LEMMA getinstanceKeeps ==
  ASSUME PoolAssumed, PoolInv, NEW a \in Acceptors, getinstance(a) \/ ThreadPool_Init(a)
  PROVE  PoolInv'
<1>1. PICK site \in [Socks -> Where] : AtOnePlace(site)
  BY DEF PoolInv
<1>2. PoolTypes /\ LockHeld
  BY DEF PoolInv
<1>3. UNCHANGED <<task_queue, sock, wpc, fresh, done>>
  BY DEF getinstance, Locked, ThreadPool_Init
<1>4. /\ apc[a] \in InHand
      /\ apc' = apc \/ \E l \in InHand : apc' = [apc EXCEPT ![a] = l]
  BY DEF getinstance, Locked, ThreadPool_Init, Goto, InHand
<1>5. PoolTypes'
  <2>1. ts' \in {0, 1}
    BY <1>2 DEF getinstance, Locked, ThreadPool_Init, PoolTypes
  <2>2. my_lock' \in Acceptors \union {"free"}
    BY <1>2 DEF getinstance, Locked, ThreadPool_Init, PoolTypes
  <2>3. apc' \in [Acceptors -> Labels]
    BY <1>2, <1>4 DEF PoolTypes, Labels, InHand
  <2>4. QED BY <2>1, <2>2, <2>3, <1>2, <1>3 DEF PoolTypes
<1>6. LockHeld'
  <2>1. CASE apc[a] = "check" /\ getinstance(a)
    BY <2>1, <1>2 DEF getinstance, Locked, Goto, LockHeld, PoolTypes
  <2>2. CASE apc[a] = "lock" /\ getinstance(a)
    BY <2>2, <1>2 DEF getinstance, Locked, Goto, LockHeld, PoolTypes, PoolAssumed
  <2>3. CASE apc[a] = "locked" /\ getinstance(a)
    BY <2>3, <1>2 DEF getinstance, Locked, Goto, LockHeld, PoolTypes, PoolAssumed
  <2>4. CASE ThreadPool_Init(a)
    BY <2>4, <1>2 DEF ThreadPool_Init, Goto, LockHeld, PoolTypes, PoolAssumed
  <2>5. QED BY <2>1, <2>2, <2>3, <2>4 DEF getinstance, Locked
<1>7. AtOnePlace(site)'
  <2>1. \A b \in Acceptors : apc'[b] \in InHand => apc[b] \in InHand
    BY <1>2, <1>4 DEF PoolTypes
  <2>2. QED BY <2>1, <1>1, <1>3 DEF AtOnePlace
<1>8. QED BY <1>5, <1>6, <1>7 DEF PoolInv, Where, Pools, PoolThreads

LEMMA Push_taskKeeps ==
  ASSUME PoolAssumed, PoolInv, NEW a \in Acceptors, Push_task(a)
  PROVE  PoolInv'
<1>1. PICK site \in [Socks -> Where] : AtOnePlace(site)
  BY DEF PoolInv
<1>2. PoolTypes /\ LockHeld
  BY DEF PoolInv
<1>3. /\ apc[a] = "push" /\ ts = 1
      /\ task_queue' = [task_queue EXCEPT ![1] = Append(@, sock[a])]
      /\ apc' = [apc EXCEPT ![a] = "signal"]
      /\ UNCHANGED <<ts, my_lock, sock, wpc, fresh, done>>
  BY <1>2 DEF Push_task, Goto, LockHeld
<1>4. PICK s \in Socks : s = sock[a] /\ site[s] = <<"hand", a>>
  BY <1>1, <1>3 DEF AtOnePlace, InHand
<1> DEFINE to == [site EXCEPT ![s] = <<"queue", 1>>]
<1>5. 1 \in Pools
  <2>1. Cardinality(Acceptors) \in Nat /\ Cardinality(Acceptors) # 0
    BY FS_CardinalityType, FS_EmptySet DEF PoolAssumed
  <2>2. QED BY <2>1 DEF Pools
<1>6. to[s] = <<"queue", 1>> /\ to \in [Socks -> Where] /\ \A x \in Socks : x # s => to[x] = site[x]
  BY <1>4, <1>5 DEF Where
<1> HIDE DEF to
<1>7. /\ task_queue[1] \in Seq(Socks) /\ Distinct(task_queue[1])
      /\ \A i \in 1 .. Len(task_queue[1]) : task_queue[1][i] # s /\ task_queue[1][i] \in Socks
      /\ task_queue'[1] = Append(task_queue[1], s)
      /\ \A p \in Pools : p # 1 => task_queue'[p] = task_queue[p]
  BY <1>1, <1>2, <1>3, <1>4, <1>5 DEF AtOnePlace, PoolTypes
<1>8. /\ task_queue'[1] \in Seq(Socks) /\ Distinct(task_queue'[1])
      /\ Len(task_queue'[1]) = Len(task_queue[1]) + 1
      /\ task_queue'[1][Len(task_queue[1]) + 1] = s
      /\ \A i \in 1 .. Len(task_queue[1]) : task_queue'[1][i] = task_queue[1][i]
  BY <1>4, <1>7, DistinctAppend
<1>9. PoolTypes'
  BY <1>2, <1>3, <1>4, <1>8 DEF PoolTypes, Labels
<1>10. LockHeld'
  BY <1>2, <1>3 DEF LockHeld, PoolTypes
<1>11. AtOnePlace(to)'
  <2>1. \A x \in fresh : to[x] = <<"fresh", 0>>
    BY <1>1, <1>2, <1>4, <1>6 DEF AtOnePlace, PoolTypes
  <2>2. ASSUME NEW b \in Acceptors, apc'[b] \in InHand
        PROVE  sock[b] \in Socks /\ to[sock[b]] = <<"hand", b>>
    <3>1. b # a /\ apc'[b] = apc[b]
      BY <2>2, <1>2, <1>3 DEF InHand, PoolTypes
    <3>2. QED BY <3>1, <2>2, <1>1, <1>4, <1>6 DEF AtOnePlace
  <2>3. ASSUME NEW p \in Pools
        PROVE  /\ \A i \in 1 .. Len(task_queue'[p]) : to[task_queue'[p][i]] = <<"queue", p>>
               /\ Distinct(task_queue'[p])
    <3>1. CASE p = 1
      <4>1. \A i \in 1 .. Len(task_queue[1]) : to[task_queue[1][i]] = <<"queue", 1>>
        BY <1>1, <1>5, <1>6, <1>7 DEF AtOnePlace
      <4>2. \A i \in 1 .. Len(task_queue'[1]) : i \in 1 .. Len(task_queue[1]) \/ i = Len(task_queue[1]) + 1
        BY <1>7, <1>8
      <4>3. QED BY <3>1, <4>1, <4>2, <1>6, <1>8
    <3>2. CASE p # 1
      <4>1. \A i \in 1 .. Len(task_queue[p]) : task_queue[p][i] \in Socks
        BY <1>2 DEF PoolTypes
      <4>2. task_queue'[p] = task_queue[p]
        BY <3>2, <1>7
      <4>3. \A i \in 1 .. Len(task_queue[p]) : site[task_queue[p][i]] = <<"queue", p>>
        BY <1>1 DEF AtOnePlace
      <4>4. \A i \in 1 .. Len(task_queue[p]) : to[task_queue[p][i]] = <<"queue", p>>
        BY <4>1, <4>3, <1>4, <1>6
      <4>5. QED BY <4>2, <4>4, <1>1 DEF AtOnePlace
    <3>3. QED BY <3>1, <3>2
  <2>4. \A w \in PoolThreads : wpc[w] \in Socks => to[wpc[w]] = <<"worker", w>>
    BY <1>1, <1>4, <1>6 DEF AtOnePlace
  <2>5. \A i \in 1 .. Len(done) : to[done[i]] = <<"done", 0>>
    <3>1. \A i \in 1 .. Len(done) : done[i] \in Socks
      BY <1>2 DEF PoolTypes
    <3>2. QED BY <3>1, <1>1, <1>4, <1>6 DEF AtOnePlace
  <2>6. QED BY <2>1, <2>2, <2>3, <2>4, <2>5, <1>1, <1>3 DEF AtOnePlace
<1>12. QED BY <1>6, <1>9, <1>10, <1>11 DEF PoolInv, Where, Pools, PoolThreads

LEMMA ThreadWakeupKeeps ==
  ASSUME PoolAssumed, PoolInv, NEW a \in Acceptors, ThreadWakeup(a)
  PROVE  PoolInv'
<1>1. PICK site \in [Socks -> Where] : AtOnePlace(site)
  BY DEF PoolInv
<1>2. PoolTypes /\ LockHeld
  BY DEF PoolInv
<1>3. /\ apc[a] = "signal" /\ apc' = [apc EXCEPT ![a] = "accept"]
      /\ sock' = [sock EXCEPT ![a] = "none"]
      /\ UNCHANGED <<ts, my_lock, task_queue, fresh, done>>
      /\ wpc' = wpc \/ \E w \in PoolThreads : wpc[w] = "wait" /\ wpc' = [wpc EXCEPT ![w] = "loop"]
  BY DEF ThreadWakeup, Goto, Waiters
<1>4. PoolTypes'
  BY <1>2, <1>3 DEF PoolTypes, Labels
<1>5. LockHeld'
  BY <1>2, <1>3 DEF LockHeld, PoolTypes
<1>6. AtOnePlace(site)'
  <2>1. \A b \in Acceptors : apc'[b] \in InHand => apc[b] \in InHand /\ sock'[b] = sock[b]
    BY <1>2, <1>3 DEF PoolTypes, InHand
  <2>2. \A w \in PoolThreads : wpc'[w] \in Socks => wpc'[w] = wpc[w]
    BY <1>2, <1>3 DEF PoolTypes, PoolAssumed
  <2>3. QED BY <2>1, <2>2, <1>1, <1>3 DEF AtOnePlace
<1>7. QED BY <1>4, <1>5, <1>6 DEF PoolInv, Where, Pools, PoolThreads

LEMMA PoolSpuriousWakeupKeeps ==
  ASSUME PoolAssumed, PoolInv, NEW w \in PoolThreads,
         PoolSpuriousWakeup(w) \/ (Take(w) /\ task_queue[w[1]] = <<>>)
  PROVE  PoolInv'
<1>1. PICK site \in [Socks -> Where] : AtOnePlace(site)
  BY DEF PoolInv
<1>2. PoolTypes /\ LockHeld
  BY DEF PoolInv
<1>3. /\ UNCHANGED <<ts, my_lock, task_queue, apc, sock, fresh, done>>
      /\ \E l \in {"loop", "wait"} : wpc' = [wpc EXCEPT ![w] = l]
  <2>1. CASE PoolSpuriousWakeup(w)
    BY <2>1 DEF PoolSpuriousWakeup
  <2>2. CASE Take(w) /\ task_queue[w[1]] = <<>>
    BY <2>2 DEF Take
  <2>3. QED BY <2>1, <2>2
<1>4. PoolTypes'
  BY <1>2, <1>3 DEF PoolTypes
<1>5. LockHeld'
  BY <1>2, <1>3 DEF LockHeld
<1>6. AtOnePlace(site)'
  <2>1. \A v \in PoolThreads : wpc'[v] \in Socks => wpc'[v] = wpc[v]
    BY <1>2, <1>3 DEF PoolTypes, PoolAssumed
  <2>2. QED BY <2>1, <1>1, <1>3 DEF AtOnePlace
<1>7. QED BY <1>4, <1>5, <1>6 DEF PoolInv, Where, Pools, PoolThreads

LEMMA TakeKeeps ==
  ASSUME PoolAssumed, PoolInv, NEW w \in PoolThreads, Take(w), task_queue[w[1]] # <<>>
  PROVE  PoolInv'
<1>1. PICK site \in [Socks -> Where] : AtOnePlace(site)
  BY DEF PoolInv
<1>2. PoolTypes /\ LockHeld
  BY DEF PoolInv
<1>3. PICK p \in Pools : p = w[1]
  BY DEF PoolThreads
<1>4. /\ task_queue[p] \in Seq(Socks) /\ task_queue[p] # <<>> /\ Distinct(task_queue[p])
      /\ \A i \in 1 .. Len(task_queue[p]) : site[task_queue[p][i]] = <<"queue", p>>
  BY <1>1, <1>2, <1>3 DEF PoolTypes, AtOnePlace
<1>5. PICK s \in Socks : s = Head(task_queue[p]) /\ site[s] = <<"queue", p>>
  BY <1>4
<1>6. /\ wpc[w] = "loop" /\ wpc' = [wpc EXCEPT ![w] = s]
      /\ task_queue' = [task_queue EXCEPT ![p] = Tail(@)]
      /\ UNCHANGED <<ts, my_lock, apc, sock, fresh, done>>
  BY <1>3, <1>4, <1>5 DEF Take
<1> DEFINE to == [site EXCEPT ![s] = <<"worker", w>>]
<1>7. to[s] = <<"worker", w>> /\ to \in [Socks -> Where] /\ \A x \in Socks : x # s => to[x] = site[x]
  BY <1>5 DEF Where
<1> HIDE DEF to
<1>8. /\ task_queue'[p] = Tail(task_queue[p])
      /\ \A r \in Pools : r # p => task_queue'[r] = task_queue[r]
  BY <1>2, <1>6 DEF PoolTypes
<1>9. /\ task_queue'[p] \in Seq(Socks) /\ Distinct(task_queue'[p])
      /\ Len(task_queue'[p]) = Len(task_queue[p]) - 1
      /\ \A i \in 1 .. Len(task_queue'[p]) : task_queue'[p][i] = task_queue[p][i + 1] /\ task_queue'[p][i] # s
  BY <1>4, <1>5, <1>8, DistinctTail
<1>10. PoolTypes'
  BY <1>2, <1>6, <1>9 DEF PoolTypes
<1>11. LockHeld'
  BY <1>2, <1>6 DEF LockHeld
<1>12. AtOnePlace(to)'
  <2>1. \A x \in fresh : to[x] = <<"fresh", 0>>
    BY <1>1, <1>2, <1>5, <1>7 DEF AtOnePlace, PoolTypes
  <2>2. \A b \in Acceptors : apc[b] \in InHand => sock[b] \in Socks /\ to[sock[b]] = <<"hand", b>>
    BY <1>1, <1>5, <1>7 DEF AtOnePlace
  <2>3. ASSUME NEW r \in Pools
        PROVE  /\ \A i \in 1 .. Len(task_queue'[r]) : to[task_queue'[r][i]] = <<"queue", r>>
               /\ Distinct(task_queue'[r])
    <3>1. \A i \in 1 .. Len(task_queue[r]) : task_queue[r][i] \in Socks
      BY <1>2 DEF PoolTypes
    <3>2. CASE r = p
      <4>1. \A i \in 1 .. Len(task_queue'[p]) : i + 1 \in 1 .. Len(task_queue[p])
        BY <1>4, <1>9
      <4>2. QED BY <3>1, <3>2, <4>1, <1>4, <1>7, <1>9, SMTT(60)
    <3>3. CASE r # p
      BY <3>1, <3>3, <1>1, <1>5, <1>7, <1>8 DEF AtOnePlace
    <3>4. QED BY <3>2, <3>3
  <2>4. ASSUME NEW v \in PoolThreads, wpc'[v] \in Socks PROVE to[wpc'[v]] = <<"worker", v>>
    <3>1. CASE v = w
      BY <3>1, <1>2, <1>6, <1>7 DEF PoolTypes
    <3>2. CASE v # w
      <4>1. wpc'[v] = wpc[v]
        BY <3>2, <1>2, <1>6 DEF PoolTypes
      <4>2. QED BY <4>1, <2>4, <1>1, <1>5, <1>7 DEF AtOnePlace
    <3>3. QED BY <3>1, <3>2
  <2>5. \A i \in 1 .. Len(done) : to[done[i]] = <<"done", 0>>
    <3>1. \A i \in 1 .. Len(done) : done[i] \in Socks
      BY <1>2 DEF PoolTypes
    <3>2. QED BY <3>1, <1>1, <1>5, <1>7 DEF AtOnePlace
  <2>6. QED BY <2>1, <2>2, <2>3, <2>4, <2>5, <1>1, <1>6 DEF AtOnePlace
<1>13. QED BY <1>7, <1>10, <1>11, <1>12 DEF PoolInv, Where, Pools, PoolThreads

LEMMA Process_onKeeps ==
  ASSUME PoolAssumed, PoolInv, NEW w \in PoolThreads, Process_on(w)
  PROVE  PoolInv'
<1>1. PICK site \in [Socks -> Where] : AtOnePlace(site)
  BY DEF PoolInv
<1>2. PoolTypes /\ LockHeld
  BY DEF PoolInv
<1>3. PICK s \in Socks : s = wpc[w] /\ site[s] = <<"worker", w>>
  BY <1>1 DEF Process_on, AtOnePlace
<1>4. /\ done' = Append(done, s) /\ wpc' = [wpc EXCEPT ![w] = "loop"]
      /\ UNCHANGED <<ts, my_lock, task_queue, apc, sock, fresh>>
  BY <1>3 DEF Process_on
<1> DEFINE to == [site EXCEPT ![s] = <<"done", 0>>]
<1>5. to[s] = <<"done", 0>> /\ to \in [Socks -> Where] /\ \A x \in Socks : x # s => to[x] = site[x]
  BY <1>3 DEF Where
<1> HIDE DEF to
<1>6. /\ done \in Seq(Socks) /\ Distinct(done)
      /\ \A i \in 1 .. Len(done) : done[i] \in Socks /\ done[i] # s /\ site[done[i]] = <<"done", 0>>
  <2>1. \A i \in 1 .. Len(done) : done[i] \in Socks
    BY <1>2 DEF PoolTypes
  <2>2. QED BY <2>1, <1>1, <1>2, <1>3 DEF PoolTypes, AtOnePlace
<1>7. /\ done' \in Seq(Socks) /\ Distinct(done') /\ Len(done') = Len(done) + 1
      /\ done'[Len(done) + 1] = s /\ \A i \in 1 .. Len(done) : done'[i] = done[i]
  BY <1>3, <1>4, <1>6, DistinctAppend
<1>8. PoolTypes'
  BY <1>2, <1>4, <1>7 DEF PoolTypes
<1>9. LockHeld'
  BY <1>2, <1>4 DEF LockHeld
<1>10. AtOnePlace(to)'
  <2>1. \A x \in fresh : to[x] = <<"fresh", 0>>
    BY <1>1, <1>2, <1>3, <1>5 DEF AtOnePlace, PoolTypes
  <2>2. \A b \in Acceptors : apc[b] \in InHand => sock[b] \in Socks /\ to[sock[b]] = <<"hand", b>>
    BY <1>1, <1>3, <1>5 DEF AtOnePlace
  <2>3. \A r \in Pools : /\ \A i \in 1 .. Len(task_queue[r]) : to[task_queue[r][i]] = <<"queue", r>>
                         /\ Distinct(task_queue[r])
    <3>1. \A r \in Pools : \A i \in 1 .. Len(task_queue[r]) : task_queue[r][i] \in Socks
      BY <1>2 DEF PoolTypes
    <3>2. QED BY <3>1, <1>1, <1>3, <1>5 DEF AtOnePlace
  <2>4. ASSUME NEW v \in PoolThreads, wpc'[v] \in Socks PROVE to[wpc'[v]] = <<"worker", v>>
    <3>1. v # w /\ wpc'[v] = wpc[v]
      BY <2>4, <1>2, <1>4 DEF PoolTypes, PoolAssumed
    <3>2. QED BY <3>1, <2>4, <1>1, <1>3, <1>5 DEF AtOnePlace
  <2>5. \A i \in 1 .. Len(done') : to[done'[i]] = <<"done", 0>>
    <3>1. \A i \in 1 .. Len(done') : i \in 1 .. Len(done) \/ i = Len(done) + 1
      BY <1>6, <1>7
    <3>2. QED BY <3>1, <1>5, <1>6, <1>7
  <2>6. QED BY <2>1, <2>2, <2>3, <2>4, <2>5, <1>1, <1>4, <1>7 DEF AtOnePlace
<1>11. QED BY <1>5, <1>8, <1>9, <1>10 DEF PoolInv, Where, Pools, PoolThreads

(* The invariant is inductive.                                             *)
LEMMA PoolInvStep == PoolAssumed /\ PoolInv /\ [PoolNext]_poolVars => PoolInv'
<1> SUFFICES ASSUME PoolAssumed, PoolInv, [PoolNext]_poolVars PROVE PoolInv'
  OBVIOUS
<1>1. CASE UNCHANGED poolVars
  <2>1. PoolTypes /\ LockHeld /\ \E site \in [Socks -> Where] : AtOnePlace(site)
    BY DEF PoolInv
  <2>2. PoolTypes' /\ LockHeld'
    BY <1>1, <2>1 DEF poolVars, PoolTypes, LockHeld
  <2>3. PICK site \in [Socks -> Where] : AtOnePlace(site)
    BY <2>1
  <2>4. AtOnePlace(site)'
    BY <1>1, <2>3 DEF poolVars, AtOnePlace
  <2>5. QED BY <2>2, <2>4 DEF PoolInv, Where, Pools, PoolThreads
<1>2. ASSUME NEW a \in Acceptors, Loop(a) PROVE PoolInv'
  BY <1>2, AcceptKeeps, getinstanceKeeps, Push_taskKeeps, ThreadWakeupKeeps DEF Loop
<1>3. ASSUME NEW w \in PoolThreads, ThreadRoutine(w) \/ PoolSpuriousWakeup(w) PROVE PoolInv'
  <2>1. CASE Take(w) /\ task_queue[w[1]] = <<>>
    BY <2>1, PoolSpuriousWakeupKeeps DEF Take
  <2>2. QED
    BY <1>3, <2>1, TakeKeeps, Process_onKeeps, PoolSpuriousWakeupKeeps DEF ThreadRoutine
<1>4. QED BY <1>1, <1>2, <1>3 DEF PoolNext

(* However many threads accept and race for the instance, there is one     *)
(* pool, and no connection is handled twice (getinstance, Push_task,       *)
(* ThreadRoutine).                                                         *)
THEOREM PoolHandlesOnce ==
  ASSUME PoolAssumed
  PROVE  PoolSpec => []HandledOnce
<1>1. PoolInit => PoolInv
  BY PoolInvInit
<1>2. PoolInv /\ [PoolNext]_poolVars => PoolInv'
  BY PoolInvStep
<1>3. PoolInv => HandledOnce
  <2> SUFFICES ASSUME PoolInv PROVE HandledOnce
    OBVIOUS
  <2>1. ts <= 1 /\ done \in Seq(Socks) /\ Distinct(done)
    BY DEF PoolInv, PoolTypes, AtOnePlace
  <2>2. DOMAIN done = 1 .. Len(done)
    BY <2>1
  <2>3. QED BY <2>1, <2>2 DEF HandledOnce, Distinct
<1>4. QED BY <1>1, <1>2, <1>3, PTL DEF PoolSpec

-----------------------------------------------------------------------------
(* What a thread reads.  The text of a request is a line, perhaps a line   *)
(* with its length, a blank line and a body; at says where each begins.    *)

\* The line ends that a peer may use, and numbers.
RequestOk(r) == r.eol \in {<<Lf>>, <<Cr>>, <<Cr, Lf>>} /\ r.body \in Nat

EndAssumed ==
  /\ \A t \in HttpThreads : \A r \in Requests[t] :
       RequestOk(r) /\ r.length \in Int
  /\ FileSize \in Nat /\ PageSize \in Nat /\ MaxOutput \in Nat /\ SizeMod \in Nat \ {0}

LineToken(r) == <<"request", r.method, r.uri>>
LengthToken(r) == <<"length", r.length>>
HeaderTokens(r) == IF r.length = -1 THEN <<>> ELSE <<LengthToken(r)>>
Token(r) == {LineToken(r), LengthToken(r), Cr, Lf} \union {<<"byte", i>> : i \in Nat}

HeaderAt(r) == 2 + Len(r.eol)
BlankAt(r) == IF r.length = -1 THEN HeaderAt(r) ELSE HeaderAt(r) + 1 + Len(r.eol)
BodyAt(r) == BlankAt(r) + Len(r.eol)

\* From position n of a text comes a line end.
EolAt(s, n, eol) == \A i \in 1 .. Len(eol) : s[n - 1 + i] = eol[i]
\* It is not followed by another line feed.
NoLfAfter(s, n) == n <= Len(s) => s[n] # Lf
Plain(x) == x # Cr /\ x # Lf

LEMMA TokensDiffer ==
  ASSUME NEW r
  PROVE  /\ Plain(LineToken(r)) /\ Plain(LengthToken(r)) /\ Cr # Lf
         /\ \A i \in Nat : i \notin r.feeds => Plain(ByteOf(r, i))
<1>1. /\ LineToken(r)[1] = "request" /\ LengthToken(r)[1] = "length" /\ Cr[1] = "CR" /\ Lf[1] = "LF"
      /\ \A i \in Nat : <<"byte", i>>[1] = "byte"
  BY DEF LineToken, LengthToken, Cr, Lf
<1>2. QED BY <1>1 DEF Plain, ByteOf

(* Where the elements of two sequences are when they are joined.           *)
LEMMA Joined ==
  ASSUME NEW S, NEW u \in Seq(S), NEW v \in Seq(S)
  PROVE  /\ u \o v \in Seq(S) /\ Len(u) \in Nat /\ Len(v) \in Nat
         /\ Len(u \o v) = Len(u) + Len(v)
         /\ \A i \in 1 .. Len(u) : (u \o v)[i] = u[i]
         /\ \A i \in 1 .. Len(v) : (u \o v)[Len(u) + i] = v[i]
<1>1. Len(u) \in Nat /\ Len(v) \in Nat
  OBVIOUS
<1> DEFINE w == u \o v
<1>2. /\ w \in Seq(S) /\ Len(w) = Len(u) + Len(v)
      /\ \A i \in 1 .. Len(u) + Len(v) : w[i] = IF i <= Len(u) THEN u[i] ELSE v[i - Len(u)]
  BY ConcatProperties
<1> HIDE DEF w
<1>3. \A i \in 1 .. Len(u) : w[i] = u[i]
  BY <1>1, <1>2
<1>4. ASSUME NEW i \in 1 .. Len(v) PROVE w[Len(u) + i] = v[i]
  <2>1. Len(u) + i \in 1 .. Len(u) + Len(v) /\ ~(Len(u) + i <= Len(u)) /\ Len(u) + i - Len(u) = i
    BY <1>1
  <2>2. QED BY <2>1, <1>2
<1>5. QED BY <1>1, <1>2, <1>3, <1>4 DEF w

(* What stands where in the text of a request.                             *)
LEMMA TextTokens ==
  ASSUME NEW r, r.eol \in {<<Lf>>, <<Cr>>, <<Cr, Lf>>}, r.body \in Nat
  PROVE  LET s == Text(r) IN
         /\ s \in Seq(Token(r)) /\ Len(r.eol) \in {1, 2}
         /\ Len(s) = BodyAt(r) - 1 + r.body
         /\ s[1] = LineToken(r) /\ EolAt(s, 2, r.eol)
         /\ r.length # -1 => s[HeaderAt(r)] = LengthToken(r) /\ EolAt(s, HeaderAt(r) + 1, r.eol)
         /\ EolAt(s, BlankAt(r), r.eol)
         /\ \A i \in 1 .. r.body : s[BodyAt(r) - 1 + i] = ByteOf(r, i)
<1> DEFINE S == Token(r)
           e == r.eol
           l == Len(e)
           a == <<LineToken(r)>>
           h == IF r.length = -1 THEN <<>> ELSE <<LengthToken(r)>> \o e
           b == Body(r, r.body)
<1>1. e \in Seq(S) /\ l \in {1, 2} /\ a \in Seq(S) /\ Len(a) = 1 /\ a[1] = LineToken(r)
  <2>1. Cr \in S /\ Lf \in S /\ LineToken(r) \in S
    BY DEF Token
  <2> HIDE DEF S
  <2>2. a \in Seq(S) /\ Len(a) = 1 /\ a[1] = LineToken(r)
    BY <2>1
  <2>3. CASE e = <<Lf>>
    BY <2>1, <2>2, <2>3
  <2>4. CASE e = <<Cr>>
    BY <2>1, <2>2, <2>4
  <2>5. CASE e = <<Cr, Lf>>
    BY <2>1, <2>2, <2>5
  <2>6. QED BY <2>3, <2>4, <2>5
<1>2. b \in Seq(S) /\ Len(b) = r.body /\ \A i \in 1 .. r.body : b[i] = ByteOf(r, i)
  <2>1. \A i \in 1 .. r.body : ByteOf(r, i) \in S
    BY DEF Token, ByteOf
  <2>2. QED BY <2>1 DEF Body
<1>3. /\ h \in Seq(S)
      /\ Len(h) = BlankAt(r) - HeaderAt(r)
      /\ r.length # -1 => h[1] = LengthToken(r) /\ \A i \in 1 .. l : h[1 + i] = e[i]
  <2>1. CASE r.length = -1
    BY <2>1, <1>1 DEF BlankAt, HeaderAt
  <2>2. CASE r.length # -1
    <3>1. <<LengthToken(r)>> \in Seq(S) /\ Len(<<LengthToken(r)>>) = 1
      BY DEF Token
    <3>2. /\ <<LengthToken(r)>> \o e \in Seq(S) /\ Len(<<LengthToken(r)>> \o e) = 1 + l
          /\ (<<LengthToken(r)>> \o e)[1] = LengthToken(r)
          /\ \A i \in 1 .. l : (<<LengthToken(r)>> \o e)[1 + i] = e[i]
      BY <3>1, <1>1, Joined
    <3>3. QED BY <2>2, <3>2, <1>1 DEF BlankAt, HeaderAt
  <2>3. QED BY <2>1, <2>2
<1>4. Text(r) = a \o e \o h \o e \o b
  BY DEF Text, LineToken, LengthToken
<1> HIDE DEF a, e, h, b, S
<1> DEFINE s1 == a \o e
           s2 == s1 \o h
           s3 == s2 \o e
<1>5. /\ s1 \in Seq(S) /\ Len(s1) = 1 + l /\ s1[1] = LineToken(r) /\ \A i \in 1 .. l : s1[1 + i] = e[i]
  <2>1. a \in Seq(S) /\ e \in Seq(S) /\ Len(e) = l
    BY <1>1
  <2>2. /\ s1 \in Seq(S) /\ Len(s1) = Len(a) + Len(e)
        /\ \A i \in 1 .. Len(a) : s1[i] = a[i]
        /\ \A i \in 1 .. Len(e) : s1[Len(a) + i] = e[i]
    BY <2>1, Joined
  <2> HIDE DEF s1
  <2>3. 1 \in 1 .. Len(a) /\ Len(a) = 1 /\ a[1] = LineToken(r)
    BY <1>1
  <2>4. s1[1] = LineToken(r)
    BY <2>2, <2>3
  <2>5. QED BY <2>1, <2>2, <2>3, <2>4
<1> HIDE DEF s1
<1>6. /\ s2 \in Seq(S) /\ Len(s2) = Len(s1) + Len(h) /\ \A i \in 1 .. Len(s1) : s2[i] = s1[i]
      /\ \A i \in 1 .. Len(h) : s2[Len(s1) + i] = h[i]
  <2>1. s1 \in Seq(S) /\ h \in Seq(S)
    BY <1>3, <1>5
  <2>2. QED BY <2>1, Joined
<1> HIDE DEF s2
<1>7. /\ s3 \in Seq(S) /\ Len(s3) = Len(s2) + l /\ \A i \in 1 .. Len(s2) : s3[i] = s2[i]
      /\ \A i \in 1 .. l : s3[Len(s2) + i] = e[i]
  <2>1. s2 \in Seq(S) /\ e \in Seq(S)
    BY <1>1, <1>6
  <2>2. QED BY <2>1, Joined
<1> HIDE DEF s3
<1> DEFINE s == s3 \o b
<1>8. /\ s \in Seq(S) /\ Len(s) = Len(s3) + r.body /\ \A i \in 1 .. Len(s3) : s[i] = s3[i]
      /\ \A i \in 1 .. r.body : s[Len(s3) + i] = b[i]
  <2>1. s3 \in Seq(S) /\ b \in Seq(S) /\ Len(b) = r.body
    BY <1>2, <1>7
  <2>2. QED BY <2>1, Joined
<1>9. Text(r) = s
  BY <1>4 DEF s1, s2, s3
<1> HIDE DEF s
<1>10. /\ Len(s1) = HeaderAt(r) - 1 /\ Len(s2) = BlankAt(r) - 1 /\ Len(s3) = BodyAt(r) - 1
       /\ Len(s1) \in Nat /\ Len(s2) \in Nat /\ Len(s3) \in Nat /\ Len(h) \in Nat
       /\ HeaderAt(r) \in Nat /\ BlankAt(r) \in Nat
       /\ r.length # -1 => Len(h) = 1 + l
  <2>1. l \in Nat /\ HeaderAt(r) = 2 + l /\ BlankAt(r) = (IF r.length = -1 THEN 2 + l ELSE 3 + 2 * l)
    BY <1>1 DEF HeaderAt, BlankAt, e
  <2>2. BodyAt(r) = BlankAt(r) + l
    BY DEF BodyAt, e
  <2>3. Len(h) = BlankAt(r) - HeaderAt(r) /\ Len(s1) = 1 + l
    BY <1>3, <1>5
  <2>4. Len(s2) = Len(s1) + Len(h) /\ Len(s3) = Len(s2) + l
    BY <1>6, <1>7
  <2>5. CASE r.length = -1
    BY <2>1, <2>2, <2>3, <2>4, <2>5
  <2>6. CASE r.length # -1
    BY <2>1, <2>2, <2>3, <2>4, <2>6
  <2>7. QED BY <2>5, <2>6
<1>11. s[1] = LineToken(r)
  <2>1. /\ l \in Nat /\ Len(s1) = 1 + l /\ Len(s2) = Len(s1) + Len(h) /\ Len(h) \in Nat
        /\ Len(s3) = Len(s2) + l
    BY <1>1, <1>5, <1>6, <1>7, <1>10
  <2>2. 1 \in 1 .. Len(s1) /\ 1 \in 1 .. Len(s2) /\ 1 \in 1 .. Len(s3)
    BY <2>1
  <2>3. s[1] = s3[1] /\ s3[1] = s2[1] /\ s2[1] = s1[1] /\ s1[1] = LineToken(r)
    BY <2>2, <1>5, <1>6, <1>7, <1>8
  <2>4. QED BY <2>3
<1>12. EolAt(s, 2, e)
  <2>1. ASSUME NEW i \in 1 .. l PROVE s[1 + i] = e[i]
    <3>1. 1 + i \in 1 .. Len(s1) /\ 1 + i \in 1 .. Len(s2) /\ 1 + i \in 1 .. Len(s3)
      BY <1>1, <1>5, <1>6, <1>7, <1>10, SMTT(60)
    <3>2. QED BY <3>1, <1>5, <1>6, <1>7, <1>8
  <2>2. \A i \in 1 .. l : 2 - 1 + i = 1 + i
    BY <1>1
  <2>3. QED BY <2>1, <2>2 DEF EolAt
<1>13. ASSUME r.length # -1
       PROVE  s[HeaderAt(r)] = LengthToken(r) /\ EolAt(s, HeaderAt(r) + 1, e)
  <2>1. ASSUME NEW i \in 1 .. 1 + l PROVE s[Len(s1) + i] = h[i]
    <3>1. i \in 1 .. Len(h) /\ Len(s1) + i \in 1 .. Len(s2) /\ Len(s1) + i \in 1 .. Len(s3)
      BY <1>1, <1>5, <1>6, <1>7, <1>10, <1>13, SMTT(60)
    <3>2. QED BY <3>1, <1>6, <1>7, <1>8
  <2>2. HeaderAt(r) = Len(s1) + 1 /\ Len(s1) \in Nat /\ 1 \in 1 .. 1 + l
    BY <1>1, <1>5, <1>10
  <2>3. s[HeaderAt(r)] = LengthToken(r)
    BY <2>1, <2>2, <1>3, <1>13
  <2>4. ASSUME NEW i \in 1 .. l PROVE s[HeaderAt(r) + 1 - 1 + i] = e[i]
    <3>1. 1 + i \in 1 .. 1 + l /\ HeaderAt(r) + 1 - 1 + i = Len(s1) + (1 + i)
      BY <2>2, <1>1
    <3>2. s[Len(s1) + (1 + i)] = h[1 + i]
      BY <3>1, <2>1
    <3>3. QED BY <3>1, <3>2, <1>3, <1>13
  <2>5. QED BY <2>2, <2>3, <2>4 DEF EolAt
<1>14. EolAt(s, BlankAt(r), e)
  <2>1. ASSUME NEW i \in 1 .. l PROVE s[BlankAt(r) - 1 + i] = e[i]
    <3>1. BlankAt(r) - 1 + i = Len(s2) + i /\ Len(s2) + i \in 1 .. Len(s3)
      <4>1. l \in Nat /\ Len(s3) = Len(s2) + l /\ Len(s2) = BlankAt(r) - 1 /\ Len(s2) \in Nat
        BY <1>1, <1>7, <1>10
      <4>2. QED BY <4>1
    <3>2. QED BY <3>1, <1>7, <1>8
  <2>2. QED BY <2>1 DEF EolAt
<1>15. \A i \in 1 .. r.body : s[BodyAt(r) - 1 + i] = ByteOf(r, i)
  BY <1>2, <1>8, <1>10
<1>16. QED
  BY <1>1, <1>8, <1>9, <1>10, <1>11, <1>12, <1>13, <1>14, <1>15 DEF e, S

(* A part of a part.                                                       *)
LEMMA PartOf ==
  ASSUME NEW S, NEW s \in Seq(S), NEW k \in Nat \ {0}, NEW c \in 0 .. Len(s)
  PROVE  /\ SubSeq(s, k, c) \in Seq(S)
         /\ Len(SubSeq(s, k, c)) = IF k <= c THEN c - k + 1 ELSE 0
         /\ Len(SubSeq(s, k, c)) \in Nat
         /\ \A i \in 1 .. Len(SubSeq(s, k, c)) : SubSeq(s, k, c)[i] = s[k - 1 + i]
<1>1. Len(s) \in Nat /\ \A i \in 1 .. Len(s) : s[i] \in S
  OBVIOUS
<1>2. \A i \in k .. c : s[i] \in S
  BY <1>1
<1> DEFINE p == SubSeq(s, k, c)
<1>3. /\ p \in Seq(S) /\ Len(p) = IF k <= c THEN c - k + 1 ELSE 0
      /\ \A i \in 1 .. c - k + 1 : p[i] = s[k + i - 1]
  BY <1>1, <1>2, SubSeqProperties
<1> HIDE DEF p
<1>4. Len(p) \in Nat
  BY <1>3
<1>5. ASSUME NEW i \in 1 .. Len(p) PROVE p[i] = s[k - 1 + i]
  <2>1. i \in 1 .. c - k + 1 /\ k + i - 1 = k - 1 + i
    BY <1>1, <1>3, <1>4
  <2>2. QED BY <2>1, <1>3
<1>6. QED BY <1>3, <1>4, <1>5 DEF p

LEMMA PartOfPart ==
  ASSUME NEW S, NEW s \in Seq(S), NEW k \in Nat \ {0}, NEW c \in 0 .. Len(s),
         NEW a \in Nat \ {0}, NEW b \in 0 .. Len(SubSeq(s, k, c)), k - 1 + b <= Len(s)
  PROVE  SubSeq(SubSeq(s, k, c), a, b) = SubSeq(s, k - 1 + a, k - 1 + b)
<1> DEFINE p == SubSeq(s, k, c)
           qu == SubSeq(p, a, b)
           r == SubSeq(s, k - 1 + a, k - 1 + b)
<1>1. p \in Seq(S) /\ Len(p) \in Nat /\ \A i \in 1 .. Len(p) : p[i] = s[k - 1 + i]
  BY PartOf
<1>2. Len(s) \in Nat /\ b \in 0 .. Len(p) /\ k - 1 + a \in Nat \ {0} /\ k - 1 + b \in 0 .. Len(s)
  OBVIOUS
<1> HIDE DEF p
<1>3. /\ qu \in Seq(S) /\ Len(qu) = IF a <= b THEN b - a + 1 ELSE 0
      /\ Len(qu) \in Nat /\ \A i \in 1 .. Len(qu) : qu[i] = p[a - 1 + i]
  BY <1>1, <1>2, PartOf
<1>4. /\ r \in Seq(S) /\ Len(r) = IF k - 1 + a <= k - 1 + b THEN (k - 1 + b) - (k - 1 + a) + 1 ELSE 0
      /\ \A i \in 1 .. Len(r) : r[i] = s[(k - 1 + a) - 1 + i]
  BY <1>2, PartOf
<1> HIDE DEF qu, r
<1>5. Len(qu) = Len(r)
  BY <1>2, <1>3, <1>4
<1>6. ASSUME NEW i \in 1 .. Len(qu) PROVE qu[i] = r[i]
  <2>1. a - 1 + i \in 1 .. Len(p) /\ k - 1 + (a - 1 + i) = (k - 1 + a) - 1 + i
    <3>1. i \in Nat /\ i >= 1 /\ i <= Len(qu) /\ Len(qu) = IF a <= b THEN b - a + 1 ELSE 0
      BY <1>3
    <3>2. Len(p) \in Nat /\ b \in Nat /\ b <= Len(p) /\ a \in Nat /\ a >= 1 /\ k \in Nat
      BY <1>1, <1>2
    <3>3. QED BY <3>1, <3>2
  <2>2. QED BY <2>1, <1>1, <1>3, <1>4, <1>5
<1>7. qu = r
  BY <1>3, <1>4, <1>5, <1>6, SeqEqual
<1>8. QED BY <1>7 DEF p, qu, r

\* What ReadLine returns of a text from k, when the input ends after c and
\* the line before n.
ReadsTo(read, s, k, n, c, eol) ==
  /\ c < n => /\ read.line = SubSeq(s, k, c) /\ read.rest = <<>>
              /\ read.size = Len(SubSeq(s, k, c))
  /\ c >= n => /\ read.line = SubSeq(s, k, n - 1) /\ read.size > 0
               /\ read.rest = SubSeq(s, n + Len(eol), c)

(* ReadLine finds the line, whatever the line end, or all of an input that *)
(* ends before it.                                                         *)
LEMMA ReadLineAt ==
  ASSUME NEW S, NEW s \in Seq(S), NEW eol \in {<<Lf>>, <<Cr>>, <<Cr, Lf>>},
         NEW k \in Nat \ {0}, NEW n \in Nat, k <= n, NEW c \in 0 .. Len(s),
         \A j \in k .. n - 1 : Plain(s[j]), EolAt(s, n, eol), n + Len(eol) - 1 <= Len(s),
         eol = <<Cr>> => NoLfAfter(s, n + 1)
  PROVE  ReadsTo(ReadLine(SubSeq(s, k, c)), s, k, n, c, eol)
<1> DEFINE in == SubSeq(s, k, c)
           l == Len(in)
           m == n - k + 1
<1>1. /\ in \in Seq(S) /\ l = (IF k <= c THEN c - k + 1 ELSE 0) /\ l \in Nat
      /\ \A i \in 1 .. l : in[i] = s[k - 1 + i]
  BY PartOf
<1>2. Len(s) \in Nat /\ DOMAIN in = 1 .. l /\ m \in Nat \ {0} /\ k - 1 + m = n
  BY <1>1
<1>3. ASSUME c < n
      PROVE  ReadLine(in) = [line |-> in, rest |-> <<>>, size |-> l]
  <2>1. ASSUME NEW i \in DOMAIN in PROVE in[i] \notin {Cr, Lf}
    <3>1. i \in 1 .. l /\ k - 1 + i \in k .. n - 1
      BY <1>1, <1>2, <1>3
    <3>2. QED BY <3>1, <1>1 DEF Plain
  <2>2. Ends(in) = {}
    BY <2>1 DEF Ends
  <2>3. QED BY <2>2 DEF ReadLine
<1>4. ASSUME c >= n
      PROVE  /\ ReadLine(in).line = SubSeq(s, k, n - 1) /\ ReadLine(in).size > 0
             /\ ReadLine(in).rest = SubSeq(s, n + Len(eol), c)
  <2>1. l = c - k + 1 /\ m \in 1 .. l /\ c \in Nat /\ k <= c
    BY <1>1, <1>2, <1>4
  <2>2. in[m] = s[n] /\ s[n] = eol[1]
    <3>1. Len(eol) \in {1, 2} /\ n - 1 + 1 = n
      OBVIOUS
    <3>2. QED BY <3>1, <2>1, <1>1, <1>2 DEF EolAt
  <2>3. m \in Ends(in)
    BY <2>1, <2>2, <1>2, SMTT(60) DEF Ends
  <2>4. ASSUME NEW j \in Ends(in) PROVE m <= j
    <3>1. j \in 1 .. l /\ in[j] = s[k - 1 + j] /\ ~Plain(s[k - 1 + j])
      BY <1>1, <1>2 DEF Ends, Plain
    <3>2. ~(k - 1 + j \in k .. n - 1)
      BY <3>1
    <3>3. j \in Nat \ {0} /\ k \in Nat /\ n \in Nat /\ m = n - k + 1
      BY <3>1, <1>1
    <3> HIDE DEF m
    <3>4. QED BY <3>2, <3>3
  <2>5. \A j \in Ends(in) : j \in Nat
    BY <1>2 DEF Ends
  <2>6. m = CHOOSE i \in Ends(in) : \A j \in Ends(in) : i <= j
    <3>1. \A i \in Ends(in) : (\A j \in Ends(in) : i <= j) => i = m
      BY <2>3, <2>4, <2>5, <1>2
    <3>2. QED BY <3>1, <2>3, <2>4
  <2> HIDE DEF in, l, m
  <2>7. /\ ReadLine(in).line = SubSeq(in, 1, m - 1) /\ ReadLine(in).size = m
        /\ in[m] = Cr /\ m < l /\ in[m + 1] = Lf => ReadLine(in).rest = SubSeq(in, m + 2, l)
        /\ ~(in[m] = Cr /\ m < l /\ in[m + 1] = Lf) => ReadLine(in).rest = SubSeq(in, m + 1, l)
    BY <2>3, <2>6 DEF ReadLine, l
  <2>8. SubSeq(in, 1, m - 1) = SubSeq(s, k, n - 1)
    <3>1. m - 1 \in 0 .. Len(SubSeq(s, k, c)) /\ k - 1 + (m - 1) <= Len(s)
      BY <2>1, <1>2 DEF in, l
    <3>2. SubSeq(SubSeq(s, k, c), 1, m - 1) = SubSeq(s, k - 1 + 1, k - 1 + (m - 1))
      BY <3>1, PartOfPart
    <3>3. k - 1 + 1 = k /\ k - 1 + (m - 1) = n - 1
      BY <1>2, <2>1
    <3>4. QED BY <3>2, <3>3 DEF in
  <2>9. ASSUME NEW d \in {1, 2} PROVE SubSeq(in, m + d, l) = SubSeq(s, n + d, c)
    <3>1. l \in 0 .. Len(SubSeq(s, k, c)) /\ k - 1 + l <= Len(s)
      BY <2>1, <1>1, <1>2 DEF in, l
    <3> DEFINE e == m + d
    <3>2. e \in Nat \ {0}
      BY <1>2
    <3> HIDE DEF e
    <3>5. SubSeq(SubSeq(s, k, c), e, l) = SubSeq(s, k - 1 + e, k - 1 + l)
      BY <3>1, <3>2, PartOfPart
    <3>3. k - 1 + (m + d) = n + d /\ k - 1 + l = c
      BY <1>2, <2>1
    <3>4. QED BY <3>5, <3>3 DEF in, e
  <2>10. m < l => in[m + 1] = s[n + 1] /\ n + 1 <= Len(s)
    <3>1. m < l => m + 1 \in 1 .. l /\ k - 1 + (m + 1) = n + 1 /\ n + 1 <= c
      BY <2>1, <1>2
    <3>2. QED BY <3>1, <1>1, <1>2 DEF in, l
  <2>11. ReadLine(in).rest = SubSeq(s, n + Len(eol), c)
    <3>1. Cr # Lf
      BY TokensDiffer
    <3>2. CASE eol = <<Lf>>
      <4>1. in[m] = Lf /\ Len(eol) = 1
        BY <3>2, <2>2
      <4>2. QED BY <4>1, <3>1, <2>7, <2>9
    <3>3. CASE eol = <<Cr>>
      <4>1. Len(eol) = 1 /\ ~(m < l /\ in[m + 1] = Lf)
        BY <3>3, <2>10 DEF NoLfAfter
      <4>2. QED BY <4>1, <2>7, <2>9
    <3>4. CASE eol = <<Cr, Lf>>
      <4>1. in[m] = Cr /\ Len(eol) = 2 /\ s[n + 1] = Lf
        <5>1. Len(eol) = 2 /\ eol[1] = Cr /\ eol[2] = Lf /\ n - 1 + 2 = n + 1
          BY <3>4
        <5>2. QED BY <5>1, <2>2 DEF EolAt
      <4>2. CASE m < l
        BY <4>1, <4>2, <2>7, <2>9, <2>10
      <4>3. CASE ~(m < l)
        <5>1. c = n
          BY <4>3, <2>1, <1>2
        <5>2. SubSeq(s, n + 1, c) = <<>> /\ SubSeq(s, n + 2, c) = <<>>
          BY <5>1, SubSeqEmpty
        <5>3. QED BY <4>1, <4>3, <5>2, <2>7, <2>9
      <4>4. QED BY <4>2, <4>3
    <3>5. QED BY <3>2, <3>3, <3>4
  <2>12. m > 0
    BY <1>2 DEF m
  <2>13. QED BY <2>7, <2>8, <2>11, <2>12
<1>5. QED BY <1>3, <1>4, <1>2 DEF ReadsTo

(* Where the lines of a text begin, as numbers.                            *)
LEMMA Positions ==
  ASSUME NEW r, RequestOk(r)
  PROVE  LET l == Len(r.eol) IN
         /\ l \in {1, 2} /\ HeaderAt(r) = 2 + l
         /\ r.length = -1 => BlankAt(r) = 2 + l
         /\ r.length # -1 => BlankAt(r) = 3 + l + l
         /\ BodyAt(r) = BlankAt(r) + l /\ Len(Text(r)) = BodyAt(r) - 1 + r.body
         /\ r.eol = <<Cr>> => l = 1 /\ r.eol[1] = Cr
<1>1. Len(r.eol) \in {1, 2} /\ Len(Text(r)) = BodyAt(r) - 1 + r.body
  BY TextTokens DEF RequestOk
<1>2. QED BY <1>1 DEF HeaderAt, BlankAt, BodyAt

LEMMA PositionTypes ==
  ASSUME NEW r, RequestOk(r)
  PROVE  HeaderAt(r) \in Nat \ {0} /\ BlankAt(r) \in Nat \ {0} /\ BodyAt(r) \in Nat \ {0}
<1>1. /\ Len(r.eol) \in {1, 2} /\ HeaderAt(r) = 2 + Len(r.eol)
      /\ r.length = -1 => BlankAt(r) = 2 + Len(r.eol)
      /\ r.length # -1 => BlankAt(r) = 3 + Len(r.eol) + Len(r.eol)
      /\ BodyAt(r) = BlankAt(r) + Len(r.eol)
  BY Positions
<1>2. QED BY <1>1

(* After a line that ends with a CR alone no LF follows, unless the body   *)
(* begins with one.                                                        *)
LEMMA NoStrayLf ==
  ASSUME NEW r, RequestOk(r), r.eol = <<Cr>>
  PROVE  /\ NoLfAfter(Text(r), 3)
         /\ r.length # -1 => NoLfAfter(Text(r), HeaderAt(r) + 2)
         /\ 1 \notin r.feeds \/ r.body = 0 => NoLfAfter(Text(r), BlankAt(r) + 1)
<1> DEFINE s == Text(r)
<1>1. /\ s[HeaderAt(r)] = LengthToken(r) \/ r.length = -1
      /\ EolAt(s, BlankAt(r), <<Cr>>)
      /\ \A i \in 1 .. r.body : s[BodyAt(r) - 1 + i] = ByteOf(r, i)
  BY TextTokens DEF RequestOk
<1>2. HeaderAt(r) = 3 /\ BlankAt(r) \in {3, 5} /\ BodyAt(r) = BlankAt(r) + 1
      /\ (r.length = -1 => BlankAt(r) = 3) /\ (r.length # -1 => BlankAt(r) = 5)
      /\ Len(s) = BlankAt(r) + r.body
  <2>1. /\ Len(r.eol) = 1 /\ HeaderAt(r) = 2 + Len(r.eol) /\ r.body \in Nat
        /\ r.length = -1 => BlankAt(r) = 2 + Len(r.eol)
        /\ r.length # -1 => BlankAt(r) = 3 + Len(r.eol) + Len(r.eol)
        /\ BodyAt(r) = BlankAt(r) + Len(r.eol) /\ Len(s) = BodyAt(r) - 1 + r.body
    BY Positions DEF RequestOk
  <2> HIDE DEF s
  <2>2. CASE r.length = -1
    BY <2>1, <2>2
  <2>3. CASE r.length # -1
    BY <2>1, <2>3
  <2>4. QED BY <2>2, <2>3
<1>3. Plain(LengthToken(r)) /\ Cr # Lf /\ \A i \in Nat : i \notin r.feeds => Plain(ByteOf(r, i))
  BY TokensDiffer
<1>4. s[BlankAt(r)] = Cr
  <2>1. BlankAt(r) - 1 + 1 = BlankAt(r) /\ 1 \in 1 .. Len(<<Cr>>) /\ <<Cr>>[1] = Cr
    BY <1>2
  <2>2. QED BY <1>1, <2>1 DEF EolAt
<1> HIDE DEF s
<1>5. NoLfAfter(s, 3)
  BY <1>1, <1>2, <1>3, <1>4 DEF NoLfAfter, Plain
<1>6. r.length # -1 => NoLfAfter(s, HeaderAt(r) + 2)
  BY <1>2, <1>3, <1>4 DEF NoLfAfter
<1>7. ASSUME 1 \notin r.feeds \/ r.body = 0 PROVE NoLfAfter(s, BlankAt(r) + 1)
  <2>1. CASE r.body = 0
    BY <2>1, <1>2 DEF NoLfAfter
  <2>2. CASE r.body # 0
    <3>1. 1 \in 1 .. r.body /\ BodyAt(r) - 1 + 1 = BlankAt(r) + 1
      BY <2>2, <1>2 DEF RequestOk
    <3>2. s[BlankAt(r) + 1] = ByteOf(r, 1)
      BY <1>1, <3>1 DEF s
    <3>3. Plain(ByteOf(r, 1))
      BY <1>3, <1>7, <2>2
    <3>4. QED BY <3>2, <3>3 DEF NoLfAfter, Plain
  <2>3. QED BY <2>1, <2>2
<1>8. QED BY <1>5, <1>6, <1>7 DEF s

(* A part of one element, and none.                                        *)
LEMMA OneElement ==
  ASSUME NEW S, NEW s \in Seq(S), NEW k \in 1 .. Len(s)
  PROVE  SubSeq(s, k, k) = <<s[k]>> /\ Len(SubSeq(s, k, k)) = 1
<1>1. Len(s) \in Nat /\ k \in Nat \ {0} /\ k \in 0 .. Len(s) /\ s[k] \in S
  OBVIOUS
<1> DEFINE p == SubSeq(s, k, k)
<1>2. p \in Seq(S) /\ Len(p) = (IF k <= k THEN k - k + 1 ELSE 0) /\ \A i \in 1 .. Len(p) : p[i] = s[k - 1 + i]
  BY <1>1, PartOf
<1> HIDE DEF p
<1>3. Len(p) = 1 /\ p[1] = s[k]
  <2>1. k <= k /\ k - k + 1 = 1 /\ k - 1 + 1 = k
    BY <1>1
  <2>2. QED BY <2>1, <1>2
<1>4. p = <<s[k]>>
  BY <1>1, <1>2, <1>3, SeqEqual
<1>5. QED BY <1>3, <1>4 DEF p

\* The input was at its end, or a whole line was read; then the input ended
\* with it or goes on.
ReadsOne(read, line, rest) ==
  \/ read.size = 0
  \/ read.size > 0 /\ read.line = line /\ (read.rest = <<>> \/ read.rest = rest)

(* A line of one token: read whole, or not at all.                         *)
LEMMA OneTokenLine ==
  ASSUME NEW S, NEW s \in Seq(S), NEW eol \in {<<Lf>>, <<Cr>>, <<Cr, Lf>>},
         NEW k \in Nat \ {0}, NEW c \in 0 .. Len(s),
         Plain(s[k]), EolAt(s, k + 1, eol), k + Len(eol) <= Len(s),
         eol = <<Cr>> => NoLfAfter(s, k + 2)
  PROVE  ReadsOne(ReadLine(SubSeq(s, k, c)), <<s[k]>>, SubSeq(s, k + 1 + Len(eol), c))
<1> DEFINE n == k + 1
           read == ReadLine(SubSeq(s, k, c))
<1>0. Len(s) \in Nat /\ Len(eol) \in Nat /\ n \in Nat /\ k <= n
  OBVIOUS
<1>1. /\ \A j \in k .. n - 1 : Plain(s[j])
      /\ n + Len(eol) - 1 <= Len(s) /\ n + 1 = k + 2 /\ EolAt(s, n, eol)
      /\ eol = <<Cr>> => NoLfAfter(s, n + 1)
  <2>1. \A j \in k .. n - 1 : j = k
    OBVIOUS
  <2>2. n + 1 = k + 2 /\ n + Len(eol) - 1 = k + Len(eol)
    BY <1>0
  <2>3. QED BY <2>1, <2>2
<1> HIDE DEF n
<1>2. ReadsTo(read, s, k, n, c, eol)
  BY <1>0, <1>1, ReadLineAt
<1> HIDE DEF read
<1>3. k \in 1 .. Len(s) /\ n - 1 = k /\ n = k + 1
  BY <1>0 DEF n
<1>4. SubSeq(s, k, k) = <<s[k]>> /\ Len(SubSeq(s, k, k)) = 1
  BY <1>3, OneElement
<1>5. CASE c < k
  <2>1. SubSeq(s, k, c) = <<>>
    BY <1>5, SubSeqEmpty
  <2>2. read.size = 0
    BY <2>1, <1>2, <1>3, <1>5 DEF ReadsTo
  <2>3. QED BY <2>2 DEF read, ReadsOne
<1>6. CASE c = k
  <2>1. read.line = <<s[k]>> /\ read.size = 1 /\ read.rest = <<>>
    BY <1>2, <1>3, <1>4, <1>6 DEF ReadsTo
  <2>2. QED BY <2>1 DEF read, ReadsOne
<1>7. CASE c > k
  <2>1. c >= n /\ k + 1 + Len(eol) = n + Len(eol)
    BY <1>3, <1>7, <1>0
  <2>2. read.line = <<s[k]>> /\ read.size > 0 /\ read.rest = SubSeq(s, k + 1 + Len(eol), c)
    BY <2>1, <1>2, <1>3, <1>4 DEF ReadsTo
  <2>3. QED BY <2>2 DEF read, ReadsOne
<1>8. QED BY <1>3, <1>5, <1>6, <1>7

(* The three lines of a request, from an input that ends anywhere.         *)
LEMMA RequestLineRead ==
  ASSUME NEW r, RequestOk(r), NEW c \in 0 .. Len(Text(r))
  PROVE  ReadsOne(ReadLine(SubSeq(Text(r), 1, c)), <<LineToken(r)>>, SubSeq(Text(r), HeaderAt(r), c))
<1> DEFINE s == Text(r)
<1>1. /\ s \in Seq(Token(r)) /\ s[1] = LineToken(r) /\ EolAt(s, 2, r.eol)
      /\ r.eol \in {<<Lf>>, <<Cr>>, <<Cr, Lf>>}
  BY TextTokens DEF RequestOk
<1>2. /\ Len(r.eol) \in {1, 2} /\ 1 + 1 + Len(r.eol) = HeaderAt(r) /\ 1 + Len(r.eol) <= Len(s)
  <2>1. HeaderAt(r) \in Nat /\ BlankAt(r) \in Nat /\ HeaderAt(r) <= BlankAt(r)
    BY Positions
  <2>2. /\ Len(r.eol) \in {1, 2} /\ HeaderAt(r) = 2 + Len(r.eol) /\ BodyAt(r) = BlankAt(r) + Len(r.eol)
        /\ Len(s) = BodyAt(r) - 1 + r.body /\ r.body \in Nat
    BY Positions DEF RequestOk
  <2> HIDE DEF s
  <2>3. QED BY <2>1, <2>2
<1>3. r.eol = <<Cr>> => NoLfAfter(s, 1 + 2)
  BY NoStrayLf
<1>4. Plain(s[1])
  BY <1>1, TokensDiffer
<1>5. EolAt(s, 1 + 1, r.eol)
  BY <1>1
<1> DEFINE eol == r.eol
<1> HIDE DEF s, eol
<1>6. /\ s \in Seq(Token(r)) /\ eol \in {<<Lf>>, <<Cr>>, <<Cr, Lf>>} /\ 1 \in Nat \ {0} /\ c \in 0 .. Len(s)
      /\ Plain(s[1]) /\ EolAt(s, 1 + 1, eol) /\ 1 + Len(eol) <= Len(s)
      /\ eol = <<Cr>> => NoLfAfter(s, 1 + 2)
  BY <1>1, <1>2, <1>3, <1>4, <1>5 DEF s, eol
<1>7. ReadsOne(ReadLine(SubSeq(s, 1, c)), <<s[1]>>, SubSeq(s, 1 + 1 + Len(eol), c))
  BY <1>6, OneTokenLine
<1>8. QED BY <1>1, <1>2, <1>7 DEF s, eol

LEMMA LengthLineRead ==
  ASSUME NEW r, RequestOk(r), NEW c \in 0 .. Len(Text(r)), r.length # -1
  PROVE  ReadsOne(ReadLine(SubSeq(Text(r), HeaderAt(r), c)), HeaderTokens(r), SubSeq(Text(r), BlankAt(r), c))
<1> DEFINE s == Text(r)
           k == HeaderAt(r)
           eol == r.eol
<1>1. /\ s \in Seq(Token(r)) /\ s[k] = LengthToken(r) /\ EolAt(s, k + 1, eol)
      /\ eol \in {<<Lf>>, <<Cr>>, <<Cr, Lf>>}
  BY TextTokens DEF RequestOk
<1>2. /\ k + 1 + Len(eol) = BlankAt(r) /\ k + Len(eol) <= Len(s) /\ k \in Nat \ {0}
  <2>1. /\ Len(eol) \in {1, 2} /\ k = 2 + Len(eol) /\ BlankAt(r) = 3 + Len(eol) + Len(eol)
        /\ BodyAt(r) = BlankAt(r) + Len(eol)
        /\ Len(s) = BodyAt(r) - 1 + r.body /\ r.body \in Nat
    BY Positions DEF RequestOk
  <2> HIDE DEF s, k, eol
  <2>2. QED BY <2>1
<1>3. eol = <<Cr>> => NoLfAfter(s, k + 2)
  BY NoStrayLf
<1>4. Plain(s[k])
  BY <1>1, TokensDiffer
<1> HIDE DEF s, eol, k
<1>5. c \in 0 .. Len(s)
  BY DEF s
<1>6. ReadsOne(ReadLine(SubSeq(s, k, c)), <<s[k]>>, SubSeq(s, k + 1 + Len(eol), c))
  BY <1>1, <1>2, <1>3, <1>4, <1>5, OneTokenLine
<1>7. QED BY <1>1, <1>2, <1>6 DEF s, eol, k, HeaderTokens

\* An LF at the beginning of the body is read as part of the blank line's end.
LEMMA BlankLineRead ==
  ASSUME NEW r, RequestOk(r), NEW c \in 0 .. Len(Text(r))
  PROVE  LET read == ReadLine(SubSeq(Text(r), BlankAt(r), c)) IN
         \/ read.size = 0
         \/ /\ read.size > 0 /\ read.line = <<>>
            /\ ~Swallowed(r) => read.rest = SubSeq(Text(r), BodyAt(r), c)
<1> DEFINE s == Text(r)
           k == BlankAt(r)
           eol == IF Swallowed(r) /\ r.body # 0 THEN <<Cr, Lf>> ELSE r.eol
           read == ReadLine(SubSeq(s, k, c))
<1>0. /\ Len(r.eol) \in {1, 2} /\ k \in Nat \ {0} /\ BodyAt(r) = k + Len(r.eol)
      /\ Len(s) = BodyAt(r) - 1 + r.body /\ r.body \in Nat
  BY Positions, PositionTypes DEF RequestOk
<1>1. s \in Seq(Token(r)) /\ EolAt(s, k, eol) /\ eol \in {<<Lf>>, <<Cr>>, <<Cr, Lf>>}
  <2>1. /\ s \in Seq(Token(r)) /\ EolAt(s, k, r.eol) /\ r.eol \in {<<Lf>>, <<Cr>>, <<Cr, Lf>>}
        /\ \A i \in 1 .. r.body : s[BodyAt(r) - 1 + i] = ByteOf(r, i)
    BY TextTokens DEF RequestOk
  <2>2. CASE Swallowed(r) /\ r.body # 0
    <3>1. Len(r.eol) = 1 /\ r.eol[1] = Cr /\ ByteOf(r, 1) = Lf
      BY <2>2 DEF Swallowed, ByteOf
    <3> HIDE DEF s, k
    <3>2. 1 \in 1 .. r.body /\ BodyAt(r) - 1 + 1 = k - 1 + 2
      BY <2>2, <3>1, <1>0
    <3>3. s[k - 1 + 2] = Lf /\ s[k - 1 + 1] = Cr
      <4>1. s[BodyAt(r) - 1 + 1] = ByteOf(r, 1)
        BY <2>1, <3>2
      <4>2. 1 \in 1 .. Len(r.eol)
        BY <3>1
      <4>3. s[k - 1 + 1] = r.eol[1]
        BY <2>1, <4>2 DEF EolAt
      <4>4. QED BY <3>1, <3>2, <4>1, <4>3
    <3>4. EolAt(s, k, <<Cr, Lf>>)
      <4>1. \A i \in 1 .. Len(<<Cr, Lf>>) : i = 1 \/ i = 2
        OBVIOUS
      <4>2. <<Cr, Lf>>[1] = Cr /\ <<Cr, Lf>>[2] = Lf
        OBVIOUS
      <4>3. QED BY <3>3, <4>1, <4>2 DEF EolAt
    <3>5. QED BY <2>1, <2>2, <3>4
  <2>3. CASE ~(Swallowed(r) /\ r.body # 0)
    BY <2>1, <2>3
  <2>4. QED BY <2>2, <2>3
<1>2. /\ k + Len(eol) - 1 <= Len(s) /\ Len(eol) \in Nat
      /\ ~Swallowed(r) => k + Len(eol) = BodyAt(r)
  <2>1. CASE Swallowed(r) /\ r.body # 0
    <3>1. Len(r.eol) = 1 /\ Len(eol) = 2
      BY <2>1 DEF Swallowed
    <3> HIDE DEF s, k, eol
    <3>2. QED BY <2>1, <3>1, <1>0
  <2>2. CASE ~(Swallowed(r) /\ r.body # 0)
    <3>1. eol = r.eol
      BY <2>2
    <3> HIDE DEF s, k, eol
    <3>2. QED BY <3>1, <1>0
  <2>3. QED BY <2>1, <2>2
<1>3. eol = <<Cr>> => NoLfAfter(s, k + 1)
  <2>1. CASE Swallowed(r) /\ r.body # 0
    <3>1. Len(<<Cr, Lf>>) = 2 /\ Len(<<Cr>>) = 1
      OBVIOUS
    <3>2. QED BY <2>1, <3>1
  <2>2. CASE ~(Swallowed(r) /\ r.body # 0)
    BY <2>2, NoStrayLf DEF Swallowed
  <2>3. QED BY <2>1, <2>2
<1> HIDE DEF s, eol, k, read
<1>4. c \in 0 .. Len(s) /\ k \in Nat \ {0} /\ k <= k /\ \A j \in k .. k - 1 : Plain(s[j])
  BY <1>0 DEF s
<1>5. ReadsTo(read, s, k, k, c, eol)
  BY <1>1, <1>2, <1>3, <1>4, ReadLineAt DEF read
<1>6. CASE c < k
  <2>1. SubSeq(s, k, c) = <<>>
    BY <1>4, <1>6, SubSeqEmpty
  <2>2. read.size = 0
    BY <2>1, <1>5, <1>6 DEF ReadsTo
  <2>3. QED BY <2>2 DEF s, k, read
<1>7. CASE c >= k
  <2>1. SubSeq(s, k, k - 1) = <<>>
    BY <1>4, SubSeqEmpty
  <2>2. read.size > 0 /\ read.line = <<>> /\ (~Swallowed(r) => read.rest = SubSeq(s, BodyAt(r), c))
    BY <2>1, <1>2, <1>5, <1>7 DEF ReadsTo
  <2>3. QED BY <2>2 DEF s, k, read
<1>8. QED BY <1>4, <1>6, <1>7

LEMMA NothingRead == ReadLine(<<>>).size = 0
<1>1. Ends(<<>>) = {}
  BY DEF Ends
<1>2. QED BY <1>1 DEF ReadLine

-----------------------------------------------------------------------------
(* The endpoints.  What a thread has read and still has before it is what  *)
(* its peer sent; what it announced is what it is about to send; and its   *)
(* own pipe ends are open only while process_cgi runs.                     *)

Fields ==
  {"pc", "sent", "in", "req", "cgi", "line", "header", "code", "fd", "size", "output",
   "length", "wire", "total", "gone", "failed", "quits"}

AsSent(req, r) ==
  /\ <<req.method, req.uri, req.length>> = <<r.method, r.uri, r.length>>
  /\ ~Swallowed(r) => req.body = Body(r, BodyLength(r.method, r.length))

\* The input may be at its end between two headers.
InHeader(e, r) ==
  /\ e.line = <<LineToken(r)>>
  /\ \/ e.in = <<>>
     \/ \E c \in 0 .. Len(Text(r)) :
          \/ e.in = SubSeq(Text(r), HeaderAt(r), c) /\ e.header = <<>>
          \/ e.in = SubSeq(Text(r), BlankAt(r), c) /\ e.header = HeaderTokens(r)

ReadOk(t, e) ==
  /\ e.sent \in Requests[t]
  /\ e.pc \in {"line", "header", "body"} => e.req.stop
  /\ ~e.req.stop => AsSent(e.req, e.sent)
  /\ e.pc = "line" => e.header = <<>> /\ \E c \in 0 .. Len(Text(e.sent)) : e.in = SubSeq(Text(e.sent), 1, c)
  /\ e.pc = "header" => InHeader(e, e.sent)
  /\ e.pc = "body" => /\ e.line = <<LineToken(e.sent)>> /\ e.header = HeaderTokens(e.sent)
                      /\ ~Swallowed(e.sent) =>
                           \E c \in 0 .. Len(Text(e.sent)) : e.in = SubSeq(Text(e.sent), BodyAt(e.sent), c)

SendOk(e) ==
  /\ e.size \in Nat /\ e.output \in Nat /\ e.length \in Nat /\ e.wire \in Nat /\ e.total \in Nat
  /\ e.pc \notin {"send", "close", "done"} => e.wire = 0 /\ e.total = 0 /\ ~e.gone
  /\ e.pc = "file" => ~e.cgi
  /\ e.pc \in {"input", "output", "fork", "close ends", "read"} => e.cgi
  /\ e.pc = "helper" /\ e.code = 200 => e.cgi \/ e.fd
  /\ e.pc = "send" => /\ e.length = IF e.cgi THEN e.output ELSE IF e.fd THEN e.size ELSE 0
                      /\ e.wire <= e.length
                      /\ e.cgi /\ ~e.gone => e.wire = e.total
  /\ e.pc = "close" /\ ~e.req.stop /\ ~e.gone => e.wire = e.length

EndsOk(t, e, open) ==
  /\ e.pc \notin {"output", "fork", "close ends", "read"} /\ ~e.failed => \A x \in Own(t) : x \notin open
  /\ e.pc = "read" => <<t, "input", "w">> \notin open /\ <<t, "output", "r">> \notin open

EndTypes ==
  /\ DOMAIN endpoint = HttpThreads /\ DOMAIN child = HttpThreads
  /\ \A t \in HttpThreads : DOMAIN endpoint[t] = Fields /\ child[t].output \in Nat

EndInv ==
  /\ EndTypes
  /\ \A t \in HttpThreads : /\ ReadOk(t, endpoint[t]) /\ SendOk(endpoint[t])
                            /\ EndsOk(t, endpoint[t], pipes)

(* One thread's step keeps the invariant if it keeps its own part of it.   *)
LEMMA EndFrame ==
  ASSUME EndInv, NEW t \in HttpThreads, DOMAIN endpoint' = HttpThreads,
         \A u \in HttpThreads \ {t} : endpoint'[u] = endpoint[u],
         DOMAIN endpoint'[t] = Fields,
         ReadOk(t, endpoint'[t]), SendOk(endpoint'[t]), EndsOk(t, endpoint'[t], pipes'),
         \A x \in pipes' \ pipes : x \in Own(t),
         DOMAIN child' = HttpThreads, \A u \in HttpThreads : child'[u].output \in Nat
  PROVE  EndInv'
<1>1. EndTypes'
  BY DEF EndInv, EndTypes
<1>2. ASSUME NEW u \in HttpThreads \ {t}
      PROVE  EndsOk(u, endpoint'[u], pipes')
  <2>1. endpoint'[u] = endpoint[u] /\ EndsOk(u, endpoint[u], pipes)
    BY DEF EndInv
  <2>2. \A x \in Own(u) : x \notin Own(t)
    BY DEF Own
  <2>3. \A x \in Own(u) : x \notin pipes => x \notin pipes'
    BY <2>2
  <2>4. <<u, "input", "w">> \in Own(u) /\ <<u, "output", "r">> \in Own(u)
    BY DEF Own
  <2>5. QED BY <2>1, <2>3, <2>4 DEF EndsOk
<1>3. \A u \in HttpThreads : ReadOk(u, endpoint'[u]) /\ SendOk(endpoint'[u]) /\ EndsOk(u, endpoint'[u], pipes')
  BY <1>2 DEF EndInv
<1>4. QED BY <1>1, <1>3 DEF EndInv

\* f is the endpoint e after a step that sets the fields ch.
Sets(e, f, ch) == DOMAIN f = Fields /\ \A k \in Fields \ ch : f[k] = e[k]

(* Once it is read, the request stays.                                     *)
LEMMA ReadStays ==
  ASSUME NEW t, NEW e, NEW f, ReadOk(t, e), f.sent = e.sent, f.req = e.req,
         f.pc \notin {"line", "header", "body"}
  PROVE  ReadOk(t, f)
  BY DEF ReadOk

(* The steps that read change neither pipes nor what is sent.              *)
LEMMA ReadFrame ==
  ASSUME EndInv, NEW t \in HttpThreads, DOMAIN endpoint' = HttpThreads,
         \A u \in HttpThreads \ {t} : endpoint'[u] = endpoint[u],
         Sets(endpoint[t], endpoint'[t], {"pc", "in", "line", "header", "req"}),
         endpoint[t].pc \in {"line", "header", "body"},
         endpoint'[t].pc \in {"header", "body", "build", "close"},
         endpoint'[t].pc = "close" => endpoint'[t].req = endpoint[t].req,
         UNCHANGED <<pipes, child>>, ReadOk(t, endpoint'[t])
  PROVE  EndInv'
<1>1. PICK e, f : e = endpoint[t] /\ f = endpoint'[t]
  OBVIOUS
<1>2. /\ f.sent = e.sent /\ f.cgi = e.cgi /\ f.code = e.code /\ f.fd = e.fd /\ f.size = e.size
      /\ f.output = e.output /\ f.length = e.length /\ f.wire = e.wire /\ f.total = e.total
      /\ f.gone = e.gone /\ f.failed = e.failed /\ DOMAIN f = Fields
  BY <1>1 DEF Sets, Fields
<1>3. e.req.stop /\ SendOk(e) /\ EndsOk(t, e, pipes)
  BY <1>1 DEF EndInv, ReadOk
<1>4. SendOk(f)
  BY <1>1, <1>2, <1>3 DEF SendOk
<1>5. EndsOk(t, f, pipes')
  BY <1>1, <1>2, <1>3 DEF EndsOk
<1>6. DOMAIN child' = HttpThreads /\ \A u \in HttpThreads : child'[u].output \in Nat
  BY DEF EndInv, EndTypes
<1>7. QED BY <1>1, <1>2, <1>4, <1>5, <1>6, EndFrame

(* The three steps of recv_http_request.                                   *)
LEMMA recv_http_request_lineKeeps ==
  ASSUME EndAssumed, EndInv, NEW t \in HttpThreads, recv_http_request_line(t)
  PROVE  EndInv'
<1>1. PICK e, f : e = endpoint[t] /\ f = endpoint'[t]
  OBVIOUS
<1>2. DOMAIN endpoint = HttpThreads /\ DOMAIN e = Fields /\ ReadOk(t, e) /\ e.pc = "line"
  BY <1>1 DEF EndInv, EndTypes, recv_http_request_line
<1>3. PICK read : read = ReadLine(e.in)
  OBVIOUS
<1>4. /\ endpoint' = [endpoint EXCEPT ![t].line = read.line, ![t].in = read.rest,
                        ![t].pc = IF read.size > 0 THEN "header" ELSE "close"]
      /\ UNCHANGED <<pipes, child>>
  BY <1>1, <1>3 DEF recv_http_request_line
<1>5. /\ DOMAIN endpoint' = HttpThreads /\ \A u \in HttpThreads \ {t} : endpoint'[u] = endpoint[u]
      /\ Sets(e, f, {"pc", "in", "line", "header", "req"})
      /\ f.line = read.line /\ f.in = read.rest /\ f.pc = (IF read.size > 0 THEN "header" ELSE "close")
      /\ f.req = e.req /\ f.sent = e.sent /\ f.header = e.header
  BY <1>1, <1>2, <1>4 DEF Fields, Sets
<1>6. PICK r : r = e.sent /\ r \in Requests[t] /\ RequestOk(r)
  BY <1>2 DEF ReadOk, EndAssumed
<1>7. PICK c \in 0 .. Len(Text(r)) : e.in = SubSeq(Text(r), 1, c)
  BY <1>2, <1>6 DEF ReadOk
<1>8. ReadsOne(read, <<LineToken(r)>>, SubSeq(Text(r), HeaderAt(r), c))
  BY <1>3, <1>6, <1>7, RequestLineRead
<1>9. ReadOk(t, f)
  <2>1. CASE read.size > 0
    <3>1. f.line = <<LineToken(r)>> /\ (f.in = <<>> \/ f.in = SubSeq(Text(r), HeaderAt(r), c)) /\ f.header = <<>>
      BY <2>1, <1>2, <1>5, <1>8 DEF ReadsOne, ReadOk
    <3>2. InHeader(f, r)
      BY <3>1, <1>7 DEF InHeader
    <3>3. QED BY <2>1, <3>2, <1>2, <1>5, <1>6 DEF ReadOk
  <2>2. CASE ~(read.size > 0)
    <3>1. f.pc \notin {"line", "header", "body"}
      BY <2>2, <1>5
    <3>2. QED BY <3>1, <1>2, <1>5, ReadStays
  <2>3. QED BY <2>1, <2>2
<1>10. QED BY <1>1, <1>2, <1>4, <1>5, <1>9, ReadFrame

(* That the peer quits changes nothing that was read.                      *)
LEMMA PeerQuitsKeeps ==
  ASSUME EndInv, NEW t \in HttpThreads, PeerQuits(t)
  PROVE  EndInv'
<1>1. PICK e, f : e = endpoint[t] /\ f = endpoint'[t]
  OBVIOUS
<1>2. /\ DOMAIN endpoint = HttpThreads /\ DOMAIN e = Fields
      /\ ReadOk(t, e) /\ SendOk(e) /\ EndsOk(t, e, pipes)
  BY <1>1 DEF EndInv, EndTypes
<1>3. endpoint' = [endpoint EXCEPT ![t].quits = TRUE] /\ UNCHANGED <<pipes, child>>
  BY DEF PeerQuits
<1>4. /\ DOMAIN endpoint' = HttpThreads /\ \A u \in HttpThreads \ {t} : endpoint'[u] = endpoint[u]
      /\ Sets(e, f, {"quits"})
  BY <1>1, <1>2, <1>3 DEF Fields, Sets
<1>5. /\ f.pc = e.pc /\ f.sent = e.sent /\ f.in = e.in /\ f.req = e.req /\ f.line = e.line
      /\ f.header = e.header /\ f.cgi = e.cgi /\ f.code = e.code /\ f.fd = e.fd /\ f.size = e.size
      /\ f.output = e.output /\ f.length = e.length /\ f.wire = e.wire /\ f.total = e.total
      /\ f.gone = e.gone /\ f.failed = e.failed /\ DOMAIN f = Fields
  BY <1>4 DEF Sets, Fields
<1>6. ReadOk(t, f)
  BY <1>2, <1>5 DEF ReadOk, InHeader
<1>7. SendOk(f)
  BY <1>2, <1>5 DEF SendOk
<1>8. EndsOk(t, f, pipes')
  BY <1>2, <1>3, <1>5 DEF EndsOk
<1>9. DOMAIN child' = HttpThreads /\ \A u \in HttpThreads : child'[u].output \in Nat
  BY <1>3 DEF EndInv, EndTypes
<1>10. QED BY <1>1, <1>3, <1>4, <1>5, <1>6, <1>7, <1>8, <1>9, EndFrame

LEMMA recv_http_request_headerKeeps ==
  ASSUME EndAssumed, EndInv, NEW t \in HttpThreads, recv_http_request_header(t)
  PROVE  EndInv'
<1>1. PICK e, f : e = endpoint[t] /\ f = endpoint'[t]
  OBVIOUS
<1>2. DOMAIN endpoint = HttpThreads /\ DOMAIN e = Fields /\ ReadOk(t, e) /\ e.pc = "header"
  BY <1>1 DEF EndInv, EndTypes, recv_http_request_header
<1>3. PICK read : read = ReadLine(e.in)
  OBVIOUS
<1>4. /\ endpoint' = [endpoint EXCEPT ![t].in = read.rest,
                        ![t].pc = IF read.size = 0 THEN "close"
                                  ELSE IF read.line = <<>> THEN "body" ELSE @,
                        ![t].header = @ \o read.line]
      /\ UNCHANGED <<pipes, child>>
  BY <1>1, <1>3 DEF recv_http_request_header
<1>5. /\ DOMAIN endpoint' = HttpThreads /\ \A u \in HttpThreads \ {t} : endpoint'[u] = endpoint[u]
      /\ Sets(e, f, {"pc", "in", "line", "header", "req"})
      /\ f.in = read.rest /\ f.header = e.header \o read.line
      /\ f.pc = (IF read.size = 0 THEN "close" ELSE IF read.line = <<>> THEN "body" ELSE "header")
      /\ f.req = e.req /\ f.sent = e.sent /\ f.line = e.line
  BY <1>1, <1>2, <1>4 DEF Fields, Sets
<1>6. PICK r : r = e.sent /\ r \in Requests[t] /\ RequestOk(r)
  BY <1>2 DEF ReadOk, EndAssumed
<1>7. InHeader(e, r) /\ e.req.stop
  BY <1>2, <1>6 DEF ReadOk
<1>8. CASE read.size = 0
  <2>1. f.pc \notin {"line", "header", "body"} /\ f.pc = "close"
    BY <1>5, <1>8
  <2>2. ReadOk(t, f)
    BY <2>1, <1>2, <1>5, ReadStays
  <2>3. QED BY <2>1, <2>2, <1>1, <1>2, <1>4, <1>5, ReadFrame
<1>9. CASE read.size # 0
  <2>1. e.in # <<>>
    BY <1>3, <1>9, NothingRead
  <2>2. PICK c \in 0 .. Len(Text(r)) :
          \/ e.in = SubSeq(Text(r), HeaderAt(r), c) /\ e.header = <<>>
          \/ e.in = SubSeq(Text(r), BlankAt(r), c) /\ e.header = HeaderTokens(r)
    BY <2>1, <1>7 DEF InHeader
  <2>3. CASE r.length # -1 /\ e.in = SubSeq(Text(r), HeaderAt(r), c) /\ e.header = <<>>
    <3>1. ReadsOne(read, HeaderTokens(r), SubSeq(Text(r), BlankAt(r), c))
      BY <2>3, <1>3, <1>6, LengthLineRead
    <3>2. read.line = HeaderTokens(r) /\ (read.rest = <<>> \/ read.rest = SubSeq(Text(r), BlankAt(r), c))
      BY <3>1, <1>9 DEF ReadsOne
    <3>3. HeaderTokens(r) # <<>> /\ <<>> \o HeaderTokens(r) = HeaderTokens(r)
      BY <2>3 DEF HeaderTokens
    <3>4. f.pc = "header" /\ f.header = HeaderTokens(r) /\ f.in = read.rest
      BY <2>3, <3>2, <3>3, <1>5, <1>9
    <3>5. InHeader(f, r)
      BY <3>2, <3>4, <1>5, <1>7, <2>2 DEF InHeader
    <3>6. ReadOk(t, f)
      BY <3>4, <3>5, <1>2, <1>5, <1>6, <1>7 DEF ReadOk
    <3>7. QED BY <3>4, <3>6, <1>1, <1>2, <1>4, <1>5, ReadFrame
  <2>4. CASE e.in = SubSeq(Text(r), BlankAt(r), c) /\ e.header = HeaderTokens(r)
    <3>1. read.line = <<>> /\ (~Swallowed(r) => read.rest = SubSeq(Text(r), BodyAt(r), c))
      BY <2>4, <1>3, <1>6, <1>9, BlankLineRead
    <3>2. HeaderTokens(r) \o <<>> = HeaderTokens(r)
      BY DEF HeaderTokens
    <3>3. f.pc = "body" /\ f.header = HeaderTokens(r) /\ f.in = read.rest /\ f.line = <<LineToken(r)>>
      BY <2>4, <3>1, <3>2, <1>5, <1>7, <1>9 DEF InHeader
    <3>4. ReadOk(t, f)
      BY <3>1, <3>3, <2>2, <1>2, <1>5, <1>6, <1>7 DEF ReadOk
    <3>5. QED BY <3>3, <3>4, <1>1, <1>2, <1>4, <1>5, ReadFrame
  <2>5. r.length = -1 => HeaderAt(r) = BlankAt(r) /\ HeaderTokens(r) = <<>>
    BY DEF BlankAt, HeaderTokens
  <2>6. QED BY <2>2, <2>3, <2>4, <2>5
<1>10. QED BY <1>8, <1>9

(* The parsed header has the length announced.                             *)
LEMMA LengthParsed ==
  ASSUME NEW r
  PROVE  ContentLength(HeaderTokens(r)) = r.length
<1>1. CASE r.length = -1
  <2>1. HeaderTokens(r) = <<>> /\ DOMAIN HeaderTokens(r) = {}
    BY <1>1 DEF HeaderTokens
  <2>2. QED BY <1>1, <2>1 DEF ContentLength
<1>2. CASE r.length # -1
  <2> DEFINE h == HeaderTokens(r)
             found == {k \in DOMAIN h : h[k][1] = "length"}
  <2>1. DOMAIN h = {1} /\ h[1] = LengthToken(r)
    BY <1>2 DEF HeaderTokens
  <2>2. LengthToken(r)[1] = "length" /\ LengthToken(r)[2] = r.length
    BY DEF LengthToken
  <2> HIDE DEF h
  <2>3. found = {1}
    BY <2>1, <2>2
  <2>4. (CHOOSE k \in found : TRUE) = 1 /\ found # {}
    BY <2>3
  <2> HIDE DEF found
  <2>5. ContentLength(h) = h[1][2]
    BY <2>4 DEF ContentLength, found
  <2>6. QED BY <2>1, <2>2, <2>5 DEF h
<1>3. QED BY <1>1, <1>2

(* What is left of the input after the headers is the body's beginning.    *)
LEMMA BodyBytes ==
  ASSUME NEW r, RequestOk(r), NEW c \in 0 .. Len(Text(r)), NEW need \in Int,
         need <= Len(SubSeq(Text(r), BodyAt(r), c))
  PROVE  SubSeq(SubSeq(Text(r), BodyAt(r), c), 1, need) = Body(r, need)
<1> DEFINE s == Text(r)
           k == BodyAt(r)
           in == SubSeq(s, k, c)
<1>1. /\ s \in Seq(Token(r)) /\ Len(s) = k - 1 + r.body
      /\ \A i \in 1 .. r.body : s[k - 1 + i] = ByteOf(r, i)
  BY TextTokens DEF RequestOk
<1>2. k \in Nat \ {0} /\ r.body \in Nat
  BY PositionTypes DEF RequestOk
<1> HIDE DEF s, k
<1>3. /\ in \in Seq(Token(r)) /\ Len(in) = (IF k <= c THEN c - k + 1 ELSE 0) /\ Len(in) \in Nat
      /\ \A i \in 1 .. Len(in) : in[i] = s[k - 1 + i]
  BY <1>1, <1>2, PartOf DEF s
<1>4. need <= Len(in) /\ c \in 0 .. Len(s)
  BY DEF s, k
<1> HIDE DEF in
<1> DEFINE b == Body(r, need)
<1>5. CASE need <= 0
  <2>1. SubSeq(in, 1, need) = <<>>
    BY <1>5, SubSeqEmpty
  <2>2. b = <<>>
    BY <1>5 DEF Body
  <2>3. QED BY <2>1, <2>2 DEF s, k, in
<1>6. CASE need > 0
  <2>1. need \in 0 .. Len(in) /\ 1 <= need /\ need - 1 + 1 = need
    BY <1>3, <1>4, <1>6
  <2>2. /\ SubSeq(in, 1, need) \in Seq(Token(r))
        /\ Len(SubSeq(in, 1, need)) = (IF 1 <= need THEN need - 1 + 1 ELSE 0)
        /\ \A i \in 1 .. Len(SubSeq(in, 1, need)) : SubSeq(in, 1, need)[i] = in[1 - 1 + i]
    BY <1>3, <2>1, PartOf
  <2>3. \A i \in 1 .. need : ByteOf(r, i) \in Token(r)
    BY DEF Token, ByteOf
  <2>4. b \in Seq(Token(r)) /\ Len(b) = need /\ \A i \in 1 .. need : b[i] = ByteOf(r, i)
    BY <2>3, <1>6 DEF Body
  <2>5. Len(SubSeq(in, 1, need)) = need
    BY <2>1, <2>2
  <2>6. ASSUME NEW i \in 1 .. need PROVE SubSeq(in, 1, need)[i] = b[i]
    <3>1. i \in 1 .. Len(in) /\ i \in 1 .. r.body /\ 1 - 1 + i = i
      BY <1>1, <1>2, <1>3, <1>4, <1>6, SMTT(60)
    <3>2. QED BY <3>1, <2>2, <2>4, <2>5, <1>1, <1>3
  <2>7. SubSeq(in, 1, need) = b
    <3> HIDE DEF b
    <3>1. QED BY <2>2, <2>4, <2>5, <2>6, SeqEqual
  <2>8. QED BY <2>7, Zenon DEF s, k, in, b
<1>7. need <= 0 \/ need > 0
  OBVIOUS
<1>8. QED BY <1>5, <1>6, <1>7, Zenon

LEMMA recv_http_request_bodyKeeps ==
  ASSUME EndAssumed, EndInv, NEW t \in HttpThreads, recv_http_request_body(t)
  PROVE  EndInv'
<1>1. PICK e, f : e = endpoint[t] /\ f = endpoint'[t]
  OBVIOUS
<1>2. DOMAIN endpoint = HttpThreads /\ DOMAIN e = Fields /\ ReadOk(t, e) /\ e.pc = "body"
  BY <1>1 DEF EndInv, EndTypes, recv_http_request_body
<1>3. PICK r : r = e.sent /\ r \in Requests[t] /\ RequestOk(r) /\ r.length \in Int
  BY <1>2 DEF ReadOk, EndAssumed
<1>4. e.line = <<LineToken(r)>> /\ e.header = HeaderTokens(r) /\ e.req.stop
  BY <1>2, <1>3 DEF ReadOk
<1>5. ~Swallowed(r) => \E c \in 0 .. Len(Text(r)) : e.in = SubSeq(Text(r), BodyAt(r), c)
  BY <1>2, <1>3 DEF ReadOk
<1>6. e.line[1][2] = r.method /\ e.line[1][3] = r.uri /\ ContentLength(e.header) = r.length
  BY <1>4, LengthParsed DEF LineToken
<1>7. PICK need \in Int : need = BodyLength(r.method, r.length)
  BY <1>3 DEF BodyLength
<1> DEFINE req == [stop |-> FALSE, method |-> r.method, uri |-> r.uri,
                   length |-> r.length, body |-> SubSeq(e.in, 1, need)]
<1>8. /\ endpoint' = [endpoint EXCEPT ![t] =
            IF ~BodyCame(need, e.in) THEN [@ EXCEPT !.pc = "close"]
            ELSE [@ EXCEPT !.pc = "build", !.req = req]]
      /\ UNCHANGED <<pipes, child>>
  BY <1>1, <1>6, <1>7 DEF recv_http_request_body
<1> HIDE DEF req
<1>9. /\ DOMAIN endpoint' = HttpThreads /\ \A u \in HttpThreads \ {t} : endpoint'[u] = endpoint[u]
      /\ Sets(e, f, {"pc", "in", "line", "header", "req"})
      /\ f.pc = (IF ~BodyCame(need, e.in) THEN "close" ELSE "build")
      /\ f.req = (IF ~BodyCame(need, e.in) THEN e.req ELSE req) /\ f.sent = e.sent
  BY <1>1, <1>2, <1>8 DEF Fields, Sets
<1>10. ReadOk(t, f)
  <2>1. CASE ~BodyCame(need, e.in)
    <3>1. f.pc \notin {"line", "header", "body"} /\ f.req = e.req
      BY <2>1, <1>9
    <3>2. QED BY <3>1, <1>2, <1>9, ReadStays
  <2>2. CASE BodyCame(need, e.in)
    <3>1. ASSUME ~Swallowed(r) PROVE SubSeq(e.in, 1, need) = Body(r, need)
      <4>1. PICK c \in 0 .. Len(Text(r)) : e.in = SubSeq(Text(r), BodyAt(r), c)
        BY <3>1, <1>5
      <4>2. need <= Len(e.in)
        BY <2>2 DEF BodyCame
      <4>3. need <= Len(SubSeq(Text(r), BodyAt(r), c))
        BY <4>1, <4>2, Zenon
      <4>4. SubSeq(SubSeq(Text(r), BodyAt(r), c), 1, need) = Body(r, need)
        BY <4>1, <4>3, <1>3, <1>7, BodyBytes
      <4>5. QED BY <4>1, <4>4, Zenon
    <3>4. AsSent(req, r)
      BY <3>1, <1>7 DEF AsSent, req
    <3>5. f.pc = "build" /\ f.req = req
      BY <2>2, <1>9
    <3>6. QED BY <3>4, <3>5, <1>3, <1>9 DEF ReadOk
  <2>3. QED BY <2>1, <2>2
<1>11. QED BY <1>1, <1>2, <1>9, <1>10, <1>8, ReadFrame

(* The steps that build and send change no pipe.                           *)
LEMMA SendFrame ==
  ASSUME EndInv, NEW t \in HttpThreads, DOMAIN endpoint' = HttpThreads,
         \A u \in HttpThreads \ {t} : endpoint'[u] = endpoint[u],
         DOMAIN endpoint'[t] = Fields, endpoint'[t].sent = endpoint[t].sent,
         endpoint'[t].req = endpoint[t].req, endpoint'[t].failed = endpoint[t].failed,
         endpoint[t].pc \notin {"output", "fork", "close ends", "read"},
         endpoint'[t].pc \notin {"line", "header", "body", "read"},
         UNCHANGED <<pipes, child>>, SendOk(endpoint'[t])
  PROVE  EndInv'
<1>1. PICK e, f : e = endpoint[t] /\ f = endpoint'[t]
  OBVIOUS
<1>2. ReadOk(t, e) /\ EndsOk(t, e, pipes)
  BY <1>1 DEF EndInv
<1>3. ReadOk(t, f)
  BY <1>1, <1>2, ReadStays
<1>4. EndsOk(t, f, pipes')
  BY <1>1, <1>2 DEF EndsOk
<1>5. DOMAIN child' = HttpThreads /\ \A u \in HttpThreads : child'[u].output \in Nat
  BY DEF EndInv, EndTypes
<1>6. QED BY <1>1, <1>3, <1>4, <1>5, EndFrame

LEMMA build_http_responseKeeps ==
  ASSUME EndAssumed, EndInv, NEW t \in HttpThreads, build_http_response(t)
  PROVE  EndInv'
<1>1. PICK e, f : e = endpoint[t] /\ f = endpoint'[t]
  OBVIOUS
<1>2. /\ DOMAIN endpoint = HttpThreads /\ DOMAIN e = Fields /\ SendOk(e) /\ e.pc = "build"
      /\ UNCHANGED <<pipes, child>>
  BY <1>1 DEF EndInv, EndTypes, build_http_response
<1>3. PICK asks \in BOOLEAN :
        asks = (e.req.method = "POST" \/ e.req.uri.query \/ Executable(e.req.uri))
  OBVIOUS
<1>4. PICK posts \in BOOLEAN : posts = (e.req.method = "POST" \/ e.req.uri.query)
  OBVIOUS
<1>5. endpoint' = [endpoint EXCEPT ![t] =
         IF e.req.method \notin {"GET", "POST"} THEN [@ EXCEPT !.code = 400, !.pc = "helper"]
         ELSE IF e.req.uri.res = "none"
           THEN [@ EXCEPT !.code = 404, !.pc = "helper", !.cgi = posts]
         ELSE [@ EXCEPT !.cgi = asks, !.size = FileSize, !.pc = IF asks THEN "input" ELSE "file"]]
  BY <1>1, <1>3, <1>4, ZenonT(60) DEF build_http_response
<1>6. /\ DOMAIN endpoint' = HttpThreads /\ \A u \in HttpThreads \ {t} : endpoint'[u] = endpoint[u]
      /\ Sets(e, f, {"pc", "code", "cgi", "size"})
      /\ \/ f.pc = "helper" /\ f.code \in {400, 404} /\ f.size = e.size
         \/ f.pc = "input" /\ f.cgi /\ f.size = FileSize
         \/ f.pc = "file" /\ ~f.cgi /\ f.size = FileSize
  <2>1. CASE e.req.method \notin {"GET", "POST"}
    <3>1. endpoint' = [endpoint EXCEPT ![t] = [@ EXCEPT !.code = 400, !.pc = "helper"]]
      BY <2>1, <1>5
    <3>2. QED BY <3>1, <1>1, <1>2 DEF Fields, Sets
  <2>2. CASE e.req.method \in {"GET", "POST"} /\ e.req.uri.res = "none"
    <3>1. endpoint' = [endpoint EXCEPT ![t] = [@ EXCEPT !.code = 404, !.pc = "helper", !.cgi = posts]]
      BY <2>2, <1>5
    <3>2. f = [e EXCEPT !.code = 404, !.pc = "helper", !.cgi = posts]
      BY <3>1, <1>1, <1>2
    <3>3. f.pc = "helper" /\ f.code = 404 /\ f.size = e.size
      BY <3>2, <1>2 DEF Fields
    <3>4. Sets(e, f, {"pc", "code", "cgi", "size"})
      BY <3>2, <1>2 DEF Fields, Sets
    <3>5. QED BY <3>1, <3>3, <3>4, <1>2
  <2>3. CASE e.req.method \in {"GET", "POST"} /\ e.req.uri.res # "none"
    <3>1. endpoint' = [endpoint EXCEPT ![t] =
                         [@ EXCEPT !.cgi = asks, !.size = FileSize, !.pc = IF asks THEN "input" ELSE "file"]]
      BY <2>3, <1>5
    <3>2. CASE asks = TRUE
      BY <3>1, <3>2, <1>1, <1>2 DEF Fields, Sets
    <3>3. CASE asks = FALSE
      BY <3>1, <3>3, <1>1, <1>2 DEF Fields, Sets
    <3>4. QED BY <3>2, <3>3, <1>3
  <2>4. QED BY <2>1, <2>2, <2>3
<1>7. /\ f.sent = e.sent /\ f.req = e.req /\ f.failed = e.failed /\ DOMAIN f = Fields
      /\ f.output = e.output /\ f.length = e.length /\ f.wire = e.wire /\ f.total = e.total /\ f.gone = e.gone
  BY <1>6 DEF Fields, Sets
<1>8. SendOk(f)
  <2>1. f.size \in Nat
    BY <1>2, <1>6 DEF SendOk, EndAssumed
  <2>2. f.pc \in {"helper", "input", "file"} /\ (f.pc = "helper" => f.code # 200)
    BY <1>6
  <2>3. (f.pc = "input" => f.cgi) /\ (f.pc = "file" => ~f.cgi)
    BY <1>6
  <2>4. QED BY <2>1, <2>2, <2>3, <1>2, <1>7 DEF SendOk
<1>9. f.pc \notin {"line", "header", "body", "read"}
  BY <1>6
<1>10. QED BY <1>1, <1>2, <1>6, <1>7, <1>8, <1>9, SendFrame

LEMMA process_Non_cgiKeeps ==
  ASSUME EndInv, NEW t \in HttpThreads, process_Non_cgi(t)
  PROVE  EndInv'
<1>1. PICK e, f : e = endpoint[t] /\ f = endpoint'[t]
  OBVIOUS
<1>2. /\ DOMAIN endpoint = HttpThreads /\ DOMAIN e = Fields /\ SendOk(e) /\ e.pc = "file"
      /\ UNCHANGED <<pipes, child>>
  BY <1>1 DEF EndInv, EndTypes, process_Non_cgi
<1>3. PICK open \in BOOLEAN :
        endpoint' = [endpoint EXCEPT ![t].fd = open, ![t].code = IF open THEN 200 ELSE 404,
                        ![t].pc = "helper"]
  BY DEF process_Non_cgi
<1>4. /\ DOMAIN endpoint' = HttpThreads /\ \A u \in HttpThreads \ {t} : endpoint'[u] = endpoint[u]
      /\ Sets(e, f, {"pc", "code", "fd"}) /\ f.pc = "helper"
      /\ f.fd = open /\ f.code = (IF open THEN 200 ELSE 404)
  BY <1>1, <1>2, <1>3 DEF Fields, Sets
<1>5. /\ f.sent = e.sent /\ f.req = e.req /\ f.failed = e.failed /\ DOMAIN f = Fields /\ f.size = e.size
      /\ f.output = e.output /\ f.length = e.length /\ f.wire = e.wire /\ f.total = e.total /\ f.gone = e.gone
  BY <1>4 DEF Fields, Sets
<1>6. SendOk(f)
  BY <1>2, <1>4, <1>5 DEF SendOk
<1>7. QED BY <1>1, <1>2, <1>4, <1>5, <1>6, SendFrame

LEMMA build_http_response_helperKeeps ==
  ASSUME EndAssumed, EndInv, NEW t \in HttpThreads, build_http_response_helper(t)
  PROVE  EndInv'
<1>1. PICK e, f : e = endpoint[t] /\ f = endpoint'[t]
  OBVIOUS
<1>2. /\ DOMAIN endpoint = HttpThreads /\ DOMAIN e = Fields /\ SendOk(e) /\ e.pc = "helper"
      /\ UNCHANGED <<pipes, child>>
  BY <1>1 DEF EndInv, EndTypes, build_http_response_helper
<1>3. PICK page \in BOOLEAN :
       endpoint' = [endpoint EXCEPT ![t] =
         IF e.code = 200
           THEN [@ EXCEPT !.length = IF e.cgi THEN e.output ELSE e.size, !.pc = "send"]
           ELSE [@ EXCEPT !.cgi = FALSE, !.fd = page, !.pc = "send",
                          !.size = IF page THEN PageSize ELSE e.size,
                          !.length = IF page THEN PageSize ELSE 0]]
  BY <1>1 DEF build_http_response_helper
<1>4. /\ DOMAIN endpoint' = HttpThreads /\ \A u \in HttpThreads \ {t} : endpoint'[u] = endpoint[u]
      /\ Sets(e, f, {"pc", "cgi", "fd", "size", "length"}) /\ f.pc = "send"
      /\ e.code = 200 => /\ f.cgi = e.cgi /\ f.fd = e.fd /\ f.size = e.size
                         /\ f.length = IF e.cgi THEN e.output ELSE e.size
      /\ e.code # 200 => /\ ~f.cgi /\ f.fd = page /\ f.size = (IF page THEN PageSize ELSE e.size)
                         /\ f.length = IF page THEN PageSize ELSE 0
  <2>1. CASE e.code = 200
    <3>1. endpoint' = [endpoint EXCEPT ![t] =
                         [@ EXCEPT !.length = IF e.cgi THEN e.output ELSE e.size, !.pc = "send"]]
      BY <2>1, <1>3
    <3>2. QED BY <2>1, <3>1, <1>1, <1>2 DEF Fields, Sets
  <2>2. CASE e.code # 200
    <3>1. endpoint' = [endpoint EXCEPT ![t] =
                         [@ EXCEPT !.cgi = FALSE, !.fd = page, !.pc = "send",
                                   !.size = IF page THEN PageSize ELSE e.size,
                                   !.length = IF page THEN PageSize ELSE 0]]
      BY <2>2, <1>3
    <3>2. f = [e EXCEPT !.cgi = FALSE, !.fd = page, !.pc = "send",
                        !.size = IF page THEN PageSize ELSE e.size,
                        !.length = IF page THEN PageSize ELSE 0]
      BY <3>1, <1>1, <1>2 DEF Fields
    <3>3. /\ DOMAIN endpoint' = HttpThreads /\ \A u \in HttpThreads \ {t} : endpoint'[u] = endpoint[u]
      BY <3>1, <1>2
    <3>4. Sets(e, f, {"pc", "cgi", "fd", "size", "length"}) /\ f.pc = "send"
      BY <3>2, <1>2 DEF Fields, Sets
    <3>5. f.cgi = FALSE /\ f.fd = page
      BY <3>2, <1>2 DEF Fields
    <3>6. f.size = (IF page THEN PageSize ELSE e.size) /\ f.length = (IF page THEN PageSize ELSE 0)
      BY <3>2, <1>2 DEF Fields
    <3>7. QED BY <2>2, <3>3, <3>4, <3>5, <3>6
  <2>3. QED BY <2>1, <2>2
<1>5. /\ f.sent = e.sent /\ f.req = e.req /\ f.failed = e.failed /\ DOMAIN f = Fields
      /\ f.output = e.output /\ f.wire = e.wire /\ f.total = e.total /\ f.gone = e.gone
  BY <1>4 DEF Fields, Sets
<1>6. /\ e.size \in Nat /\ e.output \in Nat /\ e.wire = 0 /\ e.total = 0 /\ ~e.gone
      /\ e.code = 200 => e.cgi \/ e.fd
  BY <1>2 DEF SendOk
<1>7. f.size \in Nat /\ f.length \in Nat /\ f.length = IF f.cgi THEN f.output ELSE IF f.fd THEN f.size ELSE 0
  BY <1>4, <1>5, <1>6 DEF EndAssumed
<1>8. SendOk(f)
  BY <1>4, <1>5, <1>6, <1>7 DEF SendOk
<1>9. QED BY <1>1, <1>2, <1>4, <1>5, <1>8, SendFrame

LEMMA send_http_responseKeeps ==
  ASSUME EndAssumed, EndInv, NEW t \in HttpThreads, send_http_response(t)
  PROVE  EndInv'
<1>1. PICK e, f : e = endpoint[t] /\ f = endpoint'[t]
  OBVIOUS
<1>2. /\ DOMAIN endpoint = HttpThreads /\ DOMAIN e = Fields /\ SendOk(e) /\ e.pc = "send"
      /\ UNCHANGED <<pipes, child>>
  BY <1>1 DEF EndInv, EndTypes, send_http_response
<1>3. /\ e.size \in Nat /\ e.output \in Nat /\ e.length \in Nat /\ e.wire \in Nat /\ e.total \in Nat
      /\ e.length = (IF e.cgi THEN e.output ELSE IF e.fd THEN e.size ELSE 0)
      /\ e.wire <= e.length /\ (e.cgi /\ ~e.gone => e.wire = e.total)
  BY <1>2 DEF SendOk
<1>4. CASE ~e.cgi
  <2>1. PICK n \in {0, IF e.fd THEN e.size ELSE 0} :
          endpoint' = [endpoint EXCEPT ![t].wire = n, ![t].fd = FALSE, ![t].pc = "close",
                           ![t].gone = e.fd /\ n # e.size]
    BY <1>1, <1>4 DEF send_http_response
  <2>2. PICK gone \in BOOLEAN : gone = (e.fd /\ n # e.size)
    OBVIOUS
  <2>3. endpoint' = [endpoint EXCEPT ![t].wire = n, ![t].fd = FALSE, ![t].pc = "close", ![t].gone = gone]
    BY <2>1, <2>2
  <2>4. /\ DOMAIN endpoint' = HttpThreads /\ \A u \in HttpThreads \ {t} : endpoint'[u] = endpoint[u]
        /\ Sets(e, f, {"pc", "wire", "fd", "gone"}) /\ f.pc = "close" /\ f.wire = n
    BY <2>3, <1>1, <1>2 DEF Fields, Sets
  <2>5. f.gone = gone
    BY <2>3, <1>1, <1>2 DEF Fields
  <2>6. /\ f.sent = e.sent /\ f.req = e.req /\ f.failed = e.failed /\ DOMAIN f = Fields
        /\ f.size = e.size /\ f.output = e.output /\ f.length = e.length /\ f.total = e.total
    BY <2>4 DEF Fields, Sets
  <2>7. n \in Nat /\ (~gone => n = e.length)
    <3>1. gone <=> e.fd /\ n # e.size
      BY <2>2
    <3>2. CASE e.fd
      <4>1. e.length = e.size /\ n \in {0, e.size}
        BY <3>2, <2>1, <1>3, <1>4
      <4>2. QED BY <3>1, <3>2, <4>1, <1>3
    <3>3. CASE ~e.fd
      <4>1. e.length = 0 /\ n = 0
        BY <3>3, <2>1, <1>3, <1>4
      <4>2. QED BY <4>1
    <3>4. QED BY <3>2, <3>3
  <2>8. SendOk(f)
    BY <2>4, <2>5, <2>6, <2>7, <1>3 DEF SendOk
  <2>9. QED BY <2>4, <2>6, <2>8, <1>1, <1>2, SendFrame
<1>5. CASE e.cgi /\ e.total >= e.output /\ endpoint' = [endpoint EXCEPT ![t].pc = "close"]
  <2>1. /\ DOMAIN endpoint' = HttpThreads /\ \A u \in HttpThreads \ {t} : endpoint'[u] = endpoint[u]
        /\ Sets(e, f, {"pc"}) /\ f.pc = "close"
    BY <1>1, <1>2, <1>5 DEF Fields, Sets
  <2>2. /\ f.sent = e.sent /\ f.req = e.req /\ f.failed = e.failed /\ DOMAIN f = Fields /\ f.cgi = e.cgi
        /\ f.fd = e.fd /\ f.code = e.code /\ f.size = e.size /\ f.output = e.output /\ f.length = e.length
        /\ f.wire = e.wire /\ f.total = e.total /\ f.gone = e.gone
    BY <2>1 DEF Fields, Sets
  <2>3. ~e.gone => e.wire = e.length
    BY <1>3, <1>5
  <2>4. SendOk(f)
    BY <2>1, <2>2, <2>3, <1>3 DEF SendOk
  <2>5. QED BY <2>1, <2>2, <2>4, <1>1, <1>2, SendFrame
<1>6. ASSUME e.cgi, e.total < e.output, ~e.gone, NEW n \in 1 .. (e.output - e.total),
             endpoint' = [endpoint EXCEPT ![t].wire = @ + n, ![t].total = @ + n]
      PROVE  EndInv'
  <2>1. /\ DOMAIN endpoint' = HttpThreads /\ \A u \in HttpThreads \ {t} : endpoint'[u] = endpoint[u]
        /\ Sets(e, f, {"wire", "total"}) /\ f.wire = e.wire + n /\ f.total = e.total + n
    BY <1>1, <1>2, <1>6 DEF Fields, Sets
  <2>2. /\ f.sent = e.sent /\ f.req = e.req /\ f.failed = e.failed /\ DOMAIN f = Fields /\ f.cgi = e.cgi
        /\ f.fd = e.fd /\ f.code = e.code /\ f.size = e.size /\ f.output = e.output /\ f.length = e.length
        /\ f.gone = e.gone /\ f.pc = "send"
    BY <2>1, <1>2 DEF Fields, Sets
  <2>3. /\ e.wire + n \in Nat /\ e.total + n \in Nat /\ e.wire + n <= e.length /\ e.wire + n = e.total + n
    BY <1>3, <1>6
  <2>4. SendOk(f)
    BY <2>1, <2>2, <2>3, <1>3 DEF SendOk
  <2>5. QED BY <2>1, <2>2, <2>4, <1>1, <1>2, SendFrame
<1>7. CASE endpoint' = [endpoint EXCEPT ![t].gone = TRUE, ![t].total = (@ + SizeMod - 1) % SizeMod]
  <2>1. PICK total : total = (e.total + SizeMod - 1) % SizeMod
    OBVIOUS
  <2>2. endpoint' = [endpoint EXCEPT ![t].gone = TRUE, ![t].total = total]
    BY <2>1, <1>1, <1>7
  <2>3. /\ DOMAIN endpoint' = HttpThreads /\ \A u \in HttpThreads \ {t} : endpoint'[u] = endpoint[u]
        /\ Sets(e, f, {"gone", "total"}) /\ f.total = total /\ f.gone
    BY <2>2, <1>1, <1>2 DEF Fields, Sets
  <2>4. /\ f.sent = e.sent /\ f.req = e.req /\ f.failed = e.failed /\ DOMAIN f = Fields /\ f.cgi = e.cgi
        /\ f.fd = e.fd /\ f.code = e.code /\ f.size = e.size /\ f.output = e.output /\ f.length = e.length
        /\ f.wire = e.wire /\ f.pc = "send"
    BY <2>3, <1>2 DEF Fields, Sets
  <2>5. total \in Nat
    <3>1. e.total + SizeMod - 1 \in Nat /\ SizeMod \in Nat \ {0}
      BY <1>3 DEF EndAssumed
    <3>2. QED BY <2>1, <3>1
  <2>6. SendOk(f)
    BY <2>3, <2>4, <2>5, <1>3 DEF SendOk
  <2>7. QED BY <2>3, <2>4, <2>6, <1>1, <1>2, SendFrame
<1>8. QED BY <1>1, <1>4, <1>5, <1>6, <1>7 DEF send_http_response

LEMMA CloseKeeps ==
  ASSUME EndInv, NEW t \in HttpThreads, Close(t)
  PROVE  EndInv'
<1>1. PICK e, f : e = endpoint[t] /\ f = endpoint'[t]
  OBVIOUS
<1>2. /\ DOMAIN endpoint = HttpThreads /\ DOMAIN e = Fields /\ SendOk(e) /\ e.pc = "close"
      /\ UNCHANGED <<pipes, child>> /\ endpoint' = [endpoint EXCEPT ![t].pc = "done"]
  BY <1>1 DEF EndInv, EndTypes, Close
<1>3. /\ DOMAIN endpoint' = HttpThreads /\ \A u \in HttpThreads \ {t} : endpoint'[u] = endpoint[u]
      /\ Sets(e, f, {"pc"}) /\ f.pc = "done"
  BY <1>1, <1>2 DEF Fields, Sets
<1>4. /\ f.sent = e.sent /\ f.req = e.req /\ f.failed = e.failed /\ DOMAIN f = Fields
      /\ f.size = e.size /\ f.output = e.output /\ f.length = e.length /\ f.wire = e.wire /\ f.total = e.total
  BY <1>3 DEF Fields, Sets
<1>5. SendOk(f)
  BY <1>2, <1>3, <1>4 DEF SendOk
<1>6. QED BY <1>1, <1>2, <1>3, <1>4, <1>5, SendFrame

(* The steps of process_cgi keep the request and everything that is sent.  *)
LEMMA CgiFrame ==
  ASSUME EndInv, NEW t \in HttpThreads, DOMAIN endpoint' = HttpThreads,
         \A u \in HttpThreads \ {t} : endpoint'[u] = endpoint[u],
         Sets(endpoint[t], endpoint'[t], {"pc", "code", "output", "failed"}),
         endpoint'[t].output \in Nat,
         endpoint[t].pc \in {"input", "output", "fork", "close ends", "read"},
         endpoint'[t].pc \in {"output", "fork", "close ends", "read", "helper"},
         EndsOk(t, endpoint'[t], pipes'), \A x \in pipes' \ pipes : x \in Own(t),
         DOMAIN child' = HttpThreads, \A u \in HttpThreads : child'[u].output \in Nat
  PROVE  EndInv'
<1>1. PICK e, f : e = endpoint[t] /\ f = endpoint'[t]
  OBVIOUS
<1>2. ReadOk(t, e) /\ SendOk(e)
  BY <1>1 DEF EndInv
<1>3. /\ f.sent = e.sent /\ f.req = e.req /\ DOMAIN f = Fields /\ f.cgi = e.cgi /\ f.fd = e.fd
      /\ f.size = e.size /\ f.length = e.length /\ f.wire = e.wire /\ f.total = e.total /\ f.gone = e.gone
  BY <1>1 DEF Sets, Fields
<1>4. ReadOk(t, f)
  BY <1>1, <1>2, <1>3, ReadStays
<1>5. SendOk(f)
  BY <1>1, <1>2, <1>3 DEF SendOk
<1>6. QED BY <1>1, <1>3, <1>4, <1>5, EndFrame

LEMMA PipeKeeps ==
  ASSUME EndInv, NEW t \in HttpThreads, Pipe(t)
  PROVE  EndInv'
<1>1. PICK e, f : e = endpoint[t] /\ f = endpoint'[t]
  OBVIOUS
<1>2. /\ DOMAIN endpoint = HttpThreads /\ DOMAIN e = Fields /\ SendOk(e) /\ EndsOk(t, e, pipes)
      /\ e.pc \in {"input", "output"} /\ UNCHANGED child
  BY <1>1 DEF EndInv, EndTypes, Pipe
<1>3. DOMAIN child' = HttpThreads /\ \A u \in HttpThreads : child'[u].output \in Nat
  BY <1>2 DEF EndInv, EndTypes
<1>4. CASE /\ pipes' = pipes \union {<<t, e.pc, "r">>, <<t, e.pc, "w">>}
           /\ endpoint' = [endpoint EXCEPT ![t].pc = IF @ = "input" THEN "output" ELSE "fork"]
  <2>1. /\ DOMAIN endpoint' = HttpThreads /\ \A u \in HttpThreads \ {t} : endpoint'[u] = endpoint[u]
        /\ Sets(e, f, {"pc", "code", "output", "failed"}) /\ f.pc \in {"output", "fork"} /\ f.output = e.output
    BY <1>1, <1>2, <1>4 DEF Fields, Sets
  <2>2. \A x \in pipes' \ pipes : x \in Own(t)
    BY <1>2, <1>4 DEF Own
  <2>3. EndsOk(t, f, pipes')
    BY <2>1 DEF EndsOk
  <2>4. f.output \in Nat
    BY <2>1, <1>2 DEF SendOk
  <2>5. QED BY <2>1, <2>2, <2>3, <2>4, <1>1, <1>2, <1>3, CgiFrame
<1>5. CASE /\ endpoint' = [endpoint EXCEPT ![t].code = 500, ![t].pc = "helper", ![t].failed = TRUE]
           /\ UNCHANGED pipes
  <2>1. /\ DOMAIN endpoint' = HttpThreads /\ \A u \in HttpThreads \ {t} : endpoint'[u] = endpoint[u]
        /\ Sets(e, f, {"pc", "code", "output", "failed"}) /\ f.pc = "helper" /\ f.output = e.output
        /\ f.failed
    BY <1>1, <1>2, <1>5 DEF Fields, Sets
  <2>2. EndsOk(t, f, pipes')
    BY <2>1 DEF EndsOk
  <2>3. f.output \in Nat
    BY <2>1, <1>2 DEF SendOk
  <2>4. \A x \in pipes' \ pipes : x \in Own(t)
    BY <1>5
  <2>5. QED BY <2>1, <2>2, <2>3, <2>4, <1>1, <1>2, <1>3, CgiFrame
<1>6. QED BY <1>1, <1>4, <1>5 DEF Pipe

LEMMA ForkCgiKeeps ==
  ASSUME EndInv, NEW t \in HttpThreads, ForkCgi(t)
  PROVE  EndInv'
<1>1. PICK e, f : e = endpoint[t] /\ f = endpoint'[t]
  OBVIOUS
<1>2. /\ DOMAIN endpoint = HttpThreads /\ DOMAIN e = Fields /\ SendOk(e) /\ e.pc = "fork"
      /\ UNCHANGED pipes
  BY <1>1 DEF EndInv, EndTypes, ForkCgi
<1>3. DOMAIN child' = HttpThreads /\ \A u \in HttpThreads : child'[u].output \in Nat
  <2>1. DOMAIN child = HttpThreads /\ \A u \in HttpThreads : child[u].output \in Nat
    BY DEF EndInv, EndTypes
  <2>2. CASE UNCHANGED child
    BY <2>1, <2>2
  <2>3. CASE child' = [child EXCEPT ![t] =
              [NoChild EXCEPT !.state = "running",
                              !.holds = pipes \ {<<t, "input", "r">>, <<t, "output", "w">>}]]
    <3>1. child'[t].output = 0
      BY <2>1, <2>3 DEF NoChild
    <3>2. QED BY <2>1, <2>3, <3>1
  <2>4. QED BY <2>2, <2>3 DEF ForkCgi
<1>4. /\ DOMAIN endpoint' = HttpThreads /\ \A u \in HttpThreads \ {t} : endpoint'[u] = endpoint[u]
      /\ Sets(e, f, {"pc", "code", "output", "failed"}) /\ f.output = e.output
      /\ f.pc = "close ends" \/ (f.pc = "helper" /\ f.failed)
  <2>1. CASE endpoint' = [endpoint EXCEPT ![t].pc = "close ends"]
    BY <2>1, <1>1, <1>2 DEF Fields, Sets
  <2>2. CASE endpoint' = [endpoint EXCEPT ![t].code = 404, ![t].pc = "helper", ![t].failed = TRUE]
    BY <2>2, <1>1, <1>2 DEF Fields, Sets
  <2>3. QED BY <2>1, <2>2 DEF ForkCgi
<1>5. EndsOk(t, f, pipes')
  BY <1>4 DEF EndsOk
<1>6. f.output \in Nat /\ f.pc \in {"close ends", "helper"} /\ \A x \in pipes' \ pipes : x \in Own(t)
  BY <1>2, <1>4 DEF SendOk
<1>7. QED BY <1>1, <1>2, <1>3, <1>4, <1>5, <1>6, CgiFrame

LEMMA CloseEndsKeeps ==
  ASSUME EndInv, NEW t \in HttpThreads, CloseEnds(t)
  PROVE  EndInv'
<1>1. PICK e, f : e = endpoint[t] /\ f = endpoint'[t]
  OBVIOUS
<1>2. /\ DOMAIN endpoint = HttpThreads /\ DOMAIN e = Fields /\ SendOk(e) /\ e.pc = "close ends"
      /\ UNCHANGED child /\ pipes' = pipes \ {<<t, "input", "w">>, <<t, "output", "r">>}
      /\ endpoint' = [endpoint EXCEPT ![t].pc = "read"]
  BY <1>1 DEF EndInv, EndTypes, CloseEnds
<1>3. DOMAIN child' = HttpThreads /\ \A u \in HttpThreads : child'[u].output \in Nat
  BY <1>2 DEF EndInv, EndTypes
<1>4. /\ DOMAIN endpoint' = HttpThreads /\ \A u \in HttpThreads \ {t} : endpoint'[u] = endpoint[u]
      /\ Sets(e, f, {"pc", "code", "output", "failed"}) /\ f.output = e.output /\ f.pc = "read"
  BY <1>1, <1>2 DEF Fields, Sets
<1>5. EndsOk(t, f, pipes') /\ \A x \in pipes' \ pipes : x \in Own(t)
  BY <1>2, <1>4 DEF EndsOk
<1>6. f.output \in Nat
  BY <1>2, <1>4 DEF SendOk
<1>7. QED BY <1>1, <1>2, <1>3, <1>4, <1>5, <1>6, CgiFrame

LEMMA ReadAndWaitKeeps ==
  ASSUME EndInv, NEW t \in HttpThreads, ReadAndWait(t)
  PROVE  EndInv'
<1>1. PICK e, f : e = endpoint[t] /\ f = endpoint'[t]
  OBVIOUS
<1>2. /\ DOMAIN endpoint = HttpThreads /\ DOMAIN e = Fields /\ EndsOk(t, e, pipes) /\ e.pc = "read"
      /\ UNCHANGED child /\ pipes' = pipes \ {<<t, "input", "r">>, <<t, "output", "w">>}
  BY <1>1 DEF EndInv, EndTypes, ReadAndWait
<1>3. /\ DOMAIN child' = HttpThreads /\ \A u \in HttpThreads : child'[u].output \in Nat
      /\ child[t].output \in Nat
  BY <1>2 DEF EndInv, EndTypes
<1>4. PICK code : endpoint' = [endpoint EXCEPT ![t].output = child[t].output, ![t].pc = "helper", ![t].code = code]
  BY DEF ReadAndWait, Result
<1>5. /\ DOMAIN endpoint' = HttpThreads /\ \A u \in HttpThreads \ {t} : endpoint'[u] = endpoint[u]
      /\ Sets(e, f, {"pc", "code", "output", "failed"}) /\ f.output = child[t].output /\ f.pc = "helper"
  BY <1>1, <1>2, <1>4 DEF Fields, Sets
<1>6. \A x \in Own(t) : x \in {<<t, "input", "r">>, <<t, "output", "w">>, <<t, "input", "w">>, <<t, "output", "r">>}
  BY DEF Own
<1>7. EndsOk(t, f, pipes') /\ \A x \in pipes' \ pipes : x \in Own(t)
  BY <1>2, <1>5, <1>6 DEF EndsOk
<1>8. QED BY <1>1, <1>2, <1>3, <1>5, <1>7, CgiFrame

LEMMA ChildEndsKeeps ==
  ASSUME EndAssumed, EndInv, NEW t \in HttpThreads, ChildEnds(t)
  PROVE  EndInv'
<1>1. PICK n \in 0 .. MaxOutput, status \in {"zero", "nonzero", "killed"} :
        child' = [child EXCEPT ![t] =
                    [state |-> "ended", output |-> n, status |-> status, holds |-> {}]]
  BY DEF ChildEnds
<1>2. DOMAIN child = HttpThreads /\ \A u \in HttpThreads : child[u].output \in Nat
  BY DEF EndInv, EndTypes
<1>3. DOMAIN child' = HttpThreads /\ child'[t].output = n /\ \A u \in HttpThreads \ {t} : child'[u] = child[u]
  BY <1>1, <1>2
<1>4. n \in Nat
  BY <1>1 DEF EndAssumed
<1>5. EndTypes'
  BY <1>2, <1>3, <1>4 DEF ChildEnds, EndInv, EndTypes
<1>6. QED BY <1>5 DEF ChildEnds, EndInv

(* The initial state.                                                      *)
LEMMA EndInvInit == EndAssumed /\ EndInit => EndInv
<1> SUFFICES ASSUME EndAssumed, EndInit PROVE EndInv
  OBVIOUS
<1>1. DOMAIN endpoint = HttpThreads /\ pipes = {} /\ child = [t \in HttpThreads |-> NoChild]
  BY DEF EndInit
<1>2. ASSUME NEW t \in HttpThreads
      PROVE  /\ DOMAIN endpoint[t] = Fields /\ child[t].output \in Nat
             /\ ReadOk(t, endpoint[t]) /\ SendOk(endpoint[t]) /\ EndsOk(t, endpoint[t], pipes)
  <2>0. PICK r \in Requests[t] : endpoint[t] \in {Idle(r, SubSeq(Text(r), 1, n)) : n \in 0 .. Len(Text(r))}
    BY DEF EndInit, Arrived
  <2>1. PICK n \in 0 .. Len(Text(r)) : endpoint[t] = Idle(r, SubSeq(Text(r), 1, n))
    BY <2>0
  <2>2. PICK e, in : e = endpoint[t] /\ in = SubSeq(Text(r), 1, n)
    OBVIOUS
  <2>3. e = Idle(r, in)
    BY <2>1, <2>2
  <2>4. /\ DOMAIN e = Fields /\ e.pc = "line" /\ e.sent = r /\ e.in = in /\ e.req.stop /\ e.header = <<>>
        /\ e.size = 0 /\ e.output = 0 /\ e.length = 0 /\ e.wire = 0 /\ e.total = 0 /\ e.gone = FALSE
    BY <2>3 DEF Idle, Fields
  <2>5. ReadOk(t, e)
    BY <2>0, <2>1, <2>2, <2>4 DEF ReadOk
  <2>6. SendOk(e)
    BY <2>4 DEF SendOk
  <2>7. EndsOk(t, e, pipes)
    BY <2>4, <1>1 DEF EndsOk
  <2>8. child[t].output \in Nat
    BY <1>1 DEF NoChild
  <2>9. QED BY <2>2, <2>4, <2>5, <2>6, <2>7, <2>8
<1>3. QED BY <1>1, <1>2 DEF EndInv, EndTypes

(* The invariant is inductive.                                             *)
LEMMA EndInvStep == EndAssumed /\ EndInv /\ [EndNext]_endVars => EndInv'
<1> SUFFICES ASSUME EndAssumed, EndInv, [EndNext]_endVars PROVE EndInv'
  OBVIOUS
<1>1. CASE UNCHANGED endVars
  BY <1>1 DEF endVars, EndInv, EndTypes
<1>2. ASSUME NEW t \in HttpThreads, HandlerRequest(t) PROVE EndInv'
  <2>1. CASE recv_http_request(t)
    BY <2>1, recv_http_request_lineKeeps, recv_http_request_headerKeeps, recv_http_request_bodyKeeps
       DEF recv_http_request
  <2>2. CASE process_cgi(t)
    BY <2>2, PipeKeeps, ForkCgiKeeps, CloseEndsKeeps, ReadAndWaitKeeps DEF process_cgi
  <2>3. QED
    BY <1>2, <2>1, <2>2, build_http_responseKeeps, process_Non_cgiKeeps,
       build_http_response_helperKeeps, send_http_responseKeeps, CloseKeeps DEF HandlerRequest
<1>3. ASSUME NEW t \in HttpThreads, ChildEnds(t) PROVE EndInv'
  BY <1>3, ChildEndsKeeps
<1>4. ASSUME NEW t \in HttpThreads, PeerQuits(t) PROVE EndInv'
  BY <1>4, PeerQuitsKeeps
<1>5. QED BY <1>1, <1>2, <1>3, <1>4 DEF EndNext

(* A request is acted on only if all of it arrived, and then as it was     *)
(* sent, wherever the input ends and whichever line end the peer uses,     *)
(* except that the blank line takes an LF that begins the body after a     *)
(* bare CR; the body sent is as long as announced unless the connection    *)
(* breaks; and no pipe end stays open unless a pipe or the fork failed     *)
(* (ReadLine, recv_http_request, build_http_response, process_cgi,         *)
(* send_http_response).                                                    *)
THEOREM RequestsAnswered ==
  ASSUME EndAssumed
  PROVE  EndSpec => [](RequestAsSent /\ BodyAsAnnounced /\ EndsReturned)
<1>1. EndInit => EndInv
  BY EndInvInit
<1>2. EndInv /\ [EndNext]_endVars => EndInv'
  BY EndInvStep
<1>3. EndInv => RequestAsSent /\ BodyAsAnnounced /\ EndsReturned
  <2> SUFFICES ASSUME EndInv PROVE RequestAsSent /\ BodyAsAnnounced /\ EndsReturned
    OBVIOUS
  <2>1. DOMAIN endpoint = HttpThreads
    BY DEF EndInv, EndTypes
  <2>2. RequestAsSent
    BY <2>1 DEF EndInv, ReadOk, AsSent, RequestAsSent
  <2>3. BodyAsAnnounced
    BY <2>1 DEF EndInv, SendOk, BodyAsAnnounced
  <2>4. EndsReturned
    BY <2>1 DEF EndInv, EndsOk, EndsReturned
  <2>5. QED BY <2>2, <2>3, <2>4
<1>4. QED BY <1>1, <1>2, <1>3, PTL DEF EndSpec

-----------------------------------------------------------------------------
(* The calculator's protocol.  A package is its length, a separator, a     *)
(* text and a separator.                                                   *)
LEMMA BytesDiffer == CR # LF /\ \A n : Length(n) # CR /\ Length(n) # LF
<1>1. CR.t = "\r" /\ LF.t = "\n" /\ \A n : Length(n).t = "length" /\ Length(n).n = n
  BY DEF CR, LF, Length
<1>2. QED BY <1>1

LEMMA PackageBytes ==
  ASSUME NEW S, NEW text \in Seq(S)
  PROVE  LET m == enLength(text)
             T == S \union {CR, LF, Length(Len(text))} IN
         /\ m \in Seq(T) /\ Len(m) = Len(text) + 5 /\ Len(text) \in Nat
         /\ m[1] = Length(Len(text)) /\ m[2] = CR /\ m[3] = LF
         /\ \A i \in 1 .. Len(text) : m[3 + i] = text[i]
<1> DEFINE T == S \union {CR, LF, Length(Len(text))}
           a == <<Length(Len(text))>>
           b == LINE_SEP
<1>1. a \in Seq(T) /\ Len(a) = 1 /\ a[1] = Length(Len(text))
  OBVIOUS
<1>2. b \in Seq(T) /\ Len(b) = 2 /\ b[1] = CR /\ b[2] = LF
  BY DEF LINE_SEP
<1>3. text \in Seq(T) /\ Len(text) \in Nat
  OBVIOUS
<1> HIDE DEF T, a, b
<1> DEFINE u == a \o b
<1>4. /\ u \in Seq(T) /\ Len(u) = 3 /\ u[1] = Length(Len(text)) /\ u[2] = CR /\ u[3] = LF
  <2>1. /\ u \in Seq(T) /\ Len(u) = Len(a) + Len(b) /\ \A i \in 1 .. Len(a) : u[i] = a[i]
        /\ \A i \in 1 .. Len(b) : u[Len(a) + i] = b[i]
    <3>1. a \in Seq(T) /\ b \in Seq(T)
      BY <1>1, <1>2
    <3>2. QED BY <3>1, Joined
  <2> HIDE DEF u
  <2>2. u[1 + 1] = b[1] /\ u[1 + 2] = b[2] /\ u[1] = a[1]
    BY <2>1, <1>1, <1>2
  <2>3. QED BY <2>1, <2>2, <1>1, <1>2
<1> HIDE DEF u
<1> DEFINE v == u \o text
<1>5. /\ v \in Seq(T) /\ Len(v) = 3 + Len(text) /\ \A i \in 1 .. 3 : v[i] = u[i]
      /\ \A i \in 1 .. Len(text) : v[3 + i] = text[i]
  <2>1. u \in Seq(T) /\ text \in Seq(T)
    BY <1>3, <1>4
  <2>2. /\ v \in Seq(T) /\ Len(v) = Len(u) + Len(text) /\ \A i \in 1 .. Len(u) : v[i] = u[i]
        /\ \A i \in 1 .. Len(text) : v[Len(u) + i] = text[i]
    BY <2>1, Joined
  <2>3. QED BY <2>2, <1>4
<1> HIDE DEF v
<1> DEFINE m == v \o b
<1>6. /\ m \in Seq(T) /\ Len(m) = 3 + Len(text) + 2 /\ \A i \in 1 .. 3 + Len(text) : m[i] = v[i]
  <2>1. v \in Seq(T) /\ b \in Seq(T)
    BY <1>2, <1>5
  <2>2. m \in Seq(T) /\ Len(m) = Len(v) + Len(b) /\ \A i \in 1 .. Len(v) : m[i] = v[i]
    BY <2>1, Joined
  <2>3. QED BY <2>2, <1>2, <1>5
<1>7. enLength(text) = m
  BY DEF enLength, a, b, u, v
<1> HIDE DEF m
<1>8. \A i \in 1 .. 3 : m[i] = u[i]
  BY <1>3, <1>5, <1>6
<1>9. \A i \in 1 .. Len(text) : m[3 + i] = text[i]
  BY <1>3, <1>5, <1>6
<1>10. m[1] = Length(Len(text)) /\ m[2] = CR /\ m[3] = LF /\ Len(m) = Len(text) + 5
  BY <1>3, <1>4, <1>6, <1>8
<1>11. QED BY <1>3, <1>6, <1>7, <1>9, <1>10 DEF T

(* The first separator of a package is after its length; without three     *)
(* bytes there is none.                                                    *)
LEMMA SepFound ==
  ASSUME NEW S, NEW s \in Seq(S), Len(s) >= 1 => s[1] # CR
  PROVE  /\ Len(s) < 3 => FindSep(s) = -1
         /\ Len(s) >= 3 /\ s[2] = CR /\ s[3] = LF => FindSep(s) = 1
<1> DEFINE site == {i \in 1 .. (Len(s) - 1) : s[i] = CR /\ s[i + 1] = LF}
<1>1. Len(s) \in Nat
  OBVIOUS
<1>2. \A i \in site : i \in Nat /\ i >= 2 /\ i <= Len(s) - 1
  BY <1>1
<1>3. ASSUME Len(s) < 3 PROVE FindSep(s) = -1
  <2>1. site = {}
    BY <1>1, <1>2, <1>3
  <2>2. QED BY <2>1 DEF FindSep
<1>4. ASSUME Len(s) >= 3, s[2] = CR, s[3] = LF PROVE FindSep(s) = 1
  <2>1. 2 \in site
    BY <1>1, <1>4
  <2> HIDE DEF site
  <2>2. (CHOOSE i \in site : \A j \in site : i <= j) = 2
    <3>1. \A i \in site : (\A j \in site : i <= j) => i = 2
      BY <2>1, <1>2
    <3>2. \A j \in site : 2 <= j
      BY <1>2
    <3>3. QED BY <2>1, <3>1, <3>2
  <2>3. site # {}
    BY <2>1
  <2>4. QED BY <2>2, <2>3 DEF FindSep, site
<1>5. QED BY <1>3, <1>4

(* What ParseOnePackage sees in the beginning of a package.                *)
LEMMA PartParsed ==
  ASSUME NEW S, NEW text \in Seq(S), NEW j \in 0 .. Len(enLength(text))
  PROVE  /\ j < Len(enLength(text)) => Total(SubSeq(enLength(text), 1, j)) = 0
         /\ j = Len(enLength(text)) => Total(SubSeq(enLength(text), 1, j)) = Len(enLength(text))
<1> DEFINE m == enLength(text)
           T == S \union {CR, LF, Length(Len(text))}
           s == SubSeq(m, 1, j)
<1>1. /\ m \in Seq(T) /\ Len(m) = Len(text) + 5 /\ Len(text) \in Nat
      /\ m[1] = Length(Len(text)) /\ m[2] = CR /\ m[3] = LF
  BY PackageBytes
<1> HIDE DEF m, T
<1>2. j \in 0 .. Len(m)
  BY DEF m
<1>3. /\ s \in Seq(T) /\ Len(s) = (IF 1 <= j THEN j - 1 + 1 ELSE 0)
      /\ \A i \in 1 .. Len(s) : s[i] = m[1 - 1 + i]
  BY <1>1, <1>2, PartOf
<1> HIDE DEF s
<1>4. Len(s) = j /\ j \in Nat /\ \A i \in 1 .. j : s[i] = m[i]
  BY <1>1, <1>2, <1>3
<1>5. j >= 1 => s[1] # CR
  BY <1>1, <1>4, BytesDiffer
<1>6. /\ j < 3 => FindSep(s) = -1
      /\ j >= 3 /\ s[2] = CR /\ s[3] = LF => FindSep(s) = 1
  BY <1>3, <1>4, <1>5, SepFound
<1>7. CASE j < 3
  BY <1>1, <1>2, <1>6, <1>7 DEF Total, m, s
<1>8. CASE j >= 3
  <2>1. s[1] = m[1] /\ s[2] = m[2] /\ s[3] = m[3]
    BY <1>4, <1>8
  <2>2. FindSep(s) = 1 /\ s[1].n = Len(text)
    BY <2>1, <1>1, <1>6, <1>8 DEF Length
  <2>3. Len(LINE_SEP) = 2
    BY DEF LINE_SEP
  <2>4. Total(s) = IF j < Len(m) THEN 0 ELSE Len(m)
    BY <2>2, <2>3, <1>1, <1>4 DEF Total
  <2>5. QED BY <2>4, <1>2, <1>1 DEF m, s
<1>9. QED BY <1>4, <1>7, <1>8

(* The text of a package is the text that was put into it.                 *)
LEMMA TextUnpacked ==
  ASSUME NEW S, NEW text \in Seq(S)
  PROVE  deLength(enLength(text)) = text
<1> DEFINE m == enLength(text)
           T == S \union {CR, LF, Length(Len(text))}
           l == Len(text)
<1>1. /\ m \in Seq(T) /\ Len(m) = l + 5 /\ l \in Nat
      /\ m[1] = Length(l) /\ m[2] = CR /\ m[3] = LF /\ \A i \in 1 .. l : m[3 + i] = text[i]
  BY PackageBytes
<1> HIDE DEF m, T
<1>2. FindSep(m) = 1
  <2>1. Len(m) >= 3 /\ (Len(m) >= 1 => m[1] # CR)
    BY <1>1, BytesDiffer
  <2>2. QED BY <2>1, <1>1, SepFound
<1>3. m[1].n = l
  BY <1>1 DEF Length
<1> HIDE DEF l
<1>4. deLength(m) = SubSeq(m, 4, 3 + l)
  BY <1>2, <1>3, <1>1 DEF deLength
<1> DEFINE p == SubSeq(m, 4, 3 + l)
<1>5. /\ p \in Seq(T) /\ Len(p) = (IF 4 <= 3 + l THEN 3 + l - 4 + 1 ELSE 0)
      /\ \A i \in 1 .. Len(p) : p[i] = m[4 - 1 + i]
  <2>1. 3 + l \in 0 .. Len(m) /\ 4 \in Nat \ {0}
    BY <1>1
  <2>2. QED BY <2>1, <1>1, PartOf
<1> HIDE DEF p
<1>6. Len(p) = l
  BY <1>1, <1>5
<1>7. \A i \in 1 .. l : p[i] = text[i]
  <2>1. ASSUME NEW i \in 1 .. l PROVE p[i] = text[i]
    <3>1. 4 - 1 + i = 3 + i
      BY <1>1
    <3>2. QED BY <3>1, <1>1, <1>5, <1>6
  <2>2. QED BY <2>1
<1>8. text \in Seq(T) /\ Len(text) = l
  BY DEF T, l
<1>9. p = text
  BY <1>5, <1>6, <1>7, <1>8, SeqEqual
<1>10. QED BY <1>4, <1>9 DEF p, m

(* A question is understood as it was asked, and its answer as it was      *)
(* given.                                                                  *)
LEMMA QuestionUnderstood ==
  ASSUME NEW qu
  PROVE  LET m == enLength(SerializeRequest(qu)) IN
         /\ \E S : SerializeRequest(qu) \in Seq(S)
         /\ Answer(m) = enLength(SerializeResponse(my_string(qu)))
         /\ deLength(Answer(m))[1].r = my_string(qu) /\ Answer(m) # <<>>
         /\ <<>> \o Answer(m) = Answer(m)
<1> DEFINE text == SerializeRequest(qu)
           S == {[t |-> "request", r |-> qu], Pad}
           rep == my_string(qu)
           out == SerializeResponse(rep)
           R == {[t |-> "response", r |-> rep]}
<1>1. /\ text \in Seq(S) /\ text # <<>> /\ text[1] = [t |-> "request", r |-> qu]
  <2> DEFINE x == [t |-> "request", r |-> qu]
  <2>1. x \in S /\ Pad \in S
    OBVIOUS
  <2>2. text = <<x>> \o (IF qu.op = "+" THEN <<>> ELSE <<Pad>>)
    BY DEF SerializeRequest
  <2> HIDE DEF x, S, text
  <2>3. CASE qu.op = "+"
    <3>1. text = <<x>> \o <<>>
      BY <2>2, <2>3
    <3>2. QED BY <3>1, <2>1 DEF x
  <2>4. CASE qu.op # "+"
    <3>1. text = <<x>> \o <<Pad>>
      BY <2>2, <2>4
    <3>2. QED BY <3>1, <2>1 DEF x
  <2>5. QED BY <2>3, <2>4
<1>2. text[1].t = "request" /\ text[1].r = qu
  BY <1>1
<1>3. Deserialize(text) = qu
  BY <1>1, <1>2 DEF Deserialize
<1> HIDE DEF S
<1>4. deLength(enLength(text)) = text
  BY <1>1, TextUnpacked
<1>5. Answer(enLength(text)) = enLength(out)
  BY <1>3, <1>4 DEF Answer
<1> HIDE DEF rep
<1>6. out \in Seq(R) /\ out[1].r = rep
  BY DEF SerializeResponse
<1> HIDE DEF out, R, text
<1>7. deLength(enLength(out)) = out
  BY <1>6, TextUnpacked
<1>8. enLength(out) # <<>> /\ <<>> \o enLength(out) = enLength(out)
  <2> DEFINE T == R \union {CR, LF, Length(Len(out))}
             m == enLength(out)
  <2>1. m \in Seq(T) /\ Len(m) = Len(out) + 5 /\ Len(out) \in Nat
    BY <1>6, PackageBytes
  <2> HIDE DEF m, T
  <2>2. m # <<>> /\ <<>> \o m = m
    BY <2>1, ConcatEmptySeq
  <2>3. QED BY <2>2 DEF m
<1>9. QED BY <1>1, <1>5, <1>6, <1>7, <1>8 DEF text, out, rep

-----------------------------------------------------------------------------
(* The clients and the forked processes.  A client has at most one         *)
(* question in flight, and each byte of it is in one place.                *)

\* What recv returns are bytes.
ForkAssumed ==
  /\ RecvSizes \subseteq Nat
  /\ \A c \in Clients : Len(Questions[c]) \in Nat

AllAsked == UNION {{Questions[c][i] : i \in 1 .. Len(Questions[c])} : c \in Clients}
Shown == {my_string(qu) : qu \in AllAsked}
Package(qu) == enLength(SerializeRequest(qu))

ForkTypes ==
  /\ DOMAIN client = Clients /\ DOMAIN link = Clients /\ DOMAIN worker = Clients
  /\ \A c \in Clients : /\ DOMAIN client[c] = {"pc", "asked", "printed"}
                        /\ DOMAIN link[c] = {"to", "back", "held"}
                        /\ DOMAIN worker[c] = {"pc", "inbuffer", "text"}
  /\ DOMAIN listener = {"pc", "sock"} /\ listener.pc \in {"accept", "fork", "close", "wait"}
  /\ listener.sock \in SUBSET Clients /\ (listener.pc = "accept" => listener.sock = {})
  /\ \A c, d \in listener.sock : c = d
  /\ backlog \in Seq(Clients)

PrintedOk(cl) ==
  /\ cl.asked \in Seq(AllAsked) /\ cl.printed \in Seq(Shown)
  /\ Len(cl.printed) <= Len(cl.asked)
  /\ \A i \in 1 .. Len(cl.printed) : cl.printed[i] = my_string(cl.asked[i])

\* Nothing is in flight.
Quiet(cl, l, w) ==
  /\ Len(cl.printed) = Len(cl.asked)
  /\ l.to = <<>> /\ l.back = <<>> /\ w.inbuffer = <<>> /\ w.pc \in {"none", "child", "recv"}

\* The last question is on its way, being answered, or answered.
InFlight(l, w, m) ==
  \/ /\ w.pc \in {"none", "child", "recv"} /\ l.back = <<>>
     /\ \E n \in 0 .. Len(m) - 1 : w.inbuffer = SubSeq(m, 1, n) /\ l.to = SubSeq(m, n + 1, Len(m))
  \/ w.pc = "answer" /\ w.text = m /\ w.inbuffer = <<>> /\ l.to = <<>> /\ l.back = <<>>
  \/ w.pc = "recv" /\ w.inbuffer = <<>> /\ l.to = <<>> /\ l.back = Answer(m)

ClientOk(cl, l, w) ==
  /\ PrintedOk(cl)
  /\ cl.pc \in {"connect", "ask", "recv", "gone"}
  /\ cl.pc \in {"connect", "ask"} => Quiet(cl, l, w)
  /\ cl.pc = "recv" => /\ Len(cl.asked) = Len(cl.printed) + 1
                       /\ InFlight(l, w, Package(cl.asked[Len(cl.asked)]))

\* The copies of a connection: the listener's until it closes it, the first
\* child's until it exits, and that of the one that serves.
HeldOk(c, held, label, lis) ==
  /\ held \subseteq {"server", "child", "handler"}
  /\ label \in {"none", "exited"} => held \subseteq {"server"}
  /\ "server" \in held => c \in lis.sock /\ lis.pc \in {"fork", "close"}
  /\ "child" \in held \/ label = "child" => c \in lis.sock /\ lis.pc \in {"close", "wait"}

\* A connection is accepted once, and nobody serves it before.
QueueOk ==
  /\ Distinct(backlog)
  /\ \A i \in 1 .. Len(backlog) : /\ client[backlog[i]].pc # "connect" /\ worker[backlog[i]].pc = "none"
                                  /\ backlog[i] \notin listener.sock
  /\ \A c \in listener.sock : /\ client[c].pc # "connect"
                              /\ listener.pc = "fork" => worker[c].pc = "none"
  /\ \A c \in Clients : client[c].pc = "connect" => worker[c].pc = "none"

ForkInv ==
  /\ ForkTypes /\ QueueOk
  /\ \A c \in Clients : /\ ClientOk(client[c], link[c], worker[c])
                        /\ HeldOk(c, link[c].held, worker[c].pc, listener)

(* A step at one connection keeps the invariant if it keeps that           *)
(* connection's part of it.                                                *)
LEMMA ForkFrame ==
  ASSUME ForkInv, NEW c \in Clients, ForkTypes', QueueOk',
         \A d \in Clients \ {c} : client'[d] = client[d] /\ link'[d] = link[d] /\ worker'[d] = worker[d],
         \A d \in Clients \ {c} : HeldOk(d, link[d].held, worker[d].pc, listener'),
         ClientOk(client'[c], link'[c], worker'[c]),
         HeldOk(c, link'[c].held, worker'[c].pc, listener')
  PROVE  ForkInv'
<1>1. ASSUME NEW d \in Clients
      PROVE  ClientOk(client'[d], link'[d], worker'[d]) /\ HeldOk(d, link'[d].held, worker'[d].pc, listener')
  <2>1. CASE d = c
    BY <2>1
  <2>2. CASE d # c
    BY <2>2 DEF ForkInv
  <2>3. QED BY <2>1, <2>2
<1>2. QED BY <1>1 DEF ForkInv

\* The three records of a connection after a step.
Whole(c) ==
  /\ DOMAIN client' = Clients /\ DOMAIN link' = Clients /\ DOMAIN worker' = Clients
  /\ DOMAIN client'[c] = {"pc", "asked", "printed"} /\ DOMAIN link'[c] = {"to", "back", "held"}
  /\ DOMAIN worker'[c] = {"pc", "inbuffer", "text"}
  /\ \A d \in Clients \ {c} : client'[d] = client[d] /\ link'[d] = link[d] /\ worker'[d] = worker[d]

(* The same for a step that neither accepts nor connects.                  *)
LEMMA LocalFrame ==
  ASSUME ForkInv, NEW c \in Clients, Whole(c), UNCHANGED <<backlog, listener>>,
         client'[c].pc # "connect", client[c].pc # "connect",
         worker'[c].pc = worker[c].pc \/ worker[c].pc # "none",
         ClientOk(client'[c], link'[c], worker'[c]),
         HeldOk(c, link'[c].held, worker'[c].pc, listener)
  PROVE  ForkInv'
<1>1. ForkTypes'
  <2>1. ForkTypes
    BY DEF ForkInv
  <2>2. \A d \in Clients : /\ DOMAIN client'[d] = {"pc", "asked", "printed"}
                           /\ DOMAIN link'[d] = {"to", "back", "held"}
                           /\ DOMAIN worker'[d] = {"pc", "inbuffer", "text"}
    BY <2>1 DEF ForkTypes, Whole
  <2>3. QED BY <2>1, <2>2 DEF ForkTypes, Whole
<1>2. \A d \in Clients : /\ client[d].pc # "connect" => client'[d].pc # "connect"
                         /\ worker[d].pc = "none" => worker'[d].pc = "none"
                         /\ client'[d].pc = "connect" => client[d].pc = "connect"
  BY DEF Whole
<1>3. QueueOk'
  <2>1. QueueOk /\ backlog \in Seq(Clients) /\ listener.sock \in SUBSET Clients
    BY DEF ForkInv, ForkTypes
  <2>2. \A i \in 1 .. Len(backlog) : backlog[i] \in Clients
    BY <2>1
  <2>3. QED BY <1>2, <2>1, <2>2 DEF QueueOk
<1>4. \A d \in Clients \ {c} : HeldOk(d, link[d].held, worker[d].pc, listener')
  BY DEF ForkInv
<1>5. QED BY <1>1, <1>3, <1>4, ForkFrame DEF Whole

\* What the invariant says of one connection, with its records named.
At(c, cl, l, w) ==
  /\ cl = client[c] /\ l = link[c] /\ w = worker[c]
  /\ DOMAIN client = Clients /\ DOMAIN link = Clients /\ DOMAIN worker = Clients
  /\ DOMAIN cl = {"pc", "asked", "printed"} /\ DOMAIN l = {"to", "back", "held"}
  /\ DOMAIN w = {"pc", "inbuffer", "text"}
  /\ ClientOk(cl, l, w) /\ HeldOk(c, l.held, w.pc, listener)

LEMMA AtConnection ==
  ASSUME ForkInv, NEW c \in Clients
  PROVE  \E cl, l, w : At(c, cl, l, w)
  BY DEF ForkInv, ForkTypes, At

(* A connection that a process serves has a client that connected.         *)
LEMMA ServedConnected ==
  ASSUME ForkInv, NEW c \in Clients, worker[c].pc # "none"
  PROVE  client[c].pc # "connect"
  BY DEF ForkInv, QueueOk

LEMMA ChildForksKeeps ==
  ASSUME ForkInv, NEW c \in Clients, ChildForks(c)
  PROVE  ForkInv'
<1>1. PICK cl, l, w : At(c, cl, l, w)
  BY AtConnection
<1>2. /\ w.pc = "child" /\ UNCHANGED <<client, backlog, listener>>
      /\ worker' = [worker EXCEPT ![c].pc = "recv"]
      /\ link' = link \/ link' = [link EXCEPT ![c].held = (@ \ {"child"}) \union {"handler"}]
  BY <1>1 DEF ChildForks, At
<1>3. PICK l2, w2 : l2 = link'[c] /\ w2 = worker'[c]
  OBVIOUS
<1>4. /\ Whole(c) /\ w2.pc = "recv" /\ w2.inbuffer = w.inbuffer
      /\ l2.to = l.to /\ l2.back = l.back
      /\ l2.held = l.held \/ l2.held = (l.held \ {"child"}) \union {"handler"}
  <2>1. Whole(c) /\ w2.pc = "recv" /\ w2.inbuffer = w.inbuffer
    BY <1>1, <1>2, <1>3 DEF At, Whole
  <2>2. CASE link' = link
    BY <2>1, <2>2, <1>1, <1>3 DEF At
  <2>3. CASE link' = [link EXCEPT ![c].held = (@ \ {"child"}) \union {"handler"}]
    BY <2>1, <2>3, <1>1, <1>3 DEF At
  <2>4. QED BY <2>1, <2>2, <2>3, <1>2
<1>5. ClientOk(cl, l2, w2)
  <2>1. Quiet(cl, l, w) => Quiet(cl, l2, w2)
    BY <1>4 DEF Quiet
  <2>2. ASSUME NEW m, InFlight(l, w, m) PROVE InFlight(l2, w2, m)
    <3>1. /\ l.back = <<>>
          /\ \E n \in 0 .. Len(m) - 1 : w.inbuffer = SubSeq(m, 1, n) /\ l.to = SubSeq(m, n + 1, Len(m))
      BY <2>2, <1>2 DEF InFlight
    <3>2. w2.inbuffer = w.inbuffer /\ l2.to = l.to /\ l2.back = l.back /\ w2.pc = "recv"
      BY <1>4
    <3>3. QED BY <3>1, <3>2, Zenon DEF InFlight
  <2>3. QED BY <2>1, <2>2, <1>1 DEF At, ClientOk
<1>6. HeldOk(c, l2.held, w2.pc, listener)
  BY <1>1, <1>2, <1>4 DEF At, HeldOk
<1>7. client[c].pc # "connect" /\ worker[c].pc # "none"
  BY <1>1, <1>2, ServedConnected DEF At
<1>8. QED BY <1>1, <1>2, <1>3, <1>4, <1>5, <1>6, <1>7, LocalFrame DEF At

LEMMA LeaveKeeps ==
  ASSUME ForkInv, NEW c \in Clients, Leave(c)
  PROVE  ForkInv'
<1>1. PICK cl, l, w : At(c, cl, l, w)
  BY AtConnection
<1>2. /\ cl.pc \in {"ask", "recv"} /\ UNCHANGED <<link, backlog, listener, worker, nofork>>
      /\ client' = [client EXCEPT ![c].pc = "gone"]
  BY <1>1 DEF Leave, At
<1>3. PICK cl2 : cl2 = client'[c]
  OBVIOUS
<1>4. Whole(c) /\ cl2.pc = "gone" /\ cl2.asked = cl.asked /\ cl2.printed = cl.printed
  BY <1>1, <1>2, <1>3 DEF At, Whole
<1>5. ClientOk(cl2, l, w)
  BY <1>1, <1>4 DEF At, ClientOk, PrintedOk
<1>6. QED BY <1>1, <1>2, <1>3, <1>4, <1>5, LocalFrame DEF At

LEMMA RecvEndsKeeps ==
  ASSUME ForkInv, NEW c \in Clients, RecvEnds(c)
  PROVE  ForkInv'
<1>1. PICK cl, l, w : At(c, cl, l, w)
  BY AtConnection
<1>2. /\ cl.pc = "gone" /\ w.pc = "recv" /\ UNCHANGED <<client, backlog, listener, nofork>>
      /\ worker' = [worker EXCEPT ![c].pc = "exited"]
      /\ link' = [link EXCEPT ![c].held = @ \ {"child", "handler"}]
  BY <1>1 DEF RecvEnds, At
<1>3. PICK l2, w2 : l2 = link'[c] /\ w2 = worker'[c]
  OBVIOUS
<1>4. Whole(c) /\ w2.pc = "exited" /\ l2.held = l.held \ {"child", "handler"}
  BY <1>1, <1>2, <1>3 DEF At, Whole
<1>5. ClientOk(cl, l2, w2)
  BY <1>1, <1>2 DEF At, ClientOk
<1>6. HeldOk(c, l2.held, w2.pc, listener)
  BY <1>1, <1>4 DEF At, HeldOk
<1>7. QED BY <1>1, <1>2, <1>3, <1>4, <1>5, <1>6, LocalFrame DEF At

LEMMA SendKeeps ==
  ASSUME ForkInv, NEW c \in Clients, Send(c)
  PROVE  ForkInv'
<1>1. PICK cl, l, w : At(c, cl, l, w)
  BY AtConnection
<1>2. /\ w.pc = "answer" /\ UNCHANGED <<client, backlog, listener, nofork>>
      /\ worker' = [worker EXCEPT ![c].pc = "recv", ![c].text = <<>>]
      /\ link' = [link EXCEPT ![c].back = @ \o Answer(w.text)]
  BY <1>1 DEF Send, At
<1>3. PICK l2, w2 : l2 = link'[c] /\ w2 = worker'[c]
  OBVIOUS
<1>4. /\ Whole(c) /\ w2.pc = "recv" /\ w2.inbuffer = w.inbuffer
      /\ l2.to = l.to /\ l2.back = l.back \o Answer(w.text) /\ l2.held = l.held
  BY <1>1, <1>2, <1>3 DEF At, Whole
<1>5. ClientOk(cl, l2, w2)
  <2>1. CASE cl.pc = "recv"
    <3>1. PICK qu : qu = cl.asked[Len(cl.asked)]
      OBVIOUS
    <3>2. w.text = Package(qu) /\ w.inbuffer = <<>> /\ l.to = <<>> /\ l.back = <<>>
      BY <2>1, <3>1, <1>1, <1>2 DEF At, ClientOk, InFlight
    <3>3. <<>> \o Answer(Package(qu)) = Answer(Package(qu))
      BY QuestionUnderstood DEF Package
    <3>4. InFlight(l2, w2, Package(qu))
      BY <3>2, <3>3, <1>4 DEF InFlight
    <3>5. QED BY <2>1, <3>1, <3>4, <1>1 DEF At, ClientOk
  <2>2. CASE cl.pc # "recv"
    <3>1. cl.pc = "gone"
      BY <2>2, <1>1, <1>2 DEF At, ClientOk, Quiet
    <3>2. QED BY <3>1, <1>1 DEF At, ClientOk
  <2>3. QED BY <2>1, <2>2
<1>6. HeldOk(c, l2.held, w2.pc, listener)
  BY <1>1, <1>2, <1>4 DEF At, HeldOk
<1>7. client[c].pc # "connect" /\ worker[c].pc # "none"
  BY <1>1, <1>2, ServedConnected DEF At
<1>8. QED BY <1>1, <1>2, <1>3, <1>4, <1>5, <1>6, <1>7, LocalFrame DEF At

(* A recv that cuts a package in two.                                      *)
LEMMA PartReceived ==
  ASSUME NEW S, NEW m \in Seq(S), NEW k \in 0 .. Len(m) - 1,
         NEW n \in 1 .. Len(SubSeq(m, k + 1, Len(m)))
  PROVE  LET to == SubSeq(m, k + 1, Len(m)) IN
         /\ k + n \in 1 .. Len(m)
         /\ SubSeq(m, 1, k) \o SubSeq(to, 1, n) = SubSeq(m, 1, k + n)
         /\ SubSeq(to, n + 1, Len(to)) = SubSeq(m, k + n + 1, Len(m))
<1> DEFINE L == Len(m)
           to == SubSeq(m, k + 1, L)
           h == k + 1
<1>1. L \in Nat /\ k \in Nat /\ n \in Nat /\ k + 1 <= L
  OBVIOUS
<1>2. h \in Nat \ {0} /\ L \in 0 .. Len(m)
  BY <1>1
<1>3. to \in Seq(S) /\ Len(to) = L - k
  <2> HIDE DEF h
  <2>1. SubSeq(m, h, L) \in Seq(S) /\ Len(SubSeq(m, h, L)) = IF h <= L THEN L - h + 1 ELSE 0
    BY <1>2, PartOf
  <2>2. h <= L /\ L - h + 1 = L - k
    BY <1>1 DEF h
  <2>3. QED BY <2>1, <2>2 DEF h
<1>4. n \in 1 .. L - k
  BY <1>3
<1>5. k + n \in 1 .. L
  BY <1>1, <1>4
<1>6. SubSeq(to, 1, n) = SubSeq(m, k + 1, k + n)
  <2>1. n \in 0 .. Len(SubSeq(m, h, L)) /\ h - 1 + n <= Len(m) /\ 1 \in Nat \ {0}
    BY <1>1, <1>3, <1>4
  <2> HIDE DEF h
  <2>2. SubSeq(SubSeq(m, h, L), 1, n) = SubSeq(m, h - 1 + 1, h - 1 + n)
    BY <1>2, <2>1, PartOfPart
  <2>3. h - 1 + 1 = k + 1 /\ h - 1 + n = k + n
    BY <1>1 DEF h
  <2>4. SubSeq(SubSeq(m, h, L), 1, n) = SubSeq(m, k + 1, k + n)
    BY <2>2, <2>3
  <2>5. QED BY <2>4, Zenon DEF h
<1>7. SubSeq(m, 1, k) \o SubSeq(m, k + 1, k + n) = SubSeq(m, 1, k + n)
  <2>1. 1 \in 1 .. Len(m) + 1 /\ k \in 1 - 1 .. Len(m) /\ k + n \in k .. Len(m)
    BY <1>1, <1>5
  <2> DEFINE e == k + n
  <2> HIDE DEF e
  <2>2. SubSeq(m, 1, k) \o SubSeq(m, k + 1, e) = SubSeq(m, 1, e)
    BY <2>1, ConcatAdjacentSubSeq DEF e
  <2>3. QED BY <2>2 DEF e
<1>8. SubSeq(to, n + 1, Len(to)) = SubSeq(m, k + n + 1, L)
  <2> DEFINE a == n + 1
             b == Len(to)
  <2>1. a \in Nat \ {0} /\ b \in 0 .. Len(SubSeq(m, h, L)) /\ h - 1 + b <= Len(m)
    BY <1>1, <1>3, <1>4
  <2>2. h - 1 + a = k + n + 1 /\ h - 1 + b = L
    BY <1>1, <1>3
  <2> HIDE DEF h, a, b
  <2>3. SubSeq(SubSeq(m, h, L), a, b) = SubSeq(m, h - 1 + a, h - 1 + b)
    BY <1>2, <2>1, PartOfPart
  <2>4. SubSeq(SubSeq(m, h, L), a, b) = SubSeq(m, k + n + 1, L)
    BY <2>2, <2>3
  <2>5. QED BY <2>4, Zenon DEF h, a, b
<1>9. QED BY <1>5, <1>6, <1>7, <1>8, Zenon

LEMMA PackageShape ==
  ASSUME NEW qu
  PROVE  \E T : Package(qu) \in Seq(T) /\ Len(Package(qu)) \in Nat /\ Len(Package(qu)) >= 5
<1>1. PICK S : SerializeRequest(qu) \in Seq(S)
  BY QuestionUnderstood
<1> DEFINE text == SerializeRequest(qu)
           T == S \union {CR, LF, Length(Len(text))}
           m == enLength(text)
<1> HIDE DEF text
<1>2. text \in Seq(S)
  BY <1>1 DEF text
<1>3. m \in Seq(T) /\ Len(m) = Len(text) + 5 /\ Len(text) \in Nat
  BY <1>2, PackageBytes
<1> HIDE DEF m, T
<1>4. Len(m) \in Nat /\ Len(m) >= 5
  BY <1>3
<1>5. m = Package(qu)
  BY DEF m, text, Package
<1>6. QED BY <1>3, <1>4, <1>5

LEMMA WholeOrNot ==
  ASSUME NEW s
  PROVE  /\ Total(s) = 0 => ~ParseOnePackage(s).ok
         /\ Total(s) \in Nat /\ Total(s) >= 5 => ParseOnePackage(s).ok
<1>1. ParseOnePackage(s).ok = (Total(s) > 0)
  BY DEF ParseOnePackage
<1>2. Total(s) = 0 => ~(Total(s) > 0)
  OBVIOUS
<1>3. Total(s) \in Nat /\ Total(s) >= 5 => Total(s) > 0
  OBVIOUS
<1>4. QED BY <1>1, <1>2, <1>3, Zenon

(* A recv returns part of a package, which is kept, or the rest of it,     *)
(* which is taken.                                                         *)
LEMMA RecvKeeps ==
  ASSUME ForkAssumed, ForkInv, NEW c \in Clients, Recv(c)
  PROVE  ForkInv'
<1>1. PICK cl, l, w : At(c, cl, l, w)
  BY AtConnection
<1>2. PICK n, s, took :
        /\ n \in {k \in RecvSizes : k < Len(l.to)} \union {Len(l.to)}
        /\ s = w.inbuffer \o SubSeq(l.to, 1, n) /\ took = ParseOnePackage(s)
        /\ w.pc = "recv" /\ n > 0 /\ UNCHANGED <<client, backlog, listener, nofork>>
        /\ link' = [link EXCEPT ![c].to = SubSeq(@, n + 1, Len(@))]
        /\ worker' = [worker EXCEPT ![c] =
             IF took.ok THEN [pc |-> "answer", inbuffer |-> took.rest, text |-> took.text]
             ELSE [@ EXCEPT !.inbuffer = s]]
  BY <1>1 DEF Recv, RecvPackage, At
<1>3. PICK l2, w2 : l2 = link'[c] /\ w2 = worker'[c]
  OBVIOUS
<1>4. PICK left : left = SubSeq(l.to, n + 1, Len(l.to))
  OBVIOUS
<1>5. link' = [link EXCEPT ![c].to = left]
  BY <1>1, <1>2, <1>4 DEF At
<1>6. /\ took.ok => w2 = [pc |-> "answer", inbuffer |-> took.rest, text |-> took.text]
      /\ ~took.ok => w2 = [w EXCEPT !.inbuffer = s]
  BY <1>1, <1>2, <1>3 DEF At
<1>7. /\ DOMAIN w2 = {"pc", "inbuffer", "text"} /\ w2.pc \in {"answer", "recv"}
      /\ took.ok => w2.pc = "answer" /\ w2.inbuffer = took.rest /\ w2.text = took.text
      /\ ~took.ok => w2.pc = "recv" /\ w2.inbuffer = s
  <2>1. CASE took.ok
    BY <2>1, <1>6
  <2>2. CASE ~took.ok
    BY <2>2, <1>1, <1>2, <1>6 DEF At
  <2>3. QED BY <2>1, <2>2
<1>8. Whole(c)
  BY <1>1, <1>2, <1>3, <1>5, <1>7 DEF At, Whole
<1>9. l2.to = left /\ l2.back = l.back /\ l2.held = l.held
  BY <1>1, <1>3, <1>5 DEF At
<1>10. ASSUME cl.pc = "recv"
       PROVE  ClientOk(cl, l2, w2)
  <2>1. PICK qu, m : qu = cl.asked[Len(cl.asked)] /\ m = Package(qu)
    OBVIOUS
  <2>2. PICK S, text : text \in Seq(S) /\ text = SerializeRequest(qu) /\ m = enLength(text)
    BY <2>1, QuestionUnderstood DEF Package
  <2>3. PICK T : m \in Seq(T) /\ Len(m) \in Nat /\ Len(m) >= 5
    BY <2>1, PackageShape
  <2>4. InFlight(l, w, m)
    BY <2>1, <1>1, <1>10 DEF At, ClientOk
  <2>5. l.to # <<>>
    <3>1. CASE l.to = <<>>
      <4>1. Len(l.to) = 0
        BY <3>1
      <4>2. QED BY <4>1, <1>2 DEF ForkAssumed
    <3>2. QED BY <3>1
  <2>6. PICK k \in 0 .. Len(m) - 1 : w.inbuffer = SubSeq(m, 1, k) /\ l.to = SubSeq(m, k + 1, Len(m))
    BY <2>4, <2>5 DEF InFlight
  <2>7. l.back = <<>>
    BY <2>4, <2>5, <1>2 DEF InFlight
  <2> DEFINE to == SubSeq(m, k + 1, Len(m))
  <2>8. l.to = to
    BY <2>6
  <2> HIDE DEF to
  <2>9. n \in 1 .. Len(to)
    <3>1. Len(to) \in Nat
      <4> DEFINE h == k + 1
      <4>1. h \in Nat \ {0} /\ Len(m) \in 0 .. Len(m)
        BY <2>3, <2>6
      <4> HIDE DEF h
      <4>2. Len(SubSeq(m, h, Len(m))) \in Nat
        BY <4>1, <2>3, PartOf
      <4>3. QED BY <4>2 DEF h, to
    <3>2. n \in Nat /\ n <= Len(to)
      BY <3>1, <2>8, <1>2 DEF ForkAssumed
    <3>3. QED BY <3>1, <3>2, <1>2
  <2>10. /\ k + n \in 1 .. Len(m)
         /\ SubSeq(m, 1, k) \o SubSeq(to, 1, n) = SubSeq(m, 1, k + n)
         /\ SubSeq(to, n + 1, Len(to)) = SubSeq(m, k + n + 1, Len(m))
    BY <2>3, <2>6, <2>9, PartReceived DEF to
  <2>11. PICK j \in 1 .. Len(m) : j = k + n
    BY <2>10
  <2>12. s = SubSeq(m, 1, j) /\ left = SubSeq(m, j + 1, Len(m))
    BY <2>6, <2>8, <2>10, <2>11, <1>2, <1>4
  <2>13. CASE j < Len(m)
    <3>1. Total(s) = 0
      BY <2>2, <2>12, <2>13, PartParsed
    <3>2. ~took.ok
      BY <3>1, <1>2, WholeOrNot
    <3>3. w2.pc = "recv" /\ w2.inbuffer = SubSeq(m, 1, j) /\ l2.to = SubSeq(m, j + 1, Len(m)) /\ l2.back = <<>>
      BY <3>2, <2>7, <2>12, <1>7, <1>9
    <3>4. j \in 0 .. Len(m) - 1
      BY <2>3, <2>13
    <3>5. InFlight(l2, w2, m)
      BY <3>3, <3>4, Zenon DEF InFlight
    <3>6. QED BY <3>5, <2>1, <1>1, <1>10 DEF At, ClientOk
  <2>14. CASE j = Len(m)
    <3>1. s = m
      BY <2>3, <2>12, <2>14, SubSeqFull
    <3>2. Total(s) = Len(m)
      BY <2>2, <2>12, <2>14, PartParsed
    <3>3. SubSeq(m, Len(m) + 1, Len(m)) = <<>>
      BY <2>3, SubSeqEmpty
    <3>4. took.ok /\ took.text = m /\ took.rest = <<>>
      <4>1. took.text = SubSeq(m, 1, Len(m)) /\ took.rest = SubSeq(m, Len(m) + 1, Len(m))
        BY <3>1, <3>2, <1>2 DEF ParseOnePackage
      <4>2. took.ok
        BY <3>2, <2>3, <1>2, WholeOrNot
      <4>3. QED BY <4>1, <4>2, <3>3, <2>3, SubSeqFull
    <3>5. left = <<>>
      BY <3>3, <2>12, <2>14
    <3>6. InFlight(l2, w2, m)
      BY <3>4, <3>5, <2>7, <1>7, <1>9 DEF InFlight
    <3>7. QED BY <3>6, <2>1, <1>1, <1>10 DEF At, ClientOk
  <2>15. QED BY <2>3, <2>11, <2>13, <2>14
<1>11. ASSUME cl.pc \in {"connect", "ask"} PROVE FALSE
  <2>1. l.to = <<>> /\ Len(l.to) = 0
    BY <1>1, <1>11 DEF At, ClientOk, Quiet
  <2>2. QED BY <2>1, <1>2 DEF ForkAssumed
<1>12. ClientOk(cl, l2, w2)
  <2>1. cl.pc = "gone" => ClientOk(cl, l2, w2)
    BY <1>1 DEF At, ClientOk
  <2>2. QED BY <2>1, <1>1, <1>10, <1>11 DEF At, ClientOk
<1>13. HeldOk(c, l2.held, w2.pc, listener)
  BY <1>1, <1>2, <1>7, <1>9 DEF At, HeldOk
<1>14. client[c].pc # "connect" /\ worker[c].pc # "none"
  BY <1>1, <1>2, ServedConnected DEF At
<1>15. QED BY <1>1, <1>2, <1>3, <1>8, <1>12, <1>13, <1>14, LocalFrame DEF At

(* The client: a question and the answer to it.                            *)
LEMMA AskKeeps ==
  ASSUME ForkAssumed, ForkInv, NEW c \in Clients, Ask(c)
  PROVE  ForkInv'
<1>1. PICK cl, l, w : At(c, cl, l, w)
  BY AtConnection
<1>2. PICK qu : qu = Questions[c][Len(cl.asked) + 1]
  OBVIOUS
<1>3. /\ cl.pc = "ask" /\ Len(cl.asked) < Len(Questions[c]) /\ UNCHANGED <<backlog, listener, worker, nofork>>
      /\ client' = [client EXCEPT ![c].pc = "recv", ![c].asked = Append(@, qu)]
      /\ link' = [link EXCEPT ![c].to = @ \o Package(qu)]
  BY <1>1, <1>2 DEF Ask, At, Package
<1>4. PICK cl2, l2 : cl2 = client'[c] /\ l2 = link'[c]
  OBVIOUS
<1>5. /\ Whole(c) /\ cl2.pc = "recv" /\ cl2.asked = Append(cl.asked, qu) /\ cl2.printed = cl.printed
      /\ l2.to = l.to \o Package(qu) /\ l2.back = l.back /\ l2.held = l.held
  BY <1>1, <1>3, <1>4 DEF At, Whole
<1>6. Quiet(cl, l, w) /\ PrintedOk(cl)
  BY <1>1, <1>3 DEF At, ClientOk
<1>7. qu \in AllAsked
  <2>1. Len(cl.asked) \in Nat /\ Len(Questions[c]) \in Nat
    BY <1>6 DEF PrintedOk, ForkAssumed
  <2>2. Len(cl.asked) + 1 \in 1 .. Len(Questions[c])
    BY <2>1, <1>3
  <2>3. QED BY <2>2, <1>2 DEF AllAsked
<1>8. /\ Len(cl2.asked) = Len(cl.asked) + 1 /\ cl2.asked[Len(cl.asked) + 1] = qu
      /\ cl2.asked \in Seq(AllAsked) /\ \A i \in 1 .. Len(cl.asked) : cl2.asked[i] = cl.asked[i]
      /\ Len(cl.asked) \in Nat /\ Len(cl.printed) \in Nat
  BY <1>5, <1>6, <1>7 DEF PrintedOk
<1>9. PrintedOk(cl2)
  <2>1. \A i \in 1 .. Len(cl.printed) : i \in 1 .. Len(cl.asked)
    BY <1>6, <1>8 DEF PrintedOk
  <2>2. QED BY <2>1, <1>5, <1>6, <1>8 DEF PrintedOk
<1>10. InFlight(l2, w, Package(qu))
  <2>1. PICK m : m = Package(qu)
    OBVIOUS
  <2>2. PICK S, text : text \in Seq(S) /\ text = SerializeRequest(qu) /\ m = enLength(text)
    BY <2>1, QuestionUnderstood DEF Package
  <2>3. PICK T : m \in Seq(T) /\ Len(m) \in Nat /\ Len(m) >= 5
    BY <2>1, PackageShape
  <2>4. l2.to = m
    BY <2>1, <2>3, <1>5, <1>6, ConcatEmptySeq DEF Quiet
  <2>5. 0 \in 0 .. Len(m) - 1 /\ SubSeq(m, 1, 0) = <<>> /\ SubSeq(m, 0 + 1, Len(m)) = m
    <3>1. SubSeq(m, 1, Len(m)) = m /\ 0 + 1 = 1
      BY <2>3, SubSeqFull
    <3>2. SubSeq(m, 1, 0) = <<>>
      BY SubSeqEmpty
    <3>3. 0 \in 0 .. Len(m) - 1
      BY <2>3
    <3>4. QED BY <3>1, <3>2, <3>3
  <2>6. w.inbuffer = <<>> /\ l2.back = <<>> /\ w.pc \in {"none", "child", "recv"}
    BY <1>5, <1>6 DEF Quiet
  <2>7. \E n \in 0 .. Len(m) - 1 : w.inbuffer = SubSeq(m, 1, n) /\ l2.to = SubSeq(m, n + 1, Len(m))
    BY <2>4, <2>5, <2>6, Zenon
  <2>8. QED BY <2>1, <2>6, <2>7, Zenon DEF InFlight
<1>11. Len(cl2.asked) = Len(cl2.printed) + 1 /\ cl2.asked[Len(cl2.asked)] = qu
  BY <1>5, <1>6, <1>8 DEF Quiet
<1>12. ClientOk(cl2, l2, w)
  BY <1>5, <1>9, <1>10, <1>11 DEF ClientOk
<1>13. HeldOk(c, l2.held, w.pc, listener)
  BY <1>1, <1>5 DEF At
<1>14. QED BY <1>1, <1>3, <1>4, <1>5, <1>12, <1>13, LocalFrame DEF At

LEMMA ShowKeeps ==
  ASSUME ForkInv, NEW c \in Clients, Show(c)
  PROVE  ForkInv'
<1>1. PICK cl, l, w : At(c, cl, l, w)
  BY AtConnection
<1>2. PICK a : a = deLength(l.back)[1].r
  OBVIOUS
<1>3. /\ cl.pc = "recv" /\ l.back # <<>> /\ UNCHANGED <<backlog, listener, worker, nofork>>
      /\ client' = [client EXCEPT ![c].pc = "ask", ![c].printed = Append(@, a)]
      /\ link' = [link EXCEPT ![c].back = <<>>]
  BY <1>1, <1>2 DEF Show, At
<1>4. PICK cl2, l2 : cl2 = client'[c] /\ l2 = link'[c]
  OBVIOUS
<1>5. /\ Whole(c) /\ cl2.pc = "ask" /\ cl2.printed = Append(cl.printed, a) /\ cl2.asked = cl.asked
      /\ l2.to = l.to /\ l2.back = <<>> /\ l2.held = l.held
  BY <1>1, <1>3, <1>4 DEF At, Whole
<1>6. PICK qu : qu = cl.asked[Len(cl.asked)]
  OBVIOUS
<1>7. /\ PrintedOk(cl) /\ Len(cl.asked) = Len(cl.printed) + 1 /\ InFlight(l, w, Package(qu))
  BY <1>1, <1>3, <1>6 DEF At, ClientOk
<1>8. w.pc = "recv" /\ w.inbuffer = <<>> /\ l.to = <<>> /\ l.back = Answer(Package(qu))
  BY <1>3, <1>7 DEF InFlight
<1>9. a = my_string(qu)
  BY <1>2, <1>8, QuestionUnderstood DEF Package
<1>10. Len(cl.printed) \in Nat /\ Len(cl.asked) \in Nat /\ qu \in AllAsked
  <2>1. Len(cl.printed) \in Nat /\ Len(cl.asked) \in Nat /\ cl.asked \in Seq(AllAsked)
    BY <1>7 DEF PrintedOk
  <2>2. Len(cl.asked) \in 1 .. Len(cl.asked)
    BY <2>1, <1>7
  <2>3. QED BY <2>1, <2>2, <1>6
<1>11. a \in Shown
  BY <1>9, <1>10 DEF Shown
<1>12. /\ cl2.printed \in Seq(Shown) /\ Len(cl2.printed) = Len(cl.printed) + 1
       /\ cl2.printed[Len(cl.printed) + 1] = a
       /\ \A i \in 1 .. Len(cl.printed) : cl2.printed[i] = cl.printed[i]
  BY <1>5, <1>7, <1>11 DEF PrintedOk
<1>13. PrintedOk(cl2)
  <2>1. \A i \in 1 .. Len(cl2.printed) : i \in 1 .. Len(cl.printed) \/ i = Len(cl.printed) + 1
    BY <1>10, <1>12
  <2>2. cl2.printed[Len(cl.printed) + 1] = my_string(cl.asked[Len(cl.printed) + 1])
    BY <1>6, <1>7, <1>9, <1>12
  <2>3. \A i \in 1 .. Len(cl2.printed) : cl2.printed[i] = my_string(cl2.asked[i])
    BY <2>1, <2>2, <1>5, <1>7, <1>12 DEF PrintedOk
  <2>4. QED BY <2>3, <1>5, <1>7, <1>10, <1>12 DEF PrintedOk
<1>14. Quiet(cl2, l2, w)
  BY <1>5, <1>7, <1>8, <1>12 DEF Quiet
<1>15. ClientOk(cl2, l2, w)
  BY <1>5, <1>13, <1>14 DEF ClientOk
<1>16. HeldOk(c, l2.held, w.pc, listener)
  BY <1>1, <1>5 DEF At
<1>17. QED BY <1>1, <1>3, <1>4, <1>5, <1>15, <1>16, LocalFrame DEF At

LEMMA ConnectKeeps ==
  ASSUME ForkInv, NEW c \in Clients, Connect(c)
  PROVE  ForkInv'
<1>1. PICK cl, l, w : At(c, cl, l, w)
  BY AtConnection
<1>2. /\ cl.pc = "connect" /\ UNCHANGED <<link, listener, worker, nofork>>
      /\ client' = [client EXCEPT ![c].pc = "ask"] /\ backlog' = Append(backlog, c)
  BY <1>1 DEF Connect, At
<1>3. PICK cl2 : cl2 = client'[c]
  OBVIOUS
<1>4. Whole(c) /\ cl2.pc = "ask" /\ cl2.asked = cl.asked /\ cl2.printed = cl.printed
  BY <1>1, <1>2, <1>3 DEF At, Whole
<1>5. ClientOk(cl2, l, w)
  BY <1>1, <1>2, <1>4 DEF At, ClientOk, PrintedOk, Quiet
<1>6. ForkTypes /\ QueueOk
  BY DEF ForkInv
<1>7. /\ worker[c].pc = "none" /\ c \notin listener.sock
      /\ \A i \in 1 .. Len(backlog) : backlog[i] # c /\ backlog[i] \in Clients
  BY <1>1, <1>2, <1>6 DEF At, QueueOk, ForkTypes
<1>8. /\ backlog' \in Seq(Clients) /\ Distinct(backlog') /\ Len(backlog') = Len(backlog) + 1
      /\ backlog'[Len(backlog) + 1] = c /\ \A i \in 1 .. Len(backlog) : backlog'[i] = backlog[i]
      /\ Len(backlog) \in Nat
  BY <1>2, <1>6, <1>7, DistinctAppend DEF ForkTypes, QueueOk
<1>9. ForkTypes'
  <2>1. \A d \in Clients : /\ DOMAIN client'[d] = {"pc", "asked", "printed"}
                           /\ DOMAIN link'[d] = {"to", "back", "held"}
                           /\ DOMAIN worker'[d] = {"pc", "inbuffer", "text"}
    BY <1>4, <1>6 DEF ForkTypes, Whole
  <2>2. QED BY <2>1, <1>2, <1>4, <1>6, <1>8 DEF ForkTypes, Whole
<1>10. QueueOk'
  <2>1. \A d \in Clients : /\ client'[d].pc = "connect" => client[d].pc = "connect"
                           /\ client[d].pc # "connect" => client'[d].pc # "connect"
    BY <1>3, <1>4 DEF Whole
  <2>2. \A i \in 1 .. Len(backlog') : i \in 1 .. Len(backlog) \/ i = Len(backlog) + 1
    BY <1>8
  <2>3. ASSUME NEW i \in 1 .. Len(backlog')
        PROVE  /\ client'[backlog'[i]].pc # "connect" /\ worker[backlog'[i]].pc = "none"
               /\ backlog'[i] \notin listener.sock
    <3>1. CASE i \in 1 .. Len(backlog)
      BY <3>1, <2>1, <1>6, <1>7, <1>8 DEF QueueOk
    <3>2. CASE i = Len(backlog) + 1
      BY <3>2, <1>3, <1>4, <1>7, <1>8
    <3>3. QED BY <2>2, <3>1, <3>2
  <2>4. QED BY <2>1, <2>3, <1>2, <1>6, <1>8 DEF QueueOk, ForkTypes
<1>11. \A d \in Clients : HeldOk(d, link[d].held, worker[d].pc, listener')
  BY <1>2 DEF ForkInv
<1>12. QED BY <1>1, <1>2, <1>3, <1>4, <1>5, <1>9, <1>10, <1>11, ForkFrame DEF At, Whole

(* What the loop of Start does to the queue.                               *)
LEMMA ListenerFrame ==
  ASSUME ForkInv, NEW c \in Clients, Whole(c), UNCHANGED client,
         NEW label \in {"accept", "fork", "close", "wait"}, NEW mine,
         mine = {} \/ (label # "accept" /\ mine = {c}),
         listener' = [pc |-> label, sock |-> mine],
         backlog' \in Seq(Clients), QueueOk',
         ClientOk(client[c], link'[c], worker'[c]),
         HeldOk(c, link'[c].held, worker'[c].pc, listener'),
         \A d \in Clients \ {c} : HeldOk(d, link[d].held, worker[d].pc, listener')
  PROVE  ForkInv'
<1>1. ForkTypes
  BY DEF ForkInv
<1>2. \A d \in Clients : /\ DOMAIN client'[d] = {"pc", "asked", "printed"}
                         /\ DOMAIN link'[d] = {"to", "back", "held"}
                         /\ DOMAIN worker'[d] = {"pc", "inbuffer", "text"}
  BY <1>1 DEF ForkTypes, Whole
<1>3. /\ DOMAIN listener' = {"pc", "sock"} /\ listener'.pc = label /\ listener'.sock = mine
  OBVIOUS
<1>4. ForkTypes'
  BY <1>1, <1>2, <1>3 DEF ForkTypes, Whole
<1>5. QED BY <1>4, ForkFrame DEF Whole

LEMMA AcceptLinkKeeps ==
  ASSUME ForkInv, AcceptLink
  PROVE  ForkInv'
<1>1. ForkTypes /\ QueueOk
  BY DEF ForkInv
<1>2. backlog \in Seq(Clients) /\ backlog # <<>> /\ Distinct(backlog)
  BY <1>1 DEF AcceptLink, ForkTypes, QueueOk
<1>3. PICK c \in Clients : c = Head(backlog) /\ c = backlog[1] /\ 1 \in 1 .. Len(backlog)
  BY <1>2
<1>4. /\ backlog' \in Seq(Clients) /\ Distinct(backlog') /\ Len(backlog') = Len(backlog) - 1
      /\ \A i \in 1 .. Len(backlog') : backlog'[i] = backlog[i + 1] /\ backlog'[i] # c
      /\ Len(backlog) \in Nat
  BY <1>2, <1>3, DistinctTail DEF AcceptLink
<1>5. /\ listener.pc = "accept" /\ listener' = [pc |-> "fork", sock |-> {c}]
      /\ link' = [link EXCEPT ![c].held = {"server"}] /\ UNCHANGED <<client, worker, nofork>>
  BY <1>3 DEF AcceptLink
<1>6. PICK cl, l, w : At(c, cl, l, w)
  BY AtConnection
<1>7. PICK l2 : l2 = link'[c]
  OBVIOUS
<1>8. Whole(c) /\ l2.to = l.to /\ l2.back = l.back /\ l2.held = {"server"}
  BY <1>5, <1>6, <1>7 DEF At, Whole
<1>9. w.pc = "none" /\ cl.pc # "connect"
  BY <1>1, <1>3, <1>6 DEF QueueOk, At
<1>10. ClientOk(cl, l2, w)
  <2>1. Quiet(cl, l, w) => Quiet(cl, l2, w)
    BY <1>8 DEF Quiet
  <2>2. \A m : InFlight(l, w, m) => InFlight(l2, w, m)
    BY <1>8, Zenon DEF InFlight
  <2>3. QED BY <2>1, <2>2, <1>6 DEF At, ClientOk
<1>11. HeldOk(c, l2.held, w.pc, listener')
  BY <1>5, <1>8, <1>9 DEF HeldOk
<1>12. ASSUME NEW d \in Clients \ {c} PROVE HeldOk(d, link[d].held, worker[d].pc, listener')
  <2>1. HeldOk(d, link[d].held, worker[d].pc, listener) /\ listener.sock = {}
    BY <1>1, <1>5 DEF ForkInv, ForkTypes
  <2>2. QED BY <2>1 DEF HeldOk
<1>13. QueueOk'
  <2>1. \A i \in 1 .. Len(backlog') : i + 1 \in 1 .. Len(backlog)
    BY <1>4
  <2>2. \A i \in 1 .. Len(backlog') : client[backlog'[i]].pc # "connect" /\ worker[backlog'[i]].pc = "none"
    BY <2>1, <1>1, <1>4 DEF QueueOk
  <2>3. \A i \in 1 .. Len(backlog') : backlog'[i] \notin listener'.sock
    BY <1>4, <1>5
  <2>4. \A d \in listener'.sock : client[d].pc # "connect" /\ worker[d].pc = "none"
    BY <1>5, <1>6, <1>9 DEF At
  <2>5. QED BY <2>2, <2>3, <2>4, <1>1, <1>4, <1>5 DEF QueueOk
<1>14. QED BY <1>4, <1>5, <1>6, <1>7, <1>8, <1>10, <1>11, <1>12, <1>13, ListenerFrame DEF At

LEMMA ForkKeeps ==
  ASSUME ForkInv, NEW c \in Clients, Fork(c)
  PROVE  ForkInv'
<1>1. PICK cl, l, w : At(c, cl, l, w)
  BY AtConnection
<1>2. ForkTypes /\ QueueOk /\ listener.pc = "fork" /\ listener.sock = {c}
  BY DEF ForkInv, Fork, ForkTypes
<1>3. /\ listener' = [pc |-> "close", sock |-> {c}] /\ UNCHANGED <<client, backlog>>
  BY <1>2 DEF Fork, ForkTypes
<1>4. w.pc = "none" /\ cl.pc # "connect" /\ \A i \in 1 .. Len(backlog) : backlog[i] # c /\ backlog[i] \in Clients
  BY <1>1, <1>2 DEF QueueOk, At, ForkTypes
<1>5. PICK l2, w2 : l2 = link'[c] /\ w2 = worker'[c]
  OBVIOUS
<1>6. /\ Whole(c) /\ w2.inbuffer = w.inbuffer /\ l2.to = l.to /\ l2.back = l.back
      /\ \/ w2.pc = "child" /\ l2.held = l.held \union {"child"}
         \/ w2.pc = "none" /\ l2.held = l.held
  <2>1. CASE /\ link' = [link EXCEPT ![c].held = @ \union {"child"}]
             /\ worker' = [worker EXCEPT ![c].pc = "child"]
    BY <2>1, <1>1, <1>3, <1>5 DEF At, Whole
  <2>2. CASE UNCHANGED <<link, worker>>
    BY <2>2, <1>1, <1>3, <1>4, <1>5 DEF At, Whole
  <2>3. QED BY <2>1, <2>2 DEF Fork
<1>7. ClientOk(cl, l2, w2)
  <2>1. Quiet(cl, l, w) => Quiet(cl, l2, w2)
    BY <1>6 DEF Quiet
  <2>2. ASSUME NEW m, InFlight(l, w, m) PROVE InFlight(l2, w2, m)
    <3>1. /\ l.back = <<>>
          /\ \E n \in 0 .. Len(m) - 1 : w.inbuffer = SubSeq(m, 1, n) /\ l.to = SubSeq(m, n + 1, Len(m))
      BY <2>2, <1>4 DEF InFlight
    <3>2. w2.inbuffer = w.inbuffer /\ l2.to = l.to /\ l2.back = l.back /\ w2.pc \in {"none", "child", "recv"}
      BY <1>6
    <3>3. QED BY <3>1, <3>2, Zenon DEF InFlight
  <2>3. QED BY <2>1, <2>2, <1>1 DEF At, ClientOk
<1>8. HeldOk(c, l2.held, w2.pc, listener')
  BY <1>1, <1>2, <1>3, <1>4, <1>6 DEF At, HeldOk
<1>9. ASSUME NEW d \in Clients \ {c} PROVE HeldOk(d, link[d].held, worker[d].pc, listener')
  <2>1. HeldOk(d, link[d].held, worker[d].pc, listener) /\ d \notin listener.sock
    BY <1>2 DEF ForkInv
  <2>2. QED BY <2>1 DEF HeldOk
<1>10. QueueOk'
  <2>1. \A d \in Clients \ {c} : worker'[d] = worker[d]
    BY <1>6 DEF Whole
  <2>2. \A d \in Clients : client[d].pc = "connect" => worker'[d].pc = "none"
    BY <2>1, <1>1, <1>2, <1>4 DEF QueueOk, At
  <2>3. QED BY <2>1, <2>2, <1>1, <1>2, <1>3, <1>4 DEF QueueOk, At
<1>11. backlog' \in Seq(Clients) /\ client'[c] = cl
  BY <1>1, <1>2, <1>3 DEF ForkTypes, At
<1>12. QED BY <1>1, <1>3, <1>5, <1>6, <1>7, <1>8, <1>9, <1>10, <1>11, ListenerFrame DEF At

LEMMA CloseSockKeeps ==
  ASSUME ForkInv, NEW c \in Clients, CloseSock(c)
  PROVE  ForkInv'
<1>1. PICK cl, l, w : At(c, cl, l, w)
  BY AtConnection
<1>2. ForkTypes /\ QueueOk /\ listener.pc = "close" /\ listener.sock = {c}
  BY DEF ForkInv, CloseSock, ForkTypes
<1>3. /\ listener' = [pc |-> "wait", sock |-> {c}] /\ UNCHANGED <<client, backlog, worker, nofork>>
      /\ link' = [link EXCEPT ![c].held = @ \ {"server"}]
  BY <1>2 DEF CloseSock, ForkTypes
<1>4. PICK l2 : l2 = link'[c]
  OBVIOUS
<1>5. Whole(c) /\ l2.to = l.to /\ l2.back = l.back /\ l2.held = l.held \ {"server"}
  BY <1>1, <1>3, <1>4 DEF At, Whole
<1>6. ClientOk(cl, l2, w)
  <2>1. Quiet(cl, l, w) => Quiet(cl, l2, w)
    BY <1>5 DEF Quiet
  <2>2. \A m : InFlight(l, w, m) => InFlight(l2, w, m)
    BY <1>5, Zenon DEF InFlight
  <2>3. QED BY <2>1, <2>2, <1>1 DEF At, ClientOk
<1>7. HeldOk(c, l2.held, w.pc, listener')
  BY <1>1, <1>2, <1>3, <1>5 DEF At, HeldOk
<1>8. ASSUME NEW d \in Clients \ {c} PROVE HeldOk(d, link[d].held, worker[d].pc, listener')
  <2>1. HeldOk(d, link[d].held, worker[d].pc, listener) /\ d \notin listener.sock
    BY <1>2 DEF ForkInv
  <2>2. QED BY <2>1 DEF HeldOk
<1>9. QueueOk'
  BY <1>2, <1>3 DEF QueueOk
<1>10. backlog' \in Seq(Clients)
  BY <1>2, <1>3 DEF ForkTypes
<1>11. QED BY <1>1, <1>3, <1>4, <1>5, <1>6, <1>7, <1>8, <1>9, <1>10, ListenerFrame DEF At

LEMMA WaitpidKeeps ==
  ASSUME ForkInv, NEW c \in Clients, Waitpid(c)
  PROVE  ForkInv'
<1>1. PICK cl, l, w : At(c, cl, l, w)
  BY AtConnection
<1>2. ForkTypes /\ QueueOk /\ listener.pc = "wait" /\ listener.sock = {c}
  BY DEF ForkInv, Waitpid, ForkTypes
<1>3. /\ listener' = [pc |-> "accept", sock |-> {}] /\ UNCHANGED <<client, link, backlog, worker, nofork>>
      /\ w.pc # "child" /\ "child" \notin l.held
  BY <1>1 DEF Waitpid, At
<1>4. Whole(c)
  BY <1>1, <1>3 DEF At, Whole
<1>5. HeldOk(c, l.held, w.pc, listener')
  BY <1>1, <1>2, <1>3 DEF At, HeldOk
<1>6. ASSUME NEW d \in Clients \ {c} PROVE HeldOk(d, link[d].held, worker[d].pc, listener')
  <2>1. HeldOk(d, link[d].held, worker[d].pc, listener) /\ d \notin listener.sock
    BY <1>2 DEF ForkInv
  <2>2. QED BY <2>1 DEF HeldOk
<1>7. QueueOk'
  BY <1>2, <1>3 DEF QueueOk
<1>8. backlog' \in Seq(Clients)
  BY <1>2, <1>3 DEF ForkTypes
<1>9. QED BY <1>1, <1>3, <1>4, <1>5, <1>6, <1>7, <1>8, ListenerFrame DEF At

(* The initial state.                                                      *)
LEMMA ForkInvInit == ForkInit => ForkInv
<1> SUFFICES ASSUME ForkInit PROVE ForkInv
  OBVIOUS
<1>1. ForkTypes
  BY DEF ForkInit, ForkTypes, NoSock
<1>2. QueueOk
  BY DEF ForkInit, QueueOk, Distinct
<1>3. ASSUME NEW c \in Clients
      PROVE  ClientOk(client[c], link[c], worker[c]) /\ HeldOk(c, link[c].held, worker[c].pc, listener)
  <2>1. /\ client[c] = [pc |-> "connect", asked |-> <<>>, printed |-> <<>>] /\ link[c] = NoSock
        /\ worker[c] = [pc |-> "none", inbuffer |-> <<>>, text |-> <<>>]
    BY DEF ForkInit
  <2>2. PrintedOk(client[c])
    BY <2>1 DEF PrintedOk
  <2>3. Quiet(client[c], link[c], worker[c])
    BY <2>1 DEF Quiet, NoSock
  <2>4. HeldOk(c, link[c].held, worker[c].pc, listener)
    BY <2>1 DEF HeldOk, NoSock
  <2>5. QED BY <2>1, <2>2, <2>3, <2>4 DEF ClientOk
<1>4. QED BY <1>1, <1>2, <1>3 DEF ForkInv

(* The invariant is inductive.                                             *)
LEMMA ForkInvStep == ForkAssumed /\ ForkInv /\ [ForkNext]_forkVars => ForkInv'
<1> SUFFICES ASSUME ForkAssumed, ForkInv, [ForkNext]_forkVars PROVE ForkInv'
  OBVIOUS
<1>1. CASE UNCHANGED forkVars
  BY <1>1 DEF forkVars, ForkInv, ForkTypes, QueueOk
<1>2. CASE Start
  BY <1>2, AcceptLinkKeeps, ForkKeeps, CloseSockKeeps, WaitpidKeeps DEF Start
<1>3. ASSUME NEW c \in Clients, Forked(c) PROVE ForkInv'
  BY <1>3, ChildForksKeeps, RecvKeeps, SendKeeps, RecvEndsKeeps DEF Forked, handlerEntery
<1>4. ASSUME NEW c \in Clients, Connect(c) \/ Ask(c) \/ Show(c) \/ Leave(c) PROVE ForkInv'
  BY <1>4, ConnectKeeps, AskKeeps, ShowKeeps, LeaveKeeps
<1>5. QED BY <1>1, <1>2, <1>3, <1>4 DEF ForkNext

(* Every client is shown the answers to its own questions, in order,       *)
(* however recv cuts its packages, whoever else is served and whichever    *)
(* forks fail; and when the server accepts again, at most the one that     *)
(* serves a connection holds it (RecvPackage, handlerEntery, Start).       *)
THEOREM QuestionsAnswered ==
  ASSUME ForkAssumed
  PROVE  ForkSpec => [](ShownOwnAnswers /\ HeldByOne)
<1>1. ForkInit => ForkInv
  BY ForkInvInit
<1>2. ForkInv /\ [ForkNext]_forkVars => ForkInv'
  BY ForkInvStep
<1>3. ForkInv => ShownOwnAnswers /\ HeldByOne
  <2> SUFFICES ASSUME ForkInv PROVE ShownOwnAnswers /\ HeldByOne
    OBVIOUS
  <2>1. ASSUME NEW c \in Clients
        PROVE  client[c].printed = [i \in DOMAIN client[c].printed |-> my_string(client[c].asked[i])]
    <3>1. PICK p, a : p = client[c].printed /\ a = client[c].asked
      OBVIOUS
    <3>2. p \in Seq(Shown) /\ \A i \in 1 .. Len(p) : p[i] = my_string(a[i])
      BY <3>1 DEF ForkInv, ClientOk, PrintedOk
    <3>3. p = [i \in DOMAIN p |-> my_string(a[i])]
      BY <3>2
    <3>4. QED BY <3>1, <3>3
  <2>2. HeldByOne
    <3> SUFFICES ASSUME listener.pc = "accept", NEW c \in Clients
                 PROVE  link[c].held \in {{}, {"handler"}} /\ (worker[c].pc = "exited" => link[c].held = {})
      BY DEF HeldByOne
    <3>1. HeldOk(c, link[c].held, worker[c].pc, listener) /\ listener.sock = {}
      BY DEF ForkInv, ForkTypes
    <3>2. link[c].held \subseteq {"handler"} /\ (worker[c].pc = "exited" => link[c].held \subseteq {})
      BY <3>1 DEF HeldOk
    <3>3. QED BY <3>2
  <2>3. QED BY <2>1, <2>2 DEF ShownOwnAnswers
<1>4. QED BY <1>1, <1>2, <1>3, PTL DEF ForkSpec

-----------------------------------------------------------------------------
(* All of it together: a request reaches one handler, whole and as it was  *)
(* sent but for an LF that begins a body after a bare CR, and is answered  *)
(* as it asked, by my_Http with its pool and by the forking server         *)
(* (ThreadRoutine, HandlerRequest, the forks of TcpServer::Start).         *)
THEOREM ServersServeRight ==
  ASSUME PoolAssumed, EndAssumed, ForkAssumed
  PROVE  PoolSpec /\ EndSpec /\ ForkSpec => []ServedRight
<1>1. HandledOnce /\ (RequestAsSent /\ BodyAsAnnounced /\ EndsReturned) /\ (ShownOwnAnswers /\ HeldByOne)
        => ServedRight
  BY DEF ServedRight
<1>2. QED BY <1>1, PoolHandlesOnce, RequestsAnswered, QuestionsAnswered, PTL
=============================================================================
