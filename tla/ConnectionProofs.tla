-------------------------- MODULE ConnectionProofs --------------------------
(***************************************************************************)
(* For any peer, any mix of callbacks and any number of requests of other  *)
(* threads: the state of a connection stays well typed, and unless another *)
(* thread enables inactive release the armed timer always finds a          *)
(* connection that exists and has not been released.                       *)
(* If peers close and do not reset, and other threads only send, it is     *)
(* released once, watched as needed, and flushed before it is released.    *)
(***************************************************************************)
EXTENDS Connection, TLAPS

\* What every handler keeps of a connection that is set up: it is in _conns as
\* long as its socket is open, and a timer is armed only as long as it is.
Kept(c) ==
  /\ c \in ConnType
  /\ c.statu # "CONNECTING"
  /\ c.open => c.managed /\ c.removing = 0
  /\ "Enable" \notin UserTasks /\ c.timer = "armed" => c.open

(* Monitoring a bit or no longer monitoring it (Channel::Update).          *)
LEMMA EnableKept ==
  ASSUME NEW c, Kept(c)
  PROVE  /\ \A bit \in {"IN", "OUT"} : Kept(Enable(c, bit))
         /\ Kept(DisableWrite(c))
BY DEF Kept, ConnType, Enable, DisableWrite

(* CancelInactiveReleaseInLoop disarms.                                    *)
LEMMA CancelKept ==
  ASSUME NEW c, Kept(c)
  PROVE  Kept(CancelInactiveRelease(c))
BY DEF Kept, ConnType, CancelInactiveRelease

(* ReleaseInLoop disarms the timer before it gives up the connection.      *)
LEMMA ReleaseKept ==
  ASSUME NEW c, Kept(c)
  PROVE  Kept(ReleaseInLoop(c))
<1> DEFINE counted == [c EXCEPT !.releases = @ + 1]
           closed == [c EXCEPT !.statu = "DISCONNECTED", !.added = FALSE, !.open = FALSE,
                               !.releases = @ + 1]
           safe == IF c.timer = "none" THEN closed ELSE CancelInactiveRelease(closed)
<1>0. c.releases \in Nat /\ c.releases + 1 \in Nat
  BY DEF Kept, ConnType
<1>1. /\ closed \in ConnType /\ closed.statu = "DISCONNECTED" /\ ~closed.open
      /\ closed.timer = c.timer
  <2>1. counted \in ConnType
    BY <1>0 DEF Kept, ConnType
  <2>2. closed = [counted EXCEPT !.statu = "DISCONNECTED", !.added = FALSE, !.open = FALSE]
    BY DEF Kept, ConnType
  <2> HIDE DEF counted, closed
  <2>3. closed \in ConnType
    BY <2>1, <2>2, Zenon DEF ConnType, Status
  <2> QED
    BY <2>3 DEF closed, Kept, ConnType
<1>2. safe \in ConnType /\ safe.statu = "DISCONNECTED" /\ ~safe.open /\ safe.timer # "armed"
  <2>1. CASE c.timer = "none"
    BY <1>1, <2>1
  <2>2. CASE c.timer # "none"
    <3> HIDE DEF closed
    <3> QED
      BY <1>1, <2>2 DEF CancelInactiveRelease, ConnType
  <2> QED
    BY <2>1, <2>2
<1>3. ReleaseInLoop(c) = RemoveConnection(safe)
  BY DEF ReleaseInLoop
<1> HIDE DEF safe
<1>4. RemoveConnection(safe) \in ConnType
  <2>1. safe.removing + 1 \in Nat /\ safe.base \in BOOLEAN
    BY <1>2 DEF ConnType
  <2>2. [safe EXCEPT !.managed = FALSE] \in ConnType
    BY <1>2 DEF ConnType
  <2>3. [safe EXCEPT !.removing = @ + 1] \in ConnType
    BY <1>2, <2>1 DEF ConnType
  <2> QED
    BY <2>1, <2>2, <2>3 DEF RemoveConnection
<1>5. /\ RemoveConnection(safe).statu = "DISCONNECTED"
      /\ ~RemoveConnection(safe).open
      /\ RemoveConnection(safe).timer # "armed"
  BY <1>2 DEF RemoveConnection, ConnType
<1> QED
  BY <1>3, <1>4, <1>5 DEF Kept

(* SendInLoop only adds output.                                            *)
LEMMA SendKept ==
  ASSUME NEW c, Kept(c)
  PROVE  Kept(SendInLoop(c))
<1> DEFINE d == [c EXCEPT !.out = @ + 1]
<1>1. Kept(d)
  BY DEF Kept, ConnType
<1>2. SendInLoop(c) \in {c, d, Enable(d, "OUT")}
  BY DEF SendInLoop
<1> HIDE DEF d
<1> QED
  BY <1>1, <1>2, EnableKept

(* The end of ShutdownInLoop.                                              *)
LEMMA FlushKept ==
  ASSUME NEW c, Kept(c)
  PROVE  Kept(FlushOrRelease(c))
BY ReleaseKept, EnableKept DEF FlushOrRelease

LEMMA DisconnectingKept ==
  ASSUME NEW c, Kept(c)
  PROVE  Kept(Disconnecting(c))
BY DEF Kept, ConnType, Status, Disconnecting

(* Input comes in, is consumed or is waited for.                           *)
LEMMA InputKept ==
  ASSUME NEW c, Kept(c), NEW n \in Nat
  PROVE  Kept([c EXCEPT !.in = n])
BY DEF Kept, ConnType

LEMMA MessageKept ==
  ASSUME NEW c, Kept(c), NEW cb \in Callbacks
  PROVE  Kept(Message(c, cb))
<1> DEFINE answered == SendInLoop([c EXCEPT !.in = 0])
<1>1. Kept(answered)
  BY InputKept, SendKept
<1>2. Kept(FlushOrRelease(Disconnecting(answered)))
  <2> HIDE DEF answered
  <2> QED
    BY <1>1, DisconnectingKept, FlushKept
<1>3. cb \in {"ignore", "reply", "echo"} /\ c.in \in Nat
  BY CallbacksAssumption DEF Kept, ConnType
<1>4. \/ c.in = 0 \/ cb = "ignore"
      \/ c.in > 0 /\ cb = "reply"
      \/ c.in > 0 /\ cb = "echo"
  BY <1>3
<1>5. CASE c.in = 0 \/ cb = "ignore"
  <2>1. Message(c, cb) = c
    BY <1>5, <1>3 DEF Message
  <2> QED
    BY <2>1
<1>6. CASE c.in > 0 /\ cb = "reply"
  <2>1. Message(c, cb) = answered
    BY <1>6, <1>3 DEF Message
  <2> QED
    BY <2>1, <1>1
<1>7. CASE c.in > 0 /\ cb = "echo"
  <2>1. Message(c, cb) = FlushOrRelease(Disconnecting(answered))
    BY <1>7, <1>3 DEF Message
  <2> QED
    BY <2>1, <1>2
<1> QED
  BY <1>4, <1>5, <1>6, <1>7

(* The handlers of the channel's callbacks and the shutdown task.          *)
LEMMA HandlersKept ==
  ASSUME NEW c, Kept(c), NEW cb \in Callbacks
  PROVE  /\ Kept(ShutdownInLoop(c, cb))
         /\ Kept(HandleReadFailed(c, cb))
         /\ Kept(HandleWriteFailed(c, cb))
         /\ Kept(HandleClose(c, cb))
         /\ \A n \in Nat : Kept(HandleRead(c, n, cb))
<1>1. Kept(ShutdownInLoop(c, cb))
  BY DisconnectingKept, MessageKept, FlushKept DEF ShutdownInLoop
<1>2. Kept(ReleaseInLoop(Message(c, cb)))
  BY MessageKept, ReleaseKept
<1>3. ASSUME NEW n \in Nat
      PROVE  Kept(HandleRead(c, n, cb))
  <2>1. c.in + n \in Nat
    BY DEF Kept, ConnType
  <2> QED
    BY <2>1, InputKept, MessageKept DEF HandleRead
<1> QED
  BY <1>1, <1>2, <1>3 DEF HandleReadFailed, HandleWriteFailed, HandleClose

LEMMA WriteKept ==
  ASSUME NEW c, Kept(c), NEW n \in Sent(c.out)
  PROVE  Kept(HandleWrite(c, n))
<1> DEFINE d == [c EXCEPT !.out = @ - n]
<1>1. c.out \in Nat /\ c.out - n \in Nat
  BY DEF Kept, ConnType, Sent
<1>2. Kept(d)
  BY <1>1 DEF Kept, ConnType
<1>3. HandleWrite(c, n) \in {d, ReleaseInLoop(DisableWrite(d)), DisableWrite(d)}
  BY DEF HandleWrite
<1> HIDE DEF d
<1>4. Kept(DisableWrite(d))
  BY <1>2, EnableKept
<1>5. Kept(ReleaseInLoop(DisableWrite(d)))
  BY <1>4, ReleaseKept
<1> QED
  BY <1>2, <1>3, <1>4, <1>5

-----------------------------------------------------------------------------
\* Until EsTablishedInLoop has run nothing else can touch the connection: it
\* is not in the poller, its loop is between batches, and NewConnection's own
\* tasks are the only ones.
SettingUp ==
  /\ conn.open /\ conn.removing = 0 /\ ~conn.added /\ conn.timer # "cancelled"
  /\ pc = "idle"
  /\ peer = "none" => tasks = <<>> /\ conn.timer = "none"
  /\ peer # "none" => conn.managed /\ tasks \in {<<"Enable", "Establish">>, <<"Establish">>}

ConnInv ==
  /\ TypeOK
  /\ unread <= sent
  /\ conn.statu = "CONNECTING" => SettingUp
  /\ conn.statu # "CONNECTING" => Kept(conn) /\ tasks \in Seq(UserTasks) /\ peer # "none"

LEMMA ConnInit == Init => ConnInv
<1> SUFFICES ASSUME Init
             PROVE  ConnInv
  OBVIOUS
<1>1. PICK base \in OnBase :
        conn = [base |-> base, statu |-> "CONNECTING", in |-> 0, out |-> 0, events |-> {},
                added |-> FALSE, open |-> TRUE, inactive |-> FALSE, timer |-> "none",
                managed |-> FALSE, removing |-> 0, releases |-> 0]
  BY DEF Init
<1>2. conn \in ConnType /\ conn.statu = "CONNECTING"
  BY <1>1, OnBaseAssumption DEF ConnType, Status
<1>3. conn.open /\ conn.removing = 0 /\ ~conn.added /\ conn.timer = "none"
  BY <1>1
<1> QED
  BY <1>2, <1>3, BoundsAssumption DEF Init, ConnInv, TypeOK, SettingUp

(* The steps that leave the connection itself alone.                       *)
LEMMA OutsideStep ==
  ASSUME ConnInv,
         \/ PeerSends
         \/ \E how \in PeerEnds : PeerEndsWith(how)
         \/ \E t \in UserTasks : UserCalls(t)
         \/ Poll
         \/ HandleEventDangling
         \/ ErrnoChanges
         \/ UNCHANGED vars
  PROVE  ConnInv'
<1>0. conn' = conn /\ conn \in ConnType
  BY DEF ConnInv, TypeOK, PeerSends, PeerEndsWith, UserCalls, Poll, HandleEventDangling,
         ErrnoChanges, vars
<1>1. CASE PeerSends
  BY <1>0, <1>1, BoundsAssumption DEF PeerSends, ConnInv, TypeOK, SettingUp
<1>2. ASSUME NEW how \in PeerEnds, PeerEndsWith(how)
      PROVE  ConnInv'
  BY <1>0, <1>2, PeerEndsAssumption, BoundsAssumption DEF PeerEndsWith, ConnInv, TypeOK, SettingUp
<1>3. ASSUME NEW t \in UserTasks, UserCalls(t)
      PROVE  ConnInv'
  BY <1>0, <1>3, UserTasksAssumption, BoundsAssumption DEF UserCalls, ConnInv, TypeOK, SettingUp
<1>4. CASE Poll
  BY <1>0, <1>4 DEF Poll, Ready, ConnInv, TypeOK, SettingUp
<1>5. CASE HandleEventDangling
  BY <1>0, <1>5 DEF HandleEventDangling, ConnInv, TypeOK, SettingUp
<1>6. CASE UNCHANGED vars
  BY <1>6 DEF vars, ConnInv, TypeOK, SettingUp
<1>7. CASE ErrnoChanges
  BY <1>0, <1>7 DEF ErrnoChanges, ConnInv, TypeOK, SettingUp
<1> QED
  BY <1>1, <1>2, <1>3, <1>4, <1>5, <1>6, <1>7

(* A handler that keeps what it must, on a connection that is set up.      *)
LEMMA KeptStep ==
  ASSUME ConnInv, Kept(conn'), tasks \in Seq(UserTasks), peer # "none",
         tasks' = tasks \/ (tasks # <<>> /\ tasks' = Tail(tasks)),
         pc' \in {"idle", "polled", "rest"}, revents' \subseteq {"IN", "OUT", "ERR", "HUP"},
         unread' \in 0 .. unread, UNCHANGED <<peer, sent, calls>>, errno' \in {"AGAIN", "other"}
  PROVE  ConnInv'
<1>1. /\ tasks' \in Seq({"Establish", "Send", "Shutdown", "Enable", "Cancel"})
      /\ tasks' \in Seq(UserTasks)
  BY DEF ConnInv, TypeOK
<1>2. conn' \in ConnType /\ conn'.statu # "CONNECTING"
  BY DEF Kept
<1>3. TypeOK' /\ unread' <= sent'
  BY <1>1, <1>2, BoundsAssumption DEF ConnInv, TypeOK
<1>4. conn'.statu # "CONNECTING" /\ Kept(conn)' /\ peer' # "none"
  BY <1>2 DEF Kept
<1> QED
  BY <1>1, <1>3, <1>4 DEF ConnInv

(* NewConnection, and the two tasks it leaves to another loop.             *)
LEMMA EnableTimer ==
  ASSUME NEW c \in ConnType
  PROVE  /\ EnableInactiveRelease(c) \in ConnType
         /\ EnableInactiveRelease(c).statu = c.statu
         /\ EnableInactiveRelease(c).open = c.open
         /\ EnableInactiveRelease(c).added = c.added
         /\ EnableInactiveRelease(c).managed = c.managed
         /\ EnableInactiveRelease(c).removing = c.removing
         /\ c.timer # "cancelled" => EnableInactiveRelease(c).timer # "cancelled"
BY DEF EnableInactiveRelease, ConnType

LEMMA EstablishKept ==
  ASSUME NEW c \in ConnType, c.open, c.managed, c.removing = 0
  PROVE  Kept(EsTablishedInLoop(c))
BY DEF EsTablishedInLoop, Enable, Kept, ConnType, Status

LEMMA NewConnectionStep ==
  ASSUME ConnInv, NewConnection
  PROVE  ConnInv'
<1> DEFINE c == [conn EXCEPT !.managed = TRUE]
           e == IF Inactivity THEN EnableInactiveRelease(c) ELSE c
<1>1. conn \in ConnType /\ conn.statu = "CONNECTING" /\ SettingUp /\ tasks = <<>>
  BY DEF ConnInv, TypeOK, NewConnection, SettingUp
<1>2. /\ c \in ConnType /\ c.statu = "CONNECTING"
      /\ c.open /\ c.managed /\ c.removing = 0 /\ ~c.added /\ c.timer # "cancelled"
  BY <1>1 DEF ConnType, SettingUp
<1>3. CASE conn.base
  <2>1. e \in ConnType /\ e.open /\ e.managed /\ e.removing = 0
    BY <1>2, EnableTimer
  <2>2. conn' = EsTablishedInLoop(e) /\ tasks' = tasks
    BY <1>3 DEF NewConnection
  <2> HIDE DEF e
  <2>3. Kept(conn')
    BY <2>1, <2>2, EstablishKept
  <2>4. Kept(conn)' /\ conn' \in ConnType /\ conn'.statu # "CONNECTING"
    BY <2>3 DEF Kept
  <2> QED
    BY <1>1, <2>2, <2>4 DEF NewConnection, ConnInv, TypeOK
<1>4. CASE ~conn.base
  <2>1. conn' = c /\ tasks' \in {<<"Enable", "Establish">>, <<"Establish">>}
    BY <1>4 DEF NewConnection
  <2> HIDE DEF c
  <2> QED
    BY <1>1, <1>2, <2>1 DEF NewConnection, ConnInv, TypeOK, SettingUp
<1> QED
  BY <1>3, <1>4

(* RunAllTask: first the tasks of NewConnection, then those of others.     *)
LEMMA RunTaskStep ==
  ASSUME ConnInv, RunTask
  PROVE  ConnInv'
<1>0. /\ conn \in ConnType /\ tasks # <<>> /\ tasks' = Tail(tasks) /\ pc = "idle"
      /\ UNCHANGED <<pc, revents, peer, unread, sent, calls, errno>>
  BY DEF ConnInv, TypeOK, RunTask
<1>1. CASE conn.statu = "CONNECTING"
  <2>1. SettingUp /\ peer # "none"
    BY <1>0, <1>1 DEF ConnInv, SettingUp
  <2>2. CASE tasks = <<"Enable", "Establish">>
    <3>0. Head(tasks) = "Enable" /\ Tail(tasks) = <<"Establish">>
      BY <2>2
    <3>1. conn' = EnableInactiveRelease(conn) /\ tasks' = <<"Establish">>
      BY <1>0, <3>0 DEF RunTask
    <3>2. /\ conn' \in ConnType /\ conn'.statu = "CONNECTING" /\ conn'.open /\ conn'.managed
          /\ conn'.removing = 0 /\ ~conn'.added /\ conn'.timer # "cancelled"
      BY <1>0, <1>1, <2>1, <3>1, EnableTimer DEF SettingUp
    <3> QED
      <4>1. tasks' \in Seq({"Establish", "Send", "Shutdown", "Enable", "Cancel"})
        BY <3>1
      <4>2. TypeOK' /\ unread' <= sent'
        BY <1>0, <3>2, <4>1 DEF ConnInv, TypeOK
      <4>3. SettingUp'
        BY <1>0, <2>1, <3>1, <3>2 DEF SettingUp
      <4> QED
        BY <3>2, <4>2, <4>3 DEF ConnInv
  <2>3. CASE tasks = <<"Establish">>
    <3>0. Head(tasks) = "Establish" /\ Tail(tasks) = <<>>
      BY <2>3
    <3>1. conn' = EsTablishedInLoop(conn) /\ tasks' = <<>>
      BY <1>0, <3>0 DEF RunTask
    <3>2. Kept(conn')
      BY <1>0, <2>1, <3>1, EstablishKept DEF SettingUp
    <3>3. Kept(conn)' /\ conn' \in ConnType /\ conn'.statu # "CONNECTING"
      BY <3>2 DEF Kept
    <3> QED
      <4>1. /\ tasks' \in Seq({"Establish", "Send", "Shutdown", "Enable", "Cancel"})
            /\ tasks' \in Seq(UserTasks)
        BY <3>1
      <4>2. TypeOK' /\ unread' <= sent'
        BY <1>0, <3>3, <4>1 DEF ConnInv, TypeOK
      <4> QED
        BY <1>0, <2>1, <3>3, <4>1, <4>2 DEF ConnInv
  <2> QED
    BY <2>1, <2>2, <2>3 DEF SettingUp
<1>2. CASE conn.statu # "CONNECTING"
  <2>1. Kept(conn) /\ tasks \in Seq(UserTasks) /\ peer # "none" /\ Head(tasks) \in UserTasks
    BY <1>0, <1>2 DEF ConnInv
  <2>2. ASSUME Head(tasks) = "Enable"
        PROVE  Kept(conn')
    <3>1. conn' = EnableInactiveRelease(conn)
      BY <2>2 DEF RunTask
    <3> QED
      BY <1>0, <2>1, <2>2, <3>1, EnableTimer DEF Kept
  <2>3. ASSUME Head(tasks) # "Enable"
        PROVE  Kept(conn')
    BY <2>1, <2>3, UserTasksAssumption, SendKept, HandlersKept, CancelKept DEF RunTask
  <2> QED
    BY <1>0, <2>1, <2>2, <2>3, KeptStep DEF RunTask, ConnInv, TypeOK
<1> QED
  BY <1>1, <1>2

(* The timer, the two halves of HandleEvent and the base loop's task: the  *)
(* connection is set up by then.                                           *)
LEMMA LaterStep ==
  ASSUME ConnInv,
         TimerFires \/ CancelledTimerGoes \/ HandleEventRead \/ HandleEventRest
           \/ RemoveConnectionInLoop,
         conn.statu # "CONNECTING"
  PROVE  ConnInv'
<1>0. /\ Kept(conn) /\ tasks \in Seq(UserTasks) /\ peer # "none"
      /\ conn \in ConnType /\ unread \in Nat /\ unread' \in 0 .. unread /\ errno' \in {"AGAIN", "other"}
      /\ revents \subseteq {"IN", "OUT", "ERR", "HUP"} /\ pc \in {"idle", "polled", "rest", "crashed"}
  BY DEF ConnInv, TypeOK, TimerFires, CancelledTimerGoes, HandleEventRead, HandleEventRest,
         RemoveConnectionInLoop, Received
<1>1. CASE TimerFires
  <2>1. Kept(ReleaseInLoop(conn)) /\ conn' = [ReleaseInLoop(conn) EXCEPT !.timer = "none"]
    BY <1>0, <1>1, ReleaseKept DEF TimerFires
  <2>2. Kept(conn')
    BY <2>1 DEF Kept, ConnType
  <2> QED
    BY <1>0, <1>1, <2>2, KeptStep DEF TimerFires
<1>2. CASE CancelledTimerGoes
  <2>1. Kept(conn')
    BY <1>0, <1>2 DEF CancelledTimerGoes, Kept, ConnType
  <2> QED
    BY <1>0, <1>2, <2>1, KeptStep DEF CancelledTimerGoes
<1>3. CASE HandleEventRead
  <2>1. Received \subseteq Nat
    BY <1>0 DEF Received
  <2>2. Kept(conn')
    BY <1>0, <1>3, <2>1, HandlersKept DEF HandleEventRead
  <2> QED
    BY <1>0, <1>3, <2>2, KeptStep DEF HandleEventRead
<1>4. CASE HandleEventRest
  <2>1. Kept(conn')
    BY <1>0, <1>4, HandlersKept, WriteKept DEF HandleEventRest
  <2> QED
    BY <1>0, <1>4, <2>1, KeptStep DEF HandleEventRest
<1>5. CASE RemoveConnectionInLoop
  <2>1. conn.removing > 0 /\ conn.removing - 1 \in Nat
    BY <1>0, <1>5 DEF RemoveConnectionInLoop, ConnType
  <2>2. conn' \in ConnType
    BY <1>0, <1>5, <2>1 DEF RemoveConnectionInLoop, ConnType
  <2>3. conn'.statu = conn.statu /\ conn'.open = conn.open /\ conn'.timer = conn.timer
    BY <1>0, <1>5 DEF RemoveConnectionInLoop, ConnType
  <2>4. Kept(conn')
    BY <1>0, <2>1, <2>2, <2>3 DEF Kept
  <2>5. TypeOK' /\ unread' <= sent' /\ tasks' = tasks /\ peer' = peer
    BY <1>5, <2>2 DEF RemoveConnectionInLoop, ConnInv, TypeOK
  <2>6. Kept(conn)' /\ conn'.statu # "CONNECTING"
    BY <2>4 DEF Kept
  <2> QED
    BY <1>0, <2>5, <2>6 DEF ConnInv
<1> QED
  BY <1>1, <1>2, <1>3, <1>4, <1>5

LEMMA ConnStep ==
  ConnInv /\ [Next]_vars => ConnInv'
<1> SUFFICES ASSUME ConnInv, [Next]_vars
             PROVE  ConnInv'
  OBVIOUS
<1>1. CASE NewConnection
  BY <1>1, NewConnectionStep
<1>2. CASE RunTask
  BY <1>2, RunTaskStep
<1>3. CASE \/ PeerSends
           \/ \E how \in PeerEnds : PeerEndsWith(how)
           \/ \E t \in UserTasks : UserCalls(t)
           \/ Poll
           \/ HandleEventDangling
           \/ ErrnoChanges
           \/ UNCHANGED vars
  BY <1>3, OutsideStep
<1>4. CASE TimerFires \/ CancelledTimerGoes \/ HandleEventRead \/ HandleEventRest
             \/ RemoveConnectionInLoop
  <2>1. conn.statu # "CONNECTING"
    BY <1>4 DEF ConnInv, SettingUp, TimerFires, CancelledTimerGoes, HandleEventRead,
                HandleEventRest, RemoveConnectionInLoop
  <2> QED
    BY <1>4, <2>1, LaterStep
<1> QED
  BY <1>1, <1>2, <1>3, <1>4 DEF Next, LoopStep

(* The state of a connection stays well typed, whatever the peer, the      *)
(* callbacks, the timer and other threads do: in particular the buffers    *)
(* never go below empty (HandleWrite moves the read index by what send     *)
(* took) and tasks reach a connection only after EsTablishedInLoop.        *)
THEOREM ConnTypeCorrect == Spec => []TypeOK
<1>1. ConnInv => TypeOK
  BY DEF ConnInv
<1> QED
  BY <1>1, ConnInit, ConnStep, PTL DEF Spec

(* Unless another thread enables inactive release, an armed inactivity     *)
(* timer always has a target: the connection whose bare this is bound in   *)
(* the callback ReleaseInLoop exists and its socket is open, for any peer  *)
(* (resets included), any callbacks, one loop or several.                  *)
THEOREM ConnTimerHasTarget ==
  ASSUME "Enable" \notin UserTasks
  PROVE  Spec => []ArmedTimerHasTarget
<1>1. ConnInv => ArmedTimerHasTarget
  <2> SUFFICES ASSUME ConnInv, conn.timer = "armed"
               PROVE  Exists /\ conn.open
    BY DEF ArmedTimerHasTarget
  <2>1. CASE conn.statu # "CONNECTING"
    BY <2>1 DEF ConnInv, Kept, Exists
  <2>2. CASE conn.statu = "CONNECTING"
    BY <2>2 DEF ConnInv, SettingUp, Exists
  <2> QED
    BY <2>1, <2>2
<1> QED
  BY <1>1, ConnInit, ConnStep, PTL DEF Spec

-----------------------------------------------------------------------------
\* A server without inactive release whose peers close but do not reset, and
\* whose other threads only send: the conditions under which the code releases
\* a connection once (README, section 6, says what happens otherwise).
Graceful ==
  /\ PeerEnds \subseteq {"fin"}
  /\ UserTasks \subseteq {"Send", "Cancel"}
  /\ ~Inactivity

\* Before its release a connection is in the poller and monitored for writing
\* exactly when it has output; after it, nothing of it is left.
Sound(c) ==
  /\ Kept(c)
  /\ c.timer = "none"
  /\ c.open => /\ c.releases = 0 /\ c.added /\ c.statu # "DISCONNECTED"
               /\ "OUT" \in c.events <=> c.out > 0
  /\ ~c.open => c.releases = 1 /\ ~c.added /\ c.statu = "DISCONNECTED"

(* The calls of a live connection, from the inside out.                    *)
LEMMA SendSound ==
  ASSUME NEW c, Sound(c)
  PROVE  /\ Sound(SendInLoop(c))
         /\ SendInLoop(c).open = c.open /\ SendInLoop(c).releases = c.releases
         /\ c.open => SendInLoop(c).out = c.out + 1
<1>1. c \in ConnType
  BY DEF Sound, Kept
<1>2. Kept(SendInLoop(c))
  BY SendKept DEF Sound
<1>3. CASE c.open
  <2> DEFINE d == [c EXCEPT !.out = @ + 1]
             e == SendInLoop(c)
  <2>1. /\ d \in ConnType /\ d.out = c.out + 1 /\ d.out > 0 /\ d.events = c.events /\ d.open
        /\ d.timer = "none" /\ d.releases = 0 /\ d.added /\ d.statu = c.statu /\ c.statu # "DISCONNECTED"
    BY <1>1, <1>3 DEF Sound, ConnType
  <2>2. e = IF "OUT" \in d.events THEN d ELSE Enable(d, "OUT")
    BY <2>1 DEF SendInLoop
  <2> HIDE DEF d, e
  <2>3. /\ e.out = d.out /\ e.open /\ e.timer = "none" /\ e.releases = 0 /\ e.added
        /\ e.statu = c.statu /\ "OUT" \in e.events
    BY <2>1, <2>2 DEF Enable, ConnType
  <2>4. Sound(e)
    BY <1>2, <2>1, <2>3 DEF Sound, e
  <2> QED
    BY <1>3, <2>1, <2>3, <2>4 DEF Sound, e
<1>4. CASE ~c.open
  BY <1>4 DEF Sound, SendInLoop
<1> QED
  BY <1>3, <1>4

LEMMA InputSound ==
  ASSUME NEW c, Sound(c), NEW n \in Nat
  PROVE  /\ Sound([c EXCEPT !.in = n])
         /\ [c EXCEPT !.in = n].open = c.open /\ [c EXCEPT !.in = n].out = c.out
         /\ [c EXCEPT !.in = n].releases = c.releases
<1>1. Kept([c EXCEPT !.in = n]) /\ c \in ConnType
  BY InputKept DEF Sound, Kept
<1> QED
  BY <1>1 DEF Sound, ConnType

LEMMA DisconnectingSound ==
  ASSUME NEW c, Sound(c), c.open
  PROVE  /\ Sound(Disconnecting(c)) /\ Disconnecting(c).open
         /\ Disconnecting(c).out = c.out /\ Disconnecting(c).releases = 0
<1>1. Kept(Disconnecting(c)) /\ c \in ConnType
  BY DisconnectingKept DEF Sound, Kept
<1> QED
  BY <1>1 DEF Sound, ConnType, Disconnecting

(* ReleaseInLoop of a live connection.                                     *)
LEMMA ReleaseSound ==
  ASSUME NEW c, Kept(c), c.open, c.timer = "none", c.releases = 0
  PROVE  /\ Sound(ReleaseInLoop(c)) /\ ~ReleaseInLoop(c).open
         /\ ReleaseInLoop(c).out = c.out
<1> DEFINE closed == [c EXCEPT !.statu = "DISCONNECTED", !.added = FALSE, !.open = FALSE,
                               !.releases = @ + 1]
<1>0. c \in ConnType
  BY DEF Kept
<1>1. /\ closed.statu = "DISCONNECTED" /\ ~closed.added /\ ~closed.open /\ closed.releases = 1
      /\ closed.timer = "none" /\ closed.out = c.out /\ closed.base = c.base
  BY <1>0 DEF ConnType
<1>2. ReleaseInLoop(c) = RemoveConnection(closed)
  BY DEF ReleaseInLoop
<1>3. closed \in ConnType
  <2> DEFINE counted == [c EXCEPT !.releases = @ + 1]
  <2>1. counted \in ConnType
    BY <1>0 DEF ConnType
  <2>2. closed = [counted EXCEPT !.statu = "DISCONNECTED", !.added = FALSE, !.open = FALSE]
    BY <1>0 DEF ConnType
  <2> HIDE DEF counted, closed
  <2> QED
    BY <2>1, <2>2, Zenon DEF ConnType, Status
<1> HIDE DEF closed
<1>4. ASSUME NEW d, d \in {[closed EXCEPT !.managed = FALSE], [closed EXCEPT !.removing = @ + 1]}
      PROVE  /\ d.statu = "DISCONNECTED" /\ ~d.added /\ ~d.open /\ d.releases = 1
             /\ d.timer = "none" /\ d.out = c.out
  BY <1>1, <1>3, <1>4 DEF ConnType
<1>5. Kept(ReleaseInLoop(c))
  BY ReleaseKept
<1>6. RemoveConnection(closed) \in {[closed EXCEPT !.managed = FALSE], [closed EXCEPT !.removing = @ + 1]}
  BY DEF RemoveConnection
<1> QED
  BY <1>2, <1>4, <1>5, <1>6 DEF Sound

(* Output keeps a connection from being released.                          *)
LEMMA FlushSound ==
  ASSUME NEW c, Sound(c), c.open
  PROVE  /\ Sound(FlushOrRelease(c)) /\ FlushOrRelease(c).out = c.out
         /\ c.out > 0 => FlushOrRelease(c).open
<1>1. Kept(c) /\ c.out \in Nat /\ c.timer = "none" /\ c.releases = 0 /\ ("OUT" \in c.events <=> c.out > 0)
  BY DEF Sound, Kept, ConnType
<1>2. FlushOrRelease(c) = IF c.out = 0 THEN ReleaseInLoop(c) ELSE c
  BY <1>1 DEF FlushOrRelease
<1> QED
  BY <1>1, <1>2, ReleaseSound

(* The message callback only adds output.                                  *)
LEMMA MessageSound ==
  ASSUME NEW c, Sound(c), c.open, NEW cb \in Callbacks
  PROVE  Sound(Message(c, cb)) /\ Message(c, cb).open /\ Message(c, cb).out >= c.out
<1> DEFINE read == [c EXCEPT !.in = 0]
           answered == SendInLoop(read)
           last == FlushOrRelease(Disconnecting(answered))
<1>0. c \in ConnType /\ c.in \in Nat /\ c.out \in Nat
  BY DEF Sound, Kept, ConnType
<1>1. Sound(read) /\ read.open /\ read.out = c.out
  BY InputSound
<1> HIDE DEF read
<1>2. Sound(answered) /\ answered.open /\ answered.out = c.out + 1
  BY <1>1, SendSound
<1> HIDE DEF answered
<1>3. /\ Sound(Disconnecting(answered)) /\ Disconnecting(answered).open
      /\ Disconnecting(answered).out = c.out + 1
  BY <1>2, DisconnectingSound
<1>4. Sound(last) /\ last.open /\ last.out = c.out + 1
  BY <1>0, <1>3, FlushSound
<1> HIDE DEF last
<1>5. cb \in {"ignore", "reply", "echo"}
  BY CallbacksAssumption
<1>6. Message(c, cb) \in {c, answered, last}
  BY <1>0, <1>5 DEF Message, last, answered, read
<1> QED
  BY <1>0, <1>2, <1>4, <1>6

(* HandleRead, HandleReadFailed, HandleWriteFailed.                        *)
LEMMA HandlersSound ==
  ASSUME NEW c, Sound(c), c.open, NEW cb \in Callbacks
  PROVE  /\ Sound(HandleReadFailed(c, cb))
         /\ c.out > 0 => HandleReadFailed(c, cb).open /\ HandleReadFailed(c, cb).out > 0
         /\ Sound(HandleWriteFailed(c, cb))
         /\ \A n \in Nat : /\ Sound(HandleRead(c, n, cb)) /\ HandleRead(c, n, cb).open
                           /\ HandleRead(c, n, cb).out >= c.out
<1>0. c.in \in Nat /\ c.out \in Nat
  BY DEF Sound, Kept, ConnType
<1> DEFINE m == Message(Disconnecting(c), cb)
<1>1. Sound(m) /\ m.open /\ m.out >= c.out
  BY DisconnectingSound, MessageSound
<1>2. m.out \in Nat
  BY <1>1 DEF Sound, Kept, ConnType
<1>3. HandleReadFailed(c, cb) = FlushOrRelease(m)
  BY DEF HandleReadFailed, ShutdownInLoop
<1> HIDE DEF m
<1>4. /\ Sound(HandleReadFailed(c, cb))
      /\ c.out > 0 => HandleReadFailed(c, cb).open /\ HandleReadFailed(c, cb).out > 0
  BY <1>0, <1>1, <1>2, <1>3, FlushSound
<1>5. Sound(HandleWriteFailed(c, cb))
  <2> DEFINE w == Message(c, cb)
  <2>1. Sound(w) /\ w.open
    BY MessageSound
  <2> HIDE DEF w
  <2>2. Kept(w) /\ w.timer = "none" /\ w.releases = 0
    BY <2>1 DEF Sound
  <2>3. Sound(ReleaseInLoop(w))
    BY <2>1, <2>2, ReleaseSound
  <2> QED
    BY <2>3 DEF HandleWriteFailed, w
<1>6. ASSUME NEW n \in Nat
      PROVE  /\ Sound(HandleRead(c, n, cb)) /\ HandleRead(c, n, cb).open
             /\ HandleRead(c, n, cb).out >= c.out
  <2> DEFINE r == [c EXCEPT !.in = c.in + n]
  <2>1. Sound(r) /\ r.open /\ r.out = c.out
    BY <1>0, InputSound
  <2>2. HandleRead(c, n, cb) = Message(r, cb)
    BY DEF HandleRead
  <2> HIDE DEF r
  <2> QED
    BY <2>1, <2>2, MessageSound
<1> QED
  BY <1>4, <1>5, <1>6

(* HandleWrite releases only when everything is sent.                      *)
LEMMA WriteSound ==
  ASSUME NEW c, Sound(c), c.open, NEW n \in Sent(c.out)
  PROVE  /\ Sound(HandleWrite(c, n))
         /\ HandleWrite(c, n).releases # 0 => HandleWrite(c, n).out = 0
<1> DEFINE d == [c EXCEPT !.out = @ - n]
           e == DisableWrite(d)
<1>1. c \in ConnType /\ c.out \in Nat /\ c.out - n \in Nat
  BY DEF Sound, Kept, ConnType, Sent
<1>2. /\ Kept(d) /\ d.open /\ d.timer = "none" /\ d.releases = 0 /\ d.added
      /\ d.statu = c.statu /\ d.statu # "DISCONNECTED" /\ d.out = c.out - n /\ d.events = c.events
  BY <1>1 DEF Sound, Kept, ConnType
<1>3. d.out > 0 => "OUT" \in d.events
  BY <1>1, <1>2 DEF Sound, Sent
<1>4. HandleWrite(c, n) = IF d.out > 0 THEN d ELSE IF d.statu = "DISCONNECTING" THEN ReleaseInLoop(e) ELSE e
  BY DEF HandleWrite
<1> HIDE DEF d
<1>5. /\ Kept(e) /\ e.open /\ e.timer = "none" /\ e.releases = 0 /\ e.added /\ e.out = d.out
      /\ e.statu = d.statu /\ "OUT" \notin e.events
  <2>1. Kept(e) /\ d \in ConnType
    BY <1>2, EnableKept DEF Kept
  <2> QED
    BY <1>2, <2>1 DEF DisableWrite, ConnType
<1> HIDE DEF e
<1>6. CASE d.out > 0
  BY <1>2, <1>3, <1>4, <1>6 DEF Sound
<1>7. CASE ~(d.out > 0)
  <2>1. d.out = 0
    BY <1>1, <1>2, <1>7
  <2>2. Sound(e)
    BY <1>2, <1>5, <2>1 DEF Sound
  <2>3. Sound(ReleaseInLoop(e)) /\ ReleaseInLoop(e).out = 0
    BY <1>5, <2>1, ReleaseSound
  <2> QED
    BY <1>4, <1>5, <1>7, <2>1, <2>2, <2>3
<1> QED
  BY <1>6, <1>7

\* Between epoll_wait and the end of HandleEvent the connection is live, or has
\* been released by the read callback and then has no write event to serve.
Fresh ==
  /\ conn.releases = 0 /\ conn.out = 0 /\ conn.events = {} /\ conn.timer = "none"
  /\ tasks \in {<<>>, <<"Establish">>}

GracefulInv ==
  /\ ConnInv
  /\ conn.statu = "CONNECTING" => Fresh
  /\ conn.statu # "CONNECTING" => Sound(conn)
  /\ peer # "reset" /\ revents \subseteq {"IN", "OUT"}
  /\ pc = "polled" => conn.open /\ ("OUT" \in revents => conn.out > 0)
  /\ pc = "rest" /\ "OUT" \in revents => conn.open /\ conn.out > 0

FlushedStep == conn'.releases > conn.releases /\ peer = "open" => conn'.out = 0

LEMMA GracefulInit == Init => GracefulInv
<1> SUFFICES ASSUME Init PROVE GracefulInv
  OBVIOUS
<1>1. ConnInv
  BY ConnInit
<1>2. PICK base \in OnBase :
        conn = [base |-> base, statu |-> "CONNECTING", in |-> 0, out |-> 0, events |-> {},
                added |-> FALSE, open |-> TRUE, inactive |-> FALSE, timer |-> "none",
                managed |-> FALSE, removing |-> 0, releases |-> 0]
  BY DEF Init
<1>3. /\ conn.statu = "CONNECTING" /\ conn.releases = 0 /\ conn.out = 0 /\ conn.events = {}
      /\ conn.timer = "none"
  BY <1>2
<1> QED
  BY <1>1, <1>3 DEF Init, GracefulInv, Fresh

(* The steps of the peer, of other threads and of epoll_wait.              *)
LEMMA GracefulOutside ==
  ASSUME Graceful, GracefulInv, ConnInv',
         \/ PeerSends
         \/ \E how \in PeerEnds : PeerEndsWith(how)
         \/ \E t \in UserTasks : UserCalls(t)
         \/ Poll
         \/ HandleEventDangling
         \/ ErrnoChanges
         \/ UNCHANGED vars
  PROVE  GracefulInv' /\ FlushedStep
<1>0. conn' = conn /\ conn \in ConnType
  BY DEF GracefulInv, ConnInv, TypeOK, PeerSends, PeerEndsWith, UserCalls, Poll,
         HandleEventDangling, ErrnoChanges, vars
<1>1. FlushedStep
  BY <1>0 DEF FlushedStep, ConnType
<1>2. (Sound(conn)' <=> Sound(conn)) /\ (tasks' = tasks => (Fresh' <=> Fresh))
  BY <1>0 DEF Fresh
<1>3. CASE PeerSends
  BY <1>0, <1>1, <1>2, <1>3 DEF PeerSends, GracefulInv
<1>4. ASSUME NEW how \in PeerEnds, PeerEndsWith(how)
      PROVE  GracefulInv'
  BY <1>0, <1>2, <1>4 DEF PeerEndsWith, GracefulInv, Graceful
<1>5. ASSUME NEW t \in UserTasks, UserCalls(t)
      PROVE  GracefulInv'
  BY <1>0, <1>2, <1>5 DEF UserCalls, GracefulInv
<1>6. CASE Poll
  <2>1. /\ conn.open /\ conn.added /\ pc' = "polled" /\ revents' = Ready
        /\ tasks' = tasks /\ peer' = peer
    BY <1>6 DEF Poll
  <2>2. conn.statu # "CONNECTING" /\ Sound(conn)
    BY <1>6 DEF Poll, GracefulInv, ConnInv, SettingUp
  <2>3. revents' \subseteq {"IN", "OUT"} /\ ("OUT" \in revents' => "OUT" \in conn.events)
    BY <2>1 DEF Ready, GracefulInv
  <2>4. "OUT" \in conn.events => conn.out > 0
    BY <2>1, <2>2 DEF Sound
  <2> QED
    BY <1>0, <1>1, <1>2, <2>1, <2>2, <2>3, <2>4 DEF GracefulInv
<1>7. CASE HandleEventDangling
  BY <1>0, <1>1, <1>2, <1>7 DEF HandleEventDangling, GracefulInv
<1>8. CASE UNCHANGED vars
  BY <1>1, <1>2, <1>8 DEF vars, GracefulInv
<1>9. CASE ErrnoChanges
  BY <1>0, <1>1, <1>2, <1>9 DEF ErrnoChanges, GracefulInv
<1> QED
  BY <1>1, <1>3, <1>4, <1>5, <1>6, <1>7, <1>8, <1>9

(* EsTablishedInLoop makes a live connection of a new one.                 *)
LEMMA EstablishSound ==
  ASSUME NEW c \in ConnType, c.open, c.managed, c.removing = 0, c.releases = 0, c.out = 0,
         c.events = {}, c.timer = "none"
  PROVE  /\ Sound(EsTablishedInLoop(c)) /\ EsTablishedInLoop(c).statu # "CONNECTING"
         /\ EsTablishedInLoop(c).releases = 0
<1>1. Kept(EsTablishedInLoop(c))
  BY EstablishKept
<1> QED
  BY <1>1 DEF Sound, EsTablishedInLoop, Enable, ConnType

LEMMA GracefulNew ==
  ASSUME Graceful, GracefulInv, ConnInv', NewConnection
  PROVE  GracefulInv' /\ FlushedStep
<1> DEFINE c == [conn EXCEPT !.managed = TRUE]
<1>1. /\ conn \in ConnType /\ conn.statu = "CONNECTING" /\ SettingUp /\ tasks = <<>>
      /\ conn.releases = 0 /\ conn.out = 0 /\ conn.events = {} /\ conn.timer = "none"
  BY DEF GracefulInv, Fresh, ConnInv, TypeOK, NewConnection, SettingUp
<1>2. /\ c \in ConnType /\ c.statu = "CONNECTING"
      /\ c.open /\ c.managed /\ c.removing = 0 /\ c.releases = 0 /\ c.out = 0
      /\ c.events = {} /\ c.timer = "none"
  BY <1>1 DEF ConnType, SettingUp
<1>3. pc = "idle" /\ pc' = pc /\ revents' = revents /\ peer' = "open"
  BY <1>1 DEF SettingUp, NewConnection
<1>4. CASE conn.base
  <2>1. conn' = EsTablishedInLoop(c)
    BY <1>4 DEF NewConnection, Graceful
  <2> HIDE DEF c
  <2>2. Sound(conn') /\ conn'.statu # "CONNECTING" /\ conn'.releases = 0
    BY <1>2, <2>1, EstablishSound
  <2> QED
    BY <1>1, <1>3, <2>2 DEF GracefulInv, FlushedStep
<1>5. CASE ~conn.base
  <2>1. conn' = c /\ tasks' = <<"Establish">>
    BY <1>5 DEF NewConnection, Graceful
  <2> HIDE DEF c
  <2> QED
    BY <1>1, <1>2, <1>3, <2>1 DEF GracefulInv, Fresh, FlushedStep
<1> QED
  BY <1>4, <1>5

LEMMA GracefulTask ==
  ASSUME Graceful, GracefulInv, ConnInv', RunTask
  PROVE  GracefulInv' /\ FlushedStep
<1>0. /\ conn \in ConnType /\ tasks # <<>> /\ tasks' = Tail(tasks) /\ pc = "idle"
      /\ pc' = pc /\ revents' = revents /\ peer' = peer
  BY DEF GracefulInv, ConnInv, TypeOK, RunTask
<1>1. CASE conn.statu = "CONNECTING"
  <2>1. /\ SettingUp /\ peer # "none" /\ tasks = <<"Establish">>
        /\ conn.releases = 0 /\ conn.out = 0 /\ conn.events = {} /\ conn.timer = "none"
    BY <1>0, <1>1 DEF GracefulInv, Fresh, ConnInv, SettingUp
  <2>2. Head(tasks) = "Establish"
    BY <2>1
  <2>3. conn' = EsTablishedInLoop(conn)
    BY <2>2 DEF RunTask
  <2>4. Sound(conn') /\ conn'.statu # "CONNECTING" /\ conn'.releases = 0
    BY <1>0, <2>1, <2>3, EstablishSound DEF SettingUp
  <2> QED
    BY <1>0, <2>1, <2>4 DEF GracefulInv, FlushedStep
<1>2. CASE conn.statu # "CONNECTING"
  <2>0. Sound(conn) /\ tasks \in Seq(UserTasks)
    BY <1>2 DEF GracefulInv, ConnInv
  <2>1. Sound(conn) /\ Head(tasks) \in {"Send", "Cancel"}
    <3>1. Head(tasks) \in UserTasks
      BY <1>0, <2>0
    <3> QED
      BY <2>0, <3>1 DEF Graceful
  <2>2. Sound(conn') /\ conn'.releases = conn.releases
    <3>1. CASE Head(tasks) = "Send"
      BY <2>1, <3>1, SendSound DEF RunTask
    <3>2. CASE Head(tasks) = "Cancel"
      <4>1. conn' = CancelInactiveRelease(conn)
        BY <3>2 DEF RunTask
      <4>2. Kept(conn')
        BY <2>1, <4>1, CancelKept DEF Sound
      <4> QED
        BY <1>0, <2>1, <4>1, <4>2 DEF Sound, CancelInactiveRelease, ConnType
    <3> QED
      BY <2>1, <3>1, <3>2
  <2>3. conn'.statu # "CONNECTING"
    BY <2>2 DEF Sound, Kept
  <2>4. conn.releases \in Nat
    BY <1>0 DEF ConnType
  <2> QED
    BY <1>0, <2>2, <2>3, <2>4 DEF GracefulInv, FlushedStep
<1> QED
  BY <1>1, <1>2

(* HandleEvent, the timer and the base loop's task.                        *)
LEMMA GracefulLater ==
  ASSUME Graceful, GracefulInv, ConnInv',
         TimerFires \/ CancelledTimerGoes \/ HandleEventRead \/ HandleEventRest
           \/ RemoveConnectionInLoop
  PROVE  GracefulInv' /\ FlushedStep
<1>0. /\ conn.statu # "CONNECTING" /\ Sound(conn) /\ conn \in ConnType /\ unread \in Nat
      /\ peer' = peer
  <2>1. conn.statu # "CONNECTING"
    BY DEF GracefulInv, ConnInv, SettingUp, TimerFires, CancelledTimerGoes, HandleEventRead,
           HandleEventRest, RemoveConnectionInLoop
  <2>2. conn \in ConnType /\ unread \in Nat /\ peer' = peer
    BY DEF GracefulInv, ConnInv, TypeOK, TimerFires, CancelledTimerGoes, HandleEventRead,
           HandleEventRest, RemoveConnectionInLoop
  <2> QED
    BY <2>1, <2>2 DEF GracefulInv
<1>1. CASE TimerFires \/ CancelledTimerGoes
  BY <1>0, <1>1 DEF TimerFires, CancelledTimerGoes, Sound
<1>2. CASE HandleEventRead
  <2>1. /\ pc = "polled" /\ conn.open /\ ("OUT" \in revents => conn.out > 0)
        /\ pc' = "rest" /\ revents' = revents /\ conn.releases = 0 /\ conn.out \in Nat
    BY <1>0, <1>2 DEF HandleEventRead, GracefulInv, Sound, ConnType
  <2>2. CASE conn' = conn
    BY <1>0, <2>1, <2>2 DEF GracefulInv, FlushedStep
  <2>3. ASSUME NEW cb \in Callbacks, RecvFails, conn' = HandleReadFailed(conn, cb)
        PROVE  GracefulInv' /\ FlushedStep
    <3>1. /\ Sound(conn') /\ (conn.out > 0 => conn'.open /\ conn'.out > 0)
      BY <1>0, <2>1, <2>3, HandlersSound
    <3>2. peer # "open"
      BY <2>1, <2>3 DEF RecvFails
    <3>3. conn'.statu # "CONNECTING"
      BY <3>1 DEF Sound, Kept
    <3> QED
      BY <1>0, <2>1, <3>1, <3>2, <3>3 DEF GracefulInv, FlushedStep
  <2>4. ASSUME NEW cb \in Callbacks, NEW n \in Received, conn' = HandleRead(conn, n, cb)
        PROVE  GracefulInv' /\ FlushedStep
    <3>0. n \in Nat
      BY <1>0 DEF Received
    <3>1. Sound(conn') /\ conn'.open /\ conn'.out >= conn.out
      BY <1>0, <2>1, <2>4, <3>0, HandlersSound
    <3>2. conn'.statu # "CONNECTING" /\ conn'.releases = 0 /\ conn'.out \in Nat
      BY <3>1 DEF Sound, Kept, ConnType
    <3> QED
      BY <1>0, <2>1, <3>1, <3>2 DEF GracefulInv, FlushedStep
  <2> QED
    BY <1>2, <2>2, <2>3, <2>4 DEF HandleEventRead
<1>3. CASE HandleEventRest
  <2>1. /\ pc = "rest" /\ ("OUT" \in revents => conn.open /\ conn.out > 0)
        /\ pc' = "idle" /\ revents' = {} /\ revents \subseteq {"IN", "OUT"}
    BY <1>3 DEF HandleEventRest, GracefulInv
  <2>2. CASE conn' = conn
    BY <1>0, <2>1, <2>2 DEF GracefulInv, FlushedStep, ConnType
  <2>3. ASSUME "OUT" \in revents, NEW n \in Sent(conn.out), conn' = HandleWrite(conn, n)
        PROVE  GracefulInv' /\ FlushedStep
    <3>1. Sound(conn') /\ (conn'.releases # 0 => conn'.out = 0) /\ conn.releases = 0
      BY <1>0, <2>1, <2>3, WriteSound DEF Sound
    <3>2. conn'.statu # "CONNECTING"
      BY <3>1 DEF Sound, Kept
    <3> QED
      BY <1>0, <2>1, <3>1, <3>2 DEF GracefulInv, FlushedStep
  <2>4. ASSUME "OUT" \in revents, ~conn.open \/ peer # "open", NEW cb \in Callbacks,
               conn' = HandleWriteFailed(conn, cb)
        PROVE  GracefulInv' /\ FlushedStep
    <3>1. Sound(conn') /\ peer # "open"
      BY <1>0, <2>1, <2>4, HandlersSound
    <3>2. conn'.statu # "CONNECTING"
      BY <3>1 DEF Sound, Kept
    <3> QED
      BY <1>0, <2>1, <3>1, <3>2 DEF GracefulInv, FlushedStep
  <2> QED
    BY <1>3, <2>1, <2>2, <2>3, <2>4 DEF HandleEventRest
<1>4. CASE RemoveConnectionInLoop
  <2>1. /\ conn'.statu = conn.statu /\ conn'.open = conn.open /\ conn'.timer = conn.timer
        /\ conn'.releases = conn.releases /\ conn'.added = conn.added
        /\ conn'.out = conn.out /\ conn'.events = conn.events
        /\ pc' = pc /\ revents' = revents
    BY <1>0, <1>4 DEF RemoveConnectionInLoop, ConnType
  <2>2. Kept(conn')
    BY <1>0, <2>1 DEF ConnInv, Kept
  <2>3. Sound(conn')
    BY <1>0, <2>1, <2>2 DEF Sound
  <2>4. conn.releases \in Nat
    BY <1>0 DEF ConnType
  <2> QED
    BY <1>0, <2>1, <2>3, <2>4 DEF GracefulInv, FlushedStep
<1> QED
  BY <1>1, <1>2, <1>3, <1>4

LEMMA GracefulStep ==
  ASSUME Graceful
  PROVE  GracefulInv /\ [Next]_vars => GracefulInv' /\ FlushedStep
<1> SUFFICES ASSUME GracefulInv, [Next]_vars
             PROVE  GracefulInv' /\ FlushedStep
  OBVIOUS
<1>0. ConnInv'
  BY ConnStep DEF GracefulInv
<1>1. CASE NewConnection
  BY <1>0, <1>1, GracefulNew
<1>2. CASE RunTask
  BY <1>0, <1>2, GracefulTask
<1>3. CASE \/ PeerSends
           \/ \E how \in PeerEnds : PeerEndsWith(how)
           \/ \E t \in UserTasks : UserCalls(t)
           \/ Poll
           \/ HandleEventDangling
           \/ ErrnoChanges
           \/ UNCHANGED vars
  BY <1>0, <1>3, GracefulOutside
<1>4. CASE TimerFires \/ CancelledTimerGoes \/ HandleEventRead \/ HandleEventRest
             \/ RemoveConnectionInLoop
  BY <1>0, <1>4, GracefulLater
<1> QED
  BY <1>1, <1>2, <1>3, <1>4 DEF Next, LoopStep

(* In a server without inactive release, with peers that close and do not  *)
(* reset and other threads that send: however events, callbacks and sends  *)
(* interleave, and for any amount of data, ReleaseInLoop runs at most once *)
(* in the life of a connection - the write event that epoll reported with  *)
(* the end of the stream does not release it again.                        *)
THEOREM ConnReleasedOnce ==
  ASSUME Graceful
  PROVE  Spec => []ReleasedAtMostOnce
<1>1. GracefulInv => ReleasedAtMostOnce
  BY DEF GracefulInv, Fresh, ReleasedAtMostOnce, Sound
<1> QED
  BY <1>1, GracefulInit, GracefulStep, PTL DEF Spec

(* Under the same conditions no output is ever stranded: a connection with *)
(* output is in the poller and monitored for writing, and a descriptor is  *)
(* in the poller exactly as long as it is open.                            *)
THEOREM ConnWatched ==
  ASSUME Graceful
  PROVE  Spec => []WatchedAsNeeded
<1>1. GracefulInv => WatchedAsNeeded
  BY DEF GracefulInv, Fresh, WatchedAsNeeded, Sound, Kept, ConnType
<1> QED
  BY <1>1, GracefulInit, GracefulStep, PTL DEF Spec

(* Under the same conditions closing is graceful: as long as the peer is   *)
(* there, the step that releases a connection leaves no output unsent.     *)
THEOREM ConnCloseFlushes ==
  ASSUME Graceful
  PROVE  Spec => CloseFlushes
<1>1. GracefulInv /\ [Next]_vars => [FlushedStep]_vars
  BY GracefulStep
<1>2. [FlushedStep]_vars
        <=> [conn'.releases > conn.releases /\ peer = "open" => conn'.out = 0]_vars
  BY DEF FlushedStep
<1> QED
  BY <1>1, <1>2, GracefulInit, GracefulStep, PTL DEF Spec, CloseFlushes
=============================================================================
