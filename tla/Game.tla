-------------------------------- MODULE Game --------------------------------
(***************************************************************************)
(* The parts of the game that handlers of its one server thread use: the   *)
(* board of a room, the table of users, and the sessions.  Three machines  *)
(* that share no state.                                                    *)
(***************************************************************************)
EXTENDS Integers, FiniteSets, Sequences, SequencesExt

-----------------------------------------------------------------------------
(***************************************************************************)
(* The board of a room of game/source/room.hpp: five, check_win and        *)
(* handle_chess while both players are online, on a smaller board with a   *)
(* shorter row to win.  The server does not ask whose turn it is, so any   *)
(* stone may be next.                                                      *)
(***************************************************************************)
CONSTANTS Rows, Cols,    \* BOARD_ROW, BOARD_COL
          Win,           \* stones in a row that win, 5 in the code
          MaxStones      \* bound on the stones put

VARIABLES board,         \* _board: 0, 1 (CHESS_WHITE) or 2 (CHESS_BLACK)
          last           \* the last stone put and the colour check_win named

boardVars == <<board, last>>

Cells == (0 .. Rows - 1) \X (0 .. Cols - 1)
Colors == {1, 2}

BoardInit == board = [c \in Cells |-> 0] /\ last = [cell |-> <<0, 0>>, color |-> 0, winner |-> 0]

\* One of the two loops of five: the stones of the colour that follow the
\* cell in a direction without a gap.
Run(b, cell, off, color) ==
  Cardinality({n \in 1 .. (Rows + Cols) : \A k \in 1 .. n :
    LET c == <<cell[1] + k * off[1], cell[2] + k * off[2]>> IN
      c \in Cells /\ b[c] = color})

five(b, cell, off, color) ==
  1 + Run(b, cell, off, color) + Run(b, cell, <<-off[1], -off[2]>>, color) >= Win

\* The colour whose player wins by the stone in the cell, or 0.
check_win(b, cell, color) ==
  IF \E off \in {<<0, 1>>, <<1, 0>>, <<-1, 1>>, <<-1, -1>>} : five(b, cell, off, color)
    THEN color ELSE 0

\* A taken field is refused and changes nothing.
handle_chess(cell, color) ==
  /\ board[cell] = 0
  /\ board' = [board EXCEPT ![cell] = color]
  /\ last' = [cell |-> cell, color |-> color, winner |-> check_win(board', cell, color)]

BoardNext ==
  /\ last.winner = 0
  /\ Cardinality({c \in Cells : board[c] # 0}) < MaxStones
  /\ \E cell \in Cells, color \in Colors : handle_chess(cell, color)

BoardSpec == BoardInit /\ [][BoardNext]_boardVars

-----------------------------------------------------------------------------
\* The rows of Win cells in any of the eight directions.
Lines ==
  {line \in {{<<c[1] + k * d[1], c[2] + k * d[2]>> : k \in 0 .. Win - 1} :
               c \in Cells, d \in {-1, 0, 1} \X {-1, 0, 1}} :
     Cardinality(line) = Win /\ line \subseteq Cells}

(* The server names a winner exactly when some row of the board is all of  *)
(* one colour, and then the colour of the stone just put (check_win at 48  *)
(* looks only through the last stone and in four of the eight directions). *)
WinnerHasRow ==
  \A color \in Colors :
    last.winner = color <=> \E line \in Lines : \A c \in line : board[c] = color

-----------------------------------------------------------------------------
(***************************************************************************)
(* user_table of the game, with the callers that choose a match queue by   *)
(* the score it answers: the server's thread for match_start and           *)
(* match_stop, and the matcher's thread of each queue, which adds users    *)
(* back.  A call is a step; a query that fails changes nothing, and its    *)
(* caller returns.  A person has one password.                             *)
(***************************************************************************)
CONSTANTS Usernames, Persons,
          Gain,        \* points won or lost, 30 in the code
          MaxGames,    \* bound on the results written
          MaxQueue     \* bound on the requests that wait in a queue or are in hand

Start == 1000
Tiers == {"normal", "high", "super"}

VARIABLES user,     \* the rows: [name, password, score, total, win], by id
          queue,    \* _q_normal, _q_high and _q_super: ids
          logged_in,  \* ids with a session
          told,     \* history: persons told that they are registered, and the name
          lost,     \* history: updates that failed
          moved,    \* history: users whose score changed while they waited
          stopped,  \* history: users whose last request was to stop
          thread,   \* where the thread of each queue is in handle_match: "size",
                    \* "pop" or, adding users back, "add"
          hand,     \* the users it holds
          missed,   \* history: users whose last stop did not find them, because a
                    \* thread held them or their row could not be read
          down      \* an exception that nobody catches has ended the program
matchVars == <<queue, moved, stopped, thread, hand, missed, down>>
userVars == <<user, logged_in, told, lost, matchVars>>

Ids == DOMAIN user

UserInit ==
  /\ user = <<>> /\ logged_in = {} /\ told = {}
  /\ queue = [t \in Tiers |-> <<>>]
  /\ lost = 0 /\ moved = {} /\ stopped = {}
  /\ thread = [t \in Tiers |-> "size"] /\ hand = [t \in Tiers |-> <<>>]
  /\ missed = {} /\ down = FALSE

\* The key on username makes the second insert of a name fail; insert itself
\* no longer looks.
insert(name, person) ==
  /\ \A i \in Ids : user[i].name # name
  /\ user' = Append(user, [name |-> name, password |-> person, score |-> Start, total |-> 0, win |-> 0])
  /\ told' = told \union {<<person, name>>}

\* reg, with both fields given.
reg ==
  /\ Len(user) < Cardinality(Usernames)
  /\ \E n \in Usernames, p \in Persons : insert(n, p)
  /\ UNCHANGED <<logged_in, lost, matchVars>>

\* login: the query has to give one row.
RowsOf(name, person) == {i \in Ids : user[i].name = name /\ user[i].password = person}
login(name, person) ==
  /\ Cardinality(RowsOf(name, person)) = 1
  /\ logged_in' = logged_in \union RowsOf(name, person)
  /\ UNCHANGED <<user, told, lost, matchVars>>

\* select_by_id, for a user with a session: the row may be unreadable; the score
\* becomes a UInt64, so that asInt of a negative one throws.  The outcomes:
select_by_id(id) == {"failed", IF user[id].score < 0 THEN "throws" ELSE "read"}

Waiting(id) == \E t \in Tiers : Contains(queue[t], id)
InHand(id) == \E t \in Tiers : Contains(hand[t], id)

tier(score) == IF score < 2000 THEN "normal" ELSE IF score < 3000 THEN "high" ELSE "super"

\* matcher::add, after select_by_id.
add(id, outcome) ==
  /\ queue' = IF outcome = "read" THEN [queue EXCEPT ![tier(user[id].score)] = Append(@, id)] ELSE queue
  /\ down' = (outcome = "throws")

\* The request, whose answer does not tell whether add found the row.
match_start(id) ==
  /\ \A t, u \in Tiers : Len(queue[t]) + Len(hand[u]) < MaxQueue
  /\ \E outcome \in select_by_id(id) : add(id, outcome)
  /\ stopped' = stopped \ {id} /\ missed' = missed \ {id}
  /\ moved' = (IF Waiting(id) \/ InHand(id) THEN moved ELSE moved \ {id})
  /\ UNCHANGED <<user, logged_in, told, lost, thread, hand>>

\* match_queue::remove: every occurrence goes.
remove(q, id) ==
  LET kept[n \in 0 .. Len(q)] ==
        IF n = 0 THEN <<>> ELSE IF q[n] = id THEN kept[n - 1] ELSE Append(kept[n - 1], q[n])
  IN  kept[Len(q)]

\* matcher::del: the user may have asked more than once.
del(id, outcome) ==
  /\ queue' = IF outcome = "read" THEN [queue EXCEPT ![tier(user[id].score)] = remove(@, id)] ELSE queue
  /\ down' = (outcome = "throws")

\* The request; a user in the hands of a thread is in no queue.
match_stop(id) ==
  /\ \E outcome \in select_by_id(id) :
       /\ del(id, outcome)
       /\ missed' = IF outcome # "read" \/ InHand(id) THEN missed \union {id} ELSE missed \ {id}
  /\ stopped' = stopped \union {id}
  /\ UNCHANGED <<user, logged_in, told, lost, moved, thread, hand>>

\* handle_match: while(mq.size()<2) mq.wait(); Matcher has its steps one by one.
Size(t) ==
  /\ thread[t] = "size" /\ Len(queue[t]) >= 2
  /\ thread' = [thread EXCEPT ![t] = "pop"]
  /\ UNCHANGED <<user, logged_in, told, lost, queue, moved, stopped, hand, missed, down>>

\* One pop; the queue may have become empty since size().
Pop(t) ==
  /\ thread[t] = "pop" /\ Len(hand[t]) < 2
  /\ IF queue[t] = <<>>
       THEN /\ thread' = [thread EXCEPT ![t] = IF hand[t] = <<>> THEN "size" ELSE "add"]
            /\ UNCHANGED <<queue, hand>>
       ELSE /\ queue' = [queue EXCEPT ![t] = Tail(@)]
            /\ hand' = [hand EXCEPT ![t] = Append(@, Head(queue[t]))]
            /\ UNCHANGED thread
  /\ UNCHANGED <<user, logged_in, told, lost, moved, stopped, missed, down>>

\* Both are looked up in the hall: a room is made, or one has left and the other
\* goes back, or create_room fails and both do.
Pair(t) ==
  /\ thread[t] = "pop" /\ Len(hand[t]) = 2
  /\ \E back \in {<<>>, <<hand[t][1]>>, <<hand[t][2]>>, hand[t]} :
       /\ hand' = [hand EXCEPT ![t] = back]
       /\ thread' = [thread EXCEPT ![t] = IF back = <<>> THEN "size" ELSE "add"]
  /\ UNCHANGED <<user, logged_in, told, lost, queue, moved, stopped, missed, down>>

\* add() of a user the thread holds, whether or not he has stopped meanwhile.
AddBack(t) ==
  /\ thread[t] = "add"
  /\ \E outcome \in select_by_id(Head(hand[t])) : add(Head(hand[t]), outcome)
  /\ hand' = [hand EXCEPT ![t] = Tail(@)]
  /\ thread' = [thread EXCEPT ![t] = IF Len(hand[t]) = 1 THEN "size" ELSE "add"]
  /\ UNCHANGED <<user, logged_in, told, lost, moved, stopped, missed>>

-----------------------------------------------------------------------------
\* SumUp(s)[n]: the sum of the first n elements.
SumUp(s) == LET up[n \in 0 .. Len(s)] == IF n = 0 THEN 0 ELSE up[n - 1] + s[n] IN up
Sum(s) == SumUp(s)[Len(s)]

Scores == [i \in Ids |-> user[i].score]
Totals == [i \in Ids |-> user[i].total]
Wins == [i \in Ids |-> user[i].win]

\* The row after win: one statement.
win(u) == [u EXCEPT !.score = @ + Gain, !.total = @ + 1, !.win = @ + 1]

lose(u) == [u EXCEPT !.score = @ - Gain, !.total = @ + 1]

\* A room writes its result: two statements, the outcome of either ignored.
\* A player may wait for another match by then: his opponent's next move in
\* the room he has left is answered with a win.
Settle(w, l, wins, loses) ==
  /\ Sum(Totals) < MaxGames /\ w # l
  /\ user' = [user EXCEPT ![w] = IF wins THEN win(@) ELSE @, ![l] = IF loses THEN lose(@) ELSE @]
  /\ lost' = lost + (IF wins THEN 0 ELSE 1) + (IF loses THEN 0 ELSE 1)
  /\ lost' <= 1
  /\ moved' = {i \in moved \union {w, l} : Waiting(i) \/ InHand(i)}
  /\ UNCHANGED <<queue, logged_in, told, stopped, thread, hand, missed, down>>

UserNext ==
  /\ ~down
  /\ \/ reg
     \/ \E n \in Usernames, p \in Persons : login(n, p)
     \/ \E i \in logged_in : match_start(i) \/ match_stop(i)
     \/ \E t \in Tiers : Size(t) \/ Pop(t) \/ Pair(t) \/ AddBack(t)
     \/ \E w, l \in logged_in, wins, loses \in BOOLEAN : Settle(w, l, wins, loses)

UserSpec == UserInit /\ [][UserNext]_userVars

-----------------------------------------------------------------------------
(* Whoever was told that he is registered can log in, and as nobody else: *)
(* login wants exactly one row (insert, login; the key of db.sql).         *)
RegisteredCanLogin ==
  /\ \A t \in told : Cardinality(RowsOf(t[2], t[1])) = 1
  /\ \A i \in logged_in : <<user[i].password, user[i].name>> \in told

(* A user who stopped waits in no queue, although add and del each look    *)
(* the score up and choose the queue by themselves and handle_match adds   *)
(* users back; unless his score changed while he waited, a thread held him *)
(* when he stopped, or del could not read his row (matcher::add,           *)
(* matcher::del, handle_match).                                            *)
StopForgets == \A i \in stopped : Waiting(i) => i \in moved \union missed

(* Every game gives one player what it takes from the other, and counts    *)
(* for both, as long as no statement fails (win, lose).                    *)
ResultsBalance ==
  lost = 0 =>
    /\ Sum(Scores) = Start * Len(user)
    /\ Sum(Totals) = 2 * Sum(Wins)

-----------------------------------------------------------------------------
(***************************************************************************)
(* session and session_manager of game/source/session.hpp, with the        *)
(* handlers of game/source/server.hpp that create, look up and re-time     *)
(* sessions and with online_game of online.hpp.                            *)
(*                                                                         *)
(* Every handler runs on the server's one io_service thread, so a handler  *)
(* is one step.  What a test hardly reaches is the order of the timers'    *)
(* handlers: cancelling a websocketpp timer does not drop its callback but *)
(* makes it ready (handle_timer calls it with operation_aborted, and       *)
(* remove_session is bound without the error code), so a re-timed session  *)
(* is first erased and only later put back by a timer of 0 ms, and any     *)
(* other handler may run in between.                                       *)
(***************************************************************************)
CONSTANTS Users,       \* uids that may log in
          Sids,        \* ssids 1 .. n, a bound on _next_ssid
          MaxTimers,   \* bound on the removal timers of one session
          MaxPages     \* bound on the connections open at once

VARIABLES session,     \* keys of _session
          next_ssid,   \* _next_ssid
          uid,         \* _uid of each session created
          tp,          \* _tp: the number of the session's timer, 0 when null
          timers,      \* removal timers set for each session so far
          armed,       \* <<ssid, number>> of the timers asio still waits for
          zero,        \* 0 ms timers not yet expired: the sessions to append
          ready,       \* handlers asio has to run, in order
          online,      \* _hall_user and _room_user, by uri
          page,        \* open websocket connections
          idle         \* history: sessions whose timeout ran out since last set

sessionVars == <<session, next_ssid, uid, tp, timers, armed, zero, ready, online, page, idle>>

Uris == {"/hall", "/room"}

SessionInit ==
  /\ session = {} /\ next_ssid = 1
  /\ uid = [s \in Sids |-> 0]
  /\ tp = [s \in Sids |-> 0] /\ timers = [s \in Sids |-> 0] /\ armed = {}
  /\ zero = <<>> /\ ready = <<>>
  /\ online = [uri \in Uris |-> {}]
  /\ page = {} /\ idle = {}

-----------------------------------------------------------------------------
\* wsserver_t::set_timer(ms, remove_session)
Arm(s, live) ==
  /\ timers[s] < MaxTimers
  /\ timers' = [timers EXCEPT ![s] = @ + 1]
  /\ tp' = [tp EXCEPT ![s] = timers[s] + 1]
  /\ armed' = live \union {<<s, timers[s] + 1>>}

\* tp->cancel(), whose handler is ready at once if asio still waits for the
\* timer, and set_timer(0, append_session).
CancelAndAppend(s) ==
  /\ ready' = IF <<s, tp[s]>> \in armed THEN Append(ready, <<"remove", s>>) ELSE ready
  /\ zero' = Append(zero, s)

\* Variant of set_session_expire_time: the old timer of case 4 stays.
set_session_expire_timeNoCancel(s, forever) ==
  CASE tp[s] = 0 /\ forever -> UNCHANGED <<tp, timers, armed, zero, ready>>
    [] tp[s] # 0 /\ forever -> /\ CancelAndAppend(s)
                               /\ tp' = [tp EXCEPT ![s] = 0]
                               /\ armed' = armed \ {<<s, tp[s]>>}
                               /\ UNCHANGED timers
    [] ~forever -> Arm(s, armed) /\ UNCHANGED <<zero, ready>>

\* The four cases of set_session_expire_time for a session that is found.
set_session_expire_time(s, forever) ==
  CASE tp[s] = 0 /\ forever  -> UNCHANGED <<tp, timers, armed, zero, ready>>
    [] tp[s] = 0 /\ ~forever -> Arm(s, armed) /\ UNCHANGED <<zero, ready>>
    [] tp[s] # 0 /\ forever  -> /\ CancelAndAppend(s)
                                /\ tp' = [tp EXCEPT ![s] = 0]
                                /\ armed' = armed \ {<<s, tp[s]>>}
                                /\ UNCHANGED timers
    [] tp[s] # 0 /\ ~forever -> /\ CancelAndAppend(s)
                                /\ Arm(s, armed \ {<<s, tp[s]>>})

-----------------------------------------------------------------------------
\* A login whose name and password user_table::login accepts; the others
\* change nothing.
session_login(u) ==
  /\ next_ssid \in Sids
  /\ session' = session \union {next_ssid}
  /\ uid' = [uid EXCEPT ![next_ssid] = u]
  /\ next_ssid' = next_ssid + 1
  /\ Arm(next_ssid, armed)
  /\ UNCHANGED <<zero, ready, online, page, idle>>

\* Without a session the handler answers "log in again" and changes nothing.
get_session_by_cookie(s) == s \in session

info(s) ==
  /\ get_session_by_cookie(s)
  /\ set_session_expire_time(s, FALSE)
  /\ idle' = idle \ {s}
  /\ UNCHANGED <<session, next_ssid, uid, online, page>>

\* wsopen_game_hall and wsopen_game_room.  A connection that is refused - no
\* session, a user who is in the hall or in a room, or, for /room, no room of
\* his - stays open.
wsopen(s, uri) ==
  \E room \in BOOLEAN :
    LET ok == /\ get_session_by_cookie(s)
              /\ \A any \in Uris : uid[s] \notin online[any]
              /\ uri = "/room" => room
        conn == [ssid |-> s, uri |-> uri, ok |-> ok] IN
      /\ s < next_ssid
      /\ conn \notin page /\ Cardinality(page) < MaxPages
      /\ page' = page \union {conn}
      /\ IF ok
           THEN /\ online' = [online EXCEPT ![uri] = @ \union {uid[s]}]
                /\ set_session_expire_time(s, TRUE)
                /\ idle' = idle \ {s}
           ELSE UNCHANGED <<online, tp, timers, armed, zero, ready, idle>>
      /\ UNCHANGED <<session, next_ssid, uid>>

\* wsclose_game_hall and wsclose_game_room, for whichever connection closes.
wsclose(conn) ==
  /\ page' = page \ {conn}
  /\ IF get_session_by_cookie(conn.ssid)
       THEN /\ online' = [online EXCEPT ![conn.uri] = @ \ {uid[conn.ssid]}]
            /\ set_session_expire_time(conn.ssid, FALSE)
            /\ idle' = idle \ {conn.ssid}
       ELSE UNCHANGED <<online, tp, timers, armed, zero, ready, idle>>
  /\ UNCHANGED <<session, next_ssid, uid>>

-----------------------------------------------------------------------------
\* asio dequeues timers in the order they are due: those of 0 ms before a
\* removal timer of the same session.
Elapsed ==
  /\ zero # <<>>
  /\ ready' = Append(ready, <<"append", Head(zero)>>)
  /\ zero' = Tail(zero)
  /\ UNCHANGED <<session, next_ssid, uid, tp, timers, armed, online, page, idle>>

Expired(t) ==
  /\ zero = <<>>
  /\ armed' = armed \ {t}
  /\ ready' = Append(ready, <<"remove", t[1]>>)
  /\ idle' = idle \union {t[1]}
  /\ UNCHANGED <<session, next_ssid, uid, tp, timers, zero, online, page>>

\* remove_session or append_session
RunHandler ==
  /\ ready # <<>>
  /\ ready' = Tail(ready)
  /\ session' = IF Head(ready)[1] = "append" THEN session \union {Head(ready)[2]}
                                             ELSE session \ {Head(ready)[2]}
  /\ UNCHANGED <<next_ssid, uid, tp, timers, armed, zero, online, page, idle>>

SessionNext ==
  \/ \E u \in Users : session_login(u)
  \/ \E s \in Sids : info(s)
  \/ \E s \in Sids, uri \in Uris : wsopen(s, uri)
  \/ \E conn \in page : wsclose(conn)
  \/ Elapsed
  \/ \E t \in armed : Expired(t)
  \/ RunHandler

SessionSpec == SessionInit /\ [][SessionNext]_sessionVars

-----------------------------------------------------------------------------
\* append_session is still to run for s.
WillReturn(s) ==
  \/ \E i \in DOMAIN zero : zero[i] = s
  \/ \E i \in DOMAIN ready : /\ ready[i] = <<"append", s>>
                             /\ \A j \in DOMAIN ready : ready[j] = <<"remove", s>> => j < i

(* A session whose timeout has not run out is never lost: after a cancel   *)
(* that erases it, its append_session still comes, after every removal     *)
(* that is ready (set_session_expire_time, 78-94).                         *)
NotLost ==
  \A s \in 1 .. (next_ssid - 1) : s \notin idle =>
    \/ WillReturn(s)
    \/ s \in session /\ \A i \in DOMAIN ready : ready[i] # <<"remove", s>>

(* The only removal timer a session has is the one in its _tp, so none     *)
(* that was forgotten ends a session that was renewed (cases 2 to 4).      *)
OneTimer == \A t \in armed : tp[t[1]] = t[2]

(* Comment at session.hpp:62: in the hall or in a room a session exists    *)
(* for ever (info, 165: it sets a timeout whoever the session belongs to). *)
(* It does not hold: README, section 6.                                    *)
PermanentInHall ==
  \A conn \in page : conn.ok => conn.ssid \in session \/ WillReturn(conn.ssid)

-----------------------------------------------------------------------------
(* In the game a winner has his row and a row its winner, a user who was   *)
(* told he is registered can log in, one who stopped waits in no queue, a  *)
(* result counts for both players, and a session lives out its timeout,    *)
(* with no forgotten timer to end it (check_win, user_table,               *)
(* set_session_expire_time).                                               *)
GameConsistent ==
  /\ WinnerHasRow
  /\ RegisteredCanLogin /\ StopForgets /\ ResultsBalance
  /\ NotLost /\ OneTimer
=============================================================================
