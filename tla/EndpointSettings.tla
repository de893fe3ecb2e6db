-------------------------- MODULE EndpointSettings --------------------------
(***************************************************************************)
(* The handlers, timeouts and limits of a websocketpp endpoint and of its  *)
(* connections.  The endpoint's setters hold m_mutex, create_connection    *)
(* does not: it reads the settings one after another while other threads   *)
(* change them.  A setting stands for all of its kind: one handler for the *)
(* ten, one timeout for the three.                                         *)
(***************************************************************************)
EXTENDS Integers, Sequences

CONSTANTS Values,     \* values of a setting; 0 is unset, or the config's default
          MaxCons,    \* bound on the connections created
          MaxCalls    \* bound on the calls of setters and moves

VARIABLES ep,         \* the endpoint's settings
          cons,       \* the connections: settings, copying done, the processor's limit
          seen,       \* history: what the endpoint had while each setting could be copied
          own,        \* history: the last value set on the connection itself, or -1
          calls       \* setters called and moves made
vars == <<ep, cons, seen, own, calls>>

\* In the order create_connection copies them.
CopyOrder == <<"user_agent", "handler", "timeout", "max_message_size", "max_http_body_size">>
Settings == {CopyOrder[i] : i \in DOMAIN CopyOrder}
Defaults == [s \in Settings |-> 0]
NoProcessor == -1

Init == ep = Defaults /\ cons = <<>> /\ seen = <<>> /\ own = <<>> /\ calls = 0

Ready(c) == c.copied = Len(CopyOrder)
Copied(c, s) == \E i \in 1 .. c.copied : CopyOrder[i] = s

Call == calls < MaxCalls /\ calls' = calls + 1

\* What the endpoint has from now on may still be copied.
Noticed(e) ==
  [c \in DOMAIN cons |-> [s \in Settings |->
     IF Copied(cons[c], s) THEN seen[c][s] ELSE seen[c][s] \union {e[s]}]]

\* The endpoint's setters.
Set(s, v) ==
  /\ Call
  /\ ep' = [ep EXCEPT ![s] = v] /\ seen' = Noticed(ep')
  /\ UNCHANGED <<cons, own>>
set_user_agent(v) == Set("user_agent", v)

set_handler(v) == Set("handler", v)
set_timeout(v) == Set("timeout", v)
set_limit(s, v) == s \in {"max_message_size", "max_http_body_size"} /\ Set(s, v)

\* The move constructor: every setting goes to the new endpoint.
Move == Call /\ ep' = [s \in Settings |-> ep[s]] /\ seen' = Noticed(ep') /\ UNCHANGED <<cons, own>>

\* connection::connection
NewConnection == [set |-> Defaults, copied |-> 0, processor |-> NoProcessor]

\* create_connection, up to the first setting; one at a time is created.
create_connection ==
  /\ Len(cons) < MaxCons /\ \A c \in DOMAIN cons : Ready(cons[c])
  /\ cons' = Append(cons, NewConnection)
  /\ seen' = Append(seen, [s \in Settings |-> {ep[s]}])
  /\ own' = Append(own, [s \in Settings |-> -1])
  /\ UNCHANGED <<ep, calls>>

\* The next one: timeouts and max_message_size only if they differ from the
\* config's, which the connection has already.
Copy(c) ==
  LET s == CopyOrder[cons[c].copied + 1] IN
    /\ ~Ready(cons[c])
    /\ cons' = [cons EXCEPT ![c].set[s] = IF s \in {"timeout", "max_message_size"} /\ ep[s] = 0 THEN @ ELSE ep[s],
                            ![c].copied = @ + 1]
    /\ UNCHANGED <<ep, seen, own, calls>>

-----------------------------------------------------------------------------
\* The connection's setters, from the creation on.
SetOwn(c, s, v) ==
  /\ Call /\ Ready(cons[c])
  /\ cons' = [cons EXCEPT ![c].set[s] = v]
  /\ own' = [own EXCEPT ![c][s] = v]
  /\ UNCHANGED <<ep, seen>>
con_set_handler(c, v) == SetOwn(c, "handler", v)
con_set_timeout(c, v) == SetOwn(c, "timeout", v)
con_set_max_http_body_size(c, v) == SetOwn(c, "max_http_body_size", v)

con_set_max_message_size(c, v) ==
  /\ Call /\ Ready(cons[c])
  /\ cons' = [cons EXCEPT ![c].set["max_message_size"] = v,
                          ![c].processor = IF @ = NoProcessor THEN @ ELSE v]
  /\ own' = [own EXCEPT ![c]["max_message_size"] = v]
  /\ UNCHANGED <<ep, seen>>

\* get_processor, once the version of the protocol is known.
get_processor(c) ==
  /\ Ready(cons[c]) /\ cons[c].processor = NoProcessor
  /\ cons' = [cons EXCEPT ![c].processor = cons[c].set["max_message_size"]]
  /\ UNCHANGED <<ep, seen, own, calls>>

Next ==
  \/ \E v \in Values : set_user_agent(v) \/ set_handler(v) \/ set_timeout(v) \/ \E s \in Settings : set_limit(s, v)
  \/ Move \/ create_connection
  \/ \E c \in DOMAIN cons :
       \/ Copy(c) \/ get_processor(c)
       \/ \E v \in Values : \/ con_set_handler(c, v) \/ con_set_timeout(c, v)
                            \/ con_set_max_message_size(c, v) \/ con_set_max_http_body_size(c, v)

Spec == Init /\ [][Next]_vars

-----------------------------------------------------------------------------
(* A connection has the settings made on itself, and otherwise those the   *)
(* endpoint had while it was created: later changes of the endpoint do not *)
(* reach it (create_connection; endpoint.hpp: "Changing this value will    *)
(* only affect future connections").                                       *)
AsConfigured ==
  \A c \in DOMAIN cons : \A s \in Settings :
    Copied(cons[c], s) =>
      IF own[c][s] = -1 THEN cons[c].set[s] \in seen[c][s] ELSE cons[c].set[s] = own[c][s]

(* The limit the processor enforces is the connection's, whether it was    *)
(* set before the processor existed or after (set_max_message_size,        *)
(* get_processor).                                                         *)
LimitInForce ==
  \A c \in DOMAIN cons : cons[c].processor \in {NoProcessor, cons[c].set["max_message_size"]}
=============================================================================
