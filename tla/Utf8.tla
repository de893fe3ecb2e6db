-------------------------------- MODULE Utf8 --------------------------------
(***************************************************************************)
(* The streaming UTF-8 validator of websocketpp (utf8_validator.hpp).  A   *)
(* byte is known by its type, 0 to 11, the first half of the table; the    *)
(* reference is the grammar of RFC 3629 in those types.                    *)
(***************************************************************************)
EXTENDS Integers, Sequences

CONSTANT MaxText     \* bound on the bytes fed to one validator

VARIABLES text,      \* the types of the bytes fed so far
          validator  \* m_state, and whether a byte was refused
vars == <<text, validator>>

utf8_accept == 0
utf8_reject == 1
Types == 0..11
Trail == {1, 7, 9}    \* 80..8f, a0..bf, 90..9f

\* The second half of the table: a row for every state.
utf8d(state, type) ==
  CASE state = 0 -> <<0, 1, 2, 3, 5, 8, 7, 1, 1, 1, 4, 6>>[type + 1]
    [] state = 2 /\ type \in Trail -> 0
    [] state = 3 /\ type \in Trail -> 2
    [] state = 4 /\ type = 7 -> 2
    [] state = 5 /\ type \in {1, 9} -> 2
    [] state = 6 /\ type \in {7, 9} -> 3
    [] state = 7 /\ type \in Trail -> 3
    [] state = 8 /\ type = 1 -> 3
    [] OTHER -> utf8_reject

NewValidator == [m_state |-> utf8_accept, ok |-> TRUE]
\* decode refuses at the first byte that leads to utf8_reject.
decode(v, type) ==
  LET s == utf8d(v.m_state, type) IN [m_state |-> s, ok |-> v.ok /\ s # utf8_reject]
complete(v) == v.m_state = utf8_accept

-----------------------------------------------------------------------------
\* The grammar: the characters of one to four bytes, and those begun.
Characters ==
  {<<0>>} \union ({2} \X Trail)
  \union ({10} \X {7} \X Trail) \union ({3} \X Trail \X Trail) \union ({4} \X {1, 9} \X Trail)
  \union ({11} \X {7, 9} \X Trail \X Trail) \union ({6} \X Trail \X Trail \X Trail)
  \union ({5} \X {1} \X Trail \X Trail)
Begun == {<<>>} \union UNION {{SubSeq(c, 1, n) : n \in 1..(Len(c) - 1)} : c \in Characters}
\* Where the last character of a well-formed text begins is found backwards.
WellFormed[n \in 0..MaxText] ==
  n = 0 \/ \E k \in 1..4 : k <= n /\ SubSeq(text, n - k + 1, n) \in Characters /\ WellFormed[n - k]
Extensible ==
  \E k \in 0..3 : k <= Len(text) /\ SubSeq(text, Len(text) - k + 1, Len(text)) \in Begun
                  /\ WellFormed[Len(text) - k]

Init == text = <<>> /\ validator = NewValidator
Feed(type) ==
  /\ validator.ok /\ Len(text) < MaxText
  /\ text' = Append(text, type)
  /\ validator' = decode(validator, type)
Next == \E type \in Types : Feed(type)

\* The validator accepts a text exactly when it is well-formed UTF-8, and
\* refuses a byte exactly when nothing could make the text well-formed.
AcceptsUtf8 ==
  /\ validator.ok = Extensible
  /\ validator.ok => complete(validator) = WellFormed[Len(text)]
=============================================================================
