----------------------------- MODULE HttpParser -----------------------------
(***************************************************************************)
(* The HTTP side of websocketpp: the parsers of messages and the parser of *)
(* the parameter lists in their headers, two machines that share no state. *)
(***************************************************************************)
EXTENDS Integers, Sequences, SequencesExt

-----------------------------------------------------------------------------
(***************************************************************************)
(* The incremental HTTP parsers of websocketpp: http::parser::request and  *)
(* http::parser::response.  They are given a message in chunks of any size *)
(* and keep the incomplete line between the calls.  A line is one cell for *)
(* its text and one each for CR and LF, so a chunk may end anywhere, the   *)
(* delimiter included.  An exception ends the parse with its status.       *)
(***************************************************************************)
CONSTANTS HeaderLines,     \* the texts of header lines that occur
          MaxLines,        \* bound on the lines before the blank one
          MaxHeaderSizes,  \* values of max_header_size
          MaxChunk,        \* most cells of one chunk
          MaxBody          \* m_body_bytes_max

VARIABLES sent,   \* the message: its lines and what follows them
          wire,   \* the cells not yet read
          http    \* the parser
messageVars == <<sent, wire, http>>

CR == "cr"
LF == "lf"
Delimiter == 3      \* sizeof(header_delimiter), its terminating zero included
None == "none"
NoLength == -1

\* What a header line holds: a Content-Length, a Host, or another name; one
\* without a separator or with a name that is no token is refused.
Length(line) == CASE line = "cl0" -> 0 [] line = "cl2" -> 2 [] line = "clbig" -> MaxBody + 1 [] OTHER -> NoLength
IsHeader(line) == line \notin {"malformed", "anonymous"}

\* get_header("Content-Length") is empty, or begins with the value given first.
append_header(h, line) ==
  CASE line = "host" -> [h EXCEPT !.host = TRUE]
    [] Length(line) # NoLength /\ h.length = NoLength -> [h EXCEPT !.length = Length(line)]
    [] OTHER -> h
Throws(h, status) == [h EXCEPT !.ec = status, !.pc = "over"]

process_header(h, line) ==
  IF IsHeader(line) THEN append_header(h, line) ELSE Throws(h, "bad_request")
\* The first line.  A request line may begin with a blank, which leaves the
\* method empty, and the next line is taken for the request line again.
RequestLine(h, line) ==
  CASE line = "start" -> [h EXCEPT !.started = TRUE]
    [] line = "anonymous" -> h
    [] OTHER -> Throws(h, "bad_request")
StatusLine(h, line) == IF line = "start" THEN [h EXCEPT !.started = TRUE] ELSE Throws(h, "bad_request")
process(h, line) == IF h.kind = "request" THEN RequestLine(h, line) ELSE StatusLine(h, line)

\* The body: as many bytes as the Content-Length says.
process_body(h, s) ==
  LET n == IF h.needed < Len(s) THEN h.needed ELSE Len(s)
  IN  [h EXCEPT !.body = @ \o SubSeq(s, 1, n), !.needed = @ - n, !.processed = @ + n]
RequestBody(h, s) == LET b == process_body(h, s) IN [b EXCEPT !.ready = b.needed = 0, !.pc = "wait"]
ResponseBody(h, s) ==
  IF h.needed = 0 THEN [h EXCEPT !.ready = TRUE, !.pc = "wait"]
  ELSE [process_body(h, s) EXCEPT !.ready = Len(s) >= h.needed, !.pc = "wait"]

\* prepare_body: without a length a request is complete.
prepare_body(h, s) ==
  CASE h.length = NoLength -> [h EXCEPT !.ready = TRUE, !.pc = "wait"]
    [] h.length # NoLength /\ h.length > MaxBody -> Throws(h, "request_entity_too_large")
    [] OTHER -> RequestBody([h EXCEPT !.needed = h.length], s)

\* The blank line; s is what the chunk holds after it.
BlankRequest(h, s) ==
  IF ~h.started \/ ~h.host THEN Throws(h, "bad_request")
  ELSE prepare_body([h EXCEPT !.buf = <<>>, !.inBody = TRUE, !.processed = @ + h.len - Len(s)], s)
BlankResponse(h, s) ==
  IF ~h.started THEN Throws(h, "bad_request")
  ELSE LET b == [h EXCEPT !.buf = <<>>, !.inBody = TRUE, !.processed = @ + h.len - Len(s), !.pc = "wait",
                          !.needed = IF h.length = NoLength THEN 0 ELSE h.length]
       IN  IF s # <<>> THEN ResponseBody(b, s) ELSE b

\* The bytes of a line are counted, with the delimiter; of an incomplete line
\* only the delimiter stays counted.
Counted(h, n) == [h EXCEPT !.m_header_bytes = @ + n + Delimiter]

\* One iteration of the loop over lines.
Delimited(s) == {i \in 1..(Len(s) - 1) : s[i] = CR /\ s[i + 1] = LF}
NextLine(h) ==
  LET found == Delimited(h.buf) # {}
      end == IF found THEN CHOOSE i \in Delimited(h.buf) : \A j \in Delimited(h.buf) : i <= j
             ELSE Len(h.buf) + 1
      rest == SubSeq(h.buf, end + 2, Len(h.buf))
      c == Counted(h, end - 1)
      l == [c EXCEPT !.buf = rest]
  IN  CASE c.m_header_bytes > h.max -> Throws(h, "request_header_fields_too_large")
        [] c.m_header_bytes <= h.max /\ ~found ->
             [c EXCEPT !.m_header_bytes = @ - Len(h.buf), !.processed = @ + h.len, !.pc = "wait"]
        [] c.m_header_bytes <= h.max /\ found /\ end = 1 ->
             IF h.kind = "request" THEN BlankRequest(c, rest) ELSE BlankResponse(c, rest)
        [] OTHER -> IF ~h.started THEN process(l, h.buf[1]) ELSE process_header(l, h.buf[1])

-----------------------------------------------------------------------------
\* A message of either kind, well formed or not.
Tail3 == <<"b1", "b2", "b3">>    \* up to three bytes follow the blank line
Text(lines) == FoldLeft(LAMBDA s, l : s \o <<l, CR, LF>>, <<>>, lines)
MessageInit ==
  \E kind \in {"request", "response"}, first \in {"start", "anonymous", "malformed", None},
     lines \in BoundedSeq(HeaderLines, MaxLines), tail \in 0..Len(Tail3), max \in MaxHeaderSizes :
    /\ sent = [lines |-> (IF first = None THEN <<>> ELSE <<first>>) \o lines, tail |-> tail]
    /\ wire = Text(sent.lines) \o <<CR, LF>> \o SubSeq(Tail3, 1, tail)
    /\ http = [kind |-> kind, pc |-> "wait", buf |-> <<>>, len |-> 0, started |-> FALSE, host |-> FALSE,
               length |-> NoLength, m_header_bytes |-> 0, needed |-> 0, inBody |-> FALSE, body |-> <<>>,
               ready |-> FALSE, processed |-> 0, ec |-> None, max |-> max]

\* consume: a chunk of the body, or of the header, whose lines are then read.
consume(n) ==
  LET chunk == SubSeq(wire, 1, n)
  IN  /\ http.pc = "wait" /\ ~http.ready /\ n <= Len(wire)
      /\ http' = CASE ~http.inBody -> [http EXCEPT !.buf = @ \o chunk, !.len = n, !.pc = "lines"]
                   [] http.inBody /\ http.kind = "request" -> RequestBody(http, chunk)
                   [] http.inBody /\ http.kind = "response" -> ResponseBody(http, chunk)
      /\ wire' = SubSeq(wire, n + 1, Len(wire))
      /\ UNCHANGED sent
Lines == http.pc = "lines" /\ http' = NextLine(http) /\ UNCHANGED <<sent, wire>>

MessageNext == Lines \/ \E n \in 1..MaxChunk : consume(n)

-----------------------------------------------------------------------------
\* The reference reads whole lines.  What a request ignores before its method
\* is left out.
Cut(lines) ==
  IF http.kind = "response" THEN lines
  ELSE LET k == {i \in 1..Len(lines) : lines[i] # "anonymous"}
       IN  IF k = {} THEN <<>> ELSE SubSeq(lines, CHOOSE i \in k : \A j \in k : i <= j, Len(lines))
WellFormed ==
  LET l == Cut(sent.lines)
  IN  /\ l # <<>> /\ l[1] = "start"
      /\ \A i \in 2..Len(l) : IsHeader(l[i])
      /\ http.kind = "request" => \E i \in 2..Len(l) : l[i] = "host"
Declared ==
  LET l == Cut(sent.lines)
      k == {i \in 2..Len(l) : Length(l[i]) # NoLength}
  IN  IF k = {} THEN 0 ELSE Length(l[CHOOSE i \in k : \A j \in k : i <= j])
HeaderSize == 3 * Len(sent.lines) + 2

\* However a message is cut into chunks: it is refused exactly when it is
\* malformed or its body is too large, it is ready exactly when its body has
\* arrived, and the bytes after the body are left for what comes next.
ChunksDoNotMatter ==
  http.ec # "request_header_fields_too_large" =>
    /\ http.ec = "bad_request" => ~WellFormed
    /\ http.ec = "request_entity_too_large" => WellFormed /\ Declared > MaxBody
    /\ http.inBody /\ http.pc = "wait" =>
         /\ WellFormed
         /\ http.body = SubSeq(Tail3, 1, Len(http.body))
         /\ http.processed = HeaderSize + Len(http.body)
         /\ http.ready => Len(http.body) = Declared
    /\ wire = <<>> /\ http.pc = "wait" => http.inBody /\ (sent.tail > Declared => http.ready)

\* No header block longer than the limit is accepted.
HeaderBounded == http.inBody => HeaderSize <= http.max

\* The limit is one of bytes: a header is refused only for its size.
\* It does not hold: README, section 6.
RefusedForItsSize == http.ec = "request_header_fields_too_large" => HeaderSize > http.max

-----------------------------------------------------------------------------
(***************************************************************************)
(* The parser of header parameter lists of websocketpp (http/parser.hpp):  *)
(* comma-separated tokens with semicolon-separated attributes, whose       *)
(* values are tokens or quoted strings, and white space anywhere between.  *)
(* The loops of extract_parameters and extract_attributes are stepped      *)
(* through; the text is written from a list, perhaps cut or followed by a   *)
(* stray character.                                                        *)
(***************************************************************************)
CONSTANTS Values,         \* values of attributes: texts, empty for none
          MaxParameters,  \* bound on the parameters of a list
          MaxAttributes   \* bound on the attributes of all of them

VARIABLES list,   \* the list that was written, and whether its text was cut
          text,   \* the characters
          parse   \* the parser
listVars == <<list, text, parse>>

Letters == {"a", "b", "c"}       \* the characters of tokens
IsToken(c) == c \in Letters

\* Scanning.  A position is an index; End is one past the last character.
End == Len(text) + 1
First(from, P(_)) ==
  LET hits == {i \in from..Len(text) : P(text[i])}
  IN  IF hits = {} THEN End ELSE CHOOSE i \in hits : \A j \in hits : i <= j
extract_all_lws(from) == First(from, LAMBDA c : c # " ")
extract_token(from) == First(from, LAMBDA c : ~IsToken(c))
\* A quoted string ends at the first quote that no backslash precedes.
Unescaped(s) == SelectSeq(s, LAMBDA c : c # "\\")
extract_quoted_string(from) ==
  LET ends == {i \in (from + 1)..Len(text) : text[i] = "quote" /\ text[i - 1] # "\\"}
  IN  IF from = End \/ ends = {} THEN [next |-> from, value |-> <<>>]
      ELSE IF text[from] # "quote" THEN [next |-> from, value |-> <<>>]
      ELSE LET last == CHOOSE i \in ends : \A j \in ends : i <= j
           IN  [next |-> last + 1, value |-> Unescaped(SubSeq(text, from + 1, last - 1))]

At(i, c) == i # End /\ text[i] = c
Slice(from, to) == SubSeq(text, from, to - 1)
Fail(p) == [p EXCEPT !.pc = "error"]
Push(p) == [p EXCEPT !.out = Append(@, [name |-> p.name, attributes |-> p.attributes])]
Set(m, k, v) == [n \in DOMAIN m \union {k} |-> IF n = k THEN v ELSE m[n]]

\* One iteration of extract_parameters, up to the attributes.
Parameter(p) ==
  LET c0 == extract_all_lws(p.cursor)
      c1 == extract_token(c0)
      c2 == extract_all_lws(c1)
      q == [p EXCEPT !.name = Slice(c0, c1), !.attributes = <<>>]
  IN  CASE p.cursor = End \/ c0 = End -> [p EXCEPT !.pc = "done"]
        [] p.cursor # End /\ c0 # End /\ c1 = c0 -> Fail(p)
        [] p.cursor # End /\ c0 # End /\ c1 # c0 ->
             CASE c2 = End -> [Push(q) EXCEPT !.pc = "done"]
               [] At(c2, ";") -> [q EXCEPT !.cursor = c2 + 1, !.begin = c2 + 1, !.first = TRUE, !.pc = "attributes"]
               [] OTHER -> [q EXCEPT !.cursor = c2, !.pc = "after"]

\* One iteration of extract_attributes; to return where it began is an error.
EndAttributes(p, cursor) ==
  IF cursor = p.begin THEN Fail(p) ELSE [p EXCEPT !.cursor = cursor, !.pc = "after"]
AttributeValue(p, name, from) ==
  LET quoted == extract_quoted_string(from)
      token == extract_token(from)
  IN  CASE from = End -> Fail(p)
        [] from # End /\ quoted.next # from ->
             [p EXCEPT !.attributes = Set(@, name, quoted.value), !.cursor = quoted.next]
        [] from # End /\ quoted.next = from /\ token # from ->
             [p EXCEPT !.attributes = Set(@, name, Slice(from, token)), !.cursor = token]
        [] OTHER -> Fail(p)
Attribute(p) ==
  LET c0 == extract_all_lws(p.cursor)
      c1 == extract_all_lws(IF p.first THEN c0 ELSE c0 + 1)
      c2 == extract_token(c1)
      c3 == extract_all_lws(c2)
      q == [p EXCEPT !.first = FALSE]
  IN  CASE p.cursor = End \/ c0 = End -> EndAttributes(p, c0)
        [] p.cursor # End /\ c0 # End /\ ~p.first /\ ~At(c0, ";") -> EndAttributes(p, c0)
        [] p.cursor # End /\ c0 # End /\ (p.first \/ At(c0, ";")) ->
             CASE c2 = c1 -> Fail(p)
               [] c2 # c1 /\ ~At(c3, "=") -> [q EXCEPT !.attributes = Set(@, Slice(c1, c2), <<>>), !.cursor = c3]
               [] c2 # c1 /\ At(c3, "=") -> AttributeValue(q, Slice(c1, c2), extract_all_lws(c3 + 1))

\* The parameter is complete; after a comma another one must begin.
AfterGoesOn(p) ==
  LET c == extract_all_lws(p.cursor)
  IN  IF c = End THEN [Push(p) EXCEPT !.cursor = c, !.pc = "done"]
      ELSE [Push(p) EXCEPT !.cursor = IF At(c, ",") THEN c + 1 ELSE c, !.pc = "parameters"]
After(p) ==
  LET c == extract_all_lws(p.cursor)
  IN  CASE c = End \/ ~At(c, ",") -> [Push(p) EXCEPT !.cursor = c, !.pc = "done"]
        [] At(c, ",") /\ c + 1 = End -> Fail(Push(p))
        [] At(c, ",") /\ c + 1 # End -> [Push(p) EXCEPT !.cursor = c + 1, !.pc = "parameters"]

-----------------------------------------------------------------------------
\* Writing a list, with blanks or without.
Escaped(v) == FoldLeft(LAMBDA s, c : s \o (IF c = "quote" THEN <<"\\", c>> ELSE <<c>>), <<>>, v)
WriteValue(v) ==
  CASE v = <<>> -> <<>>
    [] v # <<>> /\ \A i \in 1..Len(v) : IsToken(v[i]) -> <<"=">> \o v
    [] OTHER -> <<"=", "quote">> \o Escaped(v) \o <<"quote">>
Spaced(s, blank) == IF blank THEN <<" ">> \o s \o <<" ">> ELSE s
WriteAttributes(as, blank) ==
  FoldLeft(LAMBDA s, a : s \o Spaced(<<";">>, blank) \o <<a.name>> \o WriteValue(a.value), <<>>, as)
WriteParameter(p, blank) == Spaced(<<p.name>>, blank) \o WriteAttributes(p.attributes, blank)
WriteList(l, blank) ==
  FoldLeft(LAMBDA s, p : s \o (IF s = <<>> THEN <<>> ELSE Spaced(<<",">>, blank)) \o WriteParameter(p, blank), <<>>, l)

Attrs == [name : {"a", "b"}, value : Values]
Lists ==
  {l \in BoundedSeq([name : {"a"}, attributes : BoundedSeq(Attrs, MaxAttributes)], MaxParameters) :
     l # <<>> /\ FoldLeft(LAMBDA n, p : n + Len(p.attributes), 0, l) <= MaxAttributes}
ListInit ==
  \E l \in Lists, blank \in BOOLEAN, stray \in {<<>>, <<"quote">>} :
    LET whole == WriteList(l, blank)
    IN  \E n \in 1..Len(whole) :
          /\ list = [parameters |-> l, whole |-> n = Len(whole) /\ stray = <<>>]
          /\ text = SubSeq(whole, 1, n) \o stray
          /\ parse = [cursor |-> 1, begin |-> 1, first |-> TRUE, name |-> <<>>, attributes |-> <<>>,
                      out |-> <<>>, pc |-> "parameters"]

extract_parameters ==
  /\ parse.pc \in {"parameters", "attributes", "after"}
  /\ parse' = CASE parse.pc = "parameters" -> Parameter(parse)
                [] parse.pc = "attributes" -> Attribute(parse)
                [] parse.pc = "after" -> After(parse)
  /\ UNCHANGED <<list, text>>
ListNext == extract_parameters

-----------------------------------------------------------------------------
\* The list as it should be read: of attributes with one name the last counts.
Expected(p) ==
  [name |-> <<p.name>>,
   attributes |-> FoldLeft(LAMBDA m, a : Set(m, <<a.name>>, a.value), <<>>, p.attributes)]
\* Reading what was written gives the list back, and a text cut short gives
\* an error or the parameters before the cut unharmed.
ReadsWhatWasWritten ==
  /\ parse.pc = "done" /\ list.whole =>
       parse.out = [i \in 1..Len(list.parameters) |-> Expected(list.parameters[i])]
  /\ list.whole => parse.pc # "error"
  /\ \A i \in 1..(Len(parse.out) - 1) : parse.out[i] = Expected(list.parameters[i])
\* Every iteration of the two loops gets further, so they end on every input.
Rank(p) ==
  4 * p.cursor + (CASE p.pc = "parameters" -> 0 [] p.pc = "attributes" -> 1 [] p.pc = "after" -> 2
                    [] OTHER -> 4 * End)
GetsFurther == [][Rank(parse') > Rank(parse)]_listVars
=============================================================================
