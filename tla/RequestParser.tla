--------------------------- MODULE RequestParser ---------------------------
(***************************************************************************)
(* request_parser of the gateway: what it makes of the bytes a client      *)
(* sends, one at a time.  connection::handle_read feeds it what each read  *)
(* brings; between two reads nothing of it changes, so where one ends and  *)
(* the next begins makes no difference.  Method, address and version are   *)
(* read by nobody and left out of the request.                             *)
(***************************************************************************)
EXTENDS RequestGrammar

CONSTANTS
  Inputs,     \* the bytes a client may send
  MaxBody     \* 1024, the size of req.body

ASSUME ParserAssumption == Inputs \subseteq Seq(Byte) /\ MaxBody \in Nat \ {0}

VARIABLES
  input,      \* the bytes this client sends
  pos,        \* how many of them are parsed
  state,      \* state_
  headers,    \* req.headers
  length,     \* req.length
  body,       \* req.body up to req.index
  result,     \* "more", "true", "false", or "thrown": lexical_cast throws, out of run()
  headEnd     \* history: where the head ended, or 0

reqVars == <<headers, length, body, headEnd>>
vars == <<input, pos, state, reqVars, result>>

Header == [name : Seq(Byte), value : Seq(Byte)]

Init ==
  /\ input \in Inputs /\ pos = 0
  /\ state = "method_start" /\ headers = <<>> /\ length = 0 /\ body = <<>>
  /\ result = "more" /\ headEnd = 0

-----------------------------------------------------------------------------

Goto(s) == state' = s /\ UNCHANGED result
Result(r) == result' = r /\ UNCHANGED state

\* In state s: go to next if the test holds, else the request is invalid.
Expect(s, test, next) ==
  /\ state = s
  /\ IF test THEN Goto(next) ELSE Result("false")
  /\ UNCHANGED reqVars

\* States that expect one byte, in the order of the request line and the ends of lines.
Literal ==
  { <<"http_version_h", H, "http_version_t_1">>,
    <<"http_version_t_1", T, "http_version_t_2">>,
    <<"http_version_t_2", T, "http_version_p">>,
    <<"http_version_p", P, "http_version_slash">>,
    <<"http_version_slash", Slash, "http_version_major_start">>,
    <<"expecting_newline_1", LF, "header_line_start">>,
    <<"expecting_newline_2", LF, "header_line_start">> }

ExpectLiteral(c) == \E l \in Literal : Expect(l[1], c = l[2], l[3])

\* The method, up to a space.
Method(c) ==
  \/ Expect("method_start", IsToken(c), "method")
  \/ c = SP /\ Expect("method", TRUE, "uri")
  \/ c # SP /\ Expect("method", IsToken(c), "method")

\* The address, up to a space; uri_start is never entered.
Uri(c) ==
  \/ c = SP /\ Expect("uri", TRUE, "http_version_h")
  \/ c # SP /\ Expect("uri", ~is_ctl(c), "uri")

\* The digits of the version.
Version(c) ==
  \/ Expect("http_version_major_start", is_digit(c), "http_version_major")
  \/ c = Dot /\ Expect("http_version_major", TRUE, "http_version_minor_start")
  \/ c # Dot /\ Expect("http_version_major", is_digit(c), "http_version_major")
  \/ Expect("http_version_minor_start", is_digit(c), "http_version_minor")
  \/ c = CR /\ Expect("http_version_minor", TRUE, "expecting_newline_1")
  \/ c # CR /\ Expect("http_version_minor", is_digit(c), "http_version_minor")

\* The first byte of a line after the request line.
HeaderLineStart(c) ==
  /\ state = "header_line_start"
  /\ IF c # CR /\ (headers = <<>> \/ c \notin {SP, HT}) /\ IsToken(c)
     THEN headers' = Append(headers, [name |-> <<c>>, value |-> <<>>])
     ELSE UNCHANGED headers
  /\ CASE c = CR -> Goto("expecting_newline_3")
       [] c # CR /\ headers # <<>> /\ c \in {SP, HT} -> Goto("header_lws")
       [] c # CR /\ (headers = <<>> \/ c \notin {SP, HT}) ->
            IF IsToken(c) THEN Goto("header_name") ELSE Result("false")
  /\ UNCHANGED <<length, body, headEnd>>

\* headers.back().value.push_back and headers.back().name.push_back
PushValue(c) == headers' = [headers EXCEPT ![Len(headers)].value = Append(@, c)]
PushName(c) == headers' = [headers EXCEPT ![Len(headers)].name = Append(@, c)]

\* A byte of a value, or the end of its line.
ValueByte(c) ==
  /\ CASE c = CR -> Goto("expecting_newline_2") /\ UNCHANGED headers
       [] c # CR /\ is_ctl(c) -> Result("false") /\ UNCHANGED headers
       [] c # CR /\ ~is_ctl(c) -> Goto("header_value") /\ PushValue(c)
  /\ UNCHANGED <<length, body, headEnd>>

\* The rest of a field's line, or of a continuation.
HeaderLine(c) ==
  \/ state = "header_lws" /\ c \in {SP, HT} /\ UNCHANGED <<state, result, reqVars>>
  \/ state = "header_lws" /\ c \notin {SP, HT} /\ ValueByte(c)
  \/ c = Colon /\ Expect("header_name", TRUE, "space_before_header_value")
  \/ /\ state = "header_name" /\ c # Colon
     /\ IF IsToken(c)
        THEN PushName(c) /\ UNCHANGED <<state, result>>
        ELSE Result("false") /\ UNCHANGED headers
     /\ UNCHANGED <<length, body, headEnd>>
  \/ state = "header_value" /\ ValueByte(c)

\* Mutant: a value has to begin with a space, as it once had.
SpaceRequired(c) == Expect("space_before_header_value", c = SP, "header_value")

\* A space before the value is passed over; the byte there may also be the value's first.
SpaceBeforeValue(c) ==
  \/ c = SP /\ Expect("space_before_header_value", TRUE, "header_value")
  \/ state = "space_before_header_value" /\ c # SP /\ ValueByte(c)

LengthFields == {i \in DOMAIN headers : headers[i].name = ContentLength}

\* Mutant: one byte too many is let through.
HeadCompleteUpTo(n) ==
  CASE n = 0 -> Result("true")
    [] n > MaxBody + 1 -> Result("false")
    [] n # 0 /\ n <= MaxBody + 1 -> Goto("body")

\* The head is complete and declares length n.
HeadComplete(n) ==
  CASE n = 0 -> Result("true")
    [] n > MaxBody -> Result("false")
    [] n # 0 /\ n <= MaxBody -> Goto("body")

\* The last byte of the head: parse_header, and what its result leads to.
HeadEnd(c) ==
  /\ state = "expecting_newline_3"
  /\ headEnd' = IF c = LF THEN pos + 1 ELSE headEnd
  /\ CASE c # LF -> Result("false") /\ UNCHANGED length
       [] c = LF /\ LengthFields = {} -> Result("true") /\ UNCHANGED length
       [] c = LF /\ LengthFields # {} ->
            LET v == headers[Min(LengthFields)].value
            IN IF IsInt(v)
               THEN length' = IntOf(v) /\ HeadComplete(IntOf(v))
               ELSE Result("thrown") /\ UNCHANGED length
  /\ UNCHANGED <<headers, body>>

\* Mutant: the body goes on for a byte more than was declared.
BodyLong(c) ==
  /\ state = "body"
  /\ body' = Append(body, c)
  /\ IF Len(body) >= length THEN Result("true") ELSE UNCHANGED <<state, result>>
  /\ UNCHANGED <<headers, length, headEnd>>

\* A byte of the body.
Body(c) ==
  /\ state = "body"
  /\ body' = Append(body, c)
  /\ IF Len(body) + 1 >= length THEN Result("true") ELSE UNCHANGED <<state, result>>
  /\ UNCHANGED <<headers, length, headEnd>>

\* parse and consume: the next byte, as long as there is no result.
Consume ==
  /\ result = "more" /\ pos < Len(input)
  /\ pos' = pos + 1 /\ UNCHANGED input
  /\ LET c == input[pos + 1]
     IN \/ Method(c) \/ Uri(c) \/ ExpectLiteral(c) \/ Version(c)
        \/ HeaderLineStart(c) \/ HeaderLine(c) \/ SpaceBeforeValue(c)
        \/ HeadEnd(c) \/ Body(c)

Next == Consume

Spec == Init /\ [][Next]_vars

-----------------------------------------------------------------------------
(***************************************************************************)
(* Properties                                                              *)
(***************************************************************************)

HeaderStates == {"header_lws", "header_name", "space_before_header_value", "header_value",
                 "expecting_newline_2"}
HeadStates ==
  {"method_start", "method", "uri", "http_version_h", "http_version_t_1", "http_version_t_2",
   "http_version_p", "http_version_slash", "http_version_major_start", "http_version_major",
   "http_version_minor_start", "http_version_minor", "expecting_newline_1",
   "header_line_start", "expecting_newline_3"} \cup HeaderStates

\* Every variable keeps its type.  In particular the body never outgrows its array, and
\* where the code uses headers.back() there is a header.
TypeOK ==
  /\ input \in Seq(Byte) /\ pos \in 0 .. Len(input)
  /\ state \in HeadStates \cup {"body"}
  /\ headers \in Seq(Header) /\ (state \in HeaderStates => headers # <<>>)
  /\ length \in - MaxInt .. MaxInt
  /\ body \in Seq(Byte) /\ Len(body) <= MaxBody
  /\ result \in {"more", "true", "false", "thrown"} /\ headEnd \in 0 .. pos

Decided == result # "more" \/ pos = Len(input)

\* The parser finds the end of a head exactly where the grammar has one: no request that
\* is well formed is refused or cut, none that is not gets through.
HeadsByGrammar ==
  Decided => \A n \in 0 .. Len(input) : IsHead(SubSeq(input, 1, n)) <=> (n = headEnd /\ n > 0)

\* Once the head is complete the result is that of the declared length, which the first field
\* of that name has, folded or not: the request is complete with just that many bytes (one
\* byte, if it is negative), none are read for 0 or no such field, and a body that does not fit
\* its array is refused.  Nothing is said of a value that is no int: the code throws there,
\* where the comment of parse promises false.
BodyByLength ==
  headEnd > 0 =>
    LET head == SubSeq(input, 1, headEnd)
        v == LengthText(head)
        declared == LengthLines(head) # {} /\ IsInt(v)
    IN /\ LengthLines(head) = {} \/ (declared /\ IntOf(v) = 0) => result = "true" /\ pos = headEnd
       /\ declared /\ IntOf(v) > MaxBody => result = "false" /\ pos = headEnd
       /\ declared /\ IntOf(v) # 0 /\ IntOf(v) <= MaxBody =>
            /\ body = SubSeq(input, headEnd + 1, pos)
            /\ result = IF Len(body) < Max({IntOf(v), 1}) THEN "more" ELSE "true"
            /\ Len(body) <= Max({IntOf(v), 1})

=============================================================================
