----------------------- MODULE RequestParser_proofs -----------------------
(***************************************************************************)
(* Theorems about RequestParser, for every input, every size of the body's *)
(* array and every range of int.                                           *)
(***************************************************************************)
EXTENDS RequestParser, FiniteSetTheorems, SequenceTheorems, TLAPS

\* The body fits as long as it is read: its declared length was let through, and it is
\* shorter than that, or empty where the length is negative.
BodyFits ==
  /\ state # "body" => body = <<>>
  /\ state = "body" => length # 0 /\ length <= MaxBody
  /\ state = "body" /\ result = "more" => body = <<>> \/ Len(body) < length
  /\ state = "body" /\ result = "true" =>
       Len(body) = IF length > 0 THEN length ELSE 1
  /\ state = "body" => result \in {"more", "true"}

ParserInv == TypeOK /\ BodyFits

\* What a step of one of the states that expect a byte changes.
LEMMA ExpectStep ==
  ASSUME NEW s \in HeadStates, NEW test \in BOOLEAN, NEW next \in HeadStates,
         Expect(s, test, next)
  PROVE  /\ state = s /\ UNCHANGED reqVars
         /\ \/ state' = next /\ result' = result
            \/ state' = state /\ result' = "false"
<1>1. CASE test = TRUE
  BY <1>1 DEF Expect, Goto
<1>2. CASE test = FALSE
  BY <1>2 DEF Expect, Result
<1> QED BY <1>1, <1>2

\* Before the body every step leaves the length and the body alone.
LEMMA HeadMove ==
  ASSUME ParserInv, input' = input, pos' = pos + 1, pos < Len(input),
         state \in HeadStates, state' \in HeadStates, headers' \in Seq(Header),
         state' \in HeaderStates => headers' # <<>>,
         result' \in {"more", "false"},
         UNCHANGED <<length, body, headEnd>>
  PROVE  ParserInv'
<1>1. TypeOK'
  BY DEF ParserInv, TypeOK, HeadStates, HeaderStates
<1>2. state # "body" /\ state' # "body"
  BY DEF HeadStates, HeaderStates
<1>3. BodyFits'
  BY <1>2 DEF ParserInv, BodyFits
<1> QED BY <1>1, <1>3 DEF ParserInv

\* The same for a step that leaves the headers alone as well.
LEMMA PlainMove ==
  ASSUME ParserInv, result = "more", input' = input, pos' = pos + 1, pos < Len(input),
         NEW s \in HeadStates, NEW test \in BOOLEAN, NEW next \in HeadStates,
         s \in HeaderStates \/ next \notin HeaderStates,
         Expect(s, test, next)
  PROVE  ParserInv'
<1>1. /\ state = s /\ UNCHANGED reqVars
      /\ \/ state' = next /\ result' = result
         \/ state' = state /\ result' = "false"
  BY ExpectStep
<1>2. headers' \in Seq(Header) /\ (state' \in HeaderStates => headers' # <<>>)
  BY <1>1 DEF ParserInv, TypeOK, reqVars
<1>3. state \in HeadStates /\ state' \in HeadStates /\ result' \in {"more", "false"}
  BY <1>1
<1>4. UNCHANGED <<length, body, headEnd>>
  BY <1>1 DEF reqVars
<1> QED BY <1>2, <1>3, <1>4, HeadMove

\* The steps of the request line keep the types.
LEMMA MethodStep ==
  ASSUME ParserInv, result = "more", input' = input, pos' = pos + 1, pos < Len(input),
         NEW c \in Byte, Method(c) \/ Uri(c) \/ Version(c) \/ ExpectLiteral(c)
  PROVE  ParserInv'
<1> USE DEF HeadStates, HeaderStates
<1>1. IsToken(c) \in BOOLEAN /\ is_ctl(c) \in BOOLEAN /\ is_digit(c) \in BOOLEAN
  BY DEF IsToken, is_ctl, is_digit
<1>2. CASE Method(c)
  BY <1>1, <1>2, PlainMove DEF Method
<1>3. CASE Uri(c)
  BY <1>1, <1>3, PlainMove DEF Uri
<1>4. CASE Version(c)
  BY <1>1, <1>4, PlainMove DEF Version
<1>5. CASE ExpectLiteral(c)
  <2>1. PICK l \in Literal : Expect(l[1], c = l[2], l[3])
    BY <1>5 DEF ExpectLiteral
  <2>2. /\ l[1] \in HeadStates /\ l[3] \in HeadStates
        /\ l[1] \in HeaderStates \/ l[3] \notin HeaderStates
    BY DEF Literal
  <2>3. (c = l[2]) \in BOOLEAN
    OBVIOUS
  <2> QED BY <2>1, <2>2, <2>3, PlainMove
<1> QED BY <1>2, <1>3, <1>4, <1>5

\* A header with another name or value is a header.
LEMMA ExceptField ==
  ASSUME NEW h \in Header, NEW v \in Seq(Byte)
  PROVE  [h EXCEPT !.value = v] \in Header /\ [h EXCEPT !.name = v] \in Header
BY DEF Header

\* Headers with another header in place of one of them.
LEMMA ExceptHeader ==
  ASSUME NEW hs \in Seq(Header), NEW i \in DOMAIN hs, NEW h \in Header
  PROVE  [hs EXCEPT ![i] = h] \in Seq(Header) /\ Len([hs EXCEPT ![i] = h]) = Len(hs)
<1>1. hs \in [1 .. Len(hs) -> Header] /\ Len(hs) \in Nat
  OBVIOUS
<1>2. [hs EXCEPT ![i] = h] \in [1 .. Len(hs) -> Header]
  BY <1>1
<1> QED BY <1>1, <1>2

\* A byte added to the name or the value of the last header.
LEMMA PushTypes ==
  ASSUME headers \in Seq(Header), headers # <<>>, NEW c \in Byte, PushValue(c) \/ PushName(c)
  PROVE  headers' \in Seq(Header) /\ headers' # <<>>
<1> DEFINE n == Len(headers)
           h == headers[n]
<1>1. n \in DOMAIN headers /\ n > 0
  OBVIOUS
<1>2. h \in Header
  BY <1>1
<1>3. h.value \in Seq(Byte) /\ h.name \in Seq(Byte)
  BY <1>2 DEF Header
<1>4. Append(h.value, c) \in Seq(Byte) /\ Append(h.name, c) \in Seq(Byte)
  BY <1>3
<1>5. /\ [h EXCEPT !.value = Append(h.value, c)] \in Header
      /\ [h EXCEPT !.name = Append(h.name, c)] \in Header
  BY <1>2, <1>4, ExceptField
<1>6. \E g \in Header : headers' = [headers EXCEPT ![n] = g]
  <2>1. CASE PushValue(c)
    BY <1>1, <1>5, <2>1 DEF PushValue
  <2>2. CASE PushName(c)
    BY <1>1, <1>5, <2>2 DEF PushName
  <2> QED BY <2>1, <2>2
<1> HIDE DEF n, h
<1>7. headers' \in Seq(Header) /\ Len(headers') = Len(headers)
  BY <1>1, <1>6, ExceptHeader
<1> QED BY <1>1, <1>7 DEF n

\* So does a byte of a value.
LEMMA ValueStep ==
  ASSUME ParserInv, result = "more", input' = input, pos' = pos + 1, pos < Len(input),
         state \in HeaderStates, NEW c \in Byte, ValueByte(c)
  PROVE  ParserInv'
<1> USE DEF HeadStates, HeaderStates
<1>1. headers \in Seq(Header) /\ headers # <<>>
  BY DEF ParserInv, TypeOK
<1>2. /\ headers' \in Seq(Header) /\ headers' # <<>>
      /\ state' \in HeadStates /\ result' \in {"more", "false"}
      /\ UNCHANGED <<length, body, headEnd>>
  <2>1. CASE c = CR
    BY <1>1, <2>1 DEF ValueByte, Goto
  <2>2. CASE c # CR /\ is_ctl(c)
    BY <1>1, <2>2 DEF ValueByte, Result
  <2>3. CASE c # CR /\ ~is_ctl(c)
    <3>1. Goto("header_value") /\ PushValue(c) /\ UNCHANGED <<length, body, headEnd>>
      BY <2>3 DEF ValueByte
    <3> QED BY <1>1, <3>1, PushTypes DEF Goto
  <2> QED BY <2>1, <2>2, <2>3
<1>3. state \in HeadStates
  OBVIOUS
<1> QED BY <1>2, <1>3, HeadMove

\* So do the steps within the lines of the fields.
LEMMA HeaderStep ==
  ASSUME ParserInv, result = "more", input' = input, pos' = pos + 1, pos < Len(input),
         NEW c \in Byte, HeaderLineStart(c) \/ HeaderLine(c) \/ SpaceBeforeValue(c)
  PROVE  ParserInv'
<1>1. headers \in Seq(Header) /\ (state \in HeaderStates => headers # <<>>)
  BY DEF ParserInv, TypeOK
<1>2. CASE HeaderLineStart(c)
  <2>a. [name |-> <<c>>, value |-> <<>>] \in Header
    BY DEF Header
  <2>b. /\ Append(headers, [name |-> <<c>>, value |-> <<>>]) \in Seq(Header)
        /\ Append(headers, [name |-> <<c>>, value |-> <<>>]) # <<>>
    BY <1>1, <2>a
  <2>1. headers' \in Seq(Header) /\ (headers' = headers \/ headers' # <<>>)
    BY <1>1, <1>2, <2>b DEF HeaderLineStart
  <2>2. /\ state \in HeadStates /\ state' \in HeadStates /\ result' \in {"more", "false"}
        /\ state' \in HeaderStates => headers' # <<>>
        /\ UNCHANGED <<length, body, headEnd>>
    <3>1. CASE c = CR
      BY <1>2, <3>1 DEF HeaderLineStart, Goto, HeadStates, HeaderStates
    <3>2. CASE c # CR /\ headers # <<>> /\ c \in {SP, HT}
      BY <1>2, <2>1, <3>2 DEF HeaderLineStart, Goto, HeadStates, HeaderStates
    <3>3. CASE c # CR /\ (headers = <<>> \/ c \notin {SP, HT}) /\ IsToken(c)
      <4>1. headers' = Append(headers, [name |-> <<c>>, value |-> <<>>])
        BY <1>2, <3>3 DEF HeaderLineStart
      <4>2. state = "header_line_start" /\ Goto("header_name") /\ UNCHANGED <<length, body, headEnd>>
        BY <1>2, <3>3 DEF HeaderLineStart
      <4> QED BY <2>b, <4>1, <4>2 DEF Goto, HeadStates, HeaderStates
    <3>4. CASE c # CR /\ (headers = <<>> \/ c \notin {SP, HT}) /\ ~IsToken(c)
      BY <1>2, <3>4 DEF HeaderLineStart, Result, HeadStates, HeaderStates
    <3> QED BY <3>1, <3>2, <3>3, <3>4
  <2> QED BY <2>1, <2>2, HeadMove
<1>3. CASE HeaderLine(c)
  <2>1. CASE state = "header_lws" /\ c \in {SP, HT} /\ UNCHANGED <<state, result, reqVars>>
    BY <1>1, <2>1, HeadMove DEF reqVars, HeadStates, HeaderStates
  <2>2. CASE state = "header_lws" /\ ValueByte(c)
    BY <2>2, ValueStep DEF HeaderStates
  <2>3. CASE Expect("header_name", TRUE, "space_before_header_value")
    BY <2>3, PlainMove DEF HeadStates, HeaderStates
  <2>4. CASE /\ state = "header_name"
             /\ IF IsToken(c) THEN PushName(c) /\ UNCHANGED <<state, result>>
                ELSE Result("false") /\ UNCHANGED headers
             /\ UNCHANGED <<length, body, headEnd>>
    <3>1. headers # <<>>
      BY <1>1, <2>4 DEF HeaderStates
    <3>2. headers' \in Seq(Header) /\ headers' # <<>>
      BY <1>1, <2>4, <3>1, PushTypes
    <3>3. state' = state /\ result' \in {"more", "false"}
      BY <2>4 DEF Result
    <3> QED BY <2>4, <3>2, <3>3, HeadMove DEF HeadStates, HeaderStates
  <2>5. CASE state = "header_value" /\ ValueByte(c)
    BY <2>5, ValueStep DEF HeaderStates
  <2> QED BY <1>3, <2>1, <2>2, <2>3, <2>4, <2>5 DEF HeaderLine
<1>4. CASE SpaceBeforeValue(c)
  <2>1. CASE Expect("space_before_header_value", TRUE, "header_value")
    BY <2>1, PlainMove DEF HeadStates, HeaderStates
  <2>2. CASE state = "space_before_header_value" /\ ValueByte(c)
    BY <2>2, ValueStep DEF HeaderStates
  <2> QED BY <1>4, <2>1, <2>2 DEF SpaceBeforeValue
<1> QED BY <1>2, <1>3, <1>4

\* An int is in the range of int.
LEMMA IntRange ==
  ASSUME NEW v, IsInt(v)
  PROVE  IntOf(v) \in - MaxInt .. MaxInt
BY GrammarAssumption DEF IsInt, IntOf

\* So does the last byte of the head: a declared length that does not fit is not let through.
LEMMA HeadEndStep ==
  ASSUME ParserInv, result = "more", input' = input, pos' = pos + 1, pos < Len(input),
         NEW c \in Byte, HeadEnd(c)
  PROVE  ParserInv'
<1> USE DEF HeadStates, HeaderStates
<1>1. /\ pos \in Nat /\ Len(input) \in Nat /\ body = <<>> /\ headers \in Seq(Header)
      /\ length \in - MaxInt .. MaxInt /\ headEnd \in 0 .. pos /\ input \in Seq(Byte)
  BY DEF ParserInv, TypeOK, BodyFits, HeadEnd
<1>2. state = "expecting_newline_3" /\ UNCHANGED <<headers, body>> /\ headEnd' \in 0 .. pos'
  BY <1>1 DEF HeadEnd
<1>3. /\ length' \in - MaxInt .. MaxInt
      /\ \/ state' = state /\ result' \in {"true", "false", "thrown"}
         \/ state' = "body" /\ result' = "more" /\ length' # 0 /\ length' <= MaxBody
  <2>1. CASE c # LF
    BY <1>1, <1>2, <2>1 DEF HeadEnd, Result
  <2>2. CASE c = LF /\ LengthFields = {}
    BY <1>1, <1>2, <2>2 DEF HeadEnd, Result
  <2>3. CASE c = LF /\ LengthFields # {}
    <3> DEFINE v == headers[Min(LengthFields)].value
    <3>1. CASE IsInt(v)
      <4>1. length' = IntOf(v) /\ HeadComplete(IntOf(v))
        BY <2>3, <3>1 DEF HeadEnd
      <4>2. IntOf(v) \in - MaxInt .. MaxInt
        BY <3>1, IntRange
      <4> HIDE DEF v
      <4>3. CASE IntOf(v) = 0
        BY <4>1, <4>2, <4>3 DEF HeadComplete, Result
      <4>4. CASE IntOf(v) > MaxBody
        <5>1. IntOf(v) # 0 /\ ~(IntOf(v) <= MaxBody)
          BY <4>2, <4>4, ParserAssumption
        <5>2. Result("false")
          BY <4>1, <4>4, <5>1, Zenon DEF HeadComplete
        <5> QED BY <4>1, <4>2, <5>2 DEF Result
      <4>5. CASE IntOf(v) # 0 /\ IntOf(v) <= MaxBody
        BY <4>1, <4>2, <4>5, ParserAssumption DEF HeadComplete, Goto
      <4> QED BY <4>2, <4>3, <4>4, <4>5, ParserAssumption, GrammarAssumption
    <3>2. CASE ~IsInt(v)
      BY <1>1, <2>3, <3>2 DEF HeadEnd, Result
    <3> QED BY <3>1, <3>2
  <2> QED BY <2>1, <2>2, <2>3
<1>4. TypeOK'
  BY <1>1, <1>2, <1>3, ParserAssumption DEF TypeOK
<1>5. BodyFits'
  BY <1>1, <1>2, <1>3 DEF BodyFits
<1> QED BY <1>4, <1>5 DEF ParserInv

\* So does a byte of the body.
LEMMA BodyStep ==
  ASSUME ParserInv, result = "more", input' = input, pos' = pos + 1, pos < Len(input),
         NEW c \in Byte, Body(c)
  PROVE  ParserInv'
<1>1. /\ body \in Seq(Byte) /\ Len(body) \in Nat /\ length \in Int /\ MaxBody \in Nat \ {0}
      /\ length # 0 /\ length <= MaxBody /\ (body = <<>> \/ Len(body) < length)
      /\ MaxInt \in Nat
  BY ParserAssumption, GrammarAssumption DEF ParserInv, TypeOK, BodyFits, Body
<1>2. /\ state = "body" /\ state' = "body" /\ body' = Append(body, c)
      /\ UNCHANGED <<headers, length, headEnd>>
      /\ result' = IF Len(body) + 1 >= length THEN "true" ELSE "more"
  BY DEF Body, Result
<1>3. body' \in Seq(Byte) /\ Len(body') = Len(body) + 1 /\ body' # <<>>
  BY <1>1, <1>2
<1>4. Len(body') <= MaxBody
  BY <1>1, <1>3
<1>5. TypeOK'
  BY <1>2, <1>3, <1>4 DEF ParserInv, TypeOK, HeadStates, HeaderStates
<1>6. BodyFits'
  <2>1. body = <<>> => Len(body) = 0
    OBVIOUS
  <2> QED BY <1>1, <1>2, <1>3, <2>1 DEF BodyFits
<1> QED BY <1>5, <1>6 DEF ParserInv

\* ParserInv is an invariant.
LEMMA ParserInvHolds == Spec => []ParserInv
<1>1. Init => ParserInv
  BY ParserAssumption, GrammarAssumption
  DEF Init, ParserInv, TypeOK, BodyFits, HeadStates, HeaderStates, Header
<1>2. ParserInv /\ [Next]_vars => ParserInv'
  <2> SUFFICES ASSUME ParserInv, [Next]_vars PROVE ParserInv'
    OBVIOUS
  <2>1. CASE UNCHANGED vars
    BY <2>1 DEF vars, reqVars, ParserInv, TypeOK, BodyFits
  <2>2. CASE Consume
    <3> DEFINE c == input[pos + 1]
    <3>1. result = "more" /\ pos < Len(input) /\ pos' = pos + 1 /\ input' = input
      BY <2>2 DEF Consume
    <3>2. c \in Byte
      BY <3>1 DEF ParserInv, TypeOK
    <3>3. \/ Method(c) \/ Uri(c) \/ ExpectLiteral(c) \/ Version(c)
          \/ HeaderLineStart(c) \/ HeaderLine(c) \/ SpaceBeforeValue(c)
          \/ HeadEnd(c) \/ Body(c)
      BY <2>2 DEF Consume
    <3> HIDE DEF c
    <3>4. CASE Method(c) \/ Uri(c) \/ ExpectLiteral(c) \/ Version(c)
      BY <3>1, <3>2, <3>4, MethodStep
    <3>5. CASE HeaderLineStart(c) \/ HeaderLine(c) \/ SpaceBeforeValue(c)
      BY <3>1, <3>2, <3>5, HeaderStep
    <3>6. CASE HeadEnd(c)
      BY <3>1, <3>2, <3>6, HeadEndStep
    <3>7. CASE Body(c)
      BY <3>1, <3>2, <3>7, BodyStep
    <3> QED BY <3>3, <3>4, <3>5, <3>6, <3>7
  <2> QED BY <2>1, <2>2 DEF Next
<1> QED BY <1>1, <1>2, PTL DEF Spec

\* TypeOK for every input: the body never outgrows its array, whatever length a request
\* declares, and headers.back() is used only where there is a header.
THEOREM ParserStaysInBounds == Spec => []TypeOK
<1>1. ParserInv => TypeOK
  BY DEF ParserInv
<1> QED BY <1>1, ParserInvHolds, PTL

\* A request with a body that request_parser calls complete has just as many bytes of body
\* as it declares, or one where it declares a negative number.
BodyIsDeclared ==
  state = "body" /\ result = "true" => Len(body) = IF length > 0 THEN length ELSE 1

\* BodyIsDeclared for every input.
THEOREM CompleteMeansDeclared == Spec => []BodyIsDeclared
<1>1. ParserInv => BodyIsDeclared
  BY DEF ParserInv, BodyFits, BodyIsDeclared
<1> QED BY <1>1, ParserInvHolds, PTL

-----------------------------------------------------------------------------
(***************************************************************************)
(* The grammar, said of the places of the input: w is the input, a line    *)
(* goes from a to e in it, and no operator cuts a part out of it           *)
(***************************************************************************)

\* A set of natural numbers has a least element.
LEMMA LeastNatural ==
  ASSUME NEW N \in SUBSET Nat, N # {}
  PROVE  \E x \in N : \A y \in N : x <= y
<1>1. PICK R : R = {p \in Nat \X Nat : p[1] < p[2]}
  OBVIOUS
<1>2. IsWellFoundedOn(R, Nat)
  BY <1>1, NatLessThanWellFounded DEF OpToRel
<1>3. PICK x \in N : \A y \in N : <<y, x>> \notin R
  BY <1>2, WFMin
<1>4. ASSUME NEW y \in N PROVE x <= y
  <2>1. x \in Nat /\ y \in Nat /\ <<y, x>> \notin R /\ <<y, x>> \in Nat \X Nat
    BY <1>3
  <2>2. ~(y < x)
    BY <1>1, <2>1
  <2> QED BY <2>1, <2>2
<1> QED BY <1>4

\* A bounded set of natural numbers has a greatest element, and Max and Min are it.
LEMMA MaxOf ==
  ASSUME NEW N \in SUBSET Nat, N # {}, NEW b \in Nat, \A x \in N : x <= b
  PROVE  Max(N) \in N /\ \A x \in N : x <= Max(N)
<1>1. PICK M : M = {b - x : x \in N}
  OBVIOUS
<1>2. M \in SUBSET Nat /\ M # {}
  <2>1. \A x \in N : b - x \in Nat
    OBVIOUS
  <2>2. \A y \in M : y \in Nat
    BY <1>1, <2>1
  <2> QED BY <1>1, <2>2
<1>3. PICK m \in M : \A y \in M : m <= y
  BY <1>2, LeastNatural
<1>4. PICK x \in N : m = b - x
  BY <1>1
<1>5. \A y \in N : x >= y
  <2> SUFFICES ASSUME NEW y \in N PROVE x >= y
    OBVIOUS
  <2>1. m <= b - y
    BY <1>1, <1>3
  <2> QED BY <1>4, <2>1
<1>6. Max(N) \in N /\ \A y \in N : Max(N) >= y
  BY <1>5, Zenon DEF Max
<1>7. \A y \in N : y <= Max(N)
  BY <1>6
<1> QED BY <1>6, <1>7

\* Min of a set of natural numbers.
LEMMA MinOf ==
  ASSUME NEW N \in SUBSET Nat, N # {}
  PROVE  Min(N) \in N /\ \A x \in N : Min(N) <= x
<1>1. PICK x \in N : \A y \in N : x <= y
  BY LeastNatural
<1> QED BY <1>1, Zenon DEF Min

\* What a part of a text is made of.
NameAt(w, a, b) == a <= b /\ \A k \in a .. b : IsToken(w[k])
TextAt(w, a, b) == \A k \in a .. b : ~is_ctl(w[k])
DigitsAt(w, a, b) == a <= b /\ \A k \in a .. b : is_digit(w[k])
BlankAt(w, a, b) == a <= b /\ \A k \in a .. b : w[k] \in {SP, HT}

\* The elements of a part of w.
LEMMA Part ==
  ASSUME NEW w \in Seq(Byte), NEW a \in Nat \ {0}, NEW b \in Nat, b <= Len(w)
  PROVE  /\ SubSeq(w, a, b) \in Seq(Byte)
         /\ Len(SubSeq(w, a, b)) = IF a <= b THEN b - a + 1 ELSE 0
         /\ DOMAIN SubSeq(w, a, b) = 1 .. b - a + 1
         /\ \A k \in 1 .. b - a + 1 : SubSeq(w, a, b)[k] = w[a + k - 1]
         /\ \A k \in a .. b : SubSeq(w, a, b)[k - a + 1] = w[k] /\ k - a + 1 \in 1 .. b - a + 1
<1>1. \A k \in a .. b : w[k] \in Byte
  BY LenProperties
<1>2. /\ SubSeq(w, a, b) \in Seq(Byte)
      /\ Len(SubSeq(w, a, b)) = IF a <= b THEN b - a + 1 ELSE 0
      /\ \A k \in 1 .. b - a + 1 : SubSeq(w, a, b)[k] = w[a + k - 1]
  BY <1>1, SubSeqProperties
<1>3. DOMAIN SubSeq(w, a, b) = 1 .. b - a + 1
  BY <1>2, LenProperties
<1>4. ASSUME NEW k \in a .. b
      PROVE  SubSeq(w, a, b)[k - a + 1] = w[k] /\ k - a + 1 \in 1 .. b - a + 1
  <2>1. k - a + 1 \in 1 .. b - a + 1 /\ a + (k - a + 1) - 1 = k
    OBVIOUS
  <2>2. SubSeq(w, a, b)[k - a + 1] = w[a + (k - a + 1) - 1]
    BY <1>2, <2>1
  <2> QED BY <2>1, <2>2
<1> QED BY <1>2, <1>3, <1>4

\* A part of a part.
LEMMA PartOfPart ==
  ASSUME NEW w \in Seq(Byte), NEW a \in Nat \ {0}, NEW b \in Nat, b <= Len(w),
         NEW x \in Nat \ {0}, NEW y \in Nat, y <= b - a + 1
  PROVE  SubSeq(SubSeq(w, a, b), x, y) = SubSeq(w, a + x - 1, a + y - 1)
<1> DEFINE L == SubSeq(w, a, b)
           l == SubSeq(L, x, y)
           r == SubSeq(w, a + x - 1, a + y - 1)
<1>1. /\ L \in Seq(Byte) /\ Len(L) = IF a <= b THEN b - a + 1 ELSE 0
      /\ \A k \in 1 .. b - a + 1 : L[k] = w[a + k - 1]
  BY Part
<1>2. y <= Len(L)
  BY <1>1
<1>3. a + x - 1 \in Nat \ {0} /\ a + y - 1 \in Nat /\ a + y - 1 <= Len(w)
  OBVIOUS
<1> HIDE DEF L
<1>4. /\ l \in Seq(Byte) /\ Len(l) = IF x <= y THEN y - x + 1 ELSE 0
      /\ \A k \in 1 .. y - x + 1 : l[k] = L[x + k - 1]
  BY <1>1, <1>2, Part
<1>5. /\ r \in Seq(Byte) /\ Len(r) = IF x <= y THEN y - x + 1 ELSE 0
      /\ \A k \in 1 .. y - x + 1 : r[k] = w[a + x - 1 + k - 1]
  <2>1. (a + y - 1) - (a + x - 1) = y - x /\ (a + x - 1 <= a + y - 1 <=> x <= y)
    OBVIOUS
  <2>2. /\ r \in Seq(Byte)
        /\ Len(r) = IF a + x - 1 <= a + y - 1 THEN (a + y - 1) - (a + x - 1) + 1 ELSE 0
        /\ \A k \in 1 .. (a + y - 1) - (a + x - 1) + 1 : r[k] = w[a + x - 1 + k - 1]
    BY <1>3, Part
  <2> QED BY <2>1, <2>2
<1> HIDE DEF l, r
<1>6. ASSUME NEW k \in 1 .. Len(l) PROVE l[k] = r[k]
  <2>1. k \in 1 .. y - x + 1 /\ x + k - 1 \in 1 .. b - a + 1
    BY <1>4
  <2>2. l[k] = w[a + (x + k - 1) - 1]
    BY <1>1, <1>4, <2>1
  <2>3. a + (x + k - 1) - 1 = a + x - 1 + k - 1
    BY <2>1
  <2> QED BY <1>5, <2>1, <2>2, <2>3
<1>7. l = r
  BY <1>4, <1>5, <1>6, SeqEqual
<1> QED BY <1>7 DEF l, r, L

\* What the tests of texts, names, digits and blanks say of a part of w.
LEMMA PartTexts ==
  ASSUME NEW w \in Seq(Byte), NEW a \in Nat \ {0}, NEW b \in Nat, b <= Len(w)
  PROVE  /\ IsName(SubSeq(w, a, b)) <=> NameAt(w, a, b)
         /\ IsText(SubSeq(w, a, b)) <=> TextAt(w, a, b)
         /\ IsDigits(SubSeq(w, a, b)) <=> DigitsAt(w, a, b)
         /\ IsBlank(SubSeq(w, a, b)) <=> BlankAt(w, a, b)
<1> DEFINE L == SubSeq(w, a, b)
<1>1. /\ L \in Seq(Byte) /\ Len(L) = IF a <= b THEN b - a + 1 ELSE 0
      /\ DOMAIN L = 1 .. b - a + 1
      /\ \A k \in 1 .. b - a + 1 : L[k] = w[a + k - 1] /\ a + k - 1 \in a .. b
      /\ \A k \in a .. b : L[k - a + 1] = w[k] /\ k - a + 1 \in 1 .. b - a + 1
  BY Part
<1>2. L # <<>> <=> a <= b
  BY <1>1, EmptySeq
<1> HIDE DEF L
<1>3. IsName(L) <=> NameAt(w, a, b)
  BY <1>1, <1>2 DEF IsName, All, NameAt
<1>4. IsText(L) <=> TextAt(w, a, b)
  BY <1>1 DEF IsText, All, TextAt
<1>5. IsDigits(L) <=> DigitsAt(w, a, b)
  BY <1>1, <1>2 DEF IsDigits, All, DigitsAt
<1>6. IsBlank(L) <=> BlankAt(w, a, b)
  BY <1>1, <1>2 DEF IsBlank, All, BlankAt
<1> QED BY <1>3, <1>4, <1>5, <1>6 DEF L

\* The parts of a head by their places: a version, the request line, a field, a continuation.
VersionAt(w, a, b) ==
  /\ a + 4 <= b /\ w[a] = H /\ w[a + 1] = T /\ w[a + 2] = T /\ w[a + 3] = P /\ w[a + 4] = Slash
  /\ \E d \in a .. b : w[d] = Dot /\ DigitsAt(w, a + 5, d - 1) /\ DigitsAt(w, d + 1, b)

RequestLineAt(w, b) ==
  \E i, j \in 1 .. b :
    /\ i < j /\ w[i] = SP /\ w[j] = SP
    /\ NameAt(w, 1, i - 1) /\ TextAt(w, i + 1, j - 1) /\ \A k \in i + 1 .. j - 1 : w[k] # SP
    /\ VersionAt(w, j + 1, b)

FieldAt(w, a, b) ==
  \E i \in a .. b : w[i] = Colon /\ NameAt(w, a, i - 1) /\ TextAt(w, i + 1, b)

FoldAt(w, a, b) == \E i \in a .. b : BlankAt(w, a, i) /\ TextAt(w, i + 1, b)

\* IsField and IsFold of a part of w.
LEMMA FieldPart ==
  ASSUME NEW w \in Seq(Byte), NEW a \in Nat \ {0}, NEW b \in Nat, b <= Len(w)
  PROVE  /\ IsField(SubSeq(w, a, b)) <=> FieldAt(w, a, b)
         /\ IsFold(SubSeq(w, a, b)) <=> FoldAt(w, a, b)
<1> DEFINE L == SubSeq(w, a, b)
<1>1. /\ L \in Seq(Byte) /\ Len(L) = IF a <= b THEN b - a + 1 ELSE 0
      /\ DOMAIN L = 1 .. b - a + 1
      /\ \A k \in 1 .. b - a + 1 : L[k] = w[a + k - 1] /\ a + k - 1 \in a .. b
      /\ \A k \in a .. b : L[k - a + 1] = w[k] /\ k - a + 1 \in 1 .. b - a + 1
  BY Part
<1>2. ASSUME NEW i \in 1 .. b - a + 1
      PROVE  /\ Before(L, i) = SubSeq(w, a, a + i - 2)
             /\ After(L, i) = SubSeq(w, a + i, b)
             /\ SubSeq(L, 1, i) = SubSeq(w, a, a + i - 1)
  <2>1. /\ i - 1 \in Nat /\ i \in Nat /\ i + 1 \in Nat \ {0} /\ b - a + 1 \in Nat
        /\ i - 1 <= b - a + 1 /\ Len(L) = b - a + 1
    BY <1>1
  <2>2. SubSeq(L, 1, i - 1) = SubSeq(w, a + 1 - 1, a + (i - 1) - 1)
    BY <2>1, PartOfPart
  <2>3. SubSeq(L, i + 1, b - a + 1) = SubSeq(w, a + (i + 1) - 1, a + (b - a + 1) - 1)
    BY <2>1, PartOfPart
  <2>4. SubSeq(L, 1, i) = SubSeq(w, a + 1 - 1, a + i - 1)
    BY <2>1, PartOfPart
  <2>5. /\ a + 1 - 1 = a /\ a + (i - 1) - 1 = a + i - 2 /\ a + (i + 1) - 1 = a + i
        /\ a + (b - a + 1) - 1 = b
    OBVIOUS
  <2> HIDE DEF L
  <2> QED BY <2>1, <2>2, <2>3, <2>4, <2>5 DEF Before, After
<1> HIDE DEF L
<1>3. ASSUME NEW i \in 1 .. b - a + 1
      PROVE  /\ IsName(Before(L, i)) <=> NameAt(w, a, a + i - 2)
             /\ IsText(After(L, i)) <=> TextAt(w, a + i, b)
             /\ IsBlank(SubSeq(L, 1, i)) <=> BlankAt(w, a, a + i - 1)
  <2>1. a + i - 2 \in Nat /\ a + i - 2 <= Len(w) /\ a + i - 1 \in Nat /\ a + i - 1 <= Len(w) /\ a + i \in Nat \ {0}
    OBVIOUS
  <2> QED BY <1>2, <2>1, PartTexts
<1>4. IsField(L) <=> FieldAt(w, a, b)
  <2>1. ASSUME IsField(L) PROVE FieldAt(w, a, b)
    <3>1. PICK i \in 1 .. b - a + 1 : L[i] = Colon /\ IsName(Before(L, i)) /\ IsText(After(L, i))
      BY <1>1, <2>1 DEF IsField
    <3>2. NameAt(w, a, a + i - 2) /\ TextAt(w, a + i, b) /\ w[a + i - 1] = Colon
      BY <1>1, <1>3, <3>1
    <3>3. PICK m \in a .. b : m = a + i - 1 /\ a + i - 2 = m - 1 /\ a + i = m + 1
      OBVIOUS
    <3> QED BY <3>2, <3>3 DEF FieldAt
  <2>2. ASSUME FieldAt(w, a, b) PROVE IsField(L)
    <3>1. PICK m \in a .. b : w[m] = Colon /\ NameAt(w, a, m - 1) /\ TextAt(w, m + 1, b)
      BY <2>2 DEF FieldAt
    <3>2. PICK i \in 1 .. b - a + 1 : m = a + i - 1 /\ a + i - 2 = m - 1 /\ a + i = m + 1
      <4>1. m - a + 1 \in 1 .. b - a + 1
        OBVIOUS
      <4> QED BY <4>1
    <3>3. L[i] = Colon /\ IsName(Before(L, i)) /\ IsText(After(L, i))
      BY <1>1, <1>3, <3>1, <3>2
    <3> QED BY <1>1, <3>3 DEF IsField
  <2> QED BY <2>1, <2>2
<1>5. IsFold(L) <=> FoldAt(w, a, b)
  <2>1. ASSUME IsFold(L) PROVE FoldAt(w, a, b)
    <3>1. PICK i \in 1 .. b - a + 1 : IsBlank(SubSeq(L, 1, i)) /\ IsText(After(L, i))
      BY <1>1, <2>1 DEF IsFold
    <3>2. BlankAt(w, a, a + i - 1) /\ TextAt(w, a + i, b)
      BY <1>3, <3>1
    <3>3. PICK m \in a .. b : m = a + i - 1 /\ a + i = m + 1
      OBVIOUS
    <3> QED BY <3>2, <3>3 DEF FoldAt
  <2>2. ASSUME FoldAt(w, a, b) PROVE IsFold(L)
    <3>1. PICK m \in a .. b : BlankAt(w, a, m) /\ TextAt(w, m + 1, b)
      BY <2>2 DEF FoldAt
    <3>2. PICK i \in 1 .. b - a + 1 : m = a + i - 1 /\ a + i = m + 1
      <4>1. m - a + 1 \in 1 .. b - a + 1
        OBVIOUS
      <4> QED BY <4>1
    <3>3. IsBlank(SubSeq(L, 1, i)) /\ IsText(After(L, i))
      BY <1>3, <3>1, <3>2
    <3> QED BY <1>1, <3>3 DEF IsFold
  <2> QED BY <2>1, <2>2
<1> QED BY <1>4, <1>5 DEF L

\* IsVersion of a part of w.
LEMMA VersionPart ==
  ASSUME NEW w \in Seq(Byte), NEW a \in Nat \ {0}, NEW b \in Nat, b <= Len(w)
  PROVE  IsVersion(SubSeq(w, a, b)) <=> VersionAt(w, a, b)
<1> DEFINE L == SubSeq(w, a, b)
<1>1. /\ L \in Seq(Byte) /\ Len(L) = IF a <= b THEN b - a + 1 ELSE 0
      /\ DOMAIN L = 1 .. b - a + 1
      /\ \A k \in 1 .. b - a + 1 : L[k] = w[a + k - 1] /\ a + k - 1 \in a .. b
      /\ \A k \in a .. b : L[k - a + 1] = w[k] /\ k - a + 1 \in 1 .. b - a + 1
  BY Part
<1>2. ASSUME NEW d \in 1 .. b - a + 1
      PROVE  /\ IsDigits(SubSeq(L, 6, d - 1)) <=> DigitsAt(w, a + 5, a + d - 2)
             /\ IsDigits(After(L, d)) <=> DigitsAt(w, a + d, b)
  <2>1. /\ d - 1 \in Nat /\ d + 1 \in Nat \ {0} /\ b - a + 1 \in Nat
        /\ d - 1 <= b - a + 1 /\ Len(L) = b - a + 1
    BY <1>1
  <2>2. SubSeq(L, 6, d - 1) = SubSeq(w, a + 6 - 1, a + (d - 1) - 1)
    BY <2>1, PartOfPart
  <2>3. SubSeq(L, d + 1, b - a + 1) = SubSeq(w, a + (d + 1) - 1, a + (b - a + 1) - 1)
    BY <2>1, PartOfPart
  <2>4. /\ a + 6 - 1 = a + 5 /\ a + (d - 1) - 1 = a + d - 2 /\ a + (d + 1) - 1 = a + d
        /\ a + (b - a + 1) - 1 = b
    OBVIOUS
  <2>5. /\ a + 5 \in Nat \ {0} /\ a + d - 2 \in Nat /\ a + d - 2 <= Len(w)
        /\ a + d \in Nat \ {0}
    OBVIOUS
  <2> HIDE DEF L
  <2>6. /\ SubSeq(L, 6, d - 1) = SubSeq(w, a + 5, a + d - 2)
        /\ After(L, d) = SubSeq(w, a + d, b)
    BY <2>1, <2>2, <2>3, <2>4 DEF After
  <2> QED BY <2>5, <2>6, PartTexts
<1> HIDE DEF L
<1>3. Len(L) >= 5 /\ SubSeq(L, 1, 5) = <<H, T, T, P, Slash>> <=>
        /\ a + 4 <= b /\ w[a] = H /\ w[a + 1] = T /\ w[a + 2] = T /\ w[a + 3] = P
        /\ w[a + 4] = Slash
  <2>1. Len(L) >= 5 <=> a + 4 <= b
    BY <1>1
  <2>2. ASSUME a + 4 <= b
        PROVE  SubSeq(L, 1, 5) = <<H, T, T, P, Slash>> <=>
                 /\ w[a] = H /\ w[a + 1] = T /\ w[a + 2] = T /\ w[a + 3] = P /\ w[a + 4] = Slash
    <3>1. 5 <= Len(L)
      BY <2>1, <2>2
    <3>a. PICK u : u = SubSeq(L, 1, 5)
      OBVIOUS
    <3>2. u \in Seq(Byte) /\ Len(u) = 5 /\ \A k \in 1 .. 5 : u[k] = L[k]
      <4>1. /\ u \in Seq(Byte) /\ Len(u) = 5
            /\ \A k \in 1 .. 5 : u[k] = L[1 + k - 1]
        BY <1>1, <3>1, <3>a, Part
      <4> QED BY <4>1
    <3>3. /\ 1 \in 1 .. b - a + 1 /\ 2 \in 1 .. b - a + 1 /\ 3 \in 1 .. b - a + 1
          /\ 4 \in 1 .. b - a + 1 /\ 5 \in 1 .. b - a + 1
          /\ a + 1 - 1 = a /\ a + 2 - 1 = a + 1 /\ a + 3 - 1 = a + 2 /\ a + 4 - 1 = a + 3
          /\ a + 5 - 1 = a + 4
      BY <2>2
    <3>4. /\ L[1] = w[a + 1 - 1] /\ L[2] = w[a + 2 - 1] /\ L[3] = w[a + 3 - 1]
          /\ L[4] = w[a + 4 - 1] /\ L[5] = w[a + 5 - 1]
      BY <1>1, <3>3
    <3>5. /\ u[1] = w[a] /\ u[2] = w[a + 1] /\ u[3] = w[a + 2] /\ u[4] = w[a + 3]
          /\ u[5] = w[a + 4]
      BY <3>2, <3>3, <3>4
    <3>6. u = <<H, T, T, P, Slash>> <=>
            u[1] = H /\ u[2] = T /\ u[3] = T /\ u[4] = P /\ u[5] = Slash
      <4>a. Byte \subseteq Int
        BY DEF Byte
      <4>1. u \in Seq(Int) /\ Len(u) = 5
        BY <3>2, <4>a, SeqMonotonic
      <4>2. ASSUME u[1] = H, u[2] = T, u[3] = T, u[4] = P, u[5] = Slash
            PROVE  u = <<H, T, T, P, Slash>>
        BY <4>1, <4>2 DEF H, T, P, Slash
      <4> QED BY <4>2
    <3> QED BY <3>a, <3>5, <3>6
  <2> QED BY <2>1, <2>2
<1>4. IsVersion(L) <=>
        /\ Len(L) >= 5 /\ SubSeq(L, 1, 5) = <<H, T, T, P, Slash>>
        /\ \E d \in 1 .. b - a + 1 :
             L[d] = Dot /\ IsDigits(SubSeq(L, 6, d - 1)) /\ IsDigits(After(L, d))
  BY <1>1 DEF IsVersion
<1>5. (\E d \in 1 .. b - a + 1 :
         L[d] = Dot /\ IsDigits(SubSeq(L, 6, d - 1)) /\ IsDigits(After(L, d))) <=>
      (\E m \in a .. b : w[m] = Dot /\ DigitsAt(w, a + 5, m - 1) /\ DigitsAt(w, m + 1, b))
  <2>1. ASSUME NEW d \in 1 .. b - a + 1,
               L[d] = Dot /\ IsDigits(SubSeq(L, 6, d - 1)) /\ IsDigits(After(L, d))
        PROVE  \E m \in a .. b : w[m] = Dot /\ DigitsAt(w, a + 5, m - 1) /\ DigitsAt(w, m + 1, b)
    <3>1. PICK m \in a .. b : m = a + d - 1 /\ a + d - 2 = m - 1 /\ a + d = m + 1
      OBVIOUS
    <3>2. w[m] = Dot /\ DigitsAt(w, a + 5, m - 1) /\ DigitsAt(w, m + 1, b)
      BY <1>1, <1>2, <2>1, <3>1
    <3> QED BY <3>2
  <2>2. ASSUME NEW m \in a .. b,
               w[m] = Dot /\ DigitsAt(w, a + 5, m - 1) /\ DigitsAt(w, m + 1, b)
        PROVE  \E d \in 1 .. b - a + 1 :
                 L[d] = Dot /\ IsDigits(SubSeq(L, 6, d - 1)) /\ IsDigits(After(L, d))
    <3>1. PICK d \in 1 .. b - a + 1 : m = a + d - 1 /\ a + d - 2 = m - 1 /\ a + d = m + 1
      <4>1. m - a + 1 \in 1 .. b - a + 1
        OBVIOUS
      <4> QED BY <4>1
    <3>2. L[d] = Dot /\ IsDigits(SubSeq(L, 6, d - 1)) /\ IsDigits(After(L, d))
      BY <1>1, <1>2, <2>2, <3>1
    <3> QED BY <3>2
  <2> QED BY <2>1, <2>2
<1> QED BY <1>3, <1>4, <1>5 DEF VersionAt, L

\* IsRequestLine of the first bytes of w.
LEMMA RequestLinePart ==
  ASSUME NEW w \in Seq(Byte), NEW b \in Nat, b <= Len(w)
  PROVE  IsRequestLine(SubSeq(w, 1, b)) <=> RequestLineAt(w, b)
<1> DEFINE L == SubSeq(w, 1, b)
<1>1. /\ L \in Seq(Byte) /\ Len(L) = b /\ DOMAIN L = 1 .. b
      /\ \A k \in 1 .. b : L[k] = w[k]
  <2>1. b - 1 + 1 = b /\ (IF 1 <= b THEN b ELSE 0) = b /\ \A k \in 1 .. b : 1 + k - 1 = k
    OBVIOUS
  <2> QED BY <2>1, Part
<1>2. ASSUME NEW i \in 1 .. b, NEW j \in 1 .. b, i < j
      PROVE  /\ IsName(Before(L, i)) <=> NameAt(w, 1, i - 1)
             /\ IsText(SubSeq(L, i + 1, j - 1)) <=> TextAt(w, i + 1, j - 1)
             /\ Contains(SubSeq(L, i + 1, j - 1), SP) <=> \E k \in i + 1 .. j - 1 : w[k] = SP
             /\ IsVersion(After(L, j)) <=> VersionAt(w, j + 1, b)
  <2>1. ASSUME NEW x \in Nat \ {0}, NEW y \in Nat, y <= b
        PROVE  SubSeq(L, x, y) = SubSeq(w, x, y)
    <3>1. y <= b - 1 + 1 /\ 1 + x - 1 = x /\ 1 + y - 1 = y /\ 1 \in Nat \ {0}
      BY <2>1
    <3>2. SubSeq(L, x, y) = SubSeq(w, 1 + x - 1, 1 + y - 1)
      BY <2>1, <3>1, PartOfPart
    <3> HIDE DEF L
    <3> QED BY <3>1, <3>2
  <2>2. i - 1 \in Nat /\ i + 1 \in Nat \ {0} /\ j - 1 \in Nat /\ j + 1 \in Nat \ {0} /\ b <= Len(w)
    OBVIOUS
  <2> HIDE DEF L
  <2>3. /\ Before(L, i) = SubSeq(w, 1, i - 1)
        /\ SubSeq(L, i + 1, j - 1) = SubSeq(w, i + 1, j - 1)
        /\ After(L, j) = SubSeq(w, j + 1, b)
    BY <1>1, <2>1, <2>2 DEF Before, After
  <2>4. /\ IsName(Before(L, i)) <=> NameAt(w, 1, i - 1)
        /\ IsText(SubSeq(L, i + 1, j - 1)) <=> TextAt(w, i + 1, j - 1)
    <3>1. i - 1 <= Len(w) /\ j - 1 <= Len(w)
      BY <2>2
    <3>2. IsName(SubSeq(w, 1, i - 1)) <=> NameAt(w, 1, i - 1)
      BY <2>2, <3>1, PartTexts
    <3>3. IsText(SubSeq(w, i + 1, j - 1)) <=> TextAt(w, i + 1, j - 1)
      BY <2>2, <3>1, PartTexts
    <3> QED BY <2>3, <3>2, <3>3
  <2>5. IsVersion(After(L, j)) <=> VersionAt(w, j + 1, b)
    BY <2>2, <2>3, VersionPart
  <2>6. Contains(SubSeq(w, i + 1, j - 1), SP) <=> \E k \in i + 1 .. j - 1 : w[k] = SP
    <3> DEFINE M == SubSeq(w, i + 1, j - 1)
               n == (j - 1) - (i + 1) + 1
    <3>1. /\ Len(M) = IF i + 1 <= j - 1 THEN n ELSE 0
          /\ \A k \in 1 .. n : M[k] = w[(i + 1) + k - 1]
          /\ \A k \in i + 1 .. j - 1 : M[k - (i + 1) + 1] = w[k] /\ k - (i + 1) + 1 \in 1 .. n
      BY <2>2, Part, SMTT(30)
    <3>2. Contains(M, SP) <=> \E k \in 1 .. Len(M) : M[k] = SP
      BY DEF Contains
    <3> HIDE DEF M
    <3>3. Contains(M, SP) <=> \E k \in i + 1 .. j - 1 : w[k] = SP
      <4>1. ASSUME NEW k \in 1 .. Len(M), M[k] = SP PROVE \E m \in i + 1 .. j - 1 : w[m] = SP
        <5>1. k \in 1 .. n /\ i + 1 <= j - 1 /\ (i + 1) + k - 1 \in i + 1 .. j - 1
          BY <3>1
        <5> QED BY <3>1, <4>1, <5>1
      <4>2. ASSUME NEW k \in i + 1 .. j - 1, w[k] = SP PROVE \E m \in 1 .. Len(M) : M[m] = SP
        <5>1. k - (i + 1) + 1 \in 1 .. n /\ Len(M) = n /\ M[k - (i + 1) + 1] = SP
          BY <3>1, <4>2
        <5> QED BY <5>1
      <4> QED BY <3>2, <4>1, <4>2
    <3> QED BY <3>3 DEF M
  <2> QED BY <2>3, <2>4, <2>5, <2>6
<1> HIDE DEF L
<1>3. IsRequestLine(L) <=>
        \E i, j \in 1 .. b :
          /\ i < j /\ L[i] = SP /\ L[j] = SP
          /\ IsName(Before(L, i))
          /\ IsText(SubSeq(L, i + 1, j - 1)) /\ ~Contains(SubSeq(L, i + 1, j - 1), SP)
          /\ IsVersion(After(L, j))
  BY <1>1 DEF IsRequestLine
<1>4. ASSUME NEW i \in 1 .. b, NEW j \in 1 .. b, i < j
      PROVE  /\ L[i] = SP <=> w[i] = SP
             /\ L[j] = SP <=> w[j] = SP
             /\ Contains(SubSeq(L, i + 1, j - 1), SP) <=> ~(\A k \in i + 1 .. j - 1 : w[k] # SP)
  BY <1>1, <1>2, <1>4
<1>5. ASSUME IsRequestLine(L) PROVE RequestLineAt(w, b)
  <2>1. PICK i \in 1 .. b, j \in 1 .. b :
          /\ i < j /\ L[i] = SP /\ L[j] = SP
          /\ IsName(Before(L, i))
          /\ IsText(SubSeq(L, i + 1, j - 1)) /\ ~Contains(SubSeq(L, i + 1, j - 1), SP)
          /\ IsVersion(After(L, j))
    BY <1>3, <1>5
  <2>2. /\ i < j /\ w[i] = SP /\ w[j] = SP /\ NameAt(w, 1, i - 1)
        /\ TextAt(w, i + 1, j - 1) /\ (\A k \in i + 1 .. j - 1 : w[k] # SP)
        /\ VersionAt(w, j + 1, b)
    BY <1>2, <1>4, <2>1
  <2> QED BY <2>2 DEF RequestLineAt
<1>6. ASSUME RequestLineAt(w, b) PROVE IsRequestLine(L)
  <2>1. PICK i \in 1 .. b, j \in 1 .. b :
          /\ i < j /\ w[i] = SP /\ w[j] = SP /\ NameAt(w, 1, i - 1)
          /\ TextAt(w, i + 1, j - 1) /\ (\A k \in i + 1 .. j - 1 : w[k] # SP)
          /\ VersionAt(w, j + 1, b)
    BY <1>6 DEF RequestLineAt
  <2>2. /\ i < j /\ L[i] = SP /\ L[j] = SP
        /\ IsName(Before(L, i))
        /\ IsText(SubSeq(L, i + 1, j - 1)) /\ ~Contains(SubSeq(L, i + 1, j - 1), SP)
        /\ IsVersion(After(L, j))
    BY <1>2, <1>4, <2>1
  <2> QED BY <1>3, <2>2
<1>7. IsRequestLine(L) <=> RequestLineAt(w, b)
  BY <1>5, <1>6
<1> QED BY <1>7 DEF L

\* The line of w that ends at e begins at a.
StartsLine(w, a, e) ==
  /\ a \in 1 .. e /\ (a = 1 \/ w[a - 1] = LF)
  /\ \A k \in a .. e - 1 : w[k] # LF

\* There is a line before the one before a.
Later(w, a) == \E k \in 1 .. a - 2 : w[k] = LF

\* A request line, a field or a continuation from a to the line feed at e.
GoodLine(w, a, e) ==
  /\ e > a /\ w[e - 1] = CR
  /\ \/ a = 1 /\ RequestLineAt(w, e - 2)
     \/ a > 1 /\ FieldAt(w, a, e - 2)
     \/ a > 1 /\ Later(w, a) /\ FoldAt(w, a, e - 2)

\* The first n bytes of w are a head.
HeadAt(w, n) ==
  /\ n >= 1 /\ w[n] = LF
  /\ \A e \in 1 .. n : \A a \in 1 .. e :
       w[e] = LF /\ StartsLine(w, a, e) =>
         IF e = n THEN a > 1 /\ e = a + 1 /\ w[a] = CR ELSE GoodLine(w, a, e)

\* A line has one beginning.
LEMMA StartUnique ==
  ASSUME NEW w, NEW e \in Nat, NEW a, NEW b, StartsLine(w, a, e), StartsLine(w, b, e)
  PROVE  a = b
BY DEF StartsLine

\* Where the lines of the first n bytes of w end and begin.
LEMMA LinePlaces ==
  ASSUME NEW w \in Seq(Byte), NEW n \in Nat, n <= Len(w)
  PROVE  /\ LineEnds(SubSeq(w, 1, n)) = {e \in 1 .. n : w[e] = LF}
         /\ \A e \in LineEnds(SubSeq(w, 1, n)) :
              /\ StartsLine(w, LineStart(SubSeq(w, 1, n), e), e)
              /\ LineStart(SubSeq(w, 1, n), e) \in 1 .. e
<1> DEFINE s == SubSeq(w, 1, n)
<1>1. DOMAIN s = 1 .. n /\ \A k \in 1 .. n : s[k] = w[k]
  <2>1. n - 1 + 1 = n /\ \A k \in 1 .. n : 1 + k - 1 = k
    OBVIOUS
  <2>2. DOMAIN s = 1 .. n - 1 + 1 /\ \A k \in 1 .. n - 1 + 1 : s[k] = w[1 + k - 1]
    BY Part
  <2> HIDE DEF s
  <2> QED BY <2>1, <2>2
<1> HIDE DEF s
<1>2. LineEnds(s) = {e \in 1 .. n : w[e] = LF}
  BY <1>1 DEF LineEnds
<1>3. ASSUME NEW e \in LineEnds(s)
      PROVE  StartsLine(w, LineStart(s, e), e) /\ LineStart(s, e) \in 1 .. e
  <2>1. PICK D : D = {0} \cup {d \in LineEnds(s) : d < e}
    OBVIOUS
  <2>2. D \in SUBSET Nat /\ D # {} /\ e \in Nat /\ \A d \in D : d <= e
    BY <1>2, <2>1
  <2>3. Max(D) \in D /\ \A d \in D : d <= Max(D)
    BY <2>2, MaxOf
  <2>4. PICK m \in D : m = Max(D)
    BY <2>3
  <2>5. LineStart(s, e) = m + 1
    BY <2>1, <2>4 DEF LineStart
  <2>6. m \in Nat /\ m < e /\ (m # 0 => w[m] = LF)
    BY <1>2, <2>1, <2>2
  <2>7. ASSUME NEW k \in m + 1 .. e - 1 PROVE w[k] # LF
    <3> SUFFICES ASSUME w[k] = LF PROVE FALSE
      OBVIOUS
    <3>1. k \in D /\ ~(k <= m)
      BY <1>2, <2>1, <2>6
    <3> QED BY <2>3, <2>4, <3>1
  <2>8. (m + 1) - 1 = m /\ m + 1 \in 1 .. e
    BY <2>6, <1>2
  <2> QED BY <2>5, <2>6, <2>7, <2>8 DEF StartsLine
<1> QED BY <1>2, <1>3 DEF s

\* IsHead in terms of places.
LEMMA HeadPlaces ==
  ASSUME NEW w \in Seq(Byte), NEW n \in Nat, n <= Len(w)
  PROVE  IsHead(SubSeq(w, 1, n)) <=> HeadAt(w, n)
<1> DEFINE s == SubSeq(w, 1, n)
<1>1. s \in Seq(Byte) /\ Len(s) = n /\ \A k \in 1 .. n : s[k] = w[k]
  <2>1. n - 1 + 1 = n /\ (\A k \in 1 .. n : 1 + k - 1 = k) /\ (IF 1 <= n THEN n ELSE 0) = n
    OBVIOUS
  <2>2. /\ s \in Seq(Byte) /\ Len(s) = IF 1 <= n THEN n - 1 + 1 ELSE 0
        /\ \A k \in 1 .. n - 1 + 1 : s[k] = w[1 + k - 1]
    BY Part
  <2> HIDE DEF s
  <2> QED BY <2>1, <2>2
<1>2. /\ LineEnds(s) = {e \in 1 .. n : w[e] = LF}
      /\ \A e \in LineEnds(s) : StartsLine(w, LineStart(s, e), e) /\ LineStart(s, e) \in 1 .. e
  BY LinePlaces
<1>3. (s # <<>> /\ Last(s) = LF) <=> (n >= 1 /\ w[n] = LF)
  <2>1. s # <<>> <=> n >= 1
    BY <1>1, EmptySeq
  <2>2. n >= 1 => Last(s) = w[n]
    <3> HIDE DEF s
    <3> QED BY <1>1 DEF Last
  <2> QED BY <2>1, <2>2
<1>4. ASSUME NEW e \in LineEnds(s), NEW a \in 1 .. e, a = LineStart(s, e)
      PROVE  /\ e \in 1 .. n
             /\ IsFirst(s, e) <=> a = 1
             /\ a > 1 => (~IsSecond(s, e) <=> Later(w, a))
             /\ e > a => s[e - 1] = w[e - 1]
             /\ e > a => (IsField(Line(s, e)) <=> FieldAt(w, a, e - 2))
             /\ e > a => (IsFold(Line(s, e)) <=> FoldAt(w, a, e - 2))
             /\ e > a /\ a = 1 => (IsRequestLine(Line(s, e)) <=> RequestLineAt(w, e - 2))
             /\ e > a => (Line(s, e) = <<>> <=> e = a + 1)
  <2>1. e \in 1 .. n /\ w[e] = LF /\ StartsLine(w, a, e)
    BY <1>2, <1>4
  <2>2. IsFirst(s, e) <=> a = 1
    BY <1>4 DEF IsFirst
  <2>3. ASSUME a > 1 PROVE ~IsSecond(s, e) <=> Later(w, a)
    <3>1. PICK d \in 1 .. n : d = a - 1 /\ w[d] = LF /\ d \in LineEnds(s)
      BY <1>2, <2>1, <2>3 DEF StartsLine
    <3>2. PICK b \in 1 .. d : b = LineStart(s, d) /\ StartsLine(w, b, d)
      BY <1>2, <3>1
    <3>3. IsSecond(s, e) <=> b = 1
      BY <1>4, <2>2, <2>3, <3>1, <3>2 DEF IsSecond, IsFirst
    <3>4. b = 1 <=> ~Later(w, a)
      BY <3>1, <3>2 DEF StartsLine, Later
    <3> QED BY <3>3, <3>4
  <2>4. ASSUME e > a
        PROVE  /\ e - 2 \in Nat /\ e - 2 <= n /\ e - 2 <= Len(w) /\ e - 1 \in 1 .. n
               /\ Line(s, e) = SubSeq(w, a, e - 2)
    <3>1. e - 2 \in Nat /\ e - 2 <= n /\ e - 2 <= Len(w) /\ e - 1 \in 1 .. n
      BY <2>1, <2>4
    <3>2. n - 1 + 1 = n /\ 1 + a - 1 = a /\ 1 + (e - 2) - 1 = e - 2 /\ 1 \in Nat \ {0} /\ a \in Nat \ {0}
      BY <3>1
    <3>3. SubSeq(SubSeq(w, 1, n), a, e - 2) = SubSeq(w, 1 + a - 1, 1 + (e - 2) - 1)
      BY <3>1, <3>2, PartOfPart
    <3>4. Line(s, e) = SubSeq(w, a, e - 2)
      <4>1. Line(s, e) = SubSeq(s, a, e - 2)
        BY <1>4 DEF Line
      <4> QED BY <3>2, <3>3, <4>1
    <3> QED BY <3>1, <3>4
  <2>5. ASSUME e > a
        PROVE  /\ s[e - 1] = w[e - 1]
               /\ IsField(Line(s, e)) <=> FieldAt(w, a, e - 2)
               /\ IsFold(Line(s, e)) <=> FoldAt(w, a, e - 2)
               /\ a = 1 => (IsRequestLine(Line(s, e)) <=> RequestLineAt(w, e - 2))
               /\ Line(s, e) = <<>> <=> e = a + 1
    <3> HIDE DEF s
    <3>1. s[e - 1] = w[e - 1]
      BY <1>1, <2>4, <2>5
    <3>2. /\ IsField(Line(s, e)) <=> FieldAt(w, a, e - 2)
          /\ IsFold(Line(s, e)) <=> FoldAt(w, a, e - 2)
      <4>1. a \in Nat \ {0} /\ e - 2 \in Nat /\ e - 2 <= Len(w)
        BY <2>1, <2>4, <2>5
      <4> QED BY <2>4, <2>5, <4>1, FieldPart
    <3>3. a = 1 => (IsRequestLine(Line(s, e)) <=> RequestLineAt(w, e - 2))
      BY <2>4, <2>5, RequestLinePart
    <3>4. Line(s, e) = <<>> <=> e = a + 1
      <4>1. PICK l : l = SubSeq(w, a, e - 2)
        OBVIOUS
      <4>2. l \in Seq(Byte) /\ Len(l) = IF a <= e - 2 THEN (e - 2) - a + 1 ELSE 0
        BY <2>4, <2>5, <4>1, Part
      <4>3. l = <<>> <=> Len(l) = 0
        BY <4>2, EmptySeq
      <4>4. Len(l) = 0 <=> e = a + 1
        BY <2>1, <2>5, <4>2
      <4> QED BY <2>4, <2>5, <4>1, <4>3, <4>4
    <3> QED BY <3>1, <3>2, <3>3, <3>4
  <2> QED BY <2>1, <2>2, <2>3, <2>5
<1> HIDE DEF s
<1> DEFINE LineOK(e) ==
             /\ e > LineStart(s, e) /\ s[e - 1] = CR
             /\ \/ IsFirst(s, e) /\ e # Len(s) /\ IsRequestLine(Line(s, e))
                \/ ~IsFirst(s, e) /\ e # Len(s) /\ IsField(Line(s, e))
                \/ ~IsFirst(s, e) /\ e # Len(s) /\ ~IsSecond(s, e) /\ IsFold(Line(s, e))
                \/ ~IsFirst(s, e) /\ e = Len(s) /\ Line(s, e) = <<>>
           PlaceOK(e, a) ==
             IF e = n THEN a > 1 /\ e = a + 1 /\ w[a] = CR ELSE GoodLine(w, a, e)
<1>5. ASSUME NEW e \in LineEnds(s), NEW a \in 1 .. e, a = LineStart(s, e)
      PROVE  LineOK(e) <=> PlaceOK(e, a)
  <2>1. CASE ~(e > a)
    BY <1>5, <2>1 DEF GoodLine
  <2>2. CASE e > a
    <3>1. s[e - 1] = w[e - 1] /\ e \in 1 .. n /\ Len(s) = n /\ (e = a + 1 => e - 1 = a)
      <4>1. e \in 1 .. n /\ a \in 1 .. e
        BY <1>2
      <4>2. s[e - 1] = w[e - 1]
        BY <1>4, <1>5, <2>2
      <4> QED BY <1>1, <4>1, <4>2
    <3>2. /\ IsFirst(s, e) <=> a = 1
          /\ a > 1 => (~IsSecond(s, e) <=> Later(w, a))
          /\ IsField(Line(s, e)) <=> FieldAt(w, a, e - 2)
          /\ IsFold(Line(s, e)) <=> FoldAt(w, a, e - 2)
          /\ a = 1 => (IsRequestLine(Line(s, e)) <=> RequestLineAt(w, e - 2))
          /\ Line(s, e) = <<>> <=> e = a + 1
      BY <1>4, <1>5, <2>2
    <3>3. a = 1 \/ a > 1
      OBVIOUS
    <3>4. CASE e = n
      BY <1>5, <2>2, <3>1, <3>2, <3>3, <3>4
    <3>5. CASE e # n
      BY <1>5, <2>2, <3>1, <3>2, <3>3, <3>5 DEF GoodLine
    <3> QED BY <3>4, <3>5
  <2> QED BY <2>1, <2>2
<1>6. (\A e \in LineEnds(s) : LineOK(e)) <=>
      \A e \in 1 .. n : \A a \in 1 .. e : w[e] = LF /\ StartsLine(w, a, e) => PlaceOK(e, a)
  <2> HIDE DEF LineOK, PlaceOK
  <2>1. ASSUME \A e \in LineEnds(s) : LineOK(e),
               NEW e \in 1 .. n, NEW a \in 1 .. e, w[e] = LF, StartsLine(w, a, e)
        PROVE  PlaceOK(e, a)
    <3>1. e \in LineEnds(s)
      BY <1>2, <2>1
    <3>2. a = LineStart(s, e)
      BY <1>2, <2>1, <3>1, StartUnique
    <3> QED BY <1>5, <2>1, <3>1, <3>2
  <2>2. ASSUME \A e \in 1 .. n : \A a \in 1 .. e :
                 w[e] = LF /\ StartsLine(w, a, e) => PlaceOK(e, a),
               NEW e \in LineEnds(s)
        PROVE  LineOK(e)
    <3>1. PICK a \in 1 .. e : a = LineStart(s, e) /\ StartsLine(w, a, e)
      BY <1>2
    <3>2. e \in 1 .. n /\ w[e] = LF
      BY <1>2
    <3> QED BY <1>5, <2>2, <3>1, <3>2
  <2> QED BY <2>1, <2>2
<1>7. IsHead(s) <=> HeadAt(w, n)
  BY <1>3, <1>6 DEF IsHead, HeadAt
<1> QED BY <1>7 DEF s

-----------------------------------------------------------------------------
(***************************************************************************)
(* What each state of the parser has read, and what a byte makes of it     *)
(***************************************************************************)

\* What the codes have to do with each other.
LEMMA Codes ==
  /\ \A c \in Byte : IsToken(c) =>
       ~is_ctl(c) /\ c # SP /\ c # HT /\ c # CR /\ c # LF /\ c # Colon
  /\ \A c \in Byte : is_digit(c) => c # Dot /\ c # CR /\ c # LF /\ c # SP
  /\ is_ctl(CR) /\ is_ctl(LF) /\ is_ctl(HT) /\ ~is_ctl(SP) /\ ~is_ctl(Colon)
  /\ SP # CR /\ HT # CR /\ SP # LF /\ HT # LF /\ CR # LF /\ Colon # CR /\ Colon # LF /\ Dot # CR
  /\ Dot # LF /\ H # CR /\ T # CR /\ P # CR /\ Slash # CR /\ H # LF /\ T # LF /\ P # LF /\ Slash # LF
BY DEF IsToken, is_tspecial, is_ctl, is_digit, is_char, SP, HT, CR, LF, Colon, Dot, H, T, P, Slash, Byte

\* The method and the address before the space at j.
AddressAt(w, j) ==
  \E i \in 1 .. j - 1 :
    /\ w[i] = SP /\ w[j] = SP
    /\ NameAt(w, 1, i - 1) /\ TextAt(w, i + 1, j - 1) /\ \A k \in i + 1 .. j - 1 : w[k] # SP

HttpAt(w, a) == w[a] = H /\ w[a + 1] = T /\ w[a + 2] = T /\ w[a + 3] = P /\ w[a + 4] = Slash

\* A field or a continuation, as far as p.
HeaderTextAt(w, a, p) == a > 1 /\ (FieldAt(w, a, p) \/ (Later(w, a) /\ FoldAt(w, a, p)))

\* What the parser has read of the line that begins at a when it is in state st after p bytes.
ReadOf(st, w, a, p) ==
  /\ st = "method_start" => a = 1 /\ p = 0
  /\ st = "method" => a = 1 /\ NameAt(w, 1, p)
  /\ st = "uri" =>
       a = 1 /\ \E i \in 1 .. p : /\ w[i] = SP /\ NameAt(w, 1, i - 1) /\ TextAt(w, i + 1, p)
                                  /\ \A k \in i + 1 .. p : w[k] # SP
  /\ st = "http_version_h" => a = 1 /\ AddressAt(w, p)
  /\ st = "http_version_t_1" => a = 1 /\ AddressAt(w, p - 1) /\ w[p] = H
  /\ st = "http_version_t_2" => a = 1 /\ AddressAt(w, p - 2) /\ w[p - 1] = H /\ w[p] = T
  /\ st = "http_version_p" =>
       a = 1 /\ AddressAt(w, p - 3) /\ w[p - 2] = H /\ w[p - 1] = T /\ w[p] = T
  /\ st = "http_version_slash" =>
       a = 1 /\ AddressAt(w, p - 4) /\ w[p - 3] = H /\ w[p - 2] = T /\ w[p - 1] = T /\ w[p] = P
  /\ st = "http_version_major_start" => a = 1 /\ AddressAt(w, p - 5) /\ HttpAt(w, p - 4)
  /\ st = "http_version_major" =>
       a = 1 /\ \E j \in 1 .. p : AddressAt(w, j) /\ HttpAt(w, j + 1) /\ DigitsAt(w, j + 6, p)
  /\ st = "http_version_minor_start" =>
       a = 1 /\ \E j \in 1 .. p : /\ AddressAt(w, j) /\ HttpAt(w, j + 1)
                                  /\ DigitsAt(w, j + 6, p - 1) /\ w[p] = Dot
  /\ st = "http_version_minor" =>
       a = 1 /\ \E j, d \in 1 .. p : /\ AddressAt(w, j) /\ HttpAt(w, j + 1)
                                     /\ DigitsAt(w, j + 6, d - 1) /\ w[d] = Dot
                                     /\ DigitsAt(w, d + 1, p)
  /\ st = "expecting_newline_1" => a = 1 /\ w[p] = CR /\ RequestLineAt(w, p - 1)
  /\ st = "header_line_start" => a > 1 /\ a = p + 1
  /\ st = "header_name" => a > 1 /\ NameAt(w, a, p)
  /\ st = "space_before_header_value" => a > 1 /\ NameAt(w, a, p - 1) /\ w[p] = Colon
  /\ st = "header_value" => HeaderTextAt(w, a, p) /\ \E k \in a .. p : w[k] \notin {SP, HT}
  /\ st = "header_lws" => a > 1 /\ Later(w, a) /\ BlankAt(w, a, p)
  /\ st = "expecting_newline_2" => w[p] = CR /\ HeaderTextAt(w, a, p - 1)
  /\ st = "expecting_newline_3" => a > 1 /\ a = p /\ w[p] = CR

\* However the line that begins at a goes on after p, it is none of a head.
Doomed(w, a, p) ==
  \A e \in p .. Len(w) :
    w[e] = LF => ~GoodLine(w, a, e) /\ ~(a > 1 /\ e = a + 1 /\ w[a] = CR)

\* A request line contains no CR, and its method and address end where AddressAt finds them.
LEMMA RequestLineUnique ==
  ASSUME NEW w \in Seq(Byte), NEW b \in Nat, b <= Len(w), RequestLineAt(w, b)
  PROVE  /\ \A k \in 1 .. b : w[k] # CR
         /\ \E i \in 1 .. b : /\ i > 1 /\ w[i] = SP /\ \A k \in 1 .. i - 1 : IsToken(w[k])
                              /\ \E j \in i + 1 .. b : w[j] = SP /\ TextAt(w, i + 1, j - 1)
         /\ \A j \in 1 .. Len(w) : AddressAt(w, j) => j <= b /\ VersionAt(w, j + 1, b)
<1>1. PICK i \in 1 .. b, j \in 1 .. b :
        /\ i < j /\ w[i] = SP /\ w[j] = SP
        /\ NameAt(w, 1, i - 1) /\ TextAt(w, i + 1, j - 1) /\ \A k \in i + 1 .. j - 1 : w[k] # SP
        /\ VersionAt(w, j + 1, b)
  BY DEF RequestLineAt
<1>2. PICK d \in j + 1 .. b :
        /\ j + 5 <= b /\ w[j + 1] = H /\ w[j + 2] = T /\ w[j + 3] = T /\ w[j + 4] = P
        /\ w[j + 5] = Slash
        /\ w[d] = Dot /\ DigitsAt(w, j + 6, d - 1) /\ DigitsAt(w, d + 1, b)
  <2>1. j + 1 + 4 = j + 5 /\ j + 1 + 1 = j + 2 /\ j + 1 + 2 = j + 3 /\ j + 1 + 3 = j + 4
        /\ j + 1 + 5 = j + 6
    OBVIOUS
  <2> QED BY <1>1, <2>1 DEF VersionAt
<1>3. \A k \in 1 .. b : w[k] \in Byte
  BY LenProperties
<1>4. ASSUME NEW k \in 1 .. b PROVE w[k] # CR
  <2>1. CASE k <= i - 1
    BY <1>1, <1>3, <2>1, Codes DEF NameAt
  <2>2. CASE k = i \/ k = j
    BY <1>1, <2>2, Codes
  <2>3. CASE i < k /\ k < j
    <3>1. k \in i + 1 .. j - 1
      BY <2>3
    <3> QED BY <1>1, <1>3, <3>1, Codes DEF TextAt
  <2>4. CASE k \in {j + 1, j + 2, j + 3, j + 4, j + 5, d}
    BY <1>2, <2>4, Codes
  <2>5. CASE k >= j + 6 /\ k # d
    <3>1. k \in j + 6 .. d - 1 \/ k \in d + 1 .. b
      BY <2>5
    <3> QED BY <1>2, <1>3, <3>1, Codes DEF DigitsAt
  <2>6. \/ k <= i - 1 \/ k = i \/ k = j \/ (i < k /\ k < j)
        \/ k \in {j + 1, j + 2, j + 3, j + 4, j + 5} \/ k >= j + 6
    OBVIOUS
  <2> QED BY <2>1, <2>2, <2>3, <2>4, <2>5, <2>6
<1>5. ASSUME NEW y \in 1 .. Len(w), AddressAt(w, y) PROVE y <= b /\ VersionAt(w, y + 1, b)
  <2>1. PICK x \in 1 .. y - 1 :
          /\ w[x] = SP /\ w[y] = SP
          /\ NameAt(w, 1, x - 1) /\ TextAt(w, x + 1, y - 1) /\ \A k \in x + 1 .. y - 1 : w[k] # SP
    BY <1>5 DEF AddressAt
  <2>2. (\A k \in 1 .. i - 1 : w[k] # SP) /\ (\A k \in 1 .. x - 1 : w[k] # SP)
    <3>1. \A k \in 1 .. x - 1 : w[k] \in Byte
      BY LenProperties
    <3> QED BY <1>1, <1>3, <2>1, <3>1, Codes DEF NameAt
  <2>3. x = i
    BY <1>1, <2>1, <2>2
  <2>4. y = j
    BY <1>1, <2>1, <2>3
  <2> QED BY <1>1, <2>4
<1>6. i > 1 /\ (\A k \in 1 .. i - 1 : IsToken(w[k])) /\ j \in i + 1 .. b
  BY <1>1 DEF NameAt
<1> QED BY <1>1, <1>4, <1>5, <1>6

\* A field or a continuation holds neither CR nor LF.
LEMMA HeaderTextPlain ==
  ASSUME NEW w \in Seq(Byte), NEW a \in Nat \ {0}, NEW b \in Nat, b <= Len(w),
         FieldAt(w, a, b) \/ FoldAt(w, a, b)
  PROVE  a <= b /\ \A k \in a .. b : w[k] # CR /\ w[k] # LF
<1>1. \A k \in a .. b : w[k] \in Byte
  BY LenProperties
<1>2. CASE FieldAt(w, a, b)
  <2>1. PICK i \in a .. b : w[i] = Colon /\ NameAt(w, a, i - 1) /\ TextAt(w, i + 1, b)
    BY <1>2 DEF FieldAt
  <2>2. ASSUME NEW k \in a .. b PROVE w[k] # CR /\ w[k] # LF
    <3>1. k \in a .. i - 1 \/ k = i \/ k \in i + 1 .. b
      OBVIOUS
    <3> QED BY <1>1, <2>1, <3>1, Codes DEF NameAt, TextAt
  <2> QED BY <2>1, <2>2
<1>3. CASE FoldAt(w, a, b)
  <2>1. PICK i \in a .. b : BlankAt(w, a, i) /\ TextAt(w, i + 1, b)
    BY <1>3 DEF FoldAt
  <2>2. ASSUME NEW k \in a .. b PROVE w[k] # CR /\ w[k] # LF
    <3>1. k \in a .. i \/ k \in i + 1 .. b
      OBVIOUS
    <3> QED BY <1>1, <2>1, <3>1, Codes DEF BlankAt, TextAt
  <2> QED BY <2>1, <2>2
<1> QED BY <1>2, <1>3

\* The context of every step: a line begins at a and goes on to p, and the next byte is c.
LineOpen(w, a, p, c) ==
  /\ w \in Seq(Byte) /\ p \in Nat /\ p < Len(w) /\ a \in 1 .. p + 1
  /\ c \in Byte /\ c = w[p + 1] /\ \A k \in a .. p : w[k] # LF

\* The places where an open line may end.
LEMMA EndPlaces ==
  ASSUME NEW w, NEW a, NEW p, NEW c, LineOpen(w, a, p, c), NEW e \in p + 1 .. Len(w)
  PROVE  e \in Nat /\ e - 2 <= Len(w) /\ (e > a => e - 2 \in Nat) /\ e >= a
BY DEF LineOpen

\* What a byte makes of a line in the states of the method.
LEMMA MethodReads ==
  ASSUME NEW w, NEW a, NEW p, NEW c, LineOpen(w, a, p, c)
  PROVE  /\ ReadOf("method_start", w, a, p) =>
              IF IsToken(c) THEN ReadOf("method", w, a, p + 1) ELSE Doomed(w, a, p + 1)
         /\ ReadOf("method", w, a, p) =>
              IF c = SP THEN ReadOf("uri", w, a, p + 1)
              ELSE IF IsToken(c) THEN ReadOf("method", w, a, p + 1) ELSE Doomed(w, a, p + 1)
<1> USE DEF LineOpen
<1>1. ASSUME a = 1, p = 0, IsToken(c) PROVE ReadOf("method", w, a, p + 1)
  <2>1. NameAt(w, 1, p + 1)
    BY <1>1 DEF NameAt
  <2> QED BY <1>1, <2>1 DEF ReadOf
<1>2. ASSUME a = 1, NameAt(w, 1, p), IsToken(c) PROVE ReadOf("method", w, a, p + 1)
  <2>1. NameAt(w, 1, p + 1)
    BY <1>2 DEF NameAt
  <2> QED BY <1>2, <2>1 DEF ReadOf
<1>3. ASSUME a = 1, NameAt(w, 1, p), c = SP PROVE ReadOf("uri", w, a, p + 1)
  <2>1. PICK i \in 1 .. p + 1 : i = p + 1 /\ i - 1 = p
    OBVIOUS
  <2>2. w[i] = SP /\ NameAt(w, 1, i - 1)
    BY <1>3, <2>1
  <2>3. i + 1 .. p + 1 = {}
    BY <2>1
  <2>4. TextAt(w, i + 1, p + 1) /\ \A k \in i + 1 .. p + 1 : w[k] # SP
    BY <2>3 DEF TextAt
  <2> QED BY <1>3, <2>2, <2>4 DEF ReadOf
<1>4. ASSUME a = 1, p = 0 \/ (NameAt(w, 1, p) /\ c # SP), ~IsToken(c) PROVE Doomed(w, a, p + 1)
  <2> SUFFICES ASSUME NEW e \in p + 1 .. Len(w), GoodLine(w, 1, e) PROVE FALSE
    BY <1>4 DEF Doomed
  <2>1. e > 1 /\ RequestLineAt(w, e - 2) /\ e - 2 \in Nat /\ e - 2 <= Len(w)
    BY EndPlaces, <1>4 DEF GoodLine
  <2>2. PICK i \in 1 .. e - 2 : i > 1 /\ w[i] = SP /\ \A k \in 1 .. i - 1 : IsToken(w[k])
    BY <2>1, RequestLineUnique
  <2>3. w[1] \in Byte /\ \A k \in 1 .. p : w[k] \in Byte
    BY LenProperties
  <2>4. CASE p = 0
    BY <1>4, <2>2, <2>4
  <2>5. CASE p # 0 /\ NameAt(w, 1, p) /\ c # SP
    <3>1. ~(i <= p)
      BY <2>2, <2>3, <2>5, Codes DEF NameAt
    <3>2. i # p + 1
      BY <2>2, <2>5
    <3>3. p + 1 \in 1 .. i - 1
      BY <3>1, <3>2
    <3> QED BY <1>4, <2>2, <3>3
  <2> QED BY <1>4, <2>4, <2>5
<1>5. NameAt(w, 1, p) => p # 0
  BY DEF NameAt
<1> QED BY <1>1, <1>2, <1>3, <1>4 DEF ReadOf

\* The same in the state of the address.
LEMMA UriReads ==
  ASSUME NEW w, NEW a, NEW p, NEW c, LineOpen(w, a, p, c), ReadOf("uri", w, a, p)
  PROVE  IF c = SP THEN ReadOf("http_version_h", w, a, p + 1)
         ELSE IF ~is_ctl(c) THEN ReadOf("uri", w, a, p + 1) ELSE Doomed(w, a, p + 1)
<1> USE DEF LineOpen
<1>1. a = 1
  BY DEF ReadOf
<1>2. PICK i \in 1 .. p : /\ w[i] = SP /\ NameAt(w, 1, i - 1) /\ TextAt(w, i + 1, p)
                          /\ \A k \in i + 1 .. p : w[k] # SP
  BY DEF ReadOf
<1>3. CASE c = SP
  <2>1. p + 1 - 1 = p
    OBVIOUS
  <2>2. AddressAt(w, p + 1)
    BY <1>2, <1>3, <2>1 DEF AddressAt
  <2> QED BY <1>1, <1>3, <2>2 DEF ReadOf
<1>4. CASE c # SP /\ ~is_ctl(c)
  <2>1. i \in 1 .. p + 1 /\ TextAt(w, i + 1, p + 1) /\ \A k \in i + 1 .. p + 1 : w[k] # SP
    BY <1>2, <1>4 DEF TextAt
  <2> QED BY <1>1, <1>2, <1>4, <2>1 DEF ReadOf
<1>5. CASE c # SP /\ is_ctl(c)
  <2> SUFFICES ASSUME NEW e \in p + 1 .. Len(w), GoodLine(w, 1, e) PROVE FALSE
    BY <1>1, <1>5 DEF Doomed
  <2>1. e > 1 /\ RequestLineAt(w, e - 2) /\ e - 2 \in Nat /\ e - 2 <= Len(w)
    BY EndPlaces, <1>1 DEF GoodLine
  <2>2. PICK x \in 1 .. e - 2 :
          /\ x > 1 /\ w[x] = SP /\ \A k \in 1 .. x - 1 : IsToken(w[k])
          /\ \E j \in x + 1 .. e - 2 : w[j] = SP /\ TextAt(w, x + 1, j - 1)
    BY <2>1, RequestLineUnique
  <2>3. PICK j \in x + 1 .. e - 2 : w[j] = SP /\ TextAt(w, x + 1, j - 1)
    BY <2>2
  <2>4. \A k \in 1 .. Len(w) : w[k] \in Byte
    BY LenProperties
  <2>5. (\A k \in 1 .. x - 1 : w[k] # SP) /\ (\A k \in 1 .. i - 1 : w[k] # SP)
    <3>1. ASSUME NEW k \in 1 .. x - 1 PROVE w[k] # SP
      <4>1. IsToken(w[k])
        BY <2>2, <3>1
      <4>2. w[k] \in Byte
        BY <2>1, <2>2, <2>4, <3>1
      <4> QED BY <4>1, <4>2, Codes
    <3>2. ASSUME NEW k \in 1 .. i - 1 PROVE w[k] # SP
      <4>1. IsToken(w[k])
        BY <1>2, <3>2 DEF NameAt
      <4>2. w[k] \in Byte
        BY <1>2, <2>4, <3>2
      <4> QED BY <4>1, <4>2, Codes
    <3> QED BY <3>1, <3>2
  <2>6. x = i
    BY <1>2, <2>2, <2>5
  <2>7. ~(j <= p)
    BY <1>2, <2>3, <2>6
  <2>8. j # p + 1
    BY <1>5, <2>3
  <2>9. p + 1 \in x + 1 .. j - 1
    BY <2>6, <2>7, <2>8
  <2> QED BY <1>5, <2>3, <2>9 DEF TextAt
<1> QED BY <1>3, <1>4, <1>5

\* A request line that goes on with another byte than the version has there.
LEMMA LiteralDoomed ==
  ASSUME NEW w, NEW p, NEW c, LineOpen(w, 1, p, c), NEW m \in 0 .. 4, AddressAt(w, p - m),
         p - m \in Nat, c # <<H, T, T, P, Slash>>[m + 1]
  PROVE  Doomed(w, 1, p + 1)
<1> USE DEF LineOpen
<1> SUFFICES ASSUME NEW e \in p + 1 .. Len(w), GoodLine(w, 1, e) PROVE FALSE
  BY DEF Doomed
<1>1. e > 1 /\ RequestLineAt(w, e - 2) /\ e - 2 \in Nat /\ e - 2 <= Len(w)
  BY EndPlaces DEF GoodLine
<1>2. p - m \in 1 .. Len(w)
  BY DEF AddressAt
<1>3. VersionAt(w, p - m + 1, e - 2)
  BY <1>1, <1>2, RequestLineUnique
<1>4. m \in {0, 1, 2, 3, 4} /\ c = w[p + 1]
  OBVIOUS
<1>5. /\ m = 0 => p - m + 1 = p + 1
      /\ m = 1 => p - m + 1 + 1 = p + 1
      /\ m = 2 => p - m + 1 + 2 = p + 1
      /\ m = 3 => p - m + 1 + 3 = p + 1
      /\ m = 4 => p - m + 1 + 4 = p + 1
  OBVIOUS
<1>6. /\ w[p - m + 1] = H /\ w[p - m + 1 + 1] = T /\ w[p - m + 1 + 2] = T
      /\ w[p - m + 1 + 3] = P /\ w[p - m + 1 + 4] = Slash
  BY <1>3 DEF VersionAt
<1>7. CASE m = 0
  BY <1>4, <1>5, <1>6, <1>7
<1>8. CASE m = 1
  BY <1>4, <1>5, <1>6, <1>8
<1>9. CASE m = 2
  BY <1>4, <1>5, <1>6, <1>9
<1>10. CASE m = 3
  BY <1>4, <1>5, <1>6, <1>10
<1>11. CASE m = 4
  BY <1>4, <1>5, <1>6, <1>11
<1> QED BY <1>4, <1>7, <1>8, <1>9, <1>10, <1>11

\* The same in the states that expect the bytes of HTTP/.
LEMMA LiteralReads ==
  ASSUME NEW w, NEW a, NEW p, NEW c, LineOpen(w, a, p, c), NEW l \in Literal, l[2] # LF,
         ReadOf(l[1], w, a, p)
  PROVE  IF c = l[2] THEN ReadOf(l[3], w, a, p + 1) ELSE Doomed(w, a, p + 1)
<1> USE DEF LineOpen
<1>1. \/ l = <<"http_version_h", H, "http_version_t_1">>
      \/ l = <<"http_version_t_1", T, "http_version_t_2">>
      \/ l = <<"http_version_t_2", T, "http_version_p">>
      \/ l = <<"http_version_p", P, "http_version_slash">>
      \/ l = <<"http_version_slash", Slash, "http_version_major_start">>
  BY DEF Literal
<1>2. /\ p + 1 - 1 = p /\ p + 1 - 2 = p - 1 /\ p + 1 - 3 = p - 2 /\ p + 1 - 4 = p - 3
      /\ p + 1 - 5 = p - 4
      /\ p - 0 = p /\ p - 3 + 1 = p - 2 /\ p - 3 + 2 = p - 1 /\ p - 3 + 3 = p /\ p - 3 + 4 = p + 1
  OBVIOUS
<1>3. ASSUME NEW x \in Int, AddressAt(w, x) PROVE x \in Nat
  BY <1>3 DEF AddressAt
<1>4. CASE l = <<"http_version_h", H, "http_version_t_1">>
  <2>1. a = 1 /\ AddressAt(w, p)
    BY <1>4 DEF ReadOf
  <2>2. c = H => ReadOf("http_version_t_1", w, a, p + 1)
    BY <1>2, <2>1 DEF ReadOf
  <2>3. c # H => Doomed(w, a, p + 1)
    <3>1. <<H, T, T, P, Slash>>[0 + 1] = H /\ 0 \in 0 .. 4 /\ p - 0 \in Nat
      BY <2>1
    <3>2. LineOpen(w, 1, p, c) /\ AddressAt(w, p - 0)
      BY <1>2, <2>1
    <3> HIDE DEF LineOpen
    <3> QED BY <2>1, <3>1, <3>2, LiteralDoomed
  <2> QED BY <1>4, <2>2, <2>3
<1>5. CASE l = <<"http_version_t_1", T, "http_version_t_2">>
  <2>1. a = 1 /\ AddressAt(w, p - 1) /\ w[p] = H /\ p - 1 \in Nat
    BY <1>3, <1>5 DEF ReadOf
  <2>2. c = T => ReadOf("http_version_t_2", w, a, p + 1)
    BY <1>2, <2>1 DEF ReadOf
  <2>3. c # T => Doomed(w, a, p + 1)
    <3>1. <<H, T, T, P, Slash>>[1 + 1] = T /\ 1 \in 0 .. 4 /\ p - 1 \in Nat
      BY <2>1
    <3>2. LineOpen(w, 1, p, c) /\ AddressAt(w, p - 1)
      BY <1>2, <2>1
    <3> HIDE DEF LineOpen
    <3> QED BY <2>1, <3>1, <3>2, LiteralDoomed
  <2> QED BY <1>5, <2>2, <2>3
<1>6. CASE l = <<"http_version_t_2", T, "http_version_p">>
  <2>1. a = 1 /\ AddressAt(w, p - 2) /\ w[p - 1] = H /\ w[p] = T /\ p - 2 \in Nat
    BY <1>3, <1>6 DEF ReadOf
  <2>2. c = T => ReadOf("http_version_p", w, a, p + 1)
    BY <1>2, <2>1 DEF ReadOf
  <2>3. c # T => Doomed(w, a, p + 1)
    <3>1. <<H, T, T, P, Slash>>[2 + 1] = T /\ 2 \in 0 .. 4 /\ p - 2 \in Nat
      BY <2>1
    <3>2. LineOpen(w, 1, p, c) /\ AddressAt(w, p - 2)
      BY <1>2, <2>1
    <3> HIDE DEF LineOpen
    <3> QED BY <2>1, <3>1, <3>2, LiteralDoomed
  <2> QED BY <1>6, <2>2, <2>3
<1>7. CASE l = <<"http_version_p", P, "http_version_slash">>
  <2>1. a = 1 /\ AddressAt(w, p - 3) /\ w[p - 2] = H /\ w[p - 1] = T /\ w[p] = T /\ p - 3 \in Nat
    BY <1>3, <1>7 DEF ReadOf
  <2>2. c = P => ReadOf("http_version_slash", w, a, p + 1)
    BY <1>2, <2>1 DEF ReadOf
  <2>3. c # P => Doomed(w, a, p + 1)
    <3>1. <<H, T, T, P, Slash>>[3 + 1] = P /\ 3 \in 0 .. 4 /\ p - 3 \in Nat
      BY <2>1
    <3>2. LineOpen(w, 1, p, c) /\ AddressAt(w, p - 3)
      BY <1>2, <2>1
    <3> HIDE DEF LineOpen
    <3> QED BY <2>1, <3>1, <3>2, LiteralDoomed
  <2> QED BY <1>7, <2>2, <2>3
<1>8. CASE l = <<"http_version_slash", Slash, "http_version_major_start">>
  <2>1. /\ a = 1 /\ AddressAt(w, p - 4) /\ w[p - 3] = H /\ w[p - 2] = T /\ w[p - 1] = T /\ w[p] = P
        /\ p - 4 \in Nat
    BY <1>3, <1>8 DEF ReadOf
  <2>2. ASSUME c = Slash PROVE ReadOf("http_version_major_start", w, a, p + 1)
    <3>1. /\ p + 1 - 5 = p - 4 /\ p + 1 - 4 = p - 3 /\ p - 3 + 1 = p - 2 /\ p - 3 + 2 = p - 1
          /\ p - 3 + 3 = p /\ p - 3 + 4 = p + 1
      OBVIOUS
    <3>2. HttpAt(w, p + 1 - 4) /\ AddressAt(w, p + 1 - 5)
      BY <2>1, <2>2, <3>1 DEF HttpAt
    <3> QED BY <2>1, <3>2 DEF ReadOf
  <2>3. c # Slash => Doomed(w, a, p + 1)
    <3>1. <<H, T, T, P, Slash>>[4 + 1] = Slash /\ 4 \in 0 .. 4 /\ p - 4 \in Nat
      BY <2>1
    <3>2. LineOpen(w, 1, p, c) /\ AddressAt(w, p - 4)
      BY <1>2, <2>1
    <3> HIDE DEF LineOpen
    <3> QED BY <2>1, <3>1, <3>2, LiteralDoomed
  <2> QED BY <1>8, <2>2, <2>3
<1> QED BY <1>1, <1>4, <1>5, <1>6, <1>7, <1>8

\* The version of a request line whose method and address end at j.
LEMMA VersionOf ==
  ASSUME NEW w, NEW p, NEW c, LineOpen(w, 1, p, c), NEW j \in 1 .. p, AddressAt(w, j),
         NEW e \in p + 1 .. Len(w), GoodLine(w, 1, e)
  PROVE  /\ e > 1 /\ w[e - 1] = CR
         /\ \E d \in j + 1 .. e - 2 :
              w[d] = Dot /\ DigitsAt(w, j + 6, d - 1) /\ DigitsAt(w, d + 1, e - 2)
<1> USE DEF LineOpen
<1>1. /\ e > 1 /\ RequestLineAt(w, e - 2) /\ e - 2 \in Nat /\ e - 2 <= Len(w) /\ w[e - 1] = CR
  BY EndPlaces DEF GoodLine
<1>2. j \in 1 .. Len(w) /\ j + 1 + 5 = j + 6
  OBVIOUS
<1>3. VersionAt(w, j + 1, e - 2)
  BY <1>1, <1>2, RequestLineUnique
<1> QED BY <1>1, <1>2, <1>3 DEF VersionAt

\* The same in the states of the version's major number.
LEMMA MajorReads ==
  ASSUME NEW w, NEW a, NEW p, NEW c, LineOpen(w, a, p, c)
  PROVE  /\ ReadOf("http_version_major_start", w, a, p) =>
              IF is_digit(c) THEN ReadOf("http_version_major", w, a, p + 1) ELSE Doomed(w, a, p + 1)
         /\ ReadOf("http_version_major", w, a, p) =>
              IF c = Dot THEN ReadOf("http_version_minor_start", w, a, p + 1)
              ELSE IF is_digit(c) THEN ReadOf("http_version_major", w, a, p + 1)
              ELSE Doomed(w, a, p + 1)
<1> USE DEF LineOpen
<1>0. \A k \in 1 .. Len(w) : w[k] \in Byte
  BY LenProperties
<1>1. ASSUME NEW j \in 1 .. p, a = 1, AddressAt(w, j), HttpAt(w, j + 1),
             p = j + 5 \/ (DigitsAt(w, j + 6, p) /\ c # Dot)
      PROVE  IF is_digit(c) THEN ReadOf("http_version_major", w, a, p + 1) ELSE Doomed(w, a, p + 1)
  <2>1. CASE is_digit(c)
    <3>1. j \in 1 .. p + 1 /\ DigitsAt(w, j + 6, p + 1)
      BY <1>1, <2>1 DEF DigitsAt
    <3> QED BY <1>1, <2>1, <3>1 DEF ReadOf
  <2>2. CASE ~is_digit(c)
    <3> SUFFICES ASSUME NEW e \in p + 1 .. Len(w), GoodLine(w, 1, e) PROVE FALSE
      BY <1>1, <2>2 DEF Doomed
    <3>1. PICK d \in j + 1 .. e - 2 : w[d] = Dot /\ DigitsAt(w, j + 6, d - 1)
      BY <1>1, VersionOf
    <3>2. d >= j + 7 /\ d \in Int
      BY <3>1 DEF DigitsAt
    <3>3. CASE p = j + 5
      <4>1. p + 1 \in j + 6 .. d - 1
        BY <3>2, <3>3
      <4> QED BY <2>2, <3>1, <4>1 DEF DigitsAt
    <3>4. CASE DigitsAt(w, j + 6, p) /\ c # Dot
      <4>1. ~(d <= p)
        BY <1>0, <3>1, <3>2, <3>4, Codes DEF DigitsAt
      <4>2. d # p + 1
        BY <3>1, <3>4
      <4>3. p + 1 \in j + 6 .. d - 1
        BY <3>2, <3>4, <4>1, <4>2 DEF DigitsAt
      <4> QED BY <2>2, <3>1, <4>3 DEF DigitsAt
    <3> QED BY <1>1, <3>3, <3>4
  <2> QED BY <2>1, <2>2
<1>2. ASSUME ReadOf("http_version_major_start", w, a, p)
      PROVE  IF is_digit(c) THEN ReadOf("http_version_major", w, a, p + 1) ELSE Doomed(w, a, p + 1)
  <2>1. a = 1 /\ AddressAt(w, p - 5) /\ HttpAt(w, p - 4)
    BY <1>2 DEF ReadOf
  <2>2. PICK j \in 1 .. p : j = p - 5 /\ j + 1 = p - 4 /\ p = j + 5
    <3>1. p - 5 \in 1 .. p
      BY <2>1 DEF AddressAt
    <3> QED BY <3>1
  <2> QED BY <1>1, <2>1, <2>2
<1>3. ASSUME ReadOf("http_version_major", w, a, p)
      PROVE  IF c = Dot THEN ReadOf("http_version_minor_start", w, a, p + 1)
             ELSE IF is_digit(c) THEN ReadOf("http_version_major", w, a, p + 1)
             ELSE Doomed(w, a, p + 1)
  <2>1. a = 1
    BY <1>3 DEF ReadOf
  <2>2. PICK j \in 1 .. p : AddressAt(w, j) /\ HttpAt(w, j + 1) /\ DigitsAt(w, j + 6, p)
    BY <1>3 DEF ReadOf
  <2>3. CASE c = Dot
    <3>1. j \in 1 .. p + 1 /\ p + 1 - 1 = p /\ w[p + 1] = Dot
      BY <2>3
    <3> QED BY <2>1, <2>2, <2>3, <3>1 DEF ReadOf
  <2>4. CASE c # Dot
    BY <1>1, <2>1, <2>2, <2>4
  <2> QED BY <2>3, <2>4
<1> QED BY <1>2, <1>3

\* The same in the states of its minor number.
LEMMA MinorReads ==
  ASSUME NEW w, NEW a, NEW p, NEW c, LineOpen(w, a, p, c)
  PROVE  /\ ReadOf("http_version_minor_start", w, a, p) =>
              IF is_digit(c) THEN ReadOf("http_version_minor", w, a, p + 1) ELSE Doomed(w, a, p + 1)
         /\ ReadOf("http_version_minor", w, a, p) =>
              IF c = CR THEN ReadOf("expecting_newline_1", w, a, p + 1)
              ELSE IF is_digit(c) THEN ReadOf("http_version_minor", w, a, p + 1)
              ELSE Doomed(w, a, p + 1)
<1> USE DEF LineOpen
<1>0. \A k \in 1 .. Len(w) : w[k] \in Byte
  BY LenProperties
<1>1. ASSUME NEW j \in 1 .. p, NEW d \in 1 .. p, a = 1, AddressAt(w, j), HttpAt(w, j + 1),
             DigitsAt(w, j + 6, d - 1), w[d] = Dot,
             d = p \/ (DigitsAt(w, d + 1, p) /\ c # CR)
      PROVE  IF is_digit(c) THEN ReadOf("http_version_minor", w, a, p + 1) ELSE Doomed(w, a, p + 1)
  <2>1. CASE is_digit(c)
    <3>1. j \in 1 .. p + 1 /\ d \in 1 .. p + 1 /\ DigitsAt(w, d + 1, p + 1)
      BY <1>1, <2>1 DEF DigitsAt
    <3> QED BY <1>1, <2>1, <3>1 DEF ReadOf
  <2>2. CASE ~is_digit(c)
    <3> SUFFICES ASSUME NEW e \in p + 1 .. Len(w), GoodLine(w, 1, e) PROVE FALSE
      BY <1>1, <2>2 DEF Doomed
    <3>1. PICK x \in j + 1 .. e - 2 :
            w[x] = Dot /\ DigitsAt(w, j + 6, x - 1) /\ DigitsAt(w, x + 1, e - 2)
      BY <1>1, VersionOf
    <3>2. e > 1 /\ w[e - 1] = CR
      BY <1>1, VersionOf
    <3>3. x = d
      <4>1. ~(x < d)
        <5> SUFFICES ASSUME x < d PROVE FALSE
          OBVIOUS
        <5>1. x \in j + 6 .. d - 1
          BY <3>1 DEF DigitsAt
        <5> QED BY <1>0, <1>1, <3>1, <5>1, Codes DEF DigitsAt
      <4>2. ~(d < x)
        <5> SUFFICES ASSUME d < x PROVE FALSE
          OBVIOUS
        <5>1. d \in j + 6 .. x - 1
          BY <1>1 DEF DigitsAt
        <5> QED BY <1>0, <1>1, <3>1, <5>1, Codes DEF DigitsAt
      <4> QED BY <4>1, <4>2
    <3>4. e - 2 <= p
      <4> SUFFICES ASSUME e - 2 > p PROVE FALSE
        OBVIOUS
      <4>1. p + 1 \in x + 1 .. e - 2
        BY <3>3
      <4> QED BY <2>2, <3>1, <4>1 DEF DigitsAt
    <3>5. d # p /\ DigitsAt(w, d + 1, p) /\ c # CR
      BY <1>1, <3>1, <3>3, <3>4 DEF DigitsAt
    <3>6. e = p + 1 \/ e = p + 2
      BY <3>4
    <3>7. e # p + 2
      BY <3>2, <3>5
    <3>8. p \in d + 1 .. p /\ w[p] = CR
      BY <3>2, <3>5, <3>6, <3>7 DEF DigitsAt
    <3> QED BY <1>0, <3>5, <3>8, Codes DEF DigitsAt
  <2> QED BY <2>1, <2>2
<1>2. ASSUME ReadOf("http_version_minor_start", w, a, p)
      PROVE  IF is_digit(c) THEN ReadOf("http_version_minor", w, a, p + 1) ELSE Doomed(w, a, p + 1)
  <2>1. a = 1
    BY <1>2 DEF ReadOf
  <2>2. PICK j \in 1 .. p : /\ AddressAt(w, j) /\ HttpAt(w, j + 1) /\ DigitsAt(w, j + 6, p - 1)
                            /\ w[p] = Dot
    BY <1>2 DEF ReadOf
  <2>3. p \in 1 .. p
    OBVIOUS
  <2> QED BY <1>1, <2>1, <2>2, <2>3
<1>3. ASSUME ReadOf("http_version_minor", w, a, p)
      PROVE  IF c = CR THEN ReadOf("expecting_newline_1", w, a, p + 1)
             ELSE IF is_digit(c) THEN ReadOf("http_version_minor", w, a, p + 1)
             ELSE Doomed(w, a, p + 1)
  <2>1. a = 1
    BY <1>3 DEF ReadOf
  <2>2. PICK j \in 1 .. p, d \in 1 .. p :
          /\ AddressAt(w, j) /\ HttpAt(w, j + 1) /\ DigitsAt(w, j + 6, d - 1) /\ w[d] = Dot
          /\ DigitsAt(w, d + 1, p)
    BY <1>3 DEF ReadOf
  <2>3. CASE c = CR
    <3>1. p + 1 - 1 = p /\ j + 1 + 4 <= p /\ j + 1 + 5 = j + 6 /\ d \in j + 1 .. p
      BY <2>2 DEF DigitsAt
    <3>2. VersionAt(w, j + 1, p)
      BY <2>2, <3>1 DEF VersionAt, HttpAt
    <3>3. PICK i \in 1 .. j - 1 :
            /\ w[i] = SP /\ w[j] = SP
            /\ NameAt(w, 1, i - 1) /\ TextAt(w, i + 1, j - 1) /\ \A k \in i + 1 .. j - 1 : w[k] # SP
      BY <2>2 DEF AddressAt
    <3>4. i \in 1 .. p /\ i < j
      OBVIOUS
    <3>5. RequestLineAt(w, p)
      BY <3>2, <3>3, <3>4 DEF RequestLineAt
    <3> QED BY <2>1, <2>3, <3>1, <3>5 DEF ReadOf
  <2>4. CASE c # CR
    BY <1>1, <2>1, <2>2, <2>4
  <2> QED BY <2>3, <2>4
<1> QED BY <1>2, <1>3

\* The same at the end of the request line.
LEMMA RequestNewlineReads ==
  ASSUME NEW w, NEW a, NEW p, NEW c, LineOpen(w, a, p, c), ReadOf("expecting_newline_1", w, a, p)
  PROVE  IF c = LF THEN GoodLine(w, a, p + 1) ELSE Doomed(w, a, p + 1)
<1> USE DEF LineOpen
<1>1. a = 1 /\ w[p] = CR /\ RequestLineAt(w, p - 1)
  BY DEF ReadOf
<1>2. p >= 2
  BY <1>1 DEF RequestLineAt
<1>3. CASE c = LF
  <2>1. p + 1 - 1 = p /\ p + 1 - 2 = p - 1 /\ p + 1 > 1
    BY <1>2
  <2> QED BY <1>1, <1>3, <2>1 DEF GoodLine
<1>4. CASE c # LF
  <2> SUFFICES ASSUME NEW e \in p + 1 .. Len(w), w[e] = LF, GoodLine(w, 1, e) PROVE FALSE
    BY <1>1, <1>4 DEF Doomed
  <2>1. e > 1 /\ RequestLineAt(w, e - 2) /\ e - 2 \in Nat /\ e - 2 <= Len(w)
    BY EndPlaces, <1>1 DEF GoodLine
  <2>2. e # p + 1
    BY <1>4
  <2>3. p \in 1 .. e - 2
    BY <1>2, <2>2
  <2> QED BY <1>1, <2>1, <2>3, RequestLineUnique
<1> QED BY <1>3, <1>4

\* A good line after the first holds a field or a continuation.
LEMMA HeaderLineText ==
  ASSUME NEW w, NEW a, NEW p, NEW c, LineOpen(w, a, p, c), a > 1,
         NEW e \in p + 1 .. Len(w), GoodLine(w, a, e)
  PROVE  /\ e - 2 \in a .. Len(w) /\ w[e - 1] = CR /\ HeaderTextAt(w, a, e - 2)
         /\ \A k \in a .. e - 2 : w[k] # CR /\ w[k] # LF
<1> USE DEF LineOpen
<1>1. e > a /\ w[e - 1] = CR /\ (FieldAt(w, a, e - 2) \/ (Later(w, a) /\ FoldAt(w, a, e - 2)))
  BY DEF GoodLine
<1>2. e - 2 \in Nat /\ e - 2 <= Len(w) /\ a \in Nat \ {0}
  BY EndPlaces, <1>1
<1>3. a <= e - 2 /\ \A k \in a .. e - 2 : w[k] # CR /\ w[k] # LF
  BY <1>1, <1>2, HeaderTextPlain
<1> QED BY <1>1, <1>2, <1>3 DEF HeaderTextAt

\* How a field and how a continuation begins.
LEMMA FieldBegins ==
  ASSUME NEW w \in Seq(Byte), NEW a \in Nat \ {0}, NEW b \in Nat, b <= Len(w)
  PROVE  /\ FieldAt(w, a, b) => IsToken(w[a]) /\ w[a] \notin {SP, HT, CR}
         /\ FoldAt(w, a, b) => w[a] \in {SP, HT} /\ ~IsToken(w[a]) /\ w[a] # CR
<1>1. \A k \in 1 .. Len(w) : w[k] \in Byte
  BY LenProperties
<1>2. ASSUME FieldAt(w, a, b) PROVE IsToken(w[a]) /\ w[a] \notin {SP, HT, CR}
  <2>1. PICK i \in a .. b : NameAt(w, a, i - 1)
    BY <1>2 DEF FieldAt
  <2>2. a \in 1 .. Len(w) /\ IsToken(w[a])
    BY <2>1 DEF NameAt
  <2> QED BY <1>1, <2>2, Codes
<1>3. ASSUME FoldAt(w, a, b) PROVE w[a] \in {SP, HT} /\ ~IsToken(w[a]) /\ w[a] # CR
  <2>1. PICK i \in a .. b : BlankAt(w, a, i)
    BY <1>3 DEF FoldAt
  <2>2. a \in 1 .. Len(w) /\ w[a] \in {SP, HT}
    BY <2>1 DEF BlankAt
  <2> QED BY <1>1, <2>2, Codes
<1> QED BY <1>2, <1>3

\* What the first byte of a line makes of it, after the request line.
LEMMA HeaderStartReads ==
  ASSUME NEW w, NEW a, NEW p, NEW c, LineOpen(w, a, p, c), ReadOf("header_line_start", w, a, p)
  PROVE  /\ c = CR => ReadOf("expecting_newline_3", w, a, p + 1)
         /\ c \in {SP, HT} /\ Later(w, a) => ReadOf("header_lws", w, a, p + 1)
         /\ IsToken(c) => ReadOf("header_name", w, a, p + 1)
         /\ c # CR /\ (c \notin {SP, HT} \/ ~Later(w, a)) /\ ~IsToken(c) => Doomed(w, a, p + 1)
<1> USE DEF LineOpen
<1>1. a > 1 /\ a = p + 1
  BY DEF ReadOf
<1>2. c = CR => ReadOf("expecting_newline_3", w, a, p + 1)
  BY <1>1 DEF ReadOf
<1>3. a <= p + 1 /\ (\A k \in a .. p + 1 : w[k] = c) /\ w[a] = c
  BY <1>1
<1>4. c \in {SP, HT} /\ Later(w, a) => ReadOf("header_lws", w, a, p + 1)
  BY <1>1, <1>3 DEF ReadOf, BlankAt
<1>5. IsToken(c) => ReadOf("header_name", w, a, p + 1)
  BY <1>1, <1>3 DEF ReadOf, NameAt
<1>6. ASSUME c # CR, c \notin {SP, HT} \/ ~Later(w, a), ~IsToken(c) PROVE Doomed(w, a, p + 1)
  <2> SUFFICES ASSUME NEW e \in p + 1 .. Len(w), GoodLine(w, a, e) PROVE FALSE
    BY <1>3, <1>6 DEF Doomed
  <2>a. e - 2 \in a .. Len(w) /\ HeaderTextAt(w, a, e - 2)
    BY <1>1, HeaderLineText
  <2>1. HeaderTextAt(w, a, e - 2) /\ e - 2 \in Nat /\ e - 2 <= Len(w) /\ a \in Nat \ {0}
    BY <1>1, <2>a
  <2> QED BY <1>3, <1>6, <2>1, FieldBegins DEF HeaderTextAt
<1> QED BY <1>2, <1>4, <1>5, <1>6

\* What no line of a head may go on with.
LEMMA ValueDoomed ==
  ASSUME NEW w, NEW a, NEW p, NEW c, LineOpen(w, a, p, c), a > 1, a <= p, w[a] # CR, w[p] # CR,
         c # CR, \A e \in p + 3 .. Len(w) : ~HeaderTextAt(w, a, e - 2)
  PROVE  Doomed(w, a, p + 1)
<1> USE DEF LineOpen
<1> SUFFICES ASSUME NEW e \in p + 1 .. Len(w), GoodLine(w, a, e) PROVE FALSE
  BY DEF Doomed
<1>1. w[e - 1] = CR /\ HeaderTextAt(w, a, e - 2)
  BY HeaderLineText
<1>2. e # p + 1 /\ e # p + 2
  <2>1. p + 1 - 1 = p /\ p + 2 - 1 = p + 1
    OBVIOUS
  <2> QED BY <1>1, <2>1
<1>3. e \in p + 3 .. Len(w)
  BY <1>2
<1> QED BY <1>1, <1>3

\* The same for the blanks a continuation begins with.
LEMMA BlankReads ==
  ASSUME NEW w, NEW a, NEW p, NEW c, LineOpen(w, a, p, c), ReadOf("header_lws", w, a, p)
  PROVE  /\ c \in {SP, HT} => ReadOf("header_lws", w, a, p + 1)
         /\ c = CR => ReadOf("expecting_newline_2", w, a, p + 1)
         /\ c \notin {SP, HT, CR} /\ is_ctl(c) => Doomed(w, a, p + 1)
         /\ c \notin {SP, HT} /\ ~is_ctl(c) => ReadOf("header_value", w, a, p + 1)
<1> USE DEF LineOpen
<1>1. a > 1 /\ Later(w, a) /\ BlankAt(w, a, p)
  BY DEF ReadOf
<1>2. a <= p /\ p \in a .. p /\ p \in a .. p + 1 /\ p + 1 - 1 = p
  BY <1>1 DEF BlankAt
<1>3. ASSUME c \in {SP, HT} PROVE ReadOf("header_lws", w, a, p + 1)
  <2>1. BlankAt(w, a, p + 1)
    BY <1>1, <1>3 DEF BlankAt
  <2> QED BY <1>1, <2>1 DEF ReadOf
<1>4. ASSUME c = CR PROVE ReadOf("expecting_newline_2", w, a, p + 1)
  <2>1. p + 1 .. p = {}
    OBVIOUS
  <2>2. FoldAt(w, a, p)
    BY <1>1, <1>2, <2>1 DEF FoldAt, TextAt
  <2>3. HeaderTextAt(w, a, p + 1 - 1)
    BY <1>1, <1>2, <2>2 DEF HeaderTextAt
  <2> QED BY <1>4, <2>3 DEF ReadOf
<1>5. ASSUME c \notin {SP, HT, CR}, is_ctl(c) PROVE Doomed(w, a, p + 1)
  <2>1. w[a] \in {SP, HT} /\ w[p] \in {SP, HT}
    BY <1>1, <1>2 DEF BlankAt
  <2>2. w[a] # CR /\ w[p] # CR /\ a \in Nat \ {0}
    BY <2>1, Codes
  <2>3. ASSUME NEW e \in p + 3 .. Len(w), HeaderTextAt(w, a, e - 2) PROVE FALSE
    <3>1. e - 2 \in Nat /\ e - 2 <= Len(w) /\ p + 1 \in a .. e - 2
      BY <1>2
    <3>2. FoldAt(w, a, e - 2)
      BY <2>1, <2>2, <2>3, <3>1, FieldBegins DEF HeaderTextAt
    <3>3. PICK i \in a .. e - 2 : BlankAt(w, a, i) /\ TextAt(w, i + 1, e - 2)
      BY <3>2 DEF FoldAt
    <3>4. p + 1 \in a .. i \/ p + 1 \in i + 1 .. e - 2
      BY <3>1
    <3> QED BY <1>5, <3>3, <3>4 DEF BlankAt, TextAt
  <2>4. c # CR
    BY <1>5
  <2> QED BY <1>1, <1>2, <2>2, <2>3, <2>4, ValueDoomed
<1>6. ASSUME c \notin {SP, HT}, ~is_ctl(c) PROVE ReadOf("header_value", w, a, p + 1)
  <2>1. TextAt(w, p + 1, p + 1)
    BY <1>6 DEF TextAt
  <2>2. FoldAt(w, a, p + 1)
    BY <1>1, <1>2, <2>1 DEF FoldAt
  <2>3. p + 1 \in a .. p + 1 /\ w[p + 1] \notin {SP, HT}
    BY <1>6
  <2> QED BY <1>1, <2>2, <2>3 DEF ReadOf, HeaderTextAt
<1> QED BY <1>3, <1>4, <1>5, <1>6

\* The same in the name of a field.
LEMMA NameReads ==
  ASSUME NEW w, NEW a, NEW p, NEW c, LineOpen(w, a, p, c), ReadOf("header_name", w, a, p)
  PROVE  IF c = Colon THEN ReadOf("space_before_header_value", w, a, p + 1)
         ELSE IF IsToken(c) THEN ReadOf("header_name", w, a, p + 1)
         ELSE Doomed(w, a, p + 1)
<1> USE DEF LineOpen
<1>1. a > 1 /\ NameAt(w, a, p)
  BY DEF ReadOf
<1>2. \A k \in 1 .. Len(w) : w[k] \in Byte
  BY LenProperties
<1>3. CASE c = Colon
  <2>1. p + 1 - 1 = p
    OBVIOUS
  <2> QED BY <1>1, <1>3, <2>1 DEF ReadOf
<1>4. CASE c # Colon /\ IsToken(c)
  <2>1. NameAt(w, a, p + 1)
    BY <1>1, <1>4 DEF NameAt
  <2> QED BY <1>1, <1>4, <2>1 DEF ReadOf
<1>5. CASE c # Colon /\ ~IsToken(c)
  <2>1. a <= p /\ a \in Nat \ {0} /\ IsToken(w[a]) /\ w[a] \in Byte
    BY <1>1, <1>2 DEF NameAt
  <2> SUFFICES ASSUME NEW e \in p + 1 .. Len(w), GoodLine(w, a, e) PROVE FALSE
    BY <1>5, <2>1, Codes DEF Doomed
  <2>a. e - 2 \in a .. Len(w) /\ HeaderTextAt(w, a, e - 2)
    BY <1>1, HeaderLineText
  <2>2. HeaderTextAt(w, a, e - 2) /\ e - 2 \in Nat /\ e - 2 <= Len(w)
    BY <2>1, <2>a
  <2>3. FieldAt(w, a, e - 2)
    BY <2>1, <2>2, FieldBegins DEF HeaderTextAt
  <2>4. PICK i \in a .. e - 2 : w[i] = Colon /\ NameAt(w, a, i - 1)
    BY <2>3 DEF FieldAt
  <2>5. ~(i <= p)
    BY <1>1, <1>2, <2>4, Codes DEF NameAt
  <2>6. i # p + 1
    BY <1>5, <2>4
  <2>7. p + 1 \in a .. i - 1
    BY <2>5, <2>6
  <2> QED BY <1>5, <2>4, <2>7 DEF NameAt
<1> QED BY <1>3, <1>4, <1>5

\* The value of a field or the text of a continuation, as far as p.
ValueOpen(w, a, p) == HeaderTextAt(w, a, p) /\ \E k \in a .. p : w[k] \notin {SP, HT}

\* After the colon a value may go on.
LEMMA ColonOpensValue ==
  ASSUME NEW w, NEW a, NEW p, NEW c, LineOpen(w, a, p, c),
         ReadOf("space_before_header_value", w, a, p)
  PROVE  ValueOpen(w, a, p)
<1> USE DEF LineOpen
<1>1. a > 1 /\ NameAt(w, a, p - 1) /\ w[p] = Colon
  BY DEF ReadOf
<1>2. p \in a .. p /\ p + 1 .. p = {}
  BY <1>1 DEF NameAt
<1>3. FieldAt(w, a, p)
  BY <1>1, <1>2 DEF FieldAt, TextAt
<1>4. Colon \notin {SP, HT}
  BY DEF Colon, SP, HT
<1> QED BY <1>1, <1>2, <1>3, <1>4 DEF ValueOpen, HeaderTextAt

\* What a byte makes of a line in a value.
LEMMA ValueReads ==
  ASSUME NEW w, NEW a, NEW p, NEW c, LineOpen(w, a, p, c), ValueOpen(w, a, p)
  PROVE  /\ c = CR => ReadOf("expecting_newline_2", w, a, p + 1)
         /\ c # CR /\ is_ctl(c) => Doomed(w, a, p + 1)
         /\ ~is_ctl(c) => ReadOf("header_value", w, a, p + 1)
<1> USE DEF LineOpen
<1>1. /\ a > 1 /\ a \in Nat \ {0} /\ p \in Nat /\ p <= Len(w)
      /\ FieldAt(w, a, p) \/ (Later(w, a) /\ FoldAt(w, a, p))
  BY DEF ValueOpen, HeaderTextAt
<1>2. PICK k \in a .. p : w[k] \notin {SP, HT}
  BY DEF ValueOpen
<1>3. a <= p /\ \A x \in a .. p : w[x] # CR /\ w[x] # LF
  BY <1>1, HeaderTextPlain
<1>4. \A x \in 1 .. Len(w) : w[x] \in Byte
  BY LenProperties
<1>5. ASSUME c = CR PROVE ReadOf("expecting_newline_2", w, a, p + 1)
  <2>1. p + 1 - 1 = p
    OBVIOUS
  <2> QED BY <1>5, <2>1 DEF ReadOf, ValueOpen
<1>6. ASSUME c # CR, is_ctl(c) PROVE Doomed(w, a, p + 1)
  <2>1. ASSUME NEW e \in p + 3 .. Len(w), HeaderTextAt(w, a, e - 2) PROVE FALSE
    <3>1. e - 2 \in Nat /\ e - 2 <= Len(w) /\ p + 1 \in a .. e - 2
      BY <1>3
    <3>2. CASE FieldAt(w, a, p)
      <4>1. FieldAt(w, a, e - 2)
        <5>1. IsToken(w[a])
          BY <1>1, <3>2, FieldBegins
        <5>2. ~FoldAt(w, a, e - 2)
          BY <1>1, <3>1, <5>1, FieldBegins
        <5> QED BY <2>1, <5>2 DEF HeaderTextAt
      <4>2. PICK i \in a .. p : w[i] = Colon /\ NameAt(w, a, i - 1)
        BY <3>2 DEF FieldAt
      <4>3. PICK j \in a .. e - 2 : w[j] = Colon /\ NameAt(w, a, j - 1) /\ TextAt(w, j + 1, e - 2)
        BY <4>1 DEF FieldAt
      <4>4. ~(i < j)
        BY <1>4, <4>2, <4>3, Codes DEF NameAt
      <4>5. p + 1 \in j + 1 .. e - 2
        BY <3>1, <4>4
      <4> QED BY <1>6, <4>3, <4>5 DEF TextAt
    <3>3. CASE FoldAt(w, a, p)
      <4>1. FoldAt(w, a, e - 2)
        <5>1. ~IsToken(w[a])
          BY <1>1, <3>3, FieldBegins
        <5>2. ~FieldAt(w, a, e - 2)
          BY <1>1, <3>1, <5>1, FieldBegins
        <5> QED BY <2>1, <5>2 DEF HeaderTextAt
      <4>2. PICK i \in a .. e - 2 : BlankAt(w, a, i) /\ TextAt(w, i + 1, e - 2)
        BY <4>1 DEF FoldAt
      <4>3. ~(k <= i)
        BY <1>2, <4>2 DEF BlankAt
      <4>4. p + 1 \in i + 1 .. e - 2
        BY <1>2, <3>1, <4>3
      <4> QED BY <1>6, <4>2, <4>4 DEF TextAt
    <3> QED BY <1>1, <3>2, <3>3
  <2>2. w[a] # CR /\ w[p] # CR
    BY <1>3
  <2> QED BY <1>1, <1>3, <1>6, <2>1, <2>2, ValueDoomed
<1>7. ASSUME ~is_ctl(c) PROVE ReadOf("header_value", w, a, p + 1)
  <2>1. ASSUME FieldAt(w, a, p) PROVE FieldAt(w, a, p + 1)
    <3>1. PICK i \in a .. p : w[i] = Colon /\ NameAt(w, a, i - 1) /\ TextAt(w, i + 1, p)
      BY <2>1 DEF FieldAt
    <3>2. i \in a .. p + 1 /\ TextAt(w, i + 1, p + 1)
      BY <1>7, <3>1 DEF TextAt
    <3> QED BY <3>1, <3>2 DEF FieldAt
  <2>2. ASSUME FoldAt(w, a, p) PROVE FoldAt(w, a, p + 1)
    <3>1. PICK i \in a .. p : BlankAt(w, a, i) /\ TextAt(w, i + 1, p)
      BY <2>2 DEF FoldAt
    <3>2. i \in a .. p + 1 /\ TextAt(w, i + 1, p + 1)
      BY <1>7, <3>1 DEF TextAt
    <3> QED BY <3>1, <3>2 DEF FoldAt
  <2>3. k \in a .. p + 1
    OBVIOUS
  <2> QED BY <1>1, <1>2, <2>1, <2>2, <2>3 DEF ReadOf, HeaderTextAt
<1> QED BY <1>5, <1>6, <1>7

\* The same at the end of a field's line.
LEMMA HeaderNewlineReads ==
  ASSUME NEW w, NEW a, NEW p, NEW c, LineOpen(w, a, p, c), ReadOf("expecting_newline_2", w, a, p)
  PROVE  IF c = LF THEN GoodLine(w, a, p + 1) ELSE Doomed(w, a, p + 1)
<1> USE DEF LineOpen
<1>1. w[p] = CR /\ a > 1 /\ (FieldAt(w, a, p - 1) \/ (Later(w, a) /\ FoldAt(w, a, p - 1)))
  BY DEF ReadOf, HeaderTextAt
<1>2. a <= p - 1
  BY <1>1 DEF FieldAt, FoldAt
<1>3. CASE c = LF
  <2>1. p + 1 - 1 = p /\ p + 1 - 2 = p - 1 /\ p + 1 > a
    BY <1>2
  <2> QED BY <1>1, <1>3, <2>1 DEF GoodLine
<1>4. CASE c # LF
  <2> SUFFICES ASSUME NEW e \in p + 1 .. Len(w), w[e] = LF, GoodLine(w, a, e) PROVE FALSE
    BY <1>2, <1>4 DEF Doomed
  <2>1. \A k \in a .. e - 2 : w[k] # CR
    BY <1>1, HeaderLineText
  <2>2. e # p + 1
    BY <1>4
  <2>3. p \in a .. e - 2
    BY <1>2, <2>2
  <2> QED BY <1>1, <2>1, <2>3
<1> QED BY <1>3, <1>4

\* The same at the end of the empty line.
LEMMA LastNewlineReads ==
  ASSUME NEW w, NEW a, NEW p, NEW c, LineOpen(w, a, p, c), ReadOf("expecting_newline_3", w, a, p)
  PROVE  /\ a > 1 /\ a = p /\ w[a] = CR
         /\ c # LF => Doomed(w, a, p + 1)
<1> USE DEF LineOpen
<1>1. a > 1 /\ a = p /\ w[a] = CR
  BY DEF ReadOf
<1>2. ASSUME c # LF PROVE Doomed(w, a, p + 1)
  <2> SUFFICES ASSUME NEW e \in p + 1 .. Len(w), w[e] = LF, GoodLine(w, a, e) PROVE FALSE
    BY <1>1, <1>2 DEF Doomed
  <2>1. e - 2 \in a .. Len(w) /\ \A k \in a .. e - 2 : w[k] # CR
    BY <1>1, HeaderLineText
  <2> QED BY <1>1, <2>1
<1> QED BY <1>1, <1>2

-----------------------------------------------------------------------------
(***************************************************************************)
(* The end of the head: HeadsByGrammar                                     *)
(***************************************************************************)

\* The lines before the one that begins at a are those of a head.
LinesGood(w, a) ==
  \A e \in 1 .. a - 1 : \A b \in 1 .. e : w[e] = LF /\ StartsLine(w, b, e) => GoodLine(w, b, e)

\* A line begins at a and has not ended at p.
AtLine(w, a, p) ==
  /\ a \in 1 .. p + 1 /\ (a = 1 \/ w[a - 1] = LF) /\ (\A k \in a .. p : w[k] # LF)
  /\ LinesGood(w, a)

\* An empty line is neither a field nor a continuation.
LEMMA EmptyLineNotGood ==
  ASSUME NEW w, NEW a \in Nat, a > 1
  PROVE  ~GoodLine(w, a, a + 1)
<1>1. a .. a + 1 - 2 = {}
  OBVIOUS
<1> QED BY <1>1 DEF GoodLine, FieldAt, FoldAt

\* A line that ends begins somewhere.
LEMMA StartExists ==
  ASSUME NEW w \in Seq(Byte), NEW e \in 1 .. Len(w), w[e] = LF
  PROVE  \E a \in 1 .. e : StartsLine(w, a, e)
<1>1. Len(w) \in Nat /\ Len(w) <= Len(w)
  OBVIOUS
<1>2. /\ LineEnds(SubSeq(w, 1, Len(w))) = {d \in 1 .. Len(w) : w[d] = LF}
      /\ \A d \in LineEnds(SubSeq(w, 1, Len(w))) :
           /\ StartsLine(w, LineStart(SubSeq(w, 1, Len(w)), d), d)
           /\ LineStart(SubSeq(w, 1, Len(w)), d) \in 1 .. d
  BY <1>1, LinePlaces
<1> QED BY <1>2

\* No head ends where the lines before are those of a head.
LEMMA NoHeadBefore ==
  ASSUME NEW w \in Seq(Byte), NEW a \in 1 .. Len(w) + 1, LinesGood(w, a), NEW n \in 1 .. a - 1
  PROVE  ~HeadAt(w, n)
<1> SUFFICES ASSUME HeadAt(w, n) PROVE FALSE
  OBVIOUS
<1>1. n \in 1 .. Len(w) /\ w[n] = LF
  BY DEF HeadAt
<1>2. PICK b \in 1 .. n : StartsLine(w, b, n)
  BY <1>1, StartExists
<1>3. GoodLine(w, b, n)
  BY <1>1, <1>2 DEF LinesGood
<1>4. b > 1 /\ n = b + 1
  BY <1>1, <1>2 DEF HeadAt
<1> QED BY <1>3, <1>4, EmptyLineNotGood

\* Nor does one end within the line that goes on.
LEMMA NoHeadSoFar ==
  ASSUME NEW w \in Seq(Byte), NEW p \in 0 .. Len(w), NEW a, AtLine(w, a, p), NEW n \in 0 .. p
  PROVE  ~HeadAt(w, n)
<1>1. CASE n \in a .. p \/ n = 0
  BY <1>1 DEF HeadAt, AtLine
<1>2. CASE n \in 1 .. a - 1
  BY <1>2, NoHeadBefore DEF AtLine
<1> QED BY <1>1, <1>2 DEF AtLine

\* A text that goes on with a doomed line has no head.
LEMMA DoomedHasNoHead ==
  ASSUME NEW w \in Seq(Byte), NEW p \in Nat, p < Len(w), NEW a, AtLine(w, a, p),
         Doomed(w, a, p + 1), NEW n \in 0 .. Len(w)
  PROVE  ~HeadAt(w, n)
<1>1. CASE n \in 0 .. p
  BY <1>1, NoHeadSoFar
<1>2. CASE n \in p + 1 .. Len(w)
  <2> SUFFICES ASSUME HeadAt(w, n) PROVE FALSE
    OBVIOUS
  <2>1. PICK N : N = {e \in p + 1 .. n : w[e] = LF}
    OBVIOUS
  <2>2. N \in SUBSET Nat /\ n \in N
    BY <1>2, <2>1 DEF HeadAt
  <2>3. PICK e \in N : \A y \in N : e <= y
    BY <2>2, LeastNatural
  <2>4. e \in p + 1 .. n /\ w[e] = LF /\ \A k \in p + 1 .. e - 1 : w[k] # LF
    BY <2>1, <2>3
  <2>5. StartsLine(w, a, e) /\ a \in 1 .. e /\ e \in 1 .. n /\ e \in p + 1 .. Len(w)
    <3>1. ASSUME NEW k \in a .. e - 1 PROVE w[k] # LF
      <4>1. k \in a .. p \/ k \in p + 1 .. e - 1
        BY DEF AtLine
      <4> QED BY <2>4, <4>1 DEF AtLine
    <3> QED BY <1>2, <2>4, <3>1 DEF AtLine, StartsLine
  <2>6. ~GoodLine(w, a, e) /\ ~(a > 1 /\ e = a + 1 /\ w[a] = CR)
    BY <2>4, <2>5 DEF Doomed
  <2> QED BY <2>4, <2>5, <2>6 DEF HeadAt
<1> QED BY <1>1, <1>2

\* The next line, after a good one.
LEMMA NextLine ==
  ASSUME NEW w \in Seq(Byte), NEW p \in Nat, p < Len(w), NEW a, AtLine(w, a, p),
         w[p + 1] = LF, GoodLine(w, a, p + 1)
  PROVE  AtLine(w, p + 2, p + 1)
<1>1. StartsLine(w, a, p + 1) /\ a \in 1 .. p + 1
  BY DEF AtLine, StartsLine
<1>2. ASSUME NEW e \in 1 .. p + 1, NEW b \in 1 .. e, w[e] = LF, StartsLine(w, b, e)
      PROVE  GoodLine(w, b, e)
  <2>1. CASE e \in 1 .. a - 1
    BY <1>2, <2>1 DEF AtLine, LinesGood
  <2>2. CASE e \in a .. p
    BY <1>2, <2>2 DEF AtLine
  <2>3. CASE e = p + 1
    <3>1. b = a
      BY <1>1, <1>2, <2>3, StartUnique
    <3> QED BY <2>3, <3>1
  <2> QED BY <1>1, <2>1, <2>2, <2>3
<1>3. p + 2 - 1 = p + 1 /\ p + 2 .. p + 1 = {} /\ p + 2 \in 1 .. p + 1 + 1
  OBVIOUS
<1>4. LinesGood(w, p + 2)
  BY <1>2, <1>3 DEF LinesGood
<1> QED BY <1>3, <1>4 DEF AtLine

\* The empty line after the lines of a head.
LEMMA HeadFound ==
  ASSUME NEW w \in Seq(Byte), NEW p \in Nat, p < Len(w), AtLine(w, p, p),
         w[p + 1] = LF, p > 1, w[p] = CR, NEW n \in 0 .. Len(w)
  PROVE  HeadAt(w, n) <=> n = p + 1
<1>1. StartsLine(w, p, p + 1)
  BY DEF AtLine, StartsLine
<1>2. CASE n \in 0 .. p
  BY <1>2, NoHeadSoFar
<1>3. CASE n = p + 1
  <2>1. ASSUME NEW e \in 1 .. n, NEW b \in 1 .. e, w[e] = LF, StartsLine(w, b, e)
        PROVE  IF e = n THEN b > 1 /\ e = b + 1 /\ w[b] = CR ELSE GoodLine(w, b, e)
    <3>1. CASE e = n
      <4>1. b = p
        BY <1>1, <1>3, <2>1, <3>1, StartUnique
      <4> QED BY <1>3, <3>1, <4>1
    <3>2. CASE e # n
      <4>1. e # p
        BY <2>1, Codes
      <4>2. e \in 1 .. p - 1
        BY <1>3, <3>2, <4>1
      <4> QED BY <2>1, <3>2, <4>2 DEF AtLine, LinesGood
    <3> QED BY <3>1, <3>2
  <2> QED BY <1>3, <2>1 DEF HeadAt
<1>4. CASE n \in p + 2 .. Len(w)
  <2> SUFFICES ASSUME HeadAt(w, n) PROVE FALSE
    BY <1>4
  <2>1. p + 1 \in 1 .. n /\ p \in 1 .. p + 1 /\ p + 1 # n
    BY <1>4
  <2>2. GoodLine(w, p, p + 1)
    BY <1>1, <2>1 DEF HeadAt
  <2> QED BY <2>2, EmptyLineNotGood
<1> QED BY <1>2, <1>3, <1>4

\* What the parser knows of the head: the line it is in, as long as it has not found the
\* head's end, and that there is no head, or no other, once it is through with it.
LineRead(a) ==
  /\ AtLine(input, a, pos) /\ ReadOf(state, input, a, pos)
  /\ a = 1 => headers = <<>>
  /\ state = "header_line_start" => (headers = <<>> <=> ~Later(input, a))

HeadInv ==
  /\ headEnd = 0 /\ result = "more" => \E a \in 1 .. pos + 1 : LineRead(a)
  /\ headEnd = 0 /\ result # "more" => \A n \in 0 .. Len(input) : ~HeadAt(input, n)
  /\ headEnd > 0 => \A n \in 0 .. Len(input) : HeadAt(input, n) <=> n = headEnd
  /\ state = "body" => headEnd > 0
  /\ headEnd > 0 /\ result = "more" => state = "body"

\* What a byte of the head does.
Outcome(a, c) ==
  \/ /\ result' = "more" /\ c # LF /\ state' # "header_line_start"
     /\ ReadOf(state', input, a, pos + 1) /\ (a = 1 => headers' = <<>>)
  \/ result' = "false" /\ Doomed(input, a, pos + 1)
  \/ /\ result' = "more" /\ c = LF /\ GoodLine(input, a, pos + 1)
     /\ state' = "header_line_start" /\ (headers' = <<>> <=> a = 1)

Moves(c) ==
  /\ input' = input /\ pos' = pos + 1 /\ pos \in Nat /\ pos < Len(input)
  /\ input \in Seq(Byte) /\ c \in Byte /\ c = input[pos + 1]
  /\ result = "more" /\ headEnd = 0

\* A byte of the head keeps HeadInv when it has one of the three outcomes.
LEMMA HeadOutcome ==
  ASSUME NEW c, Moves(c), headEnd' = headEnd, state' # "body",
         NEW a \in 1 .. pos + 1, LineRead(a), Outcome(a, c)
  PROVE  HeadInv'
<1> USE DEF Moves
<1>1. CASE /\ result' = "more" /\ c # LF /\ state' # "header_line_start"
           /\ ReadOf(state', input, a, pos + 1) /\ (a = 1 => headers' = <<>>)
  <2>1. AtLine(input, a, pos + 1)
    BY <1>1 DEF LineRead, AtLine
  <2>2. LineRead(a)'
    BY <1>1, <2>1 DEF LineRead
  <2>3. a \in 1 .. pos' + 1
    OBVIOUS
  <2> QED BY <1>1, <2>2, <2>3 DEF HeadInv
<1>2. CASE result' = "false" /\ Doomed(input, a, pos + 1)
  <2>1. \A n \in 0 .. Len(input) : ~HeadAt(input, n)
    BY <1>2, DoomedHasNoHead DEF LineRead
  <2> QED BY <1>2, <2>1 DEF HeadInv
<1>3. CASE /\ result' = "more" /\ c = LF /\ GoodLine(input, a, pos + 1)
           /\ state' = "header_line_start" /\ (headers' = <<>> <=> a = 1)
  <2>1. AtLine(input, pos + 2, pos + 1)
    BY <1>3, NextLine DEF LineRead
  <2>2. PICK b \in 1 .. pos' + 1 : b = pos + 2
    OBVIOUS
  <2>3. b > 1 /\ b = pos' + 1
    BY <2>2
  <2>4. ReadOf(state', input, b, pos')
    BY <1>3, <2>3 DEF ReadOf
  <2>5. Later(input, b) <=> a # 1
    <3>1. pos + 2 - 2 = pos
      OBVIOUS
    <3>2. ASSUME a # 1 PROVE Later(input, b)
      <4>1. input[a - 1] = LF /\ a - 1 \in 1 .. pos
        BY <3>2 DEF LineRead, AtLine
      <4> QED BY <2>2, <3>1, <4>1 DEF Later
    <3>3. ASSUME a = 1 PROVE ~Later(input, b)
      BY <2>2, <3>1, <3>3 DEF LineRead, AtLine, Later
    <3> QED BY <3>2, <3>3
  <2>6. LineRead(b)'
    BY <1>3, <2>1, <2>2, <2>3, <2>4, <2>5 DEF LineRead
  <2> QED BY <1>3, <2>6 DEF HeadInv
<1> QED BY <1>1, <1>2, <1>3 DEF Outcome

\* What Expect does.
LEMMA Expected ==
  ASSUME NEW s, NEW test \in BOOLEAN, NEW next, Expect(s, test, next)
  PROVE  /\ state = s /\ UNCHANGED reqVars
         /\ test => state' = next /\ result' = result
         /\ ~test => state' = state /\ result' = "false"
<1>1. CASE test = TRUE
  BY <1>1 DEF Expect, Goto
<1>2. CASE test = FALSE
  BY <1>2 DEF Expect, Result
<1> QED BY <1>1, <1>2

\* The line the parser is in.
LEMMA OpenLine ==
  ASSUME NEW c, Moves(c), NEW a \in 1 .. pos + 1, LineRead(a)
  PROVE  LineOpen(input, a, pos, c) /\ ReadOf(state, input, a, pos) /\ (a = 1 => headers = <<>>)
BY DEF Moves, LineRead, AtLine, LineOpen

\* A state that expects a byte other than a line feed, or another byte.
LEMMA ExpectOutcome ==
  ASSUME NEW c, Moves(c), NEW a \in 1 .. pos + 1, LineRead(a),
         NEW s, NEW test \in BOOLEAN, NEW next, Expect(s, test, next),
         s # "body", next # "body", next # "header_line_start",
         test => c # LF /\ ReadOf(next, input, a, pos + 1),
         ~test => Doomed(input, a, pos + 1)
  PROVE  HeadInv'
<1>1. /\ state = s /\ UNCHANGED reqVars
      /\ test => state' = next /\ result' = result
      /\ ~test => state' = state /\ result' = "false"
  BY Expected
<1>2. a = 1 => headers' = <<>>
  BY <1>1, OpenLine DEF reqVars
<1>3. headEnd' = headEnd /\ state' # "body"
  BY <1>1 DEF reqVars
<1>4. Outcome(a, c)
  BY <1>1, <1>2 DEF Outcome, Moves
<1> QED BY <1>3, <1>4, HeadOutcome

\* A byte that is always accepted.
LEMMA AcceptOutcome ==
  ASSUME NEW c, Moves(c), NEW a \in 1 .. pos + 1, LineRead(a),
         NEW s, NEW next, Expect(s, TRUE, next),
         s # "body", next # "body", next # "header_line_start",
         c # LF, ReadOf(next, input, a, pos + 1)
  PROVE  HeadInv'
<1>1. PICK t \in BOOLEAN : t = TRUE
  OBVIOUS
<1>2. Expect(s, t, next)
  BY <1>1
<1> QED BY <1>1, <1>2, ExpectOutcome

\* The steps of the request line keep HeadInv.
LEMMA RequestLineSteps ==
  ASSUME NEW c, Moves(c), NEW a \in 1 .. pos + 1, LineRead(a), Method(c) \/ Uri(c) \/ Version(c)
  PROVE  HeadInv'
<1>1. LineOpen(input, a, pos, c) /\ ReadOf(state, input, a, pos) /\ c \in Byte
  BY OpenLine DEF Moves
<1>2. IsToken(c) \in BOOLEAN /\ is_ctl(c) \in BOOLEAN /\ is_digit(c) \in BOOLEAN
  BY DEF IsToken, is_ctl, is_digit
<1>3. /\ IsToken(c) => c # LF /\ c # SP
      /\ is_digit(c) => c # LF /\ c # CR /\ c # Dot
      /\ ~is_ctl(c) => c # LF
      /\ SP # LF /\ Dot # LF /\ CR # LF
  BY <1>1, Codes
<1>4. CASE Method(c)
  <2>1. CASE Expect("method_start", IsToken(c), "method")
    <3>1. state = "method_start"
      BY <2>1 DEF Expect
    <3>2. IF IsToken(c) THEN ReadOf("method", input, a, pos + 1) ELSE Doomed(input, a, pos + 1)
      BY <1>1, <3>1, MethodReads
    <3> QED BY <1>2, <1>3, <2>1, <3>2, ExpectOutcome
  <2>2. CASE c = SP /\ Expect("method", TRUE, "uri")
    <3>1. state = "method"
      BY <2>2 DEF Expect
    <3>2. ReadOf("uri", input, a, pos + 1)
      BY <1>1, <2>2, <3>1, MethodReads
    <3> QED BY <1>3, <2>2, <3>2, AcceptOutcome
  <2>3. CASE c # SP /\ Expect("method", IsToken(c), "method")
    <3>1. state = "method"
      BY <2>3 DEF Expect
    <3>2. IF IsToken(c) THEN ReadOf("method", input, a, pos + 1) ELSE Doomed(input, a, pos + 1)
      BY <1>1, <2>3, <3>1, MethodReads
    <3> QED BY <1>2, <1>3, <2>3, <3>2, ExpectOutcome
  <2> QED BY <1>4, <2>1, <2>2, <2>3 DEF Method
<1>5. CASE Uri(c)
  <2>1. CASE c = SP /\ Expect("uri", TRUE, "http_version_h")
    <3>1. state = "uri"
      BY <2>1 DEF Expect
    <3>2. ReadOf("http_version_h", input, a, pos + 1)
      BY <1>1, <2>1, <3>1, UriReads
    <3> QED BY <1>3, <2>1, <3>2, AcceptOutcome
  <2>2. CASE c # SP /\ Expect("uri", ~is_ctl(c), "uri")
    <3>1. state = "uri"
      BY <2>2 DEF Expect
    <3>2. IF ~is_ctl(c) THEN ReadOf("uri", input, a, pos + 1) ELSE Doomed(input, a, pos + 1)
      BY <1>1, <2>2, <3>1, UriReads
    <3>3. (~is_ctl(c)) \in BOOLEAN
      BY <1>2
    <3>4. PICK t \in BOOLEAN : t = (~is_ctl(c))
      BY <3>3
    <3>5. /\ Expect("uri", t, "uri")
          /\ t => c # LF /\ ReadOf("uri", input, a, pos + 1)
          /\ ~t => Doomed(input, a, pos + 1)
      BY <1>3, <2>2, <3>2, <3>4
    <3> QED BY <3>5, ExpectOutcome
  <2> QED BY <1>5, <2>1, <2>2 DEF Uri
<1>6. CASE Version(c)
  <2>1. CASE Expect("http_version_major_start", is_digit(c), "http_version_major")
    <3>1. state = "http_version_major_start"
      BY <2>1 DEF Expect
    <3>2. IF is_digit(c) THEN ReadOf("http_version_major", input, a, pos + 1)
          ELSE Doomed(input, a, pos + 1)
      BY <1>1, <3>1, MajorReads
    <3> QED BY <1>2, <1>3, <2>1, <3>2, ExpectOutcome
  <2>2. CASE c = Dot /\ Expect("http_version_major", TRUE, "http_version_minor_start")
    <3>1. state = "http_version_major"
      BY <2>2 DEF Expect
    <3>2. ReadOf("http_version_minor_start", input, a, pos + 1)
      BY <1>1, <2>2, <3>1, MajorReads
    <3> QED BY <1>3, <2>2, <3>2, AcceptOutcome
  <2>3. CASE c # Dot /\ Expect("http_version_major", is_digit(c), "http_version_major")
    <3>1. state = "http_version_major"
      BY <2>3 DEF Expect
    <3>2. IF is_digit(c) THEN ReadOf("http_version_major", input, a, pos + 1)
          ELSE Doomed(input, a, pos + 1)
      BY <1>1, <2>3, <3>1, MajorReads
    <3> QED BY <1>2, <1>3, <2>3, <3>2, ExpectOutcome
  <2>4. CASE Expect("http_version_minor_start", is_digit(c), "http_version_minor")
    <3>1. state = "http_version_minor_start"
      BY <2>4 DEF Expect
    <3>2. IF is_digit(c) THEN ReadOf("http_version_minor", input, a, pos + 1)
          ELSE Doomed(input, a, pos + 1)
      BY <1>1, <3>1, MinorReads
    <3> QED BY <1>2, <1>3, <2>4, <3>2, ExpectOutcome
  <2>5. CASE c = CR /\ Expect("http_version_minor", TRUE, "expecting_newline_1")
    <3>1. state = "http_version_minor"
      BY <2>5 DEF Expect
    <3>2. ReadOf("expecting_newline_1", input, a, pos + 1)
      BY <1>1, <2>5, <3>1, MinorReads
    <3> QED BY <1>3, <2>5, <3>2, AcceptOutcome
  <2>6. CASE c # CR /\ Expect("http_version_minor", is_digit(c), "http_version_minor")
    <3>1. state = "http_version_minor"
      BY <2>6 DEF Expect
    <3>2. IF is_digit(c) THEN ReadOf("http_version_minor", input, a, pos + 1)
          ELSE Doomed(input, a, pos + 1)
      BY <1>1, <2>6, <3>1, MinorReads
    <3> QED BY <1>2, <1>3, <2>6, <3>2, ExpectOutcome
  <2> QED BY <1>6, <2>1, <2>2, <2>3, <2>4, <2>5, <2>6 DEF Version
<1> QED BY <1>4, <1>5, <1>6

\* So do the states that expect one byte.
LEMMA LiteralSteps ==
  ASSUME NEW c, Moves(c), TypeOK, NEW a \in 1 .. pos + 1, LineRead(a), ExpectLiteral(c)
  PROVE  HeadInv'
<1>1. LineOpen(input, a, pos, c) /\ ReadOf(state, input, a, pos) /\ c \in Byte /\ result = "more"
  BY OpenLine DEF Moves
<1>2. PICK l \in Literal : Expect(l[1], c = l[2], l[3])
  BY DEF ExpectLiteral
<1>3. (c = l[2]) \in BOOLEAN
  OBVIOUS
<1>4. /\ state = l[1] /\ UNCHANGED reqVars
      /\ c = l[2] => state' = l[3] /\ result' = result
      /\ c # l[2] => state' = state /\ result' = "false"
  BY <1>2, <1>3, Expected
<1>5. CASE l[2] # LF
  <2>1. IF c = l[2] THEN ReadOf(l[3], input, a, pos + 1) ELSE Doomed(input, a, pos + 1)
    BY <1>1, <1>4, <1>5, LiteralReads
  <2>2. l[1] # "body" /\ l[3] # "body" /\ l[3] # "header_line_start"
    BY <1>5 DEF Literal
  <2>3. PICK t \in BOOLEAN : t = (c = l[2])
    OBVIOUS
  <2>4. /\ Expect(l[1], t, l[3])
        /\ t => c # LF /\ ReadOf(l[3], input, a, pos + 1)
        /\ ~t => Doomed(input, a, pos + 1)
    BY <1>2, <1>5, <2>1, <2>3
  <2> QED BY <2>2, <2>4, ExpectOutcome
<1>6. CASE l[2] = LF
  <2>1. /\ l[3] = "header_line_start"
        /\ l[1] = "expecting_newline_1" \/ l[1] = "expecting_newline_2"
    BY <1>6 DEF Literal, T, H, P, Slash, LF
  <2>2. headEnd' = headEnd /\ state' # "body" /\ headers' = headers
    BY <1>4, <2>1 DEF reqVars
  <2>3. IF c = LF THEN GoodLine(input, a, pos + 1) ELSE Doomed(input, a, pos + 1)
    BY <1>1, <1>4, <2>1, RequestNewlineReads, HeaderNewlineReads
  <2>4. headers = <<>> <=> a = 1
    <3>1. CASE l[1] = "expecting_newline_1"
      BY <1>1, <1>4, <3>1, OpenLine DEF ReadOf
    <3>2. CASE l[1] = "expecting_newline_2"
      <4>1. headers # <<>>
        BY <1>4, <3>2 DEF TypeOK, HeaderStates
      <4>2. a # 1
        BY <1>1, <1>4, <3>2 DEF ReadOf, HeaderTextAt
      <4> QED BY <4>1, <4>2
    <3> QED BY <2>1, <3>1, <3>2
  <2>5. Outcome(a, c)
    BY <1>1, <1>4, <1>6, <2>1, <2>2, <2>3, <2>4 DEF Outcome
  <2> QED BY <2>2, <2>5, HeadOutcome
<1> QED BY <1>5, <1>6

\* So does a byte of a value.
LEMMA ValueOutcome ==
  ASSUME NEW c, Moves(c), NEW a \in 1 .. pos + 1, LineRead(a), a > 1, ValueByte(c), state # "body",
         /\ c = CR => ReadOf("expecting_newline_2", input, a, pos + 1)
         /\ c # CR /\ is_ctl(c) => Doomed(input, a, pos + 1)
         /\ ~is_ctl(c) => ReadOf("header_value", input, a, pos + 1)
  PROVE  HeadInv'
<1>1. c \in Byte /\ result = "more" /\ headEnd' = headEnd
  BY DEF Moves, ValueByte
<1>2. CASE c = CR
  <2>1. state' = "expecting_newline_2" /\ result' = "more" /\ c # LF
    BY <1>1, <1>2, Codes DEF ValueByte, Goto
  <2>2. Outcome(a, c)
    BY <1>2, <2>1 DEF Outcome
  <2> QED BY <1>1, <2>1, <2>2, HeadOutcome
<1>3. CASE c # CR /\ is_ctl(c)
  <2>1. state' = state /\ result' = "false"
    BY <1>1, <1>3 DEF ValueByte, Result
  <2>2. Outcome(a, c)
    BY <1>3, <2>1 DEF Outcome
  <2> QED BY <1>1, <2>1, <2>2, HeadOutcome
<1>4. CASE c # CR /\ ~is_ctl(c)
  <2>1. state' = "header_value" /\ result' = "more" /\ c # LF
    BY <1>1, <1>4, Codes DEF ValueByte, Goto
  <2>2. Outcome(a, c)
    BY <1>4, <2>1 DEF Outcome
  <2> QED BY <1>1, <2>1, <2>2, HeadOutcome
<1> QED BY <1>2, <1>3, <1>4

\* So do the steps within the lines of the fields.
LEMMA HeaderSteps ==
  ASSUME NEW c, Moves(c), TypeOK, NEW a \in 1 .. pos + 1, LineRead(a),
         HeaderLineStart(c) \/ HeaderLine(c) \/ SpaceBeforeValue(c)
  PROVE  HeadInv'
<1>1. LineOpen(input, a, pos, c) /\ ReadOf(state, input, a, pos) /\ c \in Byte /\ result = "more"
  BY OpenLine DEF Moves
<1>2. IsToken(c) \in BOOLEAN /\ is_ctl(c) \in BOOLEAN
  BY DEF IsToken, is_ctl
<1>3. /\ IsToken(c) => c # LF /\ c # CR /\ c # SP /\ c # HT
      /\ c \in {SP, HT, CR, Colon} => c # LF
      /\ ~is_ctl(c) => c # LF /\ c # CR
  BY <1>1, Codes
<1>4. CASE HeaderLineStart(c)
  <2>1. state = "header_line_start" /\ headEnd' = headEnd
    BY <1>4 DEF HeaderLineStart
  <2>2. a > 1 /\ (headers = <<>> <=> ~Later(input, a))
    BY <1>1, <2>1 DEF ReadOf, LineRead
  <2>3. /\ c = CR => ReadOf("expecting_newline_3", input, a, pos + 1)
        /\ c \in {SP, HT} /\ Later(input, a) => ReadOf("header_lws", input, a, pos + 1)
        /\ IsToken(c) => ReadOf("header_name", input, a, pos + 1)
        /\ c # CR /\ (c \notin {SP, HT} \/ ~Later(input, a)) /\ ~IsToken(c) =>
             Doomed(input, a, pos + 1)
    BY <1>1, <2>1, HeaderStartReads
  <2>4. CASE c = CR
    <3>1. state' = "expecting_newline_3" /\ result' = "more"
      BY <1>1, <1>4, <2>4 DEF HeaderLineStart, Goto
    <3>2. Outcome(a, c)
      BY <1>3, <2>2, <2>3, <2>4, <3>1 DEF Outcome
    <3> QED BY <2>1, <3>1, <3>2, HeadOutcome
  <2>5. CASE c # CR /\ headers # <<>> /\ c \in {SP, HT}
    <3>1. state' = "header_lws" /\ result' = "more"
      BY <1>1, <1>4, <2>5 DEF HeaderLineStart, Goto
    <3>2. Outcome(a, c)
      BY <1>3, <2>2, <2>3, <2>5, <3>1 DEF Outcome
    <3> QED BY <2>1, <3>1, <3>2, HeadOutcome
  <2>6. CASE c # CR /\ (headers = <<>> \/ c \notin {SP, HT}) /\ IsToken(c)
    <3>1. state' = "header_name" /\ result' = "more"
      BY <1>1, <1>4, <2>6 DEF HeaderLineStart, Goto
    <3>2. Outcome(a, c)
      BY <1>3, <2>2, <2>3, <2>6, <3>1 DEF Outcome
    <3> QED BY <2>1, <3>1, <3>2, HeadOutcome
  <2>7. CASE c # CR /\ (headers = <<>> \/ c \notin {SP, HT}) /\ ~IsToken(c)
    <3>1. state' = state /\ result' = "false"
      BY <1>4, <2>7 DEF HeaderLineStart, Result
    <3>2. Outcome(a, c)
      BY <2>2, <2>3, <2>7, <3>1 DEF Outcome
    <3> QED BY <2>1, <3>1, <3>2, HeadOutcome
  <2> QED BY <2>4, <2>5, <2>6, <2>7
<1>5. CASE HeaderLine(c)
  <2>1. ASSUME state = "header_lws"
        PROVE  /\ a > 1
               /\ c \in {SP, HT} => ReadOf("header_lws", input, a, pos + 1)
               /\ c = CR => ReadOf("expecting_newline_2", input, a, pos + 1)
               /\ c \notin {SP, HT, CR} /\ is_ctl(c) => Doomed(input, a, pos + 1)
               /\ c \notin {SP, HT} /\ ~is_ctl(c) => ReadOf("header_value", input, a, pos + 1)
    <3>1. ReadOf("header_lws", input, a, pos)
      BY <1>1, <2>1
    <3>2. a > 1
      BY <3>1 DEF ReadOf
    <3> QED BY <1>1, <3>1, <3>2, BlankReads
  <2>2. CASE state = "header_lws" /\ c \in {SP, HT} /\ UNCHANGED <<state, result, reqVars>>
    <3>1. state' = "header_lws" /\ result' = "more" /\ headEnd' = headEnd
      BY <1>1, <2>2 DEF reqVars
    <3>2. Outcome(a, c)
      BY <1>3, <2>1, <2>2, <3>1 DEF Outcome
    <3> QED BY <3>1, <3>2, HeadOutcome
  <2>3. CASE state = "header_lws" /\ c \notin {SP, HT} /\ ValueByte(c)
    BY <2>1, <2>3, ValueOutcome
  <2>4. CASE c = Colon /\ Expect("header_name", TRUE, "space_before_header_value")
    <3>1. state = "header_name"
      BY <2>4 DEF Expect
    <3>2. ReadOf("space_before_header_value", input, a, pos + 1)
      BY <1>1, <2>4, <3>1, NameReads
    <3>3. Expect("header_name", TRUE, "space_before_header_value") /\ c # LF /\ ReadOf("space_before_header_value", input, a, pos + 1)
      BY <1>3, <2>4, <3>2
    <3> QED BY <3>3, AcceptOutcome
  <2>5. CASE /\ state = "header_name" /\ c # Colon
             /\ IF IsToken(c) THEN PushName(c) /\ UNCHANGED <<state, result>>
                ELSE Result("false") /\ UNCHANGED headers
             /\ UNCHANGED <<length, body, headEnd>>
    <3>1. /\ a > 1
          /\ IF IsToken(c) THEN ReadOf("header_name", input, a, pos + 1)
             ELSE Doomed(input, a, pos + 1)
      <4>1. ReadOf("header_name", input, a, pos) /\ a > 1
        BY <1>1, <2>5 DEF ReadOf
      <4> QED BY <1>1, <2>5, <4>1, NameReads
    <3>2. state' = state /\ headEnd' = headEnd /\ (IsToken(c) => result' = "more")
          /\ (~IsToken(c) => result' = "false")
      BY <1>1, <2>5 DEF Result
    <3>3. Outcome(a, c)
      BY <1>3, <2>5, <3>1, <3>2 DEF Outcome
    <3> QED BY <2>5, <3>2, <3>3, HeadOutcome
  <2>6. CASE state = "header_value" /\ ValueByte(c)
    <3>1. ValueOpen(input, a, pos) /\ a > 1
      BY <1>1, <2>6 DEF ReadOf, ValueOpen, HeaderTextAt
    <3> QED BY <1>1, <2>6, <3>1, ValueReads, ValueOutcome
  <2> QED BY <1>5, <2>2, <2>3, <2>4, <2>5, <2>6 DEF HeaderLine
<1>6. CASE SpaceBeforeValue(c)
  <2>1. state = "space_before_header_value"
    BY <1>6 DEF SpaceBeforeValue, Expect
  <2>2. ValueOpen(input, a, pos) /\ a > 1
    <3>1. ValueOpen(input, a, pos)
      BY <1>1, <2>1, ColonOpensValue
    <3> QED BY <3>1 DEF ValueOpen, HeaderTextAt
  <2>3. CASE c = SP /\ Expect("space_before_header_value", TRUE, "header_value")
    <3>1. ~is_ctl(c)
      BY <2>3, Codes
    <3>2. ReadOf("header_value", input, a, pos + 1)
      BY <1>1, <2>2, <3>1, ValueReads
    <3>3. Expect("space_before_header_value", TRUE, "header_value") /\ c # LF /\ ReadOf("header_value", input, a, pos + 1)
      BY <1>3, <2>3, <3>2
    <3> QED BY <3>3, AcceptOutcome
  <2>4. CASE c # SP /\ ValueByte(c)
    BY <1>1, <2>1, <2>2, <2>4, ValueReads, ValueOutcome
  <2> QED BY <1>6, <2>3, <2>4 DEF SpaceBeforeValue
<1> QED BY <1>4, <1>5, <1>6

\* So does the last byte of the head.
LEMMA LastLineStep ==
  ASSUME NEW c, Moves(c), NEW a \in 1 .. pos + 1, LineRead(a), HeadEnd(c)
  PROVE  HeadInv'
<1>1. LineOpen(input, a, pos, c) /\ ReadOf(state, input, a, pos) /\ c \in Byte /\ result = "more"
  BY OpenLine DEF Moves
<1>2. state = "expecting_newline_3"
  BY DEF HeadEnd
<1>3. a > 1 /\ a = pos /\ input[a] = CR /\ (c # LF => Doomed(input, a, pos + 1))
  BY <1>1, <1>2, LastNewlineReads
<1>4. CASE c # LF
  <2>1. headEnd' = headEnd /\ state' # "body" /\ result' = "false"
    BY <1>2, <1>4 DEF HeadEnd, Result
  <2>2. Outcome(a, c)
    BY <1>3, <1>4, <2>1 DEF Outcome
  <2> QED BY <2>1, <2>2, HeadOutcome
<1>5. CASE c = LF
  <2>1. headEnd' = pos + 1 /\ input' = input /\ pos \in Nat
    BY <1>5 DEF HeadEnd, Moves
  <2>2. \A n \in 0 .. Len(input) : HeadAt(input, n) <=> n = pos + 1
    BY <1>3, <1>5, HeadFound DEF LineRead, Moves
  <2>3. result' = "more" => state' = "body"
    <3>1. CASE LengthFields = {}
      BY <1>5, <3>1 DEF HeadEnd, Result
    <3>2. CASE LengthFields # {}
      <4> DEFINE v == headers[Min(LengthFields)].value
      <4>1. CASE ~IsInt(v)
        BY <1>5, <3>2, <4>1 DEF HeadEnd, Result
      <4>2. CASE IsInt(v)
        <5>1. HeadComplete(IntOf(v)) /\ IntOf(v) \in - MaxInt .. MaxInt
          BY <1>5, <3>2, <4>2, IntRange DEF HeadEnd
        <5> HIDE DEF v
        <5>2. PICK n \in - MaxInt .. MaxInt : n = IntOf(v)
          BY <5>1
        <5>3. n \in Int /\ MaxBody \in Nat /\ HeadComplete(n)
          BY <5>1, <5>2, ParserAssumption, GrammarAssumption
        <5>4. n = 0 \/ n > MaxBody \/ (n # 0 /\ n <= MaxBody)
          BY <5>3
        <5>5. CASE n = 0
          BY <5>3, <5>5 DEF HeadComplete, Result
        <5>6. CASE n > MaxBody
          <6>1. n # 0 /\ ~(n <= MaxBody)
            BY <5>3, <5>6
          <6>2. Result("false")
            BY <5>3, <5>6, <6>1, Zenon DEF HeadComplete
          <6> QED BY <6>2 DEF Result
        <5>7. CASE n # 0 /\ n <= MaxBody
          <6>1. ~(n > MaxBody)
            BY <5>3, <5>7
          <6>2. Goto("body")
            BY <5>3, <5>7, <6>1, Zenon DEF HeadComplete
          <6> QED BY <6>2 DEF Goto
        <5> QED BY <5>4, <5>5, <5>6, <5>7
      <4> QED BY <4>1, <4>2
    <3> QED BY <3>1, <3>2
  <2> QED BY <2>1, <2>2, <2>3 DEF HeadInv
<1> QED BY <1>4, <1>5

\* HeadInv is an invariant.
LEMMA HeadInvHolds == Spec => [](ParserInv /\ HeadInv)
<1>1. Init => HeadInv
  <2> SUFFICES ASSUME Init PROVE HeadInv
    OBVIOUS
  <2>1. input \in Seq(Byte) /\ pos = 0 /\ state = "method_start" /\ headers = <<>>
        /\ result = "more" /\ headEnd = 0
    BY ParserAssumption DEF Init
  <2>2. PICK a \in 1 .. pos + 1 : a = 1
    BY <2>1
  <2>3. AtLine(input, a, pos)
    BY <2>1, <2>2 DEF AtLine, LinesGood
  <2>4. ReadOf(state, input, a, pos)
    BY <2>1, <2>2 DEF ReadOf
  <2>5. LineRead(a)
    BY <2>1, <2>3, <2>4 DEF LineRead
  <2> QED BY <2>1, <2>5 DEF HeadInv
<1>2. ParserInv /\ HeadInv /\ [Next]_vars => HeadInv'
  <2> SUFFICES ASSUME ParserInv, HeadInv, [Next]_vars PROVE HeadInv'
    OBVIOUS
  <2>1. CASE UNCHANGED vars
    BY <2>1 DEF vars, reqVars, HeadInv, LineRead, AtLine, LinesGood
  <2>2. CASE Consume
    <3>1. PICK c : c = input[pos + 1]
      OBVIOUS
    <3>2. /\ result = "more" /\ pos < Len(input) /\ pos' = pos + 1 /\ input' = input
          /\ pos \in Nat /\ input \in Seq(Byte) /\ c \in Byte
      BY <2>2, <3>1 DEF Consume, ParserInv, TypeOK
    <3>3. \/ Method(c) \/ Uri(c) \/ ExpectLiteral(c) \/ Version(c)
          \/ HeaderLineStart(c) \/ HeaderLine(c) \/ SpaceBeforeValue(c)
          \/ HeadEnd(c) \/ Body(c)
      BY <2>2, <3>1 DEF Consume
    <3>4. CASE state = "body"
      <4>1. Body(c)
        BY <3>3, <3>4 DEF Method, Uri, ExpectLiteral, Literal, Version, HeaderLineStart, HeaderLine, SpaceBeforeValue,
             HeadEnd, Expect
      <4>2. headEnd' = headEnd /\ state' = "body"
        BY <3>4, <4>1 DEF Body, Result
      <4> QED BY <3>2, <3>4, <4>2 DEF HeadInv
    <3>5. CASE state # "body"
      <4>1. headEnd = 0
        BY <3>2, <3>5 DEF HeadInv, ParserInv, TypeOK
      <4>2. PICK a \in 1 .. pos + 1 : LineRead(a)
        BY <3>2, <4>1 DEF HeadInv
      <4>3. Moves(c) /\ TypeOK
        BY <3>1, <3>2, <4>1 DEF Moves, ParserInv
      <4>4. ~Body(c)
        BY <3>5 DEF Body
      <4> QED BY <3>3, <4>2, <4>3, <4>4, RequestLineSteps, LiteralSteps, HeaderSteps, LastLineStep
    <3> QED BY <3>4, <3>5
  <2> QED BY <2>1, <2>2 DEF Next
<1> QED BY <1>1, <1>2, ParserInvHolds, PTL DEF Spec

\* HeadsByGrammar for every input.
THEOREM HeadsAreTheGrammars == Spec => []HeadsByGrammar
<1>1. ParserInv /\ HeadInv => HeadsByGrammar
  <2> SUFFICES ASSUME ParserInv, HeadInv, Decided, NEW n \in 0 .. Len(input)
               PROVE  IsHead(SubSeq(input, 1, n)) <=> (n = headEnd /\ n > 0)
    BY DEF HeadsByGrammar
  <2>1. input \in Seq(Byte) /\ pos \in 0 .. Len(input) /\ headEnd \in 0 .. pos
    BY DEF ParserInv, TypeOK
  <2>2. n \in Nat /\ n <= Len(input)
    BY <2>1
  <2>3. IsHead(SubSeq(input, 1, n)) <=> HeadAt(input, n)
    BY <2>1, <2>2, HeadPlaces
  <2>4. CASE headEnd > 0
    BY <2>1, <2>3, <2>4 DEF HeadInv
  <2>5. CASE headEnd = 0 /\ result # "more"
    BY <2>1, <2>2, <2>3, <2>5 DEF HeadInv
  <2>6. CASE headEnd = 0 /\ result = "more"
    <3>1. PICK a \in 1 .. pos + 1 : AtLine(input, a, pos)
      BY <2>6 DEF HeadInv, LineRead
    <3>2. n \in 0 .. pos
      BY <2>6 DEF Decided
    <3> QED BY <2>1, <2>2, <2>3, <2>6, <3>1, <3>2, NoHeadSoFar
  <2> QED BY <2>1, <2>4, <2>5, <2>6
<1> QED BY <1>1, HeadInvHolds, PTL

-----------------------------------------------------------------------------
(***************************************************************************)
(* Names and values, by their places                                       *)
(***************************************************************************)

\* Where the text of the line from a to q begins: after the colon and a space of a field,
\* after the blanks of a continuation.
FieldFrom(w, a, q, x) ==
  \E i \in a + 1 .. q : /\ NameAt(w, a, i - 1) /\ w[i] = Colon
                        /\ x = IF i < q /\ w[i + 1] = SP THEN i + 2 ELSE i + 1
FoldFrom(w, a, q, x) ==
  /\ x \in a + 1 .. q + 1 /\ BlankAt(w, a, x - 1)
  /\ x <= q => w[x] \notin {SP, HT}

\* What a line from a to q adds to the value of its field.
TextOf(w, a, q) ==
  IF w[a] \in {SP, HT} THEN FoldText(SubSeq(w, a, q)) ELSE FieldText(SubSeq(w, a, q))

\* The name of a field ends at its first colon.
LEMMA ColonPlace ==
  ASSUME NEW w \in Seq(Byte), NEW a \in Nat \ {0}, NEW q \in Nat, q <= Len(w),
         NEW i \in a + 1 .. q, NameAt(w, a, i - 1), w[i] = Colon
  PROVE  /\ FirstColon(SubSeq(w, a, q)) = i - a + 1
         /\ FieldName(SubSeq(w, a, q)) = SubSeq(w, a, i - 1)
         /\ After(SubSeq(w, a, q), i - a + 1) = SubSeq(w, i + 1, q)
<1> DEFINE s == SubSeq(w, a, q)
<1>1. /\ s \in Seq(Byte) /\ Len(s) = q - a + 1
      /\ DOMAIN s = 1 .. q - a + 1
      /\ \A k \in 1 .. q - a + 1 : s[k] = w[a + k - 1] /\ a + k - 1 \in a .. q
      /\ \A k \in a .. q : s[k - a + 1] = w[k] /\ k - a + 1 \in 1 .. q - a + 1
  BY Part
<1>2. \A k \in 1 .. Len(w) : w[k] \in Byte
  BY LenProperties
<1>3. PICK m \in 1 .. q - a + 1 : m = i - a + 1 /\ a + m - 1 = i /\ a + (m - 1) - 1 = i - 1
                                  /\ a + (m + 1) - 1 = i + 1 /\ a + (q - a + 1) - 1 = q
  OBVIOUS
<1>4. ASSUME NEW y \in 1 .. q - a + 1, y <= m
      PROVE  Before(s, y) = SubSeq(w, a, a + y - 2)
  <2>1. SubSeq(s, 1, y - 1) = SubSeq(w, a + 1 - 1, a + (y - 1) - 1)
    <3>1. y - 1 \in Nat /\ y - 1 <= q - a + 1 /\ 1 \in Nat \ {0}
      OBVIOUS
    <3> QED BY <3>1, PartOfPart
  <2>2. a + 1 - 1 = a /\ a + (y - 1) - 1 = a + y - 2
    OBVIOUS
  <2> HIDE DEF s
  <2> QED BY <2>1, <2>2 DEF Before
<1>5. After(s, m) = SubSeq(w, i + 1, q)
  <2>1. SubSeq(s, m + 1, q - a + 1) = SubSeq(w, a + (m + 1) - 1, a + (q - a + 1) - 1)
    <3>1. m + 1 \in Nat \ {0} /\ q - a + 1 \in Nat /\ q - a + 1 <= q - a + 1
      OBVIOUS
    <3> QED BY <3>1, PartOfPart
  <2> HIDE DEF s
  <2> QED BY <1>1, <1>3, <2>1 DEF After
<1> HIDE DEF s
<1>6. s[m] = Colon /\ \A k \in 1 .. m - 1 : s[k] # Colon
  <2>1. s[m] = w[i]
    BY <1>1, <1>3
  <2>2. ASSUME NEW k \in 1 .. m - 1 PROVE s[k] # Colon
    <3>1. k \in 1 .. q - a + 1 /\ a + k - 1 \in a .. i - 1 /\ a + k - 1 \in 1 .. Len(w)
      BY <1>3
    <3>2. IsToken(w[a + k - 1]) /\ w[a + k - 1] \in Byte
      BY <1>2, <3>1 DEF NameAt
    <3> QED BY <1>1, <3>1, <3>2, Codes
  <2> QED BY <2>1, <2>2
<1>7. ASSUME NEW y \in 1 .. q - a + 1
      PROVE  Contains(Before(s, y), Colon) <=> \E k \in 1 .. y - 1 : s[k] = Colon
  <2>1. y - 1 \in Nat /\ y - 1 <= Len(s)
    BY <1>1
  <2>2. PICK u : u = SubSeq(s, 1, y - 1)
    OBVIOUS
  <2>3. /\ Len(u) = IF 1 <= y - 1 THEN y - 1 - 1 + 1 ELSE 0
        /\ \A k \in 1 .. y - 1 - 1 + 1 : u[k] = s[1 + k - 1]
    BY <1>1, <2>1, <2>2, Part
  <2>4. Len(u) = y - 1 /\ \A k \in 1 .. y - 1 : u[k] = s[k]
    BY <2>1, <2>3
  <2> QED BY <2>2, <2>4 DEF Contains, Before
<1>8. FirstColon(s) = m
  <2>1. m \in DOMAIN s /\ s[m] = Colon /\ ~Contains(Before(s, m), Colon)
    BY <1>1, <1>6, <1>7
  <2>2. ASSUME NEW y \in DOMAIN s, s[y] = Colon, ~Contains(Before(s, y), Colon) PROVE y = m
    <3>1. y \in 1 .. q - a + 1 /\ \A k \in 1 .. y - 1 : s[k] # Colon
      BY <1>1, <1>7, <2>2
    <3> QED BY <1>6, <2>2, <3>1
  <2> QED BY <2>1, <2>2 DEF FirstColon
<1>9. FieldName(s) = SubSeq(w, a, i - 1)
  <2>1. a + m - 2 = i - 1 /\ m <= m
    BY <1>3
  <2>2. Before(s, m) = SubSeq(w, a, a + m - 2)
    BY <1>4, <2>1
  <2> QED BY <1>8, <2>1, <2>2 DEF FieldName
<1> QED BY <1>3, <1>5, <1>8, <1>9 DEF s

\* The text of a field is what FieldFrom says.
LEMMA FieldTextPlace ==
  ASSUME NEW w \in Seq(Byte), NEW a \in Nat \ {0}, NEW q \in Nat, q <= Len(w),
         NEW x, FieldFrom(w, a, q, x)
  PROVE  /\ x \in a + 2 .. q + 1 /\ w[a] \notin {SP, HT}
         /\ FieldText(SubSeq(w, a, q)) = SubSeq(w, x, q)
<1> DEFINE s == SubSeq(w, a, q)
<1>1. PICK i \in a + 1 .. q : /\ NameAt(w, a, i - 1) /\ w[i] = Colon
                              /\ x = IF i < q /\ w[i + 1] = SP THEN i + 2 ELSE i + 1
  BY DEF FieldFrom
<1>2. /\ FirstColon(s) = i - a + 1 /\ After(s, i - a + 1) = SubSeq(w, i + 1, q)
  BY <1>1, ColonPlace
<1> HIDE DEF s
<1>3. w[a] \notin {SP, HT}
  <2>1. a \in 1 .. Len(w) /\ IsToken(w[a])
    BY <1>1 DEF NameAt
  <2>2. w[a] \in Byte
    BY <2>1, LenProperties
  <2> QED BY <2>1, <2>2, Codes
<1>4. PICK v : v = SubSeq(w, i + 1, q)
  OBVIOUS
<1>5. FieldText(s) = IF v # <<>> /\ v[1] = SP THEN Tail(v) ELSE v
  BY <1>2, <1>4 DEF FieldText
<1>6. CASE i = q
  <2>1. v = <<>> /\ x = i + 1
    <3>1. Len(v) = 0 /\ v \in Seq(Byte)
      <4>1. i + 1 \in Nat \ {0} /\ ~(i + 1 <= q)
        BY <1>6
      <4> QED BY <1>4, <4>1, Part
    <3> QED BY <1>1, <1>6, <3>1, EmptySeq
  <2> QED BY <1>3, <1>4, <1>5, <1>6, <2>1 DEF s
<1>7. CASE i < q
  <2>1. /\ v \in Seq(Byte) /\ Len(v) = q - (i + 1) + 1 /\ v[1] = w[i + 1] /\ i + 1 \in 1 .. Len(w)
    <3>1. i + 1 \in Nat \ {0} /\ i + 1 <= q /\ 1 \in 1 .. q - (i + 1) + 1 /\ (i + 1) + 1 - 1 = i + 1
      BY <1>7
    <3>2. v \in Seq(Byte) /\ Len(v) = q - (i + 1) + 1 /\ v[1] = w[(i + 1) + 1 - 1]
      BY <1>4, <3>1, Part
    <3> QED BY <3>1, <3>2
  <2>2. v # <<>>
    BY <1>7, <2>1, EmptySeq
  <2>3. Tail(v) = SubSeq(w, i + 2, q)
    <3>1. i + 1 \in 1 .. Len(w) /\ q \in i + 1 .. Len(w) /\ (i + 1) + 1 = i + 2
      BY <1>7
    <3>2. Tail(SubSeq(w, i + 1, q)) = SubSeq(w, (i + 1) + 1, q)
      BY <3>1, HeadTailOfSubSeq
    <3> QED BY <1>4, <3>1, <3>2
  <2>4. x \in a + 2 .. q + 1
    BY <1>1, <1>7
  <2> QED BY <1>1, <1>3, <1>4, <1>5, <1>7, <2>1, <2>2, <2>3, <2>4 DEF s
<1> QED BY <1>6, <1>7

\* The text of a continuation is what FoldFrom says.
LEMMA FoldTextPlace ==
  ASSUME NEW w \in Seq(Byte), NEW a \in Nat \ {0}, NEW q \in Nat, q <= Len(w),
         NEW x, FoldFrom(w, a, q, x)
  PROVE  /\ x \in a + 1 .. q + 1 /\ w[a] \in {SP, HT}
         /\ FoldText(SubSeq(w, a, q)) = SubSeq(w, x, q)
<1> DEFINE s == SubSeq(w, a, q)
           N == {i \in DOMAIN s : s[i] \notin {SP, HT}}
<1>1. /\ x \in a + 1 .. q + 1 /\ (\A k \in a .. x - 1 : w[k] \in {SP, HT})
      /\ x <= q => w[x] \notin {SP, HT}
  BY DEF FoldFrom, BlankAt
<1>2. w[a] \in {SP, HT}
  BY <1>1
<1>3. /\ s \in Seq(Byte) /\ Len(s) = q - a + 1
      /\ DOMAIN s = 1 .. q - a + 1
      /\ \A k \in 1 .. q - a + 1 : s[k] = w[a + k - 1] /\ a + k - 1 \in a .. q
      /\ \A k \in a .. q : s[k - a + 1] = w[k] /\ k - a + 1 \in 1 .. q - a + 1
  <2>1. a <= q
    BY <1>1
  <2>2. /\ SubSeq(w, a, q) \in Seq(Byte)
        /\ Len(SubSeq(w, a, q)) = IF a <= q THEN q - a + 1 ELSE 0
        /\ DOMAIN SubSeq(w, a, q) = 1 .. q - a + 1
    BY Part
  <2>3. \A k \in 1 .. q - a + 1 : SubSeq(w, a, q)[k] = w[a + k - 1]
    BY Part
  <2>4. \A k \in a .. q : SubSeq(w, a, q)[k - a + 1] = w[k] /\ k - a + 1 \in 1 .. q - a + 1
    BY Part
  <2>5. \A k \in 1 .. q - a + 1 : a + k - 1 \in a .. q
    OBVIOUS
  <2> QED BY <2>1, <2>2, <2>3, <2>4, <2>5
<1> HIDE DEF s
<1>4. FoldText(s) = IF N = {} THEN <<>> ELSE After(s, Min(N) - 1)
  BY DEF FoldText
<1>5. CASE x = q + 1
  <2>1. N = {}
    BY <1>1, <1>3, <1>5
  <2>2. SubSeq(w, x, q) = <<>>
    <3>1. x \in Nat \ {0} /\ ~(x <= q)
      BY <1>5
    <3>2. Len(SubSeq(w, x, q)) = 0 /\ SubSeq(w, x, q) \in Seq(Byte)
      BY <3>1, Part
    <3> QED BY <3>2, EmptySeq
  <2> QED BY <1>1, <1>2, <1>4, <2>1, <2>2 DEF s
<1>6. CASE x <= q
  <2>1. N \in SUBSET Nat /\ x - a + 1 \in N
    BY <1>1, <1>3, <1>6, SMTT(30)
  <2>2. Min(N) \in N /\ \A k \in N : Min(N) <= k
    BY <2>1, MinOf
  <2>3. PICK m \in N : m = Min(N)
    BY <2>2
  <2>4. m = x - a + 1
    <3>1. m \in 1 .. q - a + 1 /\ m <= x - a + 1 /\ s[m] \notin {SP, HT} /\ s[m] = w[a + m - 1]
      BY <1>3, <2>1, <2>2, <2>3
    <3>2. ~(a + m - 1 \in a .. x - 1)
      BY <1>1, <3>1
    <3> QED BY <1>1, <3>1, <3>2
  <2>5. After(s, m - 1) = SubSeq(w, x, q)
    <3>1. m - 1 + 1 \in Nat \ {0} /\ q - a + 1 \in Nat /\ q - a + 1 <= q - a + 1
          /\ a + (m - 1 + 1) - 1 = x /\ a + (q - a + 1) - 1 = q
      BY <1>1, <1>6, <2>4
    <3>a. PICK y \in Nat \ {0}, z \in Nat : y = m - 1 + 1 /\ z = q - a + 1
      BY <3>1
    <3>2. SubSeq(SubSeq(w, a, q), y, z) = SubSeq(w, a + y - 1, a + z - 1)
      <4>1. z <= q - a + 1
        BY <3>1, <3>a
      <4> HIDE DEF N
      <4> QED BY <4>1, PartOfPart
    <3> QED BY <1>3, <3>1, <3>a, <3>2 DEF After, s
  <2> QED BY <1>1, <1>2, <1>4, <2>1, <2>3, <2>5 DEF s
<1> QED BY <1>1, <1>5, <1>6

-----------------------------------------------------------------------------
(***************************************************************************)
(* The fields of a complete head                                           *)
(***************************************************************************)

\* The first p - 1 bytes of w are lines, the next two an empty line.
Complete(w, p) ==
  /\ w \in Seq(Byte) /\ p \in Nat /\ p > 1 /\ p < Len(w)
  /\ AtLine(w, p, p) /\ w[p] = CR /\ w[p + 1] = LF

HeadPart(w, p) == SubSeq(w, 1, p + 1)

\* The line of the head s that begins at b and ends at e.
HeaderLineAt(w, s, e, b) ==
  /\ b = LineStart(s, e) /\ w[e] = LF /\ w[b - 1] = LF /\ StartsLine(w, b, e)
  /\ b <= e - 2 /\ e - 2 \in Nat /\ Line(s, e) = SubSeq(w, b, e - 2) /\ w[b] # CR
  /\ e \in FoldLines(s) <=> w[b] \in {SP, HT}
  /\ w[b] \in {SP, HT} => FoldAt(w, b, e - 2) /\ b - 1 \in HeaderLines(s)
  /\ w[b] \notin {SP, HT} => FieldAt(w, b, e - 2)

\* The lines of the fields of a head.
LEMMA HeadLines ==
  ASSUME NEW w, NEW p, Complete(w, p), NEW s, s = HeadPart(w, p)
  PROVE  /\ HeaderLines(s) \subseteq 1 .. p - 1
         /\ \A e \in 1 .. p - 1 : \A b \in 2 .. e :
              w[e] = LF /\ StartsLine(w, b, e) => e \in HeaderLines(s)
         /\ \A e \in HeaderLines(s) : \E b \in 2 .. e : HeaderLineAt(w, s, e, b)
<1> USE DEF Complete, HeadPart
<1>1. p + 1 \in Nat /\ p + 1 <= Len(w)
  OBVIOUS
<1>2. /\ LineEnds(s) = {e \in 1 .. p + 1 : w[e] = LF}
      /\ \A e \in LineEnds(s) : StartsLine(w, LineStart(s, e), e) /\ LineStart(s, e) \in 1 .. e
  BY <1>1, LinePlaces
<1>3. ASSUME NEW e \in LineEnds(s), NEW b \in 1 .. e, b = LineStart(s, e), e - 2 \in Nat
      PROVE  Line(s, e) = SubSeq(w, b, e - 2)
  <2>1. /\ p + 1 - 1 + 1 = p + 1 /\ 1 + b - 1 = b /\ 1 + (e - 2) - 1 = e - 2 /\ 1 \in Nat \ {0}
        /\ b \in Nat \ {0} /\ e - 2 <= p + 1 - 1 + 1
    BY <1>2, <1>3
  <2>a. PICK y \in Nat, n \in Nat : y = e - 2 /\ n = p + 1 /\ y <= n - 1 + 1 /\ n <= Len(w)
    BY <1>1, <1>3, <2>1
  <2>b. SubSeq(SubSeq(w, 1, n), b, y) = SubSeq(w, 1 + b - 1, 1 + y - 1)
    BY <2>1, <2>a, PartOfPart
  <2>2. SubSeq(SubSeq(w, 1, p + 1), b, e - 2) = SubSeq(w, 1 + b - 1, 1 + (e - 2) - 1)
    BY <2>a, <2>b
  <2>3. Line(s, e) = SubSeq(s, b, e - 2)
    BY <1>3 DEF Line
  <2> QED BY <2>1, <2>2, <2>3
<1>4. LineStart(s, p + 1) = p /\ Line(s, p + 1) = <<>> /\ p + 1 \in LineEnds(s) /\ p \notin LineEnds(s)
  <2>1. p + 1 \in LineEnds(s) /\ StartsLine(w, p, p + 1)
    BY <1>2 DEF AtLine, StartsLine
  <2>2. LineStart(s, p + 1) = p
    BY <1>1, <1>2, <2>1, StartUnique
  <2>3. Line(s, p + 1) = SubSeq(w, p, p + 1 - 2)
    <3>1. p + 1 - 2 \in Nat /\ p \in 1 .. p + 1
      OBVIOUS
    <3> QED BY <1>3, <2>1, <2>2, <3>1
  <2>4. SubSeq(w, p, p + 1 - 2) = <<>>
    BY SubSeqEmpty
  <2>5. p \notin LineEnds(s)
    BY <1>2, Codes
  <2> QED BY <2>1, <2>2, <2>3, <2>4, <2>5
<1>5. ASSUME NEW e \in 1 .. p - 1, w[e] = LF
      PROVE  /\ e \in LineEnds(s)
             /\ LineStart(s, e) \in 1 .. e /\ StartsLine(w, LineStart(s, e), e)
             /\ GoodLine(w, LineStart(s, e), e)
  <2>1. e \in LineEnds(s)
    BY <1>2, <1>5
  <2> QED BY <1>2, <1>5, <2>1 DEF AtLine, LinesGood
<1>6. ASSUME NEW e \in 1 .. p - 1, NEW b \in 2 .. e, w[e] = LF, b = LineStart(s, e)
      PROVE  /\ e \in HeaderLines(s) /\ b <= e - 2 /\ e - 2 \in Nat /\ Line(s, e) = SubSeq(w, b, e - 2)
             /\ w[b] # CR
             /\ e \in FoldLines(s) <=> w[b] \in {SP, HT}
             /\ w[b] \in {SP, HT} => FoldAt(w, b, e - 2) /\ Later(w, b)
             /\ w[b] \notin {SP, HT} => FieldAt(w, b, e - 2)
  <2>1. /\ e \in LineEnds(s) /\ e > b
        /\ FieldAt(w, b, e - 2) \/ (Later(w, b) /\ FoldAt(w, b, e - 2))
    BY <1>5, <1>6 DEF GoodLine
  <2>2. e - 2 \in Nat /\ e - 2 <= Len(w) /\ b \in Nat \ {0}
    BY <2>1
  <2>3. b <= e - 2 /\ w[b] # CR
    BY <2>1, <2>2, HeaderTextPlain, FieldBegins
  <2>4. Line(s, e) = SubSeq(w, b, e - 2)
    <3>1. b \in 1 .. e
      OBVIOUS
    <3> QED BY <1>3, <1>6, <2>1, <2>2, <3>1
  <2>5. Line(s, e) # <<>> /\ Line(s, e)[1] = w[b]
    <3>1. PICK l : l = SubSeq(w, b, e - 2)
      OBVIOUS
    <3>2. l \in Seq(Byte) /\ Len(l) = e - 2 - b + 1 /\ \A k \in 1 .. e - 2 - b + 1 : l[k] = w[b + k - 1]
      BY <2>2, <2>3, <3>1, Part
    <3>3. b + 1 - 1 = b /\ 1 \in 1 .. e - 2 - b + 1 /\ Len(l) > 0
      BY <2>3, <3>2
    <3>4. l # <<>> /\ l[1] = w[b + 1 - 1]
      BY <3>2, <3>3, EmptySeq
    <3> QED BY <2>4, <3>1, <3>3, <3>4
  <2>6. e \in HeaderLines(s) /\ (e \in FoldLines(s) <=> w[b] \in {SP, HT})
    <3>1. ~IsFirst(s, e)
      BY <1>6 DEF IsFirst
    <3> QED BY <2>1, <2>5, <3>1 DEF HeaderLines, FoldLines
  <2>7. /\ w[b] \in {SP, HT} => FoldAt(w, b, e - 2) /\ Later(w, b)
        /\ w[b] \notin {SP, HT} => FieldAt(w, b, e - 2)
    BY <2>1, <2>2, FieldBegins
  <2> QED BY <2>2, <2>3, <2>4, <2>6, <2>7
<1>7. ASSUME NEW e \in HeaderLines(s)
      PROVE  e \in 1 .. p - 1 /\ w[e] = LF /\ LineStart(s, e) \in 2 .. e /\ StartsLine(w, LineStart(s, e), e)
  <2>1. e \in LineEnds(s) /\ LineStart(s, e) # 1 /\ Line(s, e) # <<>>
    BY <1>7 DEF HeaderLines, IsFirst
  <2>2. e \in 1 .. p + 1 /\ w[e] = LF /\ e # p + 1 /\ e # p
    BY <1>2, <1>4, <2>1
  <2> QED BY <1>2, <2>1, <2>2
<1>8. ASSUME NEW e \in 1 .. p - 1, NEW b \in 2 .. e, w[e] = LF, StartsLine(w, b, e)
      PROVE  b = LineStart(s, e) /\ e \in HeaderLines(s)
  <2>1. b = LineStart(s, e)
    BY <1>5, <1>8, StartUnique
  <2> QED BY <1>6, <1>8, <2>1
<1>9. ASSUME NEW e \in HeaderLines(s), NEW b \in 2 .. e, b = LineStart(s, e)
      PROVE  w[b - 1] = LF /\ (Later(w, b) => b - 1 \in HeaderLines(s))
  <2>1. e \in 1 .. p - 1 /\ w[b - 1] = LF
    BY <1>7, <1>9 DEF StartsLine
  <2>2. ASSUME Later(w, b) PROVE b - 1 \in HeaderLines(s)
    <3>1. PICK k \in 1 .. b - 2 : w[k] = LF
      BY <2>2 DEF Later
    <3>2. PICK d \in 1 .. p - 1 : d = b - 1 /\ w[d] = LF
      BY <2>1
    <3>3. LineStart(s, d) \in 1 .. d /\ StartsLine(w, LineStart(s, d), d)
      BY <1>5, <3>2
    <3>4. LineStart(s, d) # 1
      BY <3>1, <3>2, <3>3 DEF StartsLine
    <3>5. LineStart(s, d) \in 2 .. d
      BY <3>3, <3>4
    <3> QED BY <1>8, <3>2, <3>3, <3>5
  <2> QED BY <2>1, <2>2
<1>10. ASSUME NEW e \in HeaderLines(s)
       PROVE  \E b \in 2 .. e : HeaderLineAt(w, s, e, b)
  <2>1. PICK b \in 2 .. e : b = LineStart(s, e) /\ e \in 1 .. p - 1 /\ w[e] = LF /\ StartsLine(w, b, e)
    BY <1>7
  <2>2. w[b - 1] = LF /\ (Later(w, b) => b - 1 \in HeaderLines(s))
    BY <1>9, <2>1
  <2>3. /\ b <= e - 2 /\ e - 2 \in Nat /\ Line(s, e) = SubSeq(w, b, e - 2) /\ w[b] # CR
        /\ e \in FoldLines(s) <=> w[b] \in {SP, HT}
        /\ w[b] \in {SP, HT} => FoldAt(w, b, e - 2) /\ Later(w, b)
        /\ w[b] \notin {SP, HT} => FieldAt(w, b, e - 2)
    BY <1>6, <2>1
  <2> HIDE DEF Complete, HeadPart
  <2> QED BY <2>1, <2>2, <2>3 DEF HeaderLineAt
<1>11. HeaderLines(s) \subseteq 1 .. p - 1
  BY <1>7
<1>12. \A e \in 1 .. p - 1 : \A b \in 2 .. e :
              w[e] = LF /\ StartsLine(w, b, e) => e \in HeaderLines(s)
  BY <1>8
<1> QED BY <1>10, <1>11, <1>12

\* Values of the lines of w that end up to n: one for each line, with the line before where
\* it is continued.
ValuesOf(w, n, f) ==
  \A e \in 1 .. n : \A b \in 2 .. e :
    w[e] = LF /\ StartsLine(w, b, e) =>
      f[e] = IF w[b] \in {SP, HT} THEN f[b - 1] \o TextOf(w, b, e - 2) ELSE TextOf(w, b, e - 2)

\* Values that fit the lines are those of ValueUpTo.
LEMMA ValuesAreValues ==
  ASSUME NEW w, NEW p, Complete(w, p), NEW s, s = HeadPart(w, p),
         NEW f, ValuesOf(w, p - 1, f), NEW e \in HeaderLines(s)
  PROVE  ValueUpTo(s)[e] = f[e]
<1> DEFINE HL == HeaderLines(s)
           Equation(v) ==
             v = [d \in HL |-> IF d \in FoldLines(s) THEN v[LineStart(s, d) - 1] \o FoldText(Line(s, d))
                               ELSE FieldText(Line(s, d))]
           h == [d \in HL |-> f[d]]
<1>0. HL \subseteq 1 .. p - 1 /\ p \in Nat
  BY HeadLines DEF Complete
<1>1. ASSUME NEW d \in HL
      PROVE  /\ d \in FoldLines(s) => /\ LineStart(s, d) - 1 \in HL /\ LineStart(s, d) - 1 < d
                                      /\ f[d] = f[LineStart(s, d) - 1] \o FoldText(Line(s, d))
             /\ d \notin FoldLines(s) => f[d] = FieldText(Line(s, d))
  <2>1. PICK b \in 2 .. d :
              /\ b = LineStart(s, d) /\ w[d] = LF /\ StartsLine(w, b, d)
              /\ Line(s, d) = SubSeq(w, b, d - 2)
              /\ d \in FoldLines(s) <=> w[b] \in {SP, HT}
              /\ w[b] \in {SP, HT} => b - 1 \in HeaderLines(s)
    BY HeadLines DEF HeaderLineAt
  <2>2. d \in 1 .. p - 1
    BY <1>0
  <2>3. f[d] = IF w[b] \in {SP, HT} THEN f[b - 1] \o TextOf(w, b, d - 2) ELSE TextOf(w, b, d - 2)
    BY <2>1, <2>2 DEF ValuesOf
  <2>4. b - 1 < d
    BY <2>2
  <2> QED BY <2>1, <2>3, <2>4 DEF TextOf
<1>2. Equation(h)
  BY <1>1
<1>3. ValueUpTo(s) = CHOOSE v : Equation(v)
  BY DEF ValueUpTo
<1>4. Equation(ValueUpTo(s))
  <2> HIDE DEF Equation, h
  <2> QED BY <1>2, <1>3
<1>5. PICK v : v = ValueUpTo(s)
  OBVIOUS
<1>6. \A d \in HL : v[d] = IF d \in FoldLines(s) THEN v[LineStart(s, d) - 1] \o FoldText(Line(s, d))
                           ELSE FieldText(Line(s, d))
  BY <1>4, <1>5
<1>7. ASSUME v[e] # f[e] PROVE FALSE
  <2>1. PICK N : N = {d \in HL : v[d] # f[d]}
    OBVIOUS
  <2>2. N \in SUBSET Nat /\ N # {}
    BY <1>0, <1>7, <2>1
  <2>3. PICK d \in N : \A y \in N : d <= y
    BY <2>2, LeastNatural
  <2>4. d \in HL /\ v[d] # f[d] /\ d \in Nat
    BY <2>1, <2>2
  <2>5. CASE d \in FoldLines(s)
    <3>1. PICK y \in HL : y = LineStart(s, d) - 1 /\ y < d /\ f[d] = f[y] \o FoldText(Line(s, d))
      BY <1>1, <2>4, <2>5
    <3>2. v[y] = f[y]
      <4>1. y \in Nat /\ ~(d <= y)
        BY <1>0, <2>4, <3>1
      <4>2. y \notin N
        BY <2>3, <4>1
      <4> QED BY <2>1, <4>2
    <3> QED BY <1>6, <2>4, <2>5, <3>1, <3>2
  <2>6. CASE d \notin FoldLines(s)
    BY <1>1, <1>6, <2>4, <2>6
  <2> QED BY <2>5, <2>6
<1> QED BY <1>5, <1>7

\* Where the fields of w begin, as far as m.
FieldsOf(w, m) == {b \in 2 .. m : w[b - 1] = LF /\ w[b] \notin {SP, HT, CR}}

\* The headers are the fields, in their order.
InOrder(w, m, n, g) ==
  /\ \A j, k \in 1 .. n : j < k => g[j] < g[k]
  /\ \A k \in 1 .. n : g[k] \in FieldsOf(w, m)
  /\ \A b \in FieldsOf(w, m) : \E k \in 1 .. n : g[k] = b

\* The name of the field that begins at b.
Named(w, b, name) ==
  \E i \in b + 1 .. Len(w) : w[i] = Colon /\ NameAt(w, b, i - 1) /\ name = SubSeq(w, b, i - 1)

\* Where the fields of a head begin is where its lines begin that continue none.
LEMMA FieldLines ==
  ASSUME NEW w, NEW p, Complete(w, p), NEW s, s = HeadPart(w, p)
  PROVE  /\ \A e \in HeaderLines(s) \ FoldLines(s) :
              /\ LineStart(s, e) \in FieldsOf(w, p) /\ StartsLine(w, LineStart(s, e), e)
              /\ FieldAt(w, LineStart(s, e), e - 2)
         /\ \A b \in FieldsOf(w, p) : \E e \in HeaderLines(s) \ FoldLines(s) : LineStart(s, e) = b
<1>1. /\ HeaderLines(s) \subseteq 1 .. p - 1
      /\ \A e \in 1 .. p - 1 : \A b \in 2 .. e :
              w[e] = LF /\ StartsLine(w, b, e) => e \in HeaderLines(s)
      /\ \A e \in HeaderLines(s) : \E b \in 2 .. e : HeaderLineAt(w, s, e, b)
  BY HeadLines
<1>2. w \in Seq(Byte) /\ p \in Nat /\ p > 1 /\ p < Len(w) /\ w[p] = CR /\ w[p - 1] = LF
  BY DEF Complete, AtLine
<1>3. ASSUME NEW e \in HeaderLines(s) \ FoldLines(s)
      PROVE  /\ LineStart(s, e) \in FieldsOf(w, p) /\ StartsLine(w, LineStart(s, e), e)
             /\ FieldAt(w, LineStart(s, e), e - 2)
  <2>1. PICK b \in 2 .. e :
              /\ b = LineStart(s, e) /\ w[b - 1] = LF /\ StartsLine(w, b, e)
              /\ w[b] # CR /\ w[b] \notin {SP, HT} /\ FieldAt(w, b, e - 2)
    BY <1>1 DEF HeaderLineAt
  <2>2. b \in 2 .. p
    BY <1>1, <1>2
  <2> QED BY <2>1, <2>2 DEF FieldsOf
<1>4. ASSUME NEW b \in FieldsOf(w, p)
      PROVE  \E e \in HeaderLines(s) \ FoldLines(s) : LineStart(s, e) = b
  <2>1. b \in 2 .. p - 1 /\ w[b - 1] = LF /\ w[b] \notin {SP, HT}
    BY <1>2 DEF FieldsOf
  <2>2. PICK N : N = {e \in b .. p - 1 : w[e] = LF}
    OBVIOUS
  <2>3. N \in SUBSET Nat /\ p - 1 \in N
    BY <1>2, <2>1, <2>2
  <2>4. PICK e \in N : \A y \in N : e <= y
    BY <2>3, LeastNatural
  <2>5. e \in b .. p - 1 /\ w[e] = LF /\ \A k \in b .. e - 1 : w[k] # LF
    BY <1>2, <2>1, <2>2, <2>4
  <2>6. e \in 1 .. p - 1 /\ b \in 2 .. e /\ StartsLine(w, b, e)
    BY <2>1, <2>5 DEF StartsLine
  <2>7. e \in HeaderLines(s)
    BY <1>1, <2>5, <2>6
  <2>8. b = LineStart(s, e)
    <3>1. PICK x \in 2 .. e : x = LineStart(s, e) /\ StartsLine(w, x, e)
      BY <1>1, <2>7 DEF HeaderLineAt
    <3> QED BY <2>6, <3>1, StartUnique
  <2>9. e \notin FoldLines(s)
    BY <1>1, <2>1, <2>7, <2>8 DEF HeaderLineAt
  <2> QED BY <2>7, <2>8, <2>9
<1> QED BY <1>3, <1>4

\* ColonPlace for the name, for every line of w.
LEMMA FieldNamePlace ==
  \A w \in Seq(Byte) : \A a \in Nat \ {0} : \A q \in Nat : \A i \in a + 1 .. q :
    q <= Len(w) /\ NameAt(w, a, i - 1) /\ w[i] = Colon =>
      FieldName(SubSeq(w, a, q)) = SubSeq(w, a, i - 1)
<1> SUFFICES ASSUME NEW w \in Seq(Byte), NEW a \in Nat \ {0}, NEW q \in Nat, NEW i \in a + 1 .. q,
                    q <= Len(w), NameAt(w, a, i - 1), w[i] = Colon
             PROVE  FieldName(SubSeq(w, a, q)) = SubSeq(w, a, i - 1)
  OBVIOUS
<1> QED BY ColonPlace

\* The name that begins at the beginning of a line is the line's.
LEMMA NameOfLine ==
  ASSUME NEW w, NEW p, Complete(w, p), NEW s, s = HeadPart(w, p),
         NEW e \in HeaderLines(s) \ FoldLines(s), NEW b, b = LineStart(s, e),
         NEW name, Named(w, b, name)
  PROVE  FieldName(Line(s, e)) = name
<1>1. /\ b \in 2 .. e /\ e - 2 \in Nat /\ Line(s, e) = SubSeq(w, b, e - 2) /\ FieldAt(w, b, e - 2)
      /\ e \in 1 .. p - 1
  <2>1. e \in HeaderLines(s) /\ HeaderLines(s) \subseteq 1 .. p - 1
    BY HeadLines
  <2>2. PICK x \in 2 .. e : HeaderLineAt(w, s, e, x)
    BY <2>1, HeadLines
  <2> QED BY <2>1, <2>2 DEF HeaderLineAt
<1>2. w \in Seq(Byte) /\ e - 2 <= Len(w) /\ b \in Nat \ {0}
  BY <1>1 DEF Complete
<1>3. PICK i \in b + 1 .. Len(w) : w[i] = Colon /\ NameAt(w, b, i - 1) /\ name = SubSeq(w, b, i - 1)
  BY DEF Named
<1>4. PICK j \in b .. e - 2 : w[j] = Colon /\ NameAt(w, b, j - 1)
  BY <1>1 DEF FieldAt
<1>5. \A k \in 1 .. Len(w) : w[k] \in Byte
  BY <1>2, LenProperties
<1>6. i = j
  <2>0. i \in 1 .. Len(w) /\ j \in 1 .. Len(w) /\ ~IsToken(w[i]) /\ ~IsToken(w[j])
    <3>1. i \in 1 .. Len(w) /\ j \in 1 .. Len(w)
      BY <1>1, <1>2
    <3> QED BY <1>3, <1>4, <1>5, <3>1, Codes
  <2>1. ASSUME i < j PROVE FALSE
    <3>1. i \in b .. j - 1
      BY <1>1, <2>0, <2>1
    <3> QED BY <1>4, <2>0, <3>1 DEF NameAt
  <2>2. ASSUME j < i PROVE FALSE
    <3>1. j \in b .. i - 1
      BY <1>1, <2>0, <2>2
    <3> QED BY <1>3, <2>0, <3>1 DEF NameAt
  <2> QED BY <1>2, <2>1, <2>2
<1>7. i \in b + 1 .. e - 2
  BY <1>3, <1>4, <1>6
<1>8. FieldName(SubSeq(w, b, e - 2)) = SubSeq(w, b, i - 1)
  <2>1. PICK y \in Nat : y = e - 2 /\ y <= Len(w) /\ i \in b + 1 .. y
    BY <1>1, <1>2, <1>7
  <2>a. w[i] = Colon /\ NameAt(w, b, i - 1)
    BY <1>3
  <2>b. w \in Seq(Byte) /\ b \in Nat \ {0} /\ y <= Len(w) /\ i \in b + 1 .. y
    BY <1>2, <2>1
  <2>2. FieldName(SubSeq(w, b, y)) = SubSeq(w, b, i - 1)
    BY <2>a, <2>b, FieldNamePlace
  <2> QED BY <2>1, <2>2
<1> QED BY <1>1, <1>3, <1>8

\* What the headers say of a complete head.
LengthNamed(hs) == {i \in DOMAIN hs : hs[i].name = ContentLength}

Read(w, p, hs, f, g) ==
  /\ Complete(w, p) /\ hs \in Seq(Header) /\ g \in Seq(Nat) /\ Len(g) = Len(hs)
  /\ InOrder(w, p, Len(hs), g) /\ ValuesOf(w, p - 1, f)
  /\ \A k \in 1 .. Len(hs) : Named(w, g[k], hs[k].name)
  /\ \A k \in 1 .. Len(hs) - 1 : hs[k].value = f[g[k + 1] - 1]
  /\ hs # <<>> => hs[Len(hs)].value = f[p - 1]

\* The fields and the headers that declare a length.
LEMMA LengthLinesNamed ==
  ASSUME NEW w, NEW p, NEW hs, NEW f, NEW g, Read(w, p, hs, f, g), NEW s, s = HeadPart(w, p)
  PROVE  /\ \A e \in LengthLines(s) : \E k \in LengthNamed(hs) : LineStart(s, e) = g[k]
         /\ \A k \in LengthNamed(hs) : \E e \in LengthLines(s) : LineStart(s, e) = g[k]
<1>1. /\ Complete(w, p) /\ DOMAIN hs = 1 .. Len(hs) /\ InOrder(w, p, Len(hs), g)
      /\ \A k \in 1 .. Len(hs) : Named(w, g[k], hs[k].name)
  BY LenProperties DEF Read
<1>2. ASSUME NEW e \in LengthLines(s)
      PROVE  \E k \in LengthNamed(hs) : LineStart(s, e) = g[k]
  <2>1. e \in HeaderLines(s) \ FoldLines(s) /\ FieldName(Line(s, e)) = ContentLength
    BY DEF LengthLines
  <2>2. LineStart(s, e) \in FieldsOf(w, p)
    BY <1>1, <2>1, FieldLines
  <2>3. PICK k \in 1 .. Len(hs) : g[k] = LineStart(s, e)
    BY <1>1, <2>2 DEF InOrder
  <2>4. Named(w, LineStart(s, e), hs[k].name)
    BY <1>1, <2>3
  <2>5. hs[k].name = ContentLength
    BY <1>1, <2>1, <2>4, NameOfLine
  <2> QED BY <1>1, <2>3, <2>5 DEF LengthNamed
<1>3. ASSUME NEW k \in LengthNamed(hs)
      PROVE  \E e \in LengthLines(s) : LineStart(s, e) = g[k]
  <2>1. k \in 1 .. Len(hs) /\ hs[k].name = ContentLength /\ Named(w, g[k], hs[k].name)
    BY <1>1 DEF LengthNamed
  <2>2. g[k] \in FieldsOf(w, p)
    BY <1>1, <2>1 DEF InOrder
  <2>a. \A b \in FieldsOf(w, p) : \E e \in HeaderLines(s) \ FoldLines(s) : LineStart(s, e) = b
    BY <1>1, FieldLines
  <2>3. PICK e \in HeaderLines(s) \ FoldLines(s) : LineStart(s, e) = g[k]
    BY <2>a, <2>2
  <2>4. FieldName(Line(s, e)) = ContentLength
    BY <1>1, <2>1, <2>3, NameOfLine
  <2> QED BY <2>3, <2>4 DEF LengthLines
<1> QED BY <1>2, <1>3

\* The first header that declares a length has the value the grammar finds.
LEMMA HeadersAreMeant ==
  ASSUME NEW w, NEW p, NEW hs, NEW f, NEW g, Read(w, p, hs, f, g), NEW s, s = HeadPart(w, p)
  PROVE  /\ LengthLines(s) = {} <=> LengthNamed(hs) = {}
         /\ LengthNamed(hs) # {} => LengthText(s) = hs[Min(LengthNamed(hs))].value
<1>1. /\ \A e \in LengthLines(s) : \E k \in LengthNamed(hs) : LineStart(s, e) = g[k]
      /\ \A k \in LengthNamed(hs) : \E e \in LengthLines(s) : LineStart(s, e) = g[k]
  <2>1. \A e \in LengthLines(s) : \E k \in LengthNamed(hs) : LineStart(s, e) = g[k]
    BY LengthLinesNamed
  <2>2. \A k \in LengthNamed(hs) : \E e \in LengthLines(s) : LineStart(s, e) = g[k]
    BY LengthLinesNamed
  <2> QED BY <2>1, <2>2
<1>2. ASSUME LengthNamed(hs) # {}
      PROVE  LengthText(s) = hs[Min(LengthNamed(hs))].value
  <2>1. /\ Complete(w, p) /\ w \in Seq(Byte) /\ p \in Nat /\ p > 1 /\ p < Len(w)
        /\ w[p - 1] = LF /\ w[p] = CR /\ hs \in Seq(Header) /\ g \in Seq(Nat) /\ Len(g) = Len(hs)
        /\ InOrder(w, p, Len(hs), g) /\ ValuesOf(w, p - 1, f) /\ Len(hs) \in Nat
        /\ \A k \in 1 .. Len(hs) - 1 : hs[k].value = f[g[k + 1] - 1]
        /\ hs # <<>> => hs[Len(hs)].value = f[p - 1]
    <3>1. /\ Complete(w, p) /\ hs \in Seq(Header) /\ g \in Seq(Nat) /\ Len(g) = Len(hs)
          /\ InOrder(w, p, Len(hs), g) /\ ValuesOf(w, p - 1, f)
          /\ \A k \in 1 .. Len(hs) - 1 : hs[k].value = f[g[k + 1] - 1]
          /\ hs # <<>> => hs[Len(hs)].value = f[p - 1]
      BY DEF Read
    <3>2. w \in Seq(Byte) /\ p \in Nat /\ p > 1 /\ p < Len(w) /\ w[p - 1] = LF /\ w[p] = CR
      BY <3>1 DEF Complete, AtLine
    <3> QED BY <3>1, <3>2
  <2>2. LengthNamed(hs) \in SUBSET (1 .. Len(hs)) /\ LengthNamed(hs) \in SUBSET Nat
    BY <2>1, LenProperties DEF LengthNamed
  <2>3. PICK k \in LengthNamed(hs) : k = Min(LengthNamed(hs)) /\ \A y \in LengthNamed(hs) : k <= y
    BY <1>2, <2>2, MinOf
  <2>4. HeaderLines(s) \subseteq 1 .. p - 1
    BY <2>1, HeadLines
  <2>f. \A x \in HeaderLines(s) \ FoldLines(s) :
          LineStart(s, x) \in FieldsOf(w, p) /\ StartsLine(w, LineStart(s, x), x)
    BY <2>1, FieldLines
  <2>g. \A b \in FieldsOf(w, p) : \E x \in HeaderLines(s) \ FoldLines(s) : LineStart(s, x) = b
    BY <2>1, FieldLines
  <2>5. LengthLines(s) \in SUBSET Nat /\ LengthLines(s) # {}
    BY <1>1, <1>2, <2>1, <2>4 DEF LengthLines
  <2>6. PICK e \in LengthLines(s) : e = Min(LengthLines(s)) /\ \A y \in LengthLines(s) : e <= y
    BY <2>5, MinOf
  <2>7. /\ e \in HeaderLines(s) \ FoldLines(s) /\ e \in 1 .. p - 1
        /\ StartsLine(w, LineStart(s, e), e)
    BY <2>f, <2>4 DEF LengthLines
  <2>8. LineStart(s, e) = g[k]
    <3>1. PICK y \in LengthNamed(hs) : LineStart(s, e) = g[y]
      BY <1>1
    <3>2. PICK d \in LengthLines(s) : LineStart(s, d) = g[k]
      BY <1>1
    <3>3. k <= y /\ e <= d /\ k \in 1 .. Len(hs) /\ y \in 1 .. Len(hs)
      BY <2>2, <2>3, <2>6
    <3>4. /\ d \in 1 .. p - 1 /\ StartsLine(w, g[k], d) /\ StartsLine(w, g[y], e)
      BY <2>f, <2>4, <2>7, <3>1, <3>2 DEF LengthLines
    <3>5. CASE k < y
      <4>1. g[k] < g[y] /\ g[y] \in 2 .. p /\ w[g[y] - 1] = LF /\ g[k] \in 2 .. p
        BY <2>1, <3>3, <3>5 DEF InOrder, FieldsOf
      <4>2. g[y] - 1 \in g[k] .. d - 1
        BY <3>3, <3>4, <4>1 DEF StartsLine
      <4> QED BY <3>4, <4>1, <4>2 DEF StartsLine
    <3>6. CASE k = y
      BY <3>1, <3>6
    <3> QED BY <3>3, <3>5, <3>6
  <2>9. PICK D \in Int : D = IF k < Len(hs) THEN g[k + 1] - 1 ELSE p - 1
    <3>1. k \in 1 .. Len(hs)
      BY <2>2
    <3>2. k < Len(hs) => g[k + 1] \in 2 .. p
      BY <2>1, <3>1 DEF InOrder, FieldsOf
    <3> QED BY <2>1, <3>2
  <2>10. hs[k].value = f[D]
    <3>1. k \in 1 .. Len(hs)
      BY <2>2
    <3>2. CASE k < Len(hs)
      <4>1. k \in 1 .. Len(hs) - 1
        BY <2>1, <3>1, <3>2
      <4> QED BY <2>1, <2>9, <3>2, <4>1
    <3>3. CASE k = Len(hs)
      <4>1. hs # <<>>
        BY <2>1, <3>1
      <4> QED BY <2>1, <2>9, <3>3, <4>1
    <3> QED BY <2>1, <3>1, <3>2, <3>3
  <2>11. k \in 1 .. Len(hs) /\ g[k] \in 2 .. e /\ (k < Len(hs) => g[k + 1] \in FieldsOf(w, p) /\ g[k] < g[k + 1])
    <3>1. k \in 1 .. Len(hs)
      BY <2>2
    <3>2. g[k] \in 2 .. p
      BY <2>1, <3>1 DEF InOrder, FieldsOf
    <3>3. g[k] \in 2 .. e
      BY <2>7, <2>8, <3>2 DEF StartsLine
    <3> QED BY <2>1, <3>1, <3>3 DEF InOrder
  <2>12. D \in e .. p - 1 /\ w[D] = LF
    <3>1. CASE k < Len(hs)
      <4>1. g[k + 1] \in 2 .. p /\ w[g[k + 1] - 1] = LF /\ g[k] <= g[k + 1] - 1
        BY <2>11, <3>1 DEF FieldsOf
      <4>2. D = g[k + 1] - 1
        BY <2>9, <3>1
      <4>3. ~(D < e)
        <5> SUFFICES ASSUME D < e PROVE FALSE
          OBVIOUS
        <5>1. D \in g[k] .. e - 1
          BY <2>7, <2>11, <4>1, <4>2
        <5> QED BY <2>7, <2>8, <4>1, <4>2, <5>1 DEF StartsLine
      <4>4. D \in Int /\ D <= p - 1 /\ w[D] = LF
        BY <2>1, <4>1, <4>2
      <4> QED BY <2>1, <2>7, <4>3, <4>4
    <3>2. CASE ~(k < Len(hs))
      BY <2>1, <2>7, <2>9, <3>2
    <3> QED BY <3>1, <3>2
  <2>13. D \in HeaderLines(s)
    <3>1. PICK b \in 1 .. D : StartsLine(w, b, D)
      BY <2>1, <2>7, <2>12, StartExists
    <3>2. b # 1
      <4> SUFFICES ASSUME b = 1 PROVE FALSE
        OBVIOUS
      <4>1. g[k] - 1 \in 1 .. D - 1 /\ w[g[k] - 1] = LF
        <5>1. g[k] \in 2 .. e /\ D \in Int /\ e <= D /\ e \in Int
          BY <2>7, <2>11, <2>12
        <5>2. w[g[k] - 1] = LF
          BY <2>1, <2>11 DEF InOrder, FieldsOf
        <5> QED BY <5>1, <5>2
      <4> QED BY <3>1, <4>1 DEF StartsLine
    <3>3. b \in 2 .. D /\ D \in 1 .. p - 1
      BY <2>7, <2>12, <3>1, <3>2
    <3> QED BY <2>1, <2>12, <3>1, <3>3, HeadLines
  <2>14. ASSUME NEW x \in HeaderLines(s), e < x, x <= D PROVE x \in FoldLines(s)
    <3> SUFFICES ASSUME x \notin FoldLines(s) PROVE FALSE
      OBVIOUS
    <3>1. LineStart(s, x) \in FieldsOf(w, p) /\ StartsLine(w, LineStart(s, x), x) /\ x \in 1 .. p - 1
      BY <2>f, <2>4
    <3>2. PICK j \in 1 .. Len(hs) : g[j] = LineStart(s, x)
      BY <2>1, <3>1 DEF InOrder
    <3>3. g[j] \in 2 .. x /\ StartsLine(w, g[j], x)
      BY <3>1, <3>2 DEF StartsLine, FieldsOf
    <3>4. g[k] < g[j]
      <4>1. HeaderLines(s) \subseteq 1 .. p - 1 /\ w[e] = LF
        <5>1. HeaderLines(s) \subseteq 1 .. p - 1
          BY <2>4
        <5>2. \E b \in 2 .. e : HeaderLineAt(w, s, e, b)
          BY <2>1, <2>7, HeadLines
        <5> QED BY <5>1, <5>2 DEF HeaderLineAt
      <4>2. ~(g[j] <= e)
        <5> SUFFICES ASSUME g[j] <= e PROVE FALSE
          OBVIOUS
        <5>1. e \in g[j] .. x - 1
          BY <2>7, <2>14, <3>1, <3>3
        <5> QED BY <3>3, <4>1, <5>1 DEF StartsLine
      <4>3. e \in Int /\ g[k] \in Int /\ g[j] \in Int /\ g[k] <= e
        BY <2>7, <2>11, <3>3
      <4> QED BY <4>2, <4>3
    <3>5. ~(j <= k)
      <4>1. j < k => g[j] < g[k]
        BY <2>1, <2>11 DEF InOrder
      <4>2. j = k => g[j] = g[k]
        OBVIOUS
      <4>3. g[k] \in Int /\ g[j] \in Int
        BY <2>11, <3>3
      <4> QED BY <2>11, <3>4, <4>1, <4>2, <4>3
    <3>6. k < Len(hs) /\ k + 1 \in 1 .. Len(hs) /\ (k + 1 = j \/ k + 1 < j)
      <4>1. Len(hs) \in Nat /\ k \in 1 .. Len(hs) /\ j \in 1 .. Len(hs)
        BY <2>1, <2>11
      <4> QED BY <3>5, <4>1
    <3>7. g[k + 1] <= g[j]
      <4>1. k + 1 < j => g[k + 1] < g[j]
        BY <2>1, <3>6 DEF InOrder
      <4>2. g[k + 1] \in Int /\ g[j] \in Int
        BY <2>11, <3>3, <3>6 DEF FieldsOf
      <4> QED BY <3>6, <4>1, <4>2
    <3>8. g[k + 1] \in Int /\ D = g[k + 1] - 1
      BY <2>9, <2>11, <3>6 DEF FieldsOf
    <3> QED BY <2>12, <2>14, <3>1, <3>3, <3>7, <3>8
  <2> DEFINE Tied == {d \in HeaderLines(s) : d >= e /\ \A x \in HeaderLines(s) :
                        e < x /\ x <= d => x \in FoldLines(s)}
  <2>15. D \in Tied
    BY <2>12, <2>13, <2>14
  <2>16. ASSUME NEW d \in Tied PROVE d <= D
    <3> SUFFICES ASSUME d > D PROVE FALSE
      BY <2>4, <2>12
    <3>1. d \in 1 .. p - 1 /\ d \in HeaderLines(s)
      BY <2>4
    <3>2. k < Len(hs) /\ D = g[k + 1] - 1 /\ g[k + 1] \in FieldsOf(w, p)
      BY <2>1, <2>9, <2>11, <2>12, <3>1
    <3>3. PICK x \in HeaderLines(s) \ FoldLines(s) : LineStart(s, x) = g[k + 1]
      BY <2>g, <3>2
    <3>4. x \in 1 .. p - 1 /\ StartsLine(w, g[k + 1], x) /\ g[k + 1] \in 2 .. x
      <4>1. x \in 1 .. p - 1 /\ StartsLine(w, g[k + 1], x)
        BY <2>f, <2>4, <3>3
      <4>2. g[k + 1] \in 2 .. p
        BY <3>2 DEF FieldsOf
      <4> QED BY <4>1, <4>2 DEF StartsLine
    <3>5. e < x
      <4>1. D \in Int /\ e <= D /\ D + 1 <= x /\ e \in Int /\ x \in Int
        BY <2>7, <2>12, <3>2, <3>4 DEF FieldsOf
      <4> HIDE DEF Tied
      <4> QED BY <4>1
    <3>6. x <= d
      <4> SUFFICES ASSUME d < x PROVE FALSE
        BY <3>1, <3>4
      <4>1. d \in g[k + 1] .. x - 1
        BY <2>12, <3>1, <3>2, <3>4
      <4>2. w[d] = LF
        <5> HIDE DEF Tied
        <5>1. \E b \in 2 .. d : HeaderLineAt(w, s, d, b)
          BY <2>1, <3>1, HeadLines
        <5> QED BY <5>1 DEF HeaderLineAt
      <4> QED BY <3>4, <4>1, <4>2 DEF StartsLine
    <3> QED BY <3>3, <3>5, <3>6
  <2>17. LastLine(s, e) = D
    <3>1. Tied \in SUBSET Nat /\ \A d \in Tied : d <= p - 1
      BY <2>1, <2>4
    <3>2. p - 1 \in Nat /\ Tied # {}
      BY <2>1, <2>15
    <3> HIDE DEF Tied
    <3>3. Max(Tied) \in Tied /\ \A d \in Tied : d <= Max(Tied)
      BY <3>1, <3>2, MaxOf
    <3>4. Max(Tied) = D
      <4>1. PICK m \in Tied : m = Max(Tied)
        BY <3>3
      <4>2. m <= D /\ D <= m /\ m \in Nat /\ D \in Nat
        BY <2>15, <2>16, <3>1, <3>3, <4>1
      <4> QED BY <4>1, <4>2
    <3> QED BY <3>4 DEF LastLine, Tied
  <2>18. ValueUpTo(s)[D] = f[D]
    <3> HIDE DEF Tied
    <3> QED BY <2>1, <2>13, ValuesAreValues
  <2> QED BY <2>3, <2>6, <2>10, <2>17, <2>18 DEF LengthText
<1> QED BY <1>1, <1>2

-----------------------------------------------------------------------------
(***************************************************************************)
(* What the parser gathers of a value, byte by byte                        *)
(***************************************************************************)

\* A value for every place.
Valued(f) == f \in [Nat -> Seq(Byte)]

\* The value as far as the line before the one that begins at a, and a part of that line.
Joined(f, a, w, x, q) == f[a - 1] \o SubSeq(w, x, q)

\* The value of a field, as far as the line that goes from a to q.
ValueRead(w, a, q, x, f, v) ==
  IF w[a] \in {SP, HT} THEN FoldFrom(w, a, q, x) /\ v = Joined(f, a, w, x, q)
  ELSE FieldFrom(w, a, q, x) /\ v = SubSeq(w, x, q)

\* The text of the line has begun.
Begun(w, a, p) ==
  IF w[a] \in {SP, HT} THEN \E k \in a .. p : w[k] \notin {SP, HT}
  ELSE \E i \in a + 1 .. p - 1 : w[i] = Colon /\ NameAt(w, a, i - 1)

\* The last header, in state st.
LastHeader(st, h, w, a, p, f) ==
  /\ st \in {"header_line_start", "expecting_newline_3"} => h.value = f[a - 1]
  /\ st = "header_name" => h.name = SubSeq(w, a, p) /\ h.value = <<>>
  /\ st \in {"space_before_header_value", "header_value", "header_lws"} =>
       \E x \in Nat : ValueRead(w, a, p, x, f, h.value)
  /\ st = "header_value" => Begun(w, a, p)
  /\ st = "expecting_newline_2" => \E x \in Nat : ValueRead(w, a, p - 1, x, f, h.value)

HeadersRead(st, hs, w, a, p, f, g) ==
  /\ Len(g) = Len(hs) /\ InOrder(w, p, Len(hs), g) /\ ValuesOf(w, a - 1, f)
  /\ \A k \in 1 .. Len(hs) - 1 : hs[k].value = f[g[k + 1] - 1]
  /\ \A k \in 1 .. Len(hs) : (k = Len(hs) /\ st = "header_name") \/ Named(w, g[k], hs[k].name)
  /\ hs # <<>> => LastHeader(st, hs[Len(hs)], w, a, p, f)

\* The context of a step within the lines after the first.
Reading(st, hs, w, a, p, c, f, g) ==
  /\ LineOpen(w, a, p, c) /\ AtLine(w, a, p) /\ a > 1
  /\ hs \in Seq(Header) /\ g \in Seq(Nat) /\ Valued(f)
  /\ HeadersRead(st, hs, w, a, p, f, g)

\* What a line that is open says of its numbers.
LEMMA OpenPlaces ==
  ASSUME NEW w, NEW a, NEW p, NEW c, LineOpen(w, a, p, c)
  PROVE  /\ w \in Seq(Byte) /\ Len(w) \in Nat /\ p \in Nat /\ p < Len(w) /\ p + 1 \in 1 .. Len(w)
         /\ p + 1 \in Nat /\ p + 1 <= Len(w)
         /\ a \in Nat \ {0} /\ a <= p + 1 /\ a - 1 \in Nat /\ c = w[p + 1] /\ c \in Byte
BY LenProperties DEF LineOpen

\* What a byte adds to the fields.
LEMMA FieldsGrow ==
  ASSUME NEW w, NEW a, NEW p, NEW c, LineOpen(w, a, p, c), AtLine(w, a, p)
  PROVE  /\ a <= p \/ a = 1 \/ c \in {SP, HT, CR} => FieldsOf(w, p + 1) = FieldsOf(w, p)
         /\ a > 1 /\ a = p + 1 /\ c \notin {SP, HT, CR} => FieldsOf(w, p + 1) = FieldsOf(w, p) \cup {a}
<1>0. p \in Nat /\ a \in Nat \ {0} /\ a <= p + 1 /\ c = w[p + 1]
  BY OpenPlaces
<1>a. (a = 1 \/ w[a - 1] = LF) /\ \A k \in a .. p : w[k] # LF
  BY DEF AtLine
<1>1. FieldsOf(w, p) \subseteq FieldsOf(w, p + 1) /\ FieldsOf(w, p + 1) \subseteq FieldsOf(w, p) \cup {p + 1}
  BY <1>0 DEF FieldsOf
<1>2. p + 1 \in FieldsOf(w, p + 1) <=> p + 1 >= 2 /\ w[p] = LF /\ c \notin {SP, HT, CR}
  <2>1. p + 1 - 1 = p
    BY <1>0
  <2> QED BY <1>0, <2>1 DEF FieldsOf
<1>3. p >= 1 /\ w[p] = LF => a = p + 1
  BY <1>0, <1>a
<1>4. a > 1 /\ a = p + 1 => p + 1 >= 2 /\ w[p] = LF
  <2>1. p + 1 - 1 = p
    BY <1>0
  <2> QED BY <1>0, <1>a, <2>1
<1>5. ASSUME a <= p \/ a = 1 \/ c \in {SP, HT, CR} PROVE p + 1 \notin FieldsOf(w, p + 1)
  BY <1>0, <1>2, <1>3, <1>5
<1>6. ASSUME a > 1, a = p + 1, c \notin {SP, HT, CR} PROVE a \in FieldsOf(w, p + 1)
  BY <1>2, <1>4, <1>6
<1> QED BY <1>1, <1>5, <1>6

\* A part without bytes.
LEMMA EmptyPart ==
  ASSUME NEW w \in Seq(Byte), NEW x \in Nat
  PROVE  SubSeq(w, x + 1, x) = <<>>
BY SubSeqEmpty

\* A part that grows by a byte.
LEMMA PartGrows ==
  ASSUME NEW w \in Seq(Byte), NEW p \in Nat, p < Len(w), NEW x \in 1 .. p + 1
  PROVE  /\ SubSeq(w, x, p + 1) = Append(SubSeq(w, x, p), w[p + 1])
         /\ SubSeq(w, x, p) \in Seq(Byte) /\ w[p + 1] \in Byte
<1>1. x \in 1 .. Len(w) /\ p + 1 \in x .. Len(w) /\ p + 1 - 1 = p /\ p <= Len(w) /\ x \in Nat \ {0}
  OBVIOUS
<1>2. SubSeq(w, x, p + 1) = SubSeq(w, x, p + 1 - 1) \o <<w[p + 1]>>
  BY <1>1, SubSeqRecursiveSecond
<1>3. SubSeq(w, x, p) \in Seq(Byte) /\ w[p + 1] \in Byte
  <2>1. SubSeq(w, x, p) \in Seq(Byte)
    BY <1>1, Part
  <2> QED BY <1>1, <2>1, LenProperties
<1>4. PICK u \in Seq(Byte) : u = SubSeq(w, x, p)
  BY <1>3
<1>5. Append(u, w[p + 1]) = u \o <<w[p + 1]>>
  BY <1>3, AppendIsConcat
<1> QED BY <1>1, <1>2, <1>3, <1>4, <1>5

\* A byte added to the second of two parts.
LEMMA ConcatAppend ==
  ASSUME NEW u \in Seq(Byte), NEW v \in Seq(Byte), NEW c \in Byte
  PROVE  u \o Append(v, c) = Append(u \o v, c)
<1>0. Append(<<>>, c) \in Seq(Byte) /\ Append(<<>>, c) = <<>> \o <<c>> /\ <<>> \o <<c>> = <<c>>
  BY EmptySeq, AppendProperties, AppendIsConcat, ConcatEmptySeq
<1>1. PICK e \in Seq(Byte) : e = <<c>>
  BY <1>0
<1>2. Append(v, c) = v \o e /\ u \o v \in Seq(Byte)
  BY <1>1, AppendIsConcat, ConcatProperties
<1>3. Append(u \o v, c) = (u \o v) \o e
  BY <1>1, <1>2, AppendIsConcat
<1>4. (u \o v) \o e = u \o (v \o e)
  BY ConcatAssociative
<1> QED BY <1>2, <1>3, <1>4

\* A value and its bytes.
LEMMA ValueParts ==
  ASSUME NEW w, NEW a, NEW p, NEW c, LineOpen(w, a, p, c), a > 1, a <= p,
         NEW f, Valued(f), NEW x \in 1 .. p + 1
  PROVE  /\ Joined(f, a, w, x, p + 1) = Append(Joined(f, a, w, x, p), c)
         /\ SubSeq(w, x, p + 1) = Append(SubSeq(w, x, p), c)
<1>1. w \in Seq(Byte) /\ p \in Nat /\ p < Len(w) /\ c = w[p + 1] /\ a - 1 \in Nat
  BY OpenPlaces
<1>2. /\ SubSeq(w, x, p + 1) = Append(SubSeq(w, x, p), c)
      /\ SubSeq(w, x, p) \in Seq(Byte) /\ c \in Byte
  BY <1>1, PartGrows
<1>3. PICK u \in Seq(Byte), v \in Seq(Byte) : u = f[a - 1] /\ v = SubSeq(w, x, p)
  BY <1>1, <1>2 DEF Valued
<1>4. u \o Append(v, c) = Append(u \o v, c)
  BY <1>2, ConcatAppend
<1> QED BY <1>2, <1>3, <1>4 DEF Joined

\* A name ends at one colon only.
LEMMA ColonUnique ==
  ASSUME NEW w \in Seq(Byte), NEW a \in Nat \ {0}, NEW i \in a + 1 .. Len(w), NEW j \in a + 1 .. Len(w),
         w[i] = Colon, NameAt(w, a, i - 1), w[j] = Colon, NameAt(w, a, j - 1)
  PROVE  i = j
<1>1. ~IsToken(w[i]) /\ ~IsToken(w[j])
  BY LenProperties, Codes
<1>2. ASSUME i < j PROVE FALSE
  <2>1. i \in a .. j - 1
    BY <1>2
  <2> QED BY <1>1, <2>1 DEF NameAt
<1>3. ASSUME j < i PROVE FALSE
  <2>1. j \in a .. i - 1
    BY <1>3
  <2> QED BY <1>1, <2>1 DEF NameAt
<1> QED BY <1>2, <1>3

\* A name does not begin with a blank.
LEMMA NameStarts ==
  ASSUME NEW w \in Seq(Byte), NEW a \in Nat \ {0}, NEW b \in Nat, b <= Len(w), NameAt(w, a, b)
  PROVE  a <= b /\ w[a] \notin {SP, HT, CR}
<1>1. a \in a .. b /\ a \in 1 .. Len(w)
  BY DEF NameAt
<1>2. IsToken(w[a]) /\ w[a] \in Byte
  BY <1>1, LenProperties DEF NameAt
<1> QED BY <1>1, <1>2, Codes

\* The value when the colon has just been read, and then.
LEMMA ColonValue ==
  ASSUME NEW w, NEW a, NEW p, NEW c, LineOpen(w, a, p, c), a > 1, NEW f, Valued(f),
         NameAt(w, a, p), c = Colon
  PROVE  ValueRead(w, a, p + 1, p + 2, f, <<>>)
<1>0. /\ w \in Seq(Byte) /\ Len(w) \in Nat /\ p \in Nat /\ p < Len(w) /\ p + 1 \in 1 .. Len(w)
      /\ p + 1 \in Nat /\ p + 1 <= Len(w)
      /\ a \in Nat \ {0} /\ a <= p + 1 /\ a - 1 \in Nat /\ c = w[p + 1] /\ c \in Byte
  BY OpenPlaces
<1>1. a \in Nat \ {0} /\ p <= Len(w) /\ a <= p /\ w[a] \notin {SP, HT, CR}
  BY <1>0, NameStarts
<1>2. PICK i \in a + 1 .. p + 1 : i = p + 1 /\ i - 1 = p
  BY <1>0, <1>1
<1>3. w[i] = Colon /\ NameAt(w, a, i - 1) /\ ~(i < p + 1) /\ p + 2 = i + 1
  BY <1>0, <1>2
<1>4. FieldFrom(w, a, p + 1, p + 2)
  BY <1>0, <1>2, <1>3 DEF FieldFrom
<1>5. SubSeq(w, p + 2, p + 1) = <<>>
  BY <1>0, SubSeqEmpty
<1> QED BY <1>0, <1>1, <1>4, <1>5 DEF ValueRead

\* The byte after the colon.
LEMMA ValueAfterColon ==
  ASSUME NEW w, NEW a, NEW p, NEW c, LineOpen(w, a, p, c), a > 1, NEW f, Valued(f),
         NameAt(w, a, p - 1), w[p] = Colon, NEW v, NEW x, ValueRead(w, a, p, x, f, v)
  PROVE  /\ c = SP => ValueRead(w, a, p + 1, p + 2, f, v)
         /\ c # SP => ValueRead(w, a, p + 1, p + 1, f, Append(v, c))
         /\ Begun(w, a, p + 1)
<1>0. /\ w \in Seq(Byte) /\ Len(w) \in Nat /\ p \in Nat /\ p < Len(w) /\ p + 1 \in 1 .. Len(w)
      /\ p + 1 \in Nat /\ p + 1 <= Len(w)
      /\ a \in Nat \ {0} /\ a <= p + 1 /\ a - 1 \in Nat /\ c = w[p + 1] /\ c \in Byte
  BY OpenPlaces
<1>1. p - 1 \in Nat /\ p >= 1 /\ a \in Nat \ {0} /\ p - 1 <= Len(w)
  BY <1>0 DEF NameAt
<1>2. a <= p - 1 /\ w[a] \notin {SP, HT, CR}
  BY <1>0, <1>1, NameStarts
<1>3. PICK i \in a + 1 .. p : i = p
  BY <1>0, <1>1, <1>2
<1>4. i \in a + 1 .. p + 1 /\ w[i] = Colon /\ NameAt(w, a, i - 1) /\ i < p + 1 /\ w[i + 1] = c
  BY <1>0, <1>3
<1>5. v = <<>>
  <2>1. FieldFrom(w, a, p, x) /\ v = SubSeq(w, x, p)
    BY <1>0, <1>2 DEF ValueRead
  <2>2. x = p + 1
    <3>1. PICK j \in a + 1 .. p : /\ NameAt(w, a, j - 1) /\ w[j] = Colon
                                  /\ x = IF j < p /\ w[j + 1] = SP THEN j + 2 ELSE j + 1
      BY <1>0, <2>1 DEF FieldFrom
    <3>2. j \in a + 1 .. Len(w) /\ i \in a + 1 .. Len(w)
      BY <1>0
    <3>3. i = j
      BY <1>0, <1>1, <1>4, <3>1, <3>2, ColonUnique
    <3> QED BY <1>0, <1>3, <3>1, <3>3
  <2>3. SubSeq(w, p + 1, p) = <<>>
    BY <1>0, EmptyPart
  <2> QED BY <1>0, <2>1, <2>2, <2>3
<1>6. ASSUME c = SP PROVE ValueRead(w, a, p + 1, p + 2, f, v)
  <2>1. FieldFrom(w, a, p + 1, p + 2)
    BY <1>0, <1>3, <1>4, <1>6 DEF FieldFrom
  <2>2. SubSeq(w, p + 2, p + 1) = <<>>
    BY <1>0, SubSeqEmpty
  <2> QED BY <1>0, <1>2, <1>5, <2>1, <2>2 DEF ValueRead
<1>7. ASSUME c # SP PROVE ValueRead(w, a, p + 1, p + 1, f, Append(v, c))
  <2>1. FieldFrom(w, a, p + 1, p + 1)
    BY <1>0, <1>3, <1>4, <1>7 DEF FieldFrom
  <2>2. SubSeq(w, p + 1, p + 1) = Append(SubSeq(w, p + 1, p), c)
    BY <1>0, PartGrows
  <2>3. SubSeq(w, p + 1, p) = <<>>
    BY <1>0, EmptyPart
  <2> QED BY <1>0, <1>2, <1>5, <2>1, <2>2, <2>3 DEF ValueRead
<1>8. Begun(w, a, p + 1)
  <2>1. i \in a + 1 .. p + 1 - 1
    BY <1>0, <1>3
  <2> QED BY <1>0, <1>2, <1>4, <2>1 DEF Begun
<1> QED BY <1>6, <1>7, <1>8

\* The value of a field that is continued, when only blanks of the line have been read.
LEMMA ValueBeforeText ==
  ASSUME NEW w, NEW a, NEW p, NEW c, LineOpen(w, a, p, c), a > 1, NEW f, Valued(f)
  PROVE  /\ a = p + 1 /\ c \in {SP, HT} => ValueRead(w, a, p + 1, p + 2, f, f[a - 1])
         /\ BlankAt(w, a, p) => \A x \in Nat : \A v :
              ValueRead(w, a, p, x, f, v) =>
                /\ c \in {SP, HT} => ValueRead(w, a, p + 1, p + 2, f, v)
                /\ c \notin {SP, HT} => /\ ValueRead(w, a, p + 1, p + 1, f, Append(v, c))
                                        /\ Begun(w, a, p + 1)
<1>0. /\ w \in Seq(Byte) /\ Len(w) \in Nat /\ p \in Nat /\ p < Len(w) /\ p + 1 \in 1 .. Len(w)
      /\ p + 1 \in Nat /\ p + 1 <= Len(w)
      /\ a \in Nat \ {0} /\ a <= p + 1 /\ a - 1 \in Nat /\ c = w[p + 1] /\ c \in Byte
  BY OpenPlaces
<1>1. a - 1 \in Nat /\ f[a - 1] \in Seq(Byte)
  BY <1>0 DEF Valued
<1>2. SubSeq(w, p + 1, p) = <<>> /\ SubSeq(w, p + 2, p + 1) = <<>>
  BY <1>0, SubSeqEmpty
<1>3. Joined(f, a, w, p + 1, p) = f[a - 1] /\ Joined(f, a, w, p + 2, p + 1) = f[a - 1]
  <2>1. f[a - 1] \o <<>> = f[a - 1]
    BY <1>1, ConcatEmptySeq
  <2> QED BY <1>2, <2>1 DEF Joined
<1>4. ASSUME a = p + 1, c \in {SP, HT} PROVE ValueRead(w, a, p + 1, p + 2, f, f[a - 1])
  <2>1. w[a] = c /\ p + 2 \in a + 1 .. p + 1 + 1 /\ p + 2 - 1 = a /\ ~(p + 2 <= p + 1)
    BY <1>0, <1>4
  <2>2. \A k \in a .. p + 2 - 1 : w[k] \in {SP, HT}
    BY <1>0, <1>4, <2>1
  <2>3. FoldFrom(w, a, p + 1, p + 2)
    BY <1>0, <2>1, <2>2 DEF FoldFrom, BlankAt
  <2> QED BY <1>0, <1>2, <1>3, <1>4, <2>1, <2>3 DEF ValueRead
<1>5. ASSUME BlankAt(w, a, p), NEW x \in Nat, NEW v, ValueRead(w, a, p, x, f, v)
      PROVE  /\ c \in {SP, HT} => ValueRead(w, a, p + 1, p + 2, f, v)
             /\ c \notin {SP, HT} => /\ ValueRead(w, a, p + 1, p + 1, f, Append(v, c))
                                     /\ Begun(w, a, p + 1)
  <2>1. a <= p /\ (\A k \in a .. p : w[k] \in {SP, HT}) /\ w[a] \in {SP, HT}
    BY <1>0, <1>5 DEF BlankAt
  <2>2. x \in a + 1 .. p + 1 /\ (x <= p => w[x] \notin {SP, HT}) /\ v = Joined(f, a, w, x, p)
    BY <1>0, <1>5, <2>1 DEF ValueRead, FoldFrom
  <2>3. x = p + 1
    BY <1>0, <2>1, <2>2
  <2>4. v = f[a - 1]
    BY <1>0, <1>2, <1>3, <2>2, <2>3
  <2>5. ASSUME c \in {SP, HT} PROVE ValueRead(w, a, p + 1, p + 2, f, v)
    <3>1. \A k \in a .. p + 2 - 1 : w[k] \in {SP, HT}
      BY <1>0, <2>1, <2>5
    <3>2. p + 2 \in a + 1 .. p + 1 + 1 /\ ~(p + 2 <= p + 1) /\ a <= p + 2 - 1
      BY <1>0, <2>1
    <3>3. FoldFrom(w, a, p + 1, p + 2)
      BY <1>0, <3>1, <3>2 DEF FoldFrom, BlankAt
    <3> QED BY <1>0, <1>2, <1>3, <2>1, <2>4, <3>3 DEF ValueRead
  <2>6. ASSUME c \notin {SP, HT}
        PROVE  ValueRead(w, a, p + 1, p + 1, f, Append(v, c)) /\ Begun(w, a, p + 1)
    <3>1. p + 1 \in a + 1 .. p + 1 + 1 /\ p + 1 - 1 = p /\ p + 1 \in 1 .. p + 1 /\ p + 1 \in a .. p + 1
      BY <1>0, <2>1
    <3>2. FoldFrom(w, a, p + 1, p + 1)
      BY <1>0, <1>5, <2>6, <3>1 DEF FoldFrom
    <3>3. Joined(f, a, w, p + 1, p + 1) = Append(Joined(f, a, w, p + 1, p), c)
      <4>1. PICK y \in 1 .. p + 1 : y = p + 1
        BY <1>0
      <4>2. Joined(f, a, w, y, p + 1) = Append(Joined(f, a, w, y, p), c)
        BY <1>0, <2>1, ValueParts, SMTT(30)
      <4> QED BY <4>1, <4>2
    <3>4. ValueRead(w, a, p + 1, p + 1, f, Append(v, c))
      BY <1>0, <1>2, <1>3, <2>1, <2>4, <3>2, <3>3 DEF ValueRead
    <3>5. Begun(w, a, p + 1)
      BY <1>0, <2>1, <2>6, <3>1 DEF Begun
    <3> QED BY <1>0, <3>4, <3>5
  <2> QED BY <1>0, <2>5, <2>6
<1> QED BY <1>0, <1>4, <1>5

\* A byte of a value whose text has begun.
LEMMA ValueInText ==
  ASSUME NEW w, NEW a, NEW p, NEW c, LineOpen(w, a, p, c), a > 1, a <= p, NEW f, Valued(f),
         NEW x \in Nat, NEW v, ValueRead(w, a, p, x, f, v), Begun(w, a, p)
  PROVE  ValueRead(w, a, p + 1, x, f, Append(v, c)) /\ Begun(w, a, p + 1)
<1>0. /\ w \in Seq(Byte) /\ Len(w) \in Nat /\ p \in Nat /\ p < Len(w) /\ p + 1 \in 1 .. Len(w)
      /\ p + 1 \in Nat /\ p + 1 <= Len(w)
      /\ a \in Nat \ {0} /\ a <= p + 1 /\ a - 1 \in Nat /\ c = w[p + 1] /\ c \in Byte
  BY OpenPlaces
<1>1. a \in Nat \ {0} /\ p <= Len(w)
  BY <1>0
<1>2. CASE w[a] \in {SP, HT}
  <2>1. FoldFrom(w, a, p, x) /\ v = Joined(f, a, w, x, p)
    BY <1>0, <1>2 DEF ValueRead
  <2>2. PICK k \in a .. p : w[k] \notin {SP, HT}
    BY <1>0, <1>2 DEF Begun
  <2>3. x \in a + 1 .. p
    BY <1>0, <2>1, <2>2 DEF FoldFrom, BlankAt
  <2>4. FoldFrom(w, a, p + 1, x)
    BY <1>0, <2>1, <2>3 DEF FoldFrom
  <2>5. Joined(f, a, w, x, p + 1) = Append(Joined(f, a, w, x, p), c)
    <3>1. x \in 1 .. p + 1
      BY <1>0, <2>3
    <3> QED BY <3>1, ValueParts
  <2>6. Begun(w, a, p + 1)
    BY <1>0, <1>2, <2>2 DEF Begun
  <2> QED BY <1>0, <1>2, <2>1, <2>4, <2>5, <2>6 DEF ValueRead
<1>3. CASE w[a] \notin {SP, HT}
  <2>1. FieldFrom(w, a, p, x) /\ v = SubSeq(w, x, p)
    BY <1>0, <1>3 DEF ValueRead
  <2>2. PICK i \in a + 1 .. p : /\ NameAt(w, a, i - 1) /\ w[i] = Colon
                                /\ x = IF i < p /\ w[i + 1] = SP THEN i + 2 ELSE i + 1
    BY <1>0, <2>1 DEF FieldFrom
  <2>3. PICK j \in a + 1 .. p - 1 : w[j] = Colon /\ NameAt(w, a, j - 1)
    BY <1>0, <1>3 DEF Begun
  <2>4. i = j
    <3>1. i \in a + 1 .. Len(w) /\ j \in a + 1 .. Len(w)
      BY <1>0, <1>1
    <3> QED BY <1>0, <1>1, <2>2, <2>3, <3>1, ColonUnique
  <2>5. i \in a + 1 .. p + 1 /\ i < p /\ i < p + 1 /\ i \in a + 1 .. p + 1 - 1
    BY <1>0, <2>3, <2>4
  <2>6. FieldFrom(w, a, p + 1, x) /\ Begun(w, a, p + 1)
    BY <1>0, <1>3, <2>2, <2>5 DEF FieldFrom, Begun
  <2>7. x \in 1 .. p + 1
    BY <1>0, <2>2, <2>5
  <2>8. SubSeq(w, x, p + 1) = Append(SubSeq(w, x, p), c)
    BY <1>0, <2>7, ValueParts
  <2> QED BY <1>0, <1>3, <2>1, <2>6, <2>8 DEF ValueRead
<1> QED BY <1>0, <1>2, <1>3

\* What the line adds to the value, once it has ended.
LEMMA ValueOfLine ==
  ASSUME NEW w \in Seq(Byte), NEW a \in Nat \ {0}, NEW q \in Nat, q <= Len(w), NEW f,
         NEW x, NEW v, ValueRead(w, a, q, x, f, v)
  PROVE  v = IF w[a] \in {SP, HT} THEN f[a - 1] \o TextOf(w, a, q) ELSE TextOf(w, a, q)
<1>1. CASE w[a] \in {SP, HT}
  <2>1. FoldFrom(w, a, q, x) /\ v = f[a - 1] \o SubSeq(w, x, q)
    BY <1>1 DEF ValueRead, Joined
  <2>2. FoldText(SubSeq(w, a, q)) = SubSeq(w, x, q)
    BY <2>1, FoldTextPlace
  <2> QED BY <1>1, <2>1, <2>2 DEF TextOf
<1>2. CASE w[a] \notin {SP, HT}
  <2>1. FieldFrom(w, a, q, x) /\ v = SubSeq(w, x, q)
    BY <1>2 DEF ValueRead
  <2>2. FieldText(SubSeq(w, a, q)) = SubSeq(w, x, q)
    BY <2>1, FieldTextPlace
  <2> QED BY <1>2, <2>1, <2>2 DEF TextOf
<1> QED BY <1>1, <1>2

-----------------------------------------------------------------------------
(***************************************************************************)
(* What it gathers of all the headers                                      *)
(***************************************************************************)

\* The last field is the one that begins with the line.
LEMMA LastField ==
  ASSUME NEW w, NEW a \in Nat, NEW p \in Nat, NEW n \in Nat, NEW g, a > 1, AtLine(w, a, p), a <= p,
         w[a] \notin {SP, HT, CR}, InOrder(w, p, n, g)
  PROVE  n > 0 /\ g[n] = a
<1>1. a \in FieldsOf(w, p)
  BY DEF FieldsOf, AtLine
<1>2. PICK k \in 1 .. n : g[k] = a
  BY <1>1 DEF InOrder
<1>3. n \in 1 .. n /\ g[n] \in 2 .. p /\ w[g[n] - 1] = LF
  BY <1>2 DEF InOrder, FieldsOf
<1>4. ~(a < g[n])
  <2> SUFFICES ASSUME a < g[n] PROVE FALSE
    OBVIOUS
  <2>1. g[n] - 1 \in a .. p
    BY <1>3
  <2> QED BY <1>3, <2>1 DEF AtLine
<1>5. ~(k < n)
  <2> SUFFICES ASSUME k < n PROVE FALSE
    OBVIOUS
  <2>1. g[k] < g[n]
    BY <1>3 DEF InOrder
  <2> QED BY <1>2, <1>4, <2>1
<1> QED BY <1>2, <1>5

\* A byte that begins no field.
LEMMA SameField ==
  ASSUME NEW st, NEW hs, NEW w, NEW a, NEW p, NEW c, NEW f, NEW g, Reading(st, hs, w, a, p, c, f, g),
         a <= p \/ c \in {SP, HT, CR},
         NEW st2, NEW hs2 \in Seq(Header), Len(hs2) = Len(hs),
         \A k \in 1 .. Len(hs) - 1 : hs2[k] = hs[k],
         hs # <<>> => /\ st2 = "header_name" \/ Named(w, g[Len(hs)], hs2[Len(hs)].name)
                      /\ LastHeader(st2, hs2[Len(hs)], w, a, p + 1, f)
  PROVE  HeadersRead(st2, hs2, w, a, p + 1, f, g)
<1>1. /\ LineOpen(w, a, p, c) /\ AtLine(w, a, p) /\ hs \in Seq(Header)
      /\ Len(g) = Len(hs) /\ InOrder(w, p, Len(hs), g) /\ ValuesOf(w, a - 1, f)
      /\ \A k \in 1 .. Len(hs) - 1 : hs[k].value = f[g[k + 1] - 1]
      /\ \A k \in 1 .. Len(hs) : (k = Len(hs) /\ st = "header_name") \/ Named(w, g[k], hs[k].name)
  BY DEF Reading, HeadersRead
<1>2. FieldsOf(w, p + 1) = FieldsOf(w, p)
  BY <1>1, FieldsGrow
<1>3. InOrder(w, p + 1, Len(hs2), g)
  BY <1>1, <1>2 DEF InOrder
<1>4. Len(hs) \in Nat /\ (Len(hs) > 0 => hs # <<>>) /\ (hs2 # <<>> => hs # <<>>)
  BY <1>1, LenProperties, EmptySeq
<1>5. \A k \in 1 .. Len(hs2) - 1 : hs2[k].value = f[g[k + 1] - 1]
  BY <1>1
<1>6. ASSUME NEW k \in 1 .. Len(hs2)
      PROVE  (k = Len(hs2) /\ st2 = "header_name") \/ Named(w, g[k], hs2[k].name)
  <2>1. CASE k = Len(hs)
    BY <1>4, <2>1
  <2>2. CASE k # Len(hs)
    <3>1. k \in 1 .. Len(hs) - 1 /\ k \in 1 .. Len(hs)
      BY <1>4, <2>2
    <3> QED BY <1>1, <2>2, <3>1
  <2> QED BY <2>1, <2>2
<1>7. hs2 # <<>> => LastHeader(st2, hs2[Len(hs2)], w, a, p + 1, f)
  BY <1>4
<1> QED BY <1>1, <1>3, <1>5, <1>6, <1>7 DEF HeadersRead

\* A byte that begins a field.
LEMMA NewField ==
  ASSUME NEW hs, NEW w, NEW a, NEW p, NEW c, NEW f, NEW g,
         Reading("header_line_start", hs, w, a, p, c, f, g),
         a = p + 1, c \notin {SP, HT, CR},
         NEW h, h = [name |-> <<c>>, value |-> <<>>]
  PROVE  HeadersRead("header_name", Append(hs, h), w, a, p + 1, f, Append(g, a)) /\ Append(g, a) \in Seq(Nat)
<1>1. /\ LineOpen(w, a, p, c) /\ AtLine(w, a, p) /\ a > 1 /\ hs \in Seq(Header) /\ g \in Seq(Nat)
      /\ Len(g) = Len(hs) /\ InOrder(w, p, Len(hs), g) /\ ValuesOf(w, a - 1, f)
      /\ \A k \in 1 .. Len(hs) - 1 : hs[k].value = f[g[k + 1] - 1]
      /\ \A k \in 1 .. Len(hs) : Named(w, g[k], hs[k].name)
      /\ hs # <<>> => hs[Len(hs)].value = f[a - 1]
  BY DEF Reading, HeadersRead, LastHeader
<1>2. /\ w \in Seq(Byte) /\ p \in Nat /\ p < Len(w) /\ a \in Nat /\ c = w[p + 1] /\ c \in Byte
  BY <1>1, OpenPlaces
<1>3. h \in Header
  <2>1. <<c>> \in Seq(Byte) /\ <<>> \in Seq(Byte)
    <3>1. Append(<<>>, c) \in Seq(Byte) /\ Append(<<>>, c) = <<>> \o <<c>> /\ <<>> \o <<c>> = <<c>>
      BY <1>2, EmptySeq, AppendProperties, AppendIsConcat, ConcatEmptySeq
    <3> QED BY <3>1, EmptySeq
  <2> QED BY <2>1 DEF Header
<1>4. PICK n \in Nat : n = Len(hs)
  BY <1>1, LenProperties
<1>5. PICK hs2 \in Seq(Header) : hs2 = Append(hs, h)
  BY <1>1, <1>3, AppendProperties
<1>6. Len(hs2) = n + 1 /\ hs2[n + 1] = h /\ \A k \in 1 .. n : hs2[k] = hs[k]
  BY <1>1, <1>3, <1>4, <1>5, AppendProperties
<1>7. PICK g2 \in Seq(Nat) : g2 = Append(g, a)
  BY <1>1, <1>2, AppendProperties
<1>8. Len(g2) = n + 1 /\ g2[n + 1] = a /\ \A k \in 1 .. n : g2[k] = g[k]
  BY <1>1, <1>2, <1>4, <1>7, AppendProperties
<1>9. FieldsOf(w, p + 1) = FieldsOf(w, p) \cup {a}
  BY <1>1, FieldsGrow
<1>10. InOrder(w, p + 1, n + 1, g2)
  <2>1. InOrder(w, p, n, g)
    BY <1>1, <1>4
  <2>2. ASSUME NEW j \in 1 .. n + 1, NEW k \in 1 .. n + 1, j < k PROVE g2[j] < g2[k]
    <3>1. j \in 1 .. n /\ g2[j] = g[j] /\ g[j] \in 2 .. p
      BY <1>8, <2>1, <2>2 DEF InOrder, FieldsOf
    <3>2. CASE k = n + 1
      BY <1>2, <1>8, <3>1, <3>2
    <3>3. CASE k # n + 1
      BY <1>8, <2>1, <2>2, <3>1, <3>3 DEF InOrder
    <3> QED BY <3>2, <3>3
  <2>3. ASSUME NEW k \in 1 .. n + 1 PROVE g2[k] \in FieldsOf(w, p + 1)
    <3>1. CASE k = n + 1
      BY <1>8, <1>9, <3>1
    <3>2. CASE k \in 1 .. n
      BY <1>8, <1>9, <2>1, <3>2 DEF InOrder
    <3> QED BY <3>1, <3>2
  <2>4. ASSUME NEW b \in FieldsOf(w, p + 1) PROVE \E k \in 1 .. n + 1 : g2[k] = b
    <3>1. CASE b = a
      BY <1>8, <3>1
    <3>2. CASE b \in FieldsOf(w, p)
      <4>1. PICK k \in 1 .. n : g[k] = b
        BY <2>1, <3>2 DEF InOrder
      <4> QED BY <1>8, <4>1
    <3> QED BY <1>9, <3>1, <3>2
  <2> QED BY <2>2, <2>3, <2>4 DEF InOrder
<1>11. ASSUME NEW k \in 1 .. n + 1 - 1 PROVE hs2[k].value = f[g2[k + 1] - 1]
  <2>1. k \in 1 .. n /\ hs2[k] = hs[k]
    BY <1>6
  <2>2. CASE k = n
    <3>1. hs # <<>>
      BY <1>4, <2>1, EmptySeq
    <3> QED BY <1>1, <1>4, <1>8, <2>1, <2>2, <3>1
  <2>3. CASE k # n
    <3>1. k \in 1 .. Len(hs) - 1 /\ k + 1 \in 1 .. n
      BY <1>4, <2>1, <2>3
    <3> QED BY <1>1, <1>8, <2>1, <3>1
  <2> QED BY <2>2, <2>3
<1>12. ASSUME NEW k \in 1 .. n + 1
       PROVE  k = n + 1 \/ Named(w, g2[k], hs2[k].name)
  <2>1. CASE k # n + 1
    <3>1. k \in 1 .. n /\ k \in 1 .. Len(hs)
      BY <1>4, <2>1
    <3> QED BY <1>1, <1>6, <1>8, <3>1
  <2> QED BY <2>1
<1>13. LastHeader("header_name", h, w, a, p + 1, f)
  <2>1. PICK y \in 1 .. p + 1 : y = a
    BY <1>2
  <2>2. SubSeq(w, y, p + 1) = Append(SubSeq(w, y, p), w[p + 1])
    BY <1>2, PartGrows
  <2>3. SubSeq(w, a, p) = <<>>
    BY <1>2, SubSeqEmpty
  <2>4. Append(<<>>, c) = <<c>>
    <3>1. Append(<<>>, c) = <<>> \o <<c>> /\ <<>> \o <<c>> = <<c>>
      BY <1>2, EmptySeq, AppendProperties, AppendIsConcat, ConcatEmptySeq
    <3> QED BY <3>1
  <2>5. SubSeq(w, a, p + 1) = <<c>>
    BY <1>2, <2>1, <2>2, <2>3, <2>4
  <2> QED BY <2>5 DEF LastHeader
<1>14. HeadersRead("header_name", hs2, w, a, p + 1, f, g2)
  BY <1>1, <1>6, <1>8, <1>10, <1>11, <1>12, <1>13 DEF HeadersRead
<1> QED BY <1>5, <1>7, <1>14

\* The request line has no header.
LEMMA FirstLineRead ==
  ASSUME NEW w \in Seq(Byte), NEW p \in Nat, AtLine(w, 1, p), NEW st, NEW f
  PROVE  HeadersRead(st, <<>>, w, 1, p, f, <<>>)
<1>1. FieldsOf(w, p) = {}
  <2> SUFFICES ASSUME NEW b \in FieldsOf(w, p) PROVE FALSE
    OBVIOUS
  <2>1. b \in 2 .. p /\ w[b - 1] = LF /\ b - 1 \in 1 .. p
    BY DEF FieldsOf
  <2> QED BY <2>1 DEF AtLine
<1>2. Len(<<>>) = 0 /\ 1 .. 0 = {} /\ 0 - 1 = -1 /\ 1 .. -1 = {} /\ 1 - 1 = 0
  BY EmptySeq
<1>3. InOrder(w, p, 0, <<>>)
  BY <1>1, <1>2 DEF InOrder
<1>4. ValuesOf(w, 0, f)
  BY <1>2 DEF ValuesOf
<1> QED BY <1>2, <1>3, <1>4 DEF HeadersRead

\* The end of the request line.
LEMMA FieldsBegin ==
  ASSUME NEW w \in Seq(Byte), NEW p \in Nat, p < Len(w), AtLine(w, 1, p), w[p + 1] = LF, NEW f
  PROVE  HeadersRead("header_line_start", <<>>, w, p + 2, p + 1, f, <<>>)
<1>0. \A k \in 1 .. p : w[k] # LF
  BY DEF AtLine
<1>1. FieldsOf(w, p + 1) = {}
  <2> SUFFICES ASSUME NEW b \in FieldsOf(w, p + 1) PROVE FALSE
    OBVIOUS
  <2>1. b \in 2 .. p + 1 /\ w[b - 1] = LF /\ b - 1 \in 1 .. p
    BY DEF FieldsOf
  <2> QED BY <1>0, <2>1
<1>2. Len(<<>>) = 0 /\ 1 .. 0 = {} /\ 0 - 1 = -1 /\ 1 .. -1 = {} /\ p + 2 - 1 = p + 1
  BY EmptySeq
<1>3. InOrder(w, p + 1, 0, <<>>)
  BY <1>1, <1>2 DEF InOrder
<1>4. ValuesOf(w, p + 1, f)
  <2> SUFFICES ASSUME NEW e \in 1 .. p + 1, NEW b \in 2 .. e, w[e] = LF, StartsLine(w, b, e)
               PROVE  FALSE
    BY DEF ValuesOf
  <2>1. w[b - 1] = LF /\ b - 1 \in 1 .. p
    BY DEF StartsLine
  <2> QED BY <1>0, <2>1
<1> QED BY <1>2, <1>3, <1>4 DEF HeadersRead

\* The end of the line of a field.
LEMMA NextLineRead ==
  ASSUME NEW hs, NEW w, NEW a, NEW p, NEW c, NEW f, NEW g,
         Reading("expecting_newline_2", hs, w, a, p, c, f, g), hs # <<>>, a <= p, p - 1 \in Nat, c = LF
  PROVE  \E f2 : /\ Valued(f2)
                 /\ HeadersRead("header_line_start", hs, w, p + 2, p + 1, f2, g)
<1>1. /\ LineOpen(w, a, p, c) /\ AtLine(w, a, p) /\ a > 1 /\ hs \in Seq(Header) /\ g \in Seq(Nat)
      /\ Len(g) = Len(hs) /\ InOrder(w, p, Len(hs), g) /\ ValuesOf(w, a - 1, f) /\ Valued(f)
      /\ \A k \in 1 .. Len(hs) - 1 : hs[k].value = f[g[k + 1] - 1]
      /\ \A k \in 1 .. Len(hs) : Named(w, g[k], hs[k].name)
      /\ \E x \in Nat : ValueRead(w, a, p - 1, x, f, hs[Len(hs)].value)
  BY DEF Reading, HeadersRead, LastHeader
<1>2. /\ w \in Seq(Byte) /\ p \in Nat /\ p + 1 \in Nat /\ p < Len(w) /\ a \in Nat \ {0} /\ c = w[p + 1]
      /\ p - 1 \in Nat /\ p - 1 <= Len(w)
  BY <1>1, OpenPlaces
<1>3. PICK n \in Nat : n = Len(hs) /\ n > 0
  BY <1>1, LenProperties, EmptySeq
<1>4. PICK v \in Seq(Byte) : v = hs[n].value
  <2>1. hs[n] \in Header
    BY <1>1, <1>3, LenProperties
  <2> QED BY <2>1 DEF Header
<1>5. PICK f2 : f2 = [f EXCEPT ![p + 1] = v]
  OBVIOUS
<1>6. Valued(f2) /\ f2[p + 1] = v /\ \A k \in 0 .. p : f2[k] = f[k]
  BY <1>1, <1>2, <1>5 DEF Valued
<1>7. (a = 1 \/ w[a - 1] = LF) /\ \A k \in a .. p : w[k] # LF
  BY <1>1 DEF AtLine
<1>8. StartsLine(w, a, p + 1)
  BY <1>2, <1>7 DEF StartsLine
<1>9. ValuesOf(w, p + 1, f2)
  <2> SUFFICES ASSUME NEW e \in 1 .. p + 1, NEW b \in 2 .. e, w[e] = LF, StartsLine(w, b, e)
               PROVE  f2[e] = IF w[b] \in {SP, HT} THEN f2[b - 1] \o TextOf(w, b, e - 2) ELSE TextOf(w, b, e - 2)
    BY DEF ValuesOf
  <2>1. CASE e = p + 1
    <3>1. b = a
      <4>1. PICK y \in 1 .. e : y = a
        BY <1>2, <2>1
      <4>2. StartsLine(w, y, e) /\ b \in 1 .. e
        BY <1>8, <2>1, <4>1
      <4> QED BY <4>1, <4>2, StartUnique
    <3>2. v = IF w[a] \in {SP, HT} THEN f[a - 1] \o TextOf(w, a, p - 1) ELSE TextOf(w, a, p - 1)
      <4>1. PICK x \in Nat : ValueRead(w, a, p - 1, x, f, v)
        BY <1>1, <1>3, <1>4
      <4> QED BY <1>2, <4>1, ValueOfLine
    <3>3. f2[a - 1] = f[a - 1] /\ e - 2 = p - 1
      BY <1>2, <1>6, <2>1
    <3> QED BY <1>6, <2>1, <3>1, <3>2, <3>3
  <2>2. CASE e # p + 1
    <3>1. e \in 1 .. a - 1
      BY <1>2, <1>7, <2>2
    <3>2. f[e] = IF w[b] \in {SP, HT} THEN f[b - 1] \o TextOf(w, b, e - 2) ELSE TextOf(w, b, e - 2)
      BY <1>1, <3>1 DEF ValuesOf
    <3>3. f2[e] = f[e] /\ f2[b - 1] = f[b - 1]
      <4>1. e \in 0 .. p /\ b - 1 \in 0 .. p
        BY <1>2, <3>1
      <4> QED BY <1>6, <4>1
    <3> QED BY <3>2, <3>3
  <2> QED BY <2>1, <2>2
<1>10. InOrder(w, p + 1, n, g)
  <2>1. FieldsOf(w, p + 1) = FieldsOf(w, p)
    BY <1>1, FieldsGrow
  <2> QED BY <1>1, <1>3, <2>1 DEF InOrder
<1>11. ASSUME NEW k \in 1 .. n - 1 PROVE hs[k].value = f2[g[k + 1] - 1]
  <2>1. k + 1 \in 1 .. n /\ g[k + 1] \in 2 .. p
    BY <1>1, <1>3 DEF InOrder, FieldsOf
  <2>2. g[k + 1] - 1 \in 0 .. p
    BY <1>2, <2>1
  <2> QED BY <1>1, <1>3, <1>6, <2>2
<1>a. PICK b \in Nat : b = p + 2 /\ b - 1 = p + 1
  BY <1>2
<1>b. PICK m \in Nat : m = p + 1
  BY <1>2
<1>12. LastHeader("header_line_start", hs[n], w, b, m, f2)
  <2>1. hs[n].value = f2[b - 1]
    BY <1>4, <1>6, <1>a
  <2> QED BY <2>1 DEF LastHeader
<1>13. ValuesOf(w, b - 1, f2)
  BY <1>9, <1>a
<1>14. HeadersRead("header_line_start", hs, w, b, m, f2, g)
  <2>1. /\ Len(g) = Len(hs) /\ InOrder(w, m, Len(hs), g)
        /\ \A k \in 1 .. Len(hs) - 1 : hs[k].value = f2[g[k + 1] - 1]
        /\ \A k \in 1 .. Len(hs) : Named(w, g[k], hs[k].name)
        /\ LastHeader("header_line_start", hs[Len(hs)], w, b, m, f2)
    BY <1>1, <1>3, <1>10, <1>11, <1>12, <1>b
  <2> QED BY <1>13, <2>1, Zenon DEF HeadersRead
<1> QED BY <1>6, <1>14, <1>a, <1>b

-----------------------------------------------------------------------------
(***************************************************************************)
(* The headers as the parser goes on                                       *)
(***************************************************************************)

\* What the headers are after p bytes of w, in state st.
HeadersKnown(st, hs, w, p) ==
  \E a \in 1 .. p + 1 :
    AtLine(w, a, p) /\ \E f, g : Valued(f) /\ g \in Seq(Nat) /\ HeadersRead(st, hs, w, a, p, f, g)

\* There is one line the parser is in.
LEMMA LineUnique ==
  ASSUME NEW w, NEW p \in Nat, NEW a, AtLine(w, a, p), NEW b, AtLine(w, b, p)
  PROVE  a = b
<1>1. a \in 1 .. p + 1 /\ b \in 1 .. p + 1 /\ (a = 1 \/ w[a - 1] = LF) /\ (b = 1 \/ w[b - 1] = LF)
      /\ (\A k \in a .. p : w[k] # LF) /\ (\A k \in b .. p : w[k] # LF)
  BY DEF AtLine
<1>2. ASSUME a < b PROVE FALSE
  <2>1. b - 1 \in a .. p
    BY <1>1, <1>2
  <2> QED BY <1>1, <1>2, <2>1
<1>3. ASSUME b < a PROVE FALSE
  <2>1. a - 1 \in b .. p
    BY <1>1, <1>3
  <2> QED BY <1>1, <1>3, <2>1
<1> QED BY <1>1, <1>2, <1>3

\* A byte within the lines of the fields that begins no field.
LEMMA SameLine ==
  ASSUME NEW st, NEW hs, NEW w, NEW a, NEW p, NEW c, NEW f, NEW g, Reading(st, hs, w, a, p, c, f, g),
         a <= p \/ c \in {SP, HT, CR}, c # LF,
         NEW st2, NEW hs2 \in Seq(Header), Len(hs2) = Len(hs),
         \A k \in 1 .. Len(hs) - 1 : hs2[k] = hs[k],
         hs # <<>> => /\ st2 = "header_name" \/ Named(w, g[Len(hs)], hs2[Len(hs)].name)
                      /\ LastHeader(st2, hs2[Len(hs)], w, a, p + 1, f)
  PROVE  HeadersKnown(st2, hs2, w, p + 1)
<1>1. HeadersRead(st2, hs2, w, a, p + 1, f, g)
  BY SameField
<1>2. LineOpen(w, a, p, c) /\ AtLine(w, a, p) /\ Valued(f) /\ g \in Seq(Nat)
  BY DEF Reading
<1>3. AtLine(w, a, p + 1) /\ a \in 1 .. p + 1 + 1
  BY <1>2, OpenPlaces DEF AtLine
<1> QED BY <1>1, <1>2, <1>3 DEF HeadersKnown

\* The same, where no header changes.
LEMMA SameHeaders ==
  ASSUME NEW st, NEW hs, NEW w, NEW a, NEW p, NEW c, NEW f, NEW g, Reading(st, hs, w, a, p, c, f, g),
         a <= p \/ c \in {SP, HT, CR}, c # LF, st # "header_name",
         NEW st2, hs # <<>> => LastHeader(st2, hs[Len(hs)], w, a, p + 1, f)
  PROVE  HeadersKnown(st2, hs, w, p + 1)
<1>1. hs \in Seq(Header) /\ \A k \in 1 .. Len(hs) : Named(w, g[k], hs[k].name)
  BY DEF Reading, HeadersRead
<1>2. hs # <<>> => Len(hs) \in 1 .. Len(hs)
  BY <1>1, LenProperties, EmptySeq
<1>3. hs # <<>> => Named(w, g[Len(hs)], hs[Len(hs)].name)
  BY <1>1, <1>2
<1> QED BY <1>1, <1>3, SameLine

\* hs2 is hs with a byte more in the value, or in the name, of its last header.
ValuePushed(hs, hs2, c) ==
  /\ hs2 \in Seq(Header) /\ Len(hs2) = Len(hs) /\ \A k \in 1 .. Len(hs) - 1 : hs2[k] = hs[k]
  /\ hs2[Len(hs)].name = hs[Len(hs)].name /\ hs2[Len(hs)].value = Append(hs[Len(hs)].value, c)
NamePushed(hs, hs2, c) ==
  /\ hs2 \in Seq(Header) /\ Len(hs2) = Len(hs) /\ \A k \in 1 .. Len(hs) - 1 : hs2[k] = hs[k]
  /\ hs2[Len(hs)].name = Append(hs[Len(hs)].name, c) /\ hs2[Len(hs)].value = hs[Len(hs)].value

\* Headers with another header in place of one of them, element by element.
LEMMA HeaderSet ==
  ASSUME NEW hs \in Seq(Header), NEW n \in 1 .. Len(hs), NEW h \in Header
  PROVE  /\ [hs EXCEPT ![n] = h] \in Seq(Header) /\ Len([hs EXCEPT ![n] = h]) = Len(hs)
         /\ [hs EXCEPT ![n] = h][n] = h
         /\ \A k \in 1 .. Len(hs) : k # n => [hs EXCEPT ![n] = h][k] = hs[k]
<1>1. n \in DOMAIN hs
  OBVIOUS
<1>2. [hs EXCEPT ![n] = h] \in Seq(Header) /\ Len([hs EXCEPT ![n] = h]) = Len(hs)
  BY <1>1, ExceptHeader
<1> QED BY <1>1, <1>2

\* A header with another name or value, field by field.
LEMMA HeaderWith ==
  ASSUME NEW h \in Header, NEW v \in Seq(Byte)
  PROVE  /\ [h EXCEPT !.value = v].name = h.name /\ [h EXCEPT !.value = v].value = v
         /\ [h EXCEPT !.name = v].name = v /\ [h EXCEPT !.name = v].value = h.value
BY DEF Header

\* What push_back to the last header's value or name does.
LEMMA Pushed ==
  ASSUME headers \in Seq(Header), headers # <<>>, NEW c \in Byte
  PROVE  /\ PushValue(c) => ValuePushed(headers, headers', c)
         /\ PushName(c) => NamePushed(headers, headers', c)
<1>1. PICK n : n = Len(headers)
  OBVIOUS
<1>2. n \in 1 .. Len(headers) /\ n \in Nat
  BY <1>1, LenProperties, EmptySeq
<1>3. PICK h \in Header : h = headers[n]
  BY <1>2, LenProperties
<1>4. h.value \in Seq(Byte) /\ h.name \in Seq(Byte)
  BY DEF Header
<1>5. PICK v \in Seq(Byte), m \in Seq(Byte) : v = Append(h.value, c) /\ m = Append(h.name, c)
  BY <1>4, AppendProperties
<1>6. PICK hv \in Header, hm \in Header :
        /\ hv = [h EXCEPT !.value = v] /\ hm = [h EXCEPT !.name = m]
        /\ hv.name = h.name /\ hv.value = v /\ hm.name = m /\ hm.value = h.value
  <2>1. [h EXCEPT !.value = v] \in Header /\ [h EXCEPT !.name = m] \in Header
    BY ExceptField
  <2>2. /\ [h EXCEPT !.value = v].name = h.name /\ [h EXCEPT !.value = v].value = v
        /\ [h EXCEPT !.name = m].name = m /\ [h EXCEPT !.name = m].value = h.value
    BY HeaderWith
  <2> QED BY <2>1, <2>2
<1>7. ASSUME PushValue(c) PROVE ValuePushed(headers, headers', c)
  <2>1. headers' = [headers EXCEPT ![n] = hv]
    BY <1>1, <1>3, <1>5, <1>6, <1>7 DEF PushValue
  <2>2. /\ headers' \in Seq(Header) /\ Len(headers') = Len(headers) /\ headers'[n] = hv
        /\ \A k \in 1 .. Len(headers) : k # n => headers'[k] = headers[k]
    BY <1>2, <2>1, HeaderSet
  <2>3. \A k \in 1 .. n - 1 : headers'[k] = headers[k]
    BY <1>1, <1>2, <2>2
  <2> QED BY <1>1, <1>3, <1>5, <1>6, <2>2, <2>3 DEF ValuePushed
<1>8. ASSUME PushName(c) PROVE NamePushed(headers, headers', c)
  <2>1. headers' = [headers EXCEPT ![n] = hm]
    BY <1>1, <1>3, <1>5, <1>6, <1>8 DEF PushName
  <2>2. /\ headers' \in Seq(Header) /\ Len(headers') = Len(headers) /\ headers'[n] = hm
        /\ \A k \in 1 .. Len(headers) : k # n => headers'[k] = headers[k]
    BY <1>2, <2>1, HeaderSet
  <2>3. \A k \in 1 .. n - 1 : headers'[k] = headers[k]
    BY <1>1, <1>2, <2>2
  <2> QED BY <1>1, <1>3, <1>5, <1>6, <2>2, <2>3 DEF NamePushed
<1> QED BY <1>7, <1>8

\* The context of a step of the parser within the lines after the first.
Reads(c, a, f, g) ==
  /\ Moves(c) /\ a \in 1 .. pos + 1 /\ ReadOf(state, input, a, pos)
  /\ Reading(state, headers, input, a, pos, c, f, g)

\* A byte of a value, or the end of its line, keeps what is known of the headers.
LEMMA ValueByteStep ==
  ASSUME NEW c, NEW a, NEW f, NEW g, Reads(c, a, f, g), headers # <<>>, a <= pos,
         state \in {"space_before_header_value", "header_value", "header_lws"},
         c # CR => \E x \in Nat : /\ ValueRead(input, a, pos + 1, x, f, Append(headers[Len(headers)].value, c))
                                  /\ Begun(input, a, pos + 1),
         ValueByte(c), result' = "more"
  PROVE  HeadersKnown(state', headers', input, pos + 1)
<1>1. /\ Reading(state, headers, input, a, pos, c, f, g) /\ c \in Byte /\ result = "more" /\ pos \in Nat
      /\ headers \in Seq(Header) /\ state # "header_name"
  BY DEF Reads, Moves, Reading
<1>2. LastHeader(state, headers[Len(headers)], input, a, pos, f)
  BY <1>1 DEF Reading, HeadersRead
<1>3. CASE c = CR
  <2>1. state' = "expecting_newline_2" /\ headers' = headers /\ c # LF
    BY <1>3, Codes DEF ValueByte, Goto
  <2>2. \E x \in Nat : ValueRead(input, a, pos, x, f, headers[Len(headers)].value)
    BY <1>2 DEF LastHeader
  <2>3. pos + 1 - 1 = pos
    BY <1>1
  <2>4. LastHeader("expecting_newline_2", headers[Len(headers)], input, a, pos + 1, f)
    <3>1. PICK m \in Nat : m = pos + 1 /\ m - 1 = pos
      BY <1>1, <2>3
    <3>2. \E x \in Nat : ValueRead(input, a, m - 1, x, f, headers[Len(headers)].value)
      BY <2>2, <3>1
    <3>3. LastHeader("expecting_newline_2", headers[Len(headers)], input, a, m, f)
      BY <3>2 DEF LastHeader
    <3> QED BY <3>1, <3>3
  <2>5. HeadersKnown("expecting_newline_2", headers, input, pos + 1)
    BY <1>1, <2>1, <2>4, SameHeaders
  <2> QED BY <2>1, <2>5
<1>4. CASE c # CR /\ is_ctl(c)
  BY <1>1, <1>4 DEF ValueByte, Result
<1>5. CASE c # CR /\ ~is_ctl(c)
  <2>1. state' = "header_value" /\ PushValue(c) /\ c # LF
    BY <1>1, <1>5, Codes DEF ValueByte, Goto
  <2>2. ValuePushed(headers, headers', c)
    BY <1>1, <2>1, Pushed
  <2>3. Len(headers) \in 1 .. Len(headers)
    BY <1>1, LenProperties, EmptySeq
  <2>4. Named(input, g[Len(headers)], headers'[Len(headers)].name)
    BY <1>1, <2>2, <2>3 DEF Reading, HeadersRead, ValuePushed
  <2>5. LastHeader("header_value", headers'[Len(headers)], input, a, pos + 1, f)
    BY <1>5, <2>2 DEF LastHeader, ValuePushed
  <2>6. /\ headers' \in Seq(Header) /\ Len(headers') = Len(headers)
        /\ \A k \in 1 .. Len(headers) - 1 : headers'[k] = headers[k]
    BY <2>2 DEF ValuePushed
  <2>7. PICK hs2 \in Seq(Header) : hs2 = headers'
    BY <2>6
  <2>8. HeadersKnown("header_value", hs2, input, pos + 1)
    BY <1>1, <2>1, <2>4, <2>5, <2>6, <2>7, SameLine
  <2> QED BY <2>1, <2>7, <2>8
<1> QED BY <1>3, <1>4, <1>5

\* So does the first byte of a line.
LEMMA HeaderLineStartKept ==
  ASSUME NEW c, NEW a, NEW f, NEW g, Reads(c, a, f, g), HeaderLineStart(c), result' = "more"
  PROVE  HeadersKnown(state', headers', input, pos + 1)
<1>1. /\ Reading(state, headers, input, a, pos, c, f, g) /\ c \in Byte /\ result = "more" /\ pos \in Nat
      /\ headers \in Seq(Header) /\ state = "header_line_start" /\ a = pos + 1 /\ a > 1
      /\ LineOpen(input, a, pos, c) /\ AtLine(input, a, pos) /\ Valued(f) /\ g \in Seq(Nat)
  BY DEF Reads, Moves, Reading, HeaderLineStart, ReadOf
<1>2. headers # <<>> => headers[Len(headers)].value = f[a - 1]
  BY <1>1 DEF Reading, HeadersRead, LastHeader
<1>3. SP # LF /\ HT # LF /\ CR # LF
  BY Codes
<1>4. CASE c = CR
  <2>1. state' = "expecting_newline_3" /\ headers' = headers
    BY <1>4 DEF HeaderLineStart, Goto
  <2>2. headers # <<>> => LastHeader("expecting_newline_3", headers[Len(headers)], input, a, pos + 1, f)
    BY <1>2 DEF LastHeader
  <2>3. HeadersKnown("expecting_newline_3", headers, input, pos + 1)
    BY <1>1, <1>3, <1>4, <2>2, SameHeaders
  <2> QED BY <2>1, <2>3
<1>5. CASE c # CR /\ headers # <<>> /\ c \in {SP, HT}
  <2>1. state' = "header_lws" /\ headers' = headers
    BY <1>5 DEF HeaderLineStart, Goto
  <2>2. ValueRead(input, a, pos + 1, pos + 2, f, f[a - 1])
    BY <1>1, <1>5, ValueBeforeText
  <2>3. pos + 2 \in Nat
    BY <1>1
  <2>4. LastHeader("header_lws", headers[Len(headers)], input, a, pos + 1, f)
    BY <1>2, <1>5, <2>2, <2>3 DEF LastHeader
  <2>5. HeadersKnown("header_lws", headers, input, pos + 1)
    BY <1>1, <1>3, <1>5, <2>4, SameHeaders
  <2> QED BY <2>1, <2>5
<1>6. CASE c # CR /\ (headers = <<>> \/ c \notin {SP, HT}) /\ IsToken(c)
  <2>1. PICK h : h = [name |-> <<c>>, value |-> <<>>]
    OBVIOUS
  <2>2. state' = "header_name" /\ headers' = Append(headers, h)
    BY <1>6, <2>1 DEF HeaderLineStart, Goto
  <2>3. c \notin {SP, HT, CR} /\ c # LF
    BY <1>1, <1>6, Codes
  <2>4. HeadersRead("header_name", Append(headers, h), input, a, pos + 1, f, Append(g, a)) /\ Append(g, a) \in Seq(Nat)
    BY <1>1, <2>1, <2>3, NewField
  <2>5. AtLine(input, a, pos + 1) /\ a \in 1 .. pos + 1 + 1
    BY <1>1, <2>3, OpenPlaces DEF AtLine
  <2>6. HeadersKnown("header_name", Append(headers, h), input, pos + 1)
    BY <1>1, <2>4, <2>5 DEF HeadersKnown
  <2> QED BY <2>2, <2>6
<1>7. CASE c # CR /\ (headers = <<>> \/ c \notin {SP, HT}) /\ ~IsToken(c)
  BY <1>1, <1>7 DEF HeaderLineStart, Result
<1> QED BY <1>4, <1>5, <1>6, <1>7

\* So do the blanks a continuation begins with.
LEMMA BlanksKept ==
  ASSUME NEW c, NEW a, NEW f, NEW g, Reads(c, a, f, g), headers # <<>>, state = "header_lws", result' = "more",
         \/ c \in {SP, HT} /\ UNCHANGED <<state, result, reqVars>>
         \/ c \notin {SP, HT} /\ ValueByte(c)
  PROVE  HeadersKnown(state', headers', input, pos + 1)
<1>1. /\ Reading(state, headers, input, a, pos, c, f, g) /\ c \in Byte /\ pos \in Nat
      /\ LineOpen(input, a, pos, c) /\ a > 1 /\ BlankAt(input, a, pos) /\ a <= pos /\ Valued(f)
  BY DEF Reads, Moves, Reading, ReadOf, BlankAt
<1>2. PICK x \in Nat : ValueRead(input, a, pos, x, f, headers[Len(headers)].value)
  BY <1>1 DEF Reading, HeadersRead, LastHeader
<1>3. PICK v : v = headers[Len(headers)].value
  OBVIOUS
<1>4. /\ c \in {SP, HT} => ValueRead(input, a, pos + 1, pos + 2, f, v)
      /\ c \notin {SP, HT} => /\ ValueRead(input, a, pos + 1, pos + 1, f, Append(v, c))
                              /\ Begun(input, a, pos + 1)
  BY <1>1, <1>2, <1>3, ValueBeforeText
<1>5. CASE c \in {SP, HT} /\ UNCHANGED <<state, result, reqVars>>
  <2>1. state' = "header_lws" /\ headers' = headers
    BY <1>5 DEF reqVars
  <2>2. LastHeader("header_lws", headers[Len(headers)], input, a, pos + 1, f)
    <3>1. pos + 2 \in Nat
      BY <1>1
    <3> QED BY <1>3, <1>4, <1>5, <3>1 DEF LastHeader
  <2>3. c # LF
    BY <1>5, Codes
  <2>4. HeadersKnown("header_lws", headers, input, pos + 1)
    BY <1>1, <2>2, <2>3, SameHeaders
  <2> QED BY <2>1, <2>4
<1>6. CASE c \notin {SP, HT} /\ ValueByte(c)
  <2>1. pos + 1 \in Nat
    BY <1>1
  <2>2. \E y \in Nat : /\ ValueRead(input, a, pos + 1, y, f, Append(headers[Len(headers)].value, c))
                       /\ Begun(input, a, pos + 1)
    BY <1>3, <1>4, <1>6, <2>1
  <2> QED BY <1>1, <1>6, <2>2, ValueByteStep
<1> QED BY <1>5, <1>6

\* A byte of a field's name, or its end.
LEMMA NameKept ==
  ASSUME NEW c, NEW a, NEW f, NEW g, Reads(c, a, f, g), headers # <<>>, result' = "more",
         \/ c = Colon /\ Expect("header_name", TRUE, "space_before_header_value")
         \/ /\ state = "header_name" /\ c # Colon
            /\ IF IsToken(c) THEN PushName(c) /\ UNCHANGED <<state, result>>
               ELSE Result("false") /\ UNCHANGED headers
            /\ UNCHANGED <<length, body, headEnd>>
  PROVE  HeadersKnown(state', headers', input, pos + 1)
<1>1. /\ Reading(state, headers, input, a, pos, c, f, g) /\ c \in Byte /\ pos \in Nat /\ result = "more"
      /\ state = "header_name" /\ headers \in Seq(Header)
      /\ LineOpen(input, a, pos, c) /\ AtLine(input, a, pos) /\ a > 1 /\ NameAt(input, a, pos)
  BY DEF Reads, Moves, Reading, ReadOf, Expect
<1>2. /\ input \in Seq(Byte) /\ pos < Len(input) /\ pos <= Len(input) /\ a \in Nat \ {0}
      /\ c = input[pos + 1]
      /\ pos + 1 \in 1 .. Len(input) /\ a \in Nat
  BY <1>1, OpenPlaces
<1>3. a <= pos /\ input[a] \notin {SP, HT, CR}
  BY <1>1, <1>2, NameStarts
<1>a. a \in Nat /\ a >= 1 /\ pos \in Nat /\ a <= pos
  BY <1>1, <1>2, <1>3
<1>b. Len(input) \in Nat /\ pos + 1 <= Len(input)
  BY <1>2, LenProperties
<1>4. /\ InOrder(input, pos, Len(headers), g) /\ Len(headers) \in Nat
      /\ headers[Len(headers)].name = SubSeq(input, a, pos) /\ headers[Len(headers)].value = <<>>
  BY <1>1, LenProperties DEF Reading, HeadersRead, LastHeader
<1>5. PICK n \in Nat : n = Len(headers) /\ n > 0 /\ g[n] = a
  <2>1. PICK n \in Nat : n = Len(headers) /\ InOrder(input, pos, n, g)
    BY <1>4
  <2>2. n > 0 /\ g[n] = a
    BY <1>1, <1>2, <1>3, <2>1, LastField
  <2> QED BY <2>1, <2>2
<1>6. CASE c = Colon /\ Expect("header_name", TRUE, "space_before_header_value")
  <2>1. state' = "space_before_header_value" /\ headers' = headers /\ c # LF
    BY <1>6, Codes DEF Expect, Goto, reqVars
  <2>2. Named(input, a, headers[n].name)
    <3>1. PICK i \in a + 1 .. Len(input) : i = pos + 1 /\ i - 1 = pos
      BY <1>a, <1>b
    <3> QED BY <1>1, <1>2, <1>4, <1>5, <1>6, <3>1 DEF Named
  <2>3. ValueRead(input, a, pos + 1, pos + 2, f, <<>>)
    <3>1. Valued(f)
      BY <1>1 DEF Reading
    <3> QED BY <1>1, <1>6, <3>1, ColonValue
  <2>4. LastHeader("space_before_header_value", headers[n], input, a, pos + 1, f)
    <3>1. pos + 2 \in Nat
      BY <1>1
    <3> QED BY <1>4, <1>5, <2>3, <3>1 DEF LastHeader
  <2>5. Named(input, g[Len(headers)], headers[Len(headers)].name)
    BY <1>5, <2>2
  <2>6. HeadersKnown("space_before_header_value", headers, input, pos + 1)
    BY <1>1, <1>3, <1>5, <2>1, <2>4, <2>5, SameLine
  <2> QED BY <2>1, <2>6
<1>7. CASE /\ state = "header_name" /\ c # Colon
           /\ IF IsToken(c) THEN PushName(c) /\ UNCHANGED <<state, result>>
              ELSE Result("false") /\ UNCHANGED headers
           /\ UNCHANGED <<length, body, headEnd>>
  <2>1. IsToken(c)
    BY <1>1, <1>7 DEF Result
  <2>2. state' = "header_name" /\ PushName(c) /\ c # LF
    BY <1>1, <1>7, <2>1, Codes
  <2>3. NamePushed(headers, headers', c)
    BY <1>1, <2>2, Pushed
  <2>4. SubSeq(input, a, pos + 1) = Append(SubSeq(input, a, pos), c)
    <3>1. PICK y \in 1 .. pos + 1 : y = a
      BY <1>a
    <3>2. SubSeq(input, y, pos + 1) = Append(SubSeq(input, y, pos), input[pos + 1])
      BY <1>1, <1>2, PartGrows
    <3> QED BY <1>2, <3>1, <3>2
  <2>5. /\ headers' \in Seq(Header) /\ Len(headers') = Len(headers)
        /\ \A k \in 1 .. Len(headers) - 1 : headers'[k] = headers[k]
        /\ headers'[n].name = SubSeq(input, a, pos + 1) /\ headers'[n].value = <<>>
    BY <1>4, <1>5, <2>3, <2>4 DEF NamePushed
  <2>6. LastHeader("header_name", headers'[n], input, a, pos + 1, f)
    BY <2>5 DEF LastHeader
  <2>7. PICK hs2 \in Seq(Header) : hs2 = headers'
    BY <2>5
  <2>8. HeadersKnown("header_name", hs2, input, pos + 1)
    BY <1>1, <1>3, <1>5, <2>2, <2>5, <2>6, <2>7, SameLine
  <2> QED BY <2>2, <2>7, <2>8
<1> QED BY <1>6, <1>7

\* The byte after the colon.
LEMMA SpaceBeforeValueKept ==
  ASSUME NEW c, NEW a, NEW f, NEW g, Reads(c, a, f, g), headers # <<>>, result' = "more", SpaceBeforeValue(c)
  PROVE  HeadersKnown(state', headers', input, pos + 1)
<1>1. /\ Reading(state, headers, input, a, pos, c, f, g) /\ c \in Byte /\ pos \in Nat /\ result = "more"
      /\ state = "space_before_header_value" /\ Valued(f)
      /\ LineOpen(input, a, pos, c) /\ a > 1 /\ NameAt(input, a, pos - 1) /\ input[pos] = Colon
  BY DEF Reads, Moves, Reading, ReadOf, Expect, SpaceBeforeValue
<1>2. a <= pos
  <2>1. a \in Nat
    BY <1>1, OpenPlaces
  <2> QED BY <1>1, <2>1 DEF NameAt
<1>3. PICK v : v = headers[Len(headers)].value
  OBVIOUS
<1>4. PICK x \in Nat : ValueRead(input, a, pos, x, f, v)
  BY <1>1, <1>3 DEF Reading, HeadersRead, LastHeader
<1>5. /\ c = SP => ValueRead(input, a, pos + 1, pos + 2, f, v)
      /\ c # SP => ValueRead(input, a, pos + 1, pos + 1, f, Append(v, c))
      /\ Begun(input, a, pos + 1)
  BY <1>1, <1>4, ValueAfterColon
<1>6. CASE c = SP /\ Expect("space_before_header_value", TRUE, "header_value")
  <2>1. state' = "header_value" /\ headers' = headers /\ c # LF
    BY <1>6, Codes DEF Expect, Goto, reqVars
  <2>2. LastHeader("header_value", headers[Len(headers)], input, a, pos + 1, f)
    <3>1. pos + 2 \in Nat
      BY <1>1
    <3> QED BY <1>3, <1>5, <1>6, <3>1 DEF LastHeader
  <2>3. HeadersKnown("header_value", headers, input, pos + 1)
    BY <1>1, <1>2, <2>1, <2>2, SameHeaders
  <2> QED BY <2>1, <2>3
<1>7. CASE c # SP /\ ValueByte(c)
  <2>1. pos + 1 \in Nat
    BY <1>1
  <2>2. \E y \in Nat : /\ ValueRead(input, a, pos + 1, y, f, Append(headers[Len(headers)].value, c))
                       /\ Begun(input, a, pos + 1)
    BY <1>3, <1>5, <1>7, <2>1
  <2> QED BY <1>1, <1>2, <1>7, <2>2, ValueByteStep
<1> QED BY <1>6, <1>7 DEF SpaceBeforeValue

\* A byte of a value.
LEMMA ValueKept ==
  ASSUME NEW c, NEW a, NEW f, NEW g, Reads(c, a, f, g), headers # <<>>, result' = "more",
         state = "header_value", ValueByte(c)
  PROVE  HeadersKnown(state', headers', input, pos + 1)
<1>1. /\ Reading(state, headers, input, a, pos, c, f, g) /\ pos \in Nat /\ Valued(f)
      /\ LineOpen(input, a, pos, c) /\ a > 1 /\ HeaderTextAt(input, a, pos)
  BY DEF Reads, Moves, Reading, ReadOf
<1>2. a <= pos
  <2>1. a \in Nat
    BY <1>1, OpenPlaces
  <2> QED BY <1>1, <2>1 DEF HeaderTextAt, FieldAt, FoldAt
<1>3. PICK v : v = headers[Len(headers)].value
  OBVIOUS
<1>4. PICK x \in Nat : ValueRead(input, a, pos, x, f, v) /\ Begun(input, a, pos)
  BY <1>1, <1>3 DEF Reading, HeadersRead, LastHeader
<1>5. ValueRead(input, a, pos + 1, x, f, Append(v, c)) /\ Begun(input, a, pos + 1)
  BY <1>1, <1>2, <1>4, ValueInText
<1>6. \E y \in Nat : /\ ValueRead(input, a, pos + 1, y, f, Append(headers[Len(headers)].value, c))
                     /\ Begun(input, a, pos + 1)
  BY <1>3, <1>5
<1> QED BY <1>2, <1>6, ValueByteStep

\* What the parser has made of the headers, as long as it has not found the head's end.
HeadersInv == headEnd = 0 /\ result = "more" => HeadersKnown(state, headers, input, pos)

\* A test that lets the parser go on.
LEMMA ExpectMore ==
  ASSUME NEW s, NEW test \in BOOLEAN, NEW next, Expect(s, test, next), result' = "more"
  PROVE  test /\ state = s /\ state' = next /\ headers' = headers
BY Expected DEF reqVars

\* A byte of the request line.
LEMMA FirstLineKept ==
  ASSUME NEW c, Moves(c), LineRead(1), c # LF, headers' = headers
  PROVE  HeadersKnown(state', headers', input, pos + 1)
<1>1. /\ AtLine(input, 1, pos) /\ headers = <<>> /\ pos \in Nat /\ input \in Seq(Byte)
      /\ c = input[pos + 1]
  BY DEF LineRead, Moves
<1>2. PICK m \in Nat : m = pos + 1
  BY <1>1
<1>3. AtLine(input, 1, m)
  BY <1>1, <1>2 DEF AtLine
<1>4. Valued([k \in Nat |-> <<>>]) /\ <<>> \in Seq(Nat)
  BY EmptySeq DEF Valued
<1>5. HeadersRead(state', <<>>, input, 1, m, [k \in Nat |-> <<>>], <<>>)
  BY <1>1, <1>3, FirstLineRead
<1>6. 1 \in 1 .. m + 1
  BY <1>2
<1>7. HeadersKnown(state', <<>>, input, m)
  BY <1>3, <1>4, <1>5, <1>6 DEF HeadersKnown
<1> QED BY <1>1, <1>2, <1>7

\* So do the states of the request line that expect a byte.
LEMMA ExpectKept ==
  ASSUME NEW c, Moves(c), NEW a \in 1 .. pos + 1, LineRead(a), result' = "more",
         NEW s, NEW test \in BOOLEAN, NEW next, Expect(s, test, next), test => c # LF,
         s \in {"method_start", "method", "uri", "http_version_h", "http_version_t_1", "http_version_t_2",
               "http_version_p", "http_version_slash", "http_version_major_start",
               "http_version_major", "http_version_minor_start", "http_version_minor"}
  PROVE  HeadersKnown(state', headers', input, pos + 1)
<1>1. state = s /\ headers' = headers /\ c # LF
  BY ExpectMore
<1>2. a = 1
  BY <1>1 DEF LineRead, ReadOf
<1> QED BY <1>1, <1>2, FirstLineKept

\* So do the steps of the method, the address and the version.
LEMMA RequestLineKept ==
  ASSUME NEW c, Moves(c), NEW a \in 1 .. pos + 1, LineRead(a), Method(c) \/ Uri(c) \/ Version(c),
         result' = "more"
  PROVE  HeadersKnown(state', headers', input, pos + 1)
<1>1. /\ IsToken(c) \in BOOLEAN /\ is_digit(c) \in BOOLEAN /\ TRUE \in BOOLEAN
      /\ IsToken(c) => c # LF
      /\ is_digit(c) => c # LF
      /\ SP # LF /\ Dot # LF /\ CR # LF
  <2>1. IsToken(c) \in BOOLEAN /\ is_digit(c) \in BOOLEAN /\ TRUE \in BOOLEAN
    BY DEF IsToken, is_digit
  <2> QED BY <2>1, Codes DEF Moves
<1>2. PICK yes \in BOOLEAN : yes = TRUE
  OBVIOUS
<1>3. PICK text \in BOOLEAN : text = (~is_ctl(c))
  <2>1. (~is_ctl(c)) \in BOOLEAN
    BY DEF is_ctl
  <2> QED BY <2>1
<1>4. text => c # LF
  BY <1>3, Codes DEF Moves
<1>5. CASE Method(c)
  <2>1. CASE Expect("method_start", IsToken(c), "method")
    BY <1>1, <2>1, ExpectKept
  <2>2. CASE c = SP /\ Expect("method", TRUE, "uri")
    <3>1. Expect("method", yes, "uri") /\ (yes => c # LF)
      BY <1>1, <1>2, <2>2
    <3> QED BY <3>1, ExpectKept
  <2>3. CASE c # SP /\ Expect("method", IsToken(c), "method")
    BY <1>1, <2>3, ExpectKept
  <2> QED BY <1>5, <2>1, <2>2, <2>3 DEF Method
<1>6. CASE Uri(c)
  <2>1. CASE c = SP /\ Expect("uri", TRUE, "http_version_h")
    <3>1. Expect("uri", yes, "http_version_h") /\ (yes => c # LF)
      BY <1>1, <1>2, <2>1
    <3> QED BY <3>1, ExpectKept
  <2>2. CASE c # SP /\ Expect("uri", ~is_ctl(c), "uri")
    <3>1. Expect("uri", text, "uri")
      BY <1>3, <2>2
    <3> QED BY <1>4, <3>1, ExpectKept
  <2> QED BY <1>6, <2>1, <2>2 DEF Uri
<1>7. CASE Version(c)
  <2>1. CASE Expect("http_version_major_start", is_digit(c), "http_version_major")
    BY <1>1, <2>1, ExpectKept
  <2>2. CASE c = Dot /\ Expect("http_version_major", TRUE, "http_version_minor_start")
    <3>1. Expect("http_version_major", yes, "http_version_minor_start") /\ (yes => c # LF)
      BY <1>1, <1>2, <2>2
    <3> QED BY <3>1, ExpectKept
  <2>3. CASE c # Dot /\ Expect("http_version_major", is_digit(c), "http_version_major")
    BY <1>1, <2>3, ExpectKept
  <2>4. CASE Expect("http_version_minor_start", is_digit(c), "http_version_minor")
    BY <1>1, <2>4, ExpectKept
  <2>5. CASE c = CR /\ Expect("http_version_minor", TRUE, "expecting_newline_1")
    <3>1. Expect("http_version_minor", yes, "expecting_newline_1") /\ (yes => c # LF)
      BY <1>1, <1>2, <2>5
    <3> QED BY <3>1, ExpectKept
  <2>6. CASE c # CR /\ Expect("http_version_minor", is_digit(c), "http_version_minor")
    BY <1>1, <2>6, ExpectKept
  <2> QED BY <1>7, <2>1, <2>2, <2>3, <2>4, <2>5, <2>6 DEF Version
<1> QED BY <1>5, <1>6, <1>7

\* So do the states that expect one byte.
LEMMA LiteralKept ==
  ASSUME NEW c, Moves(c), TypeOK, NEW a \in 1 .. pos + 1, LineRead(a), ExpectLiteral(c), result' = "more",
         HeadersInv
  PROVE  HeadersKnown(state', headers', input, pos + 1)
<1>1. PICK l \in Literal : Expect(l[1], c = l[2], l[3])
  BY DEF ExpectLiteral
<1>2. PICK t \in BOOLEAN : t = (c = l[2])
  OBVIOUS
<1>3. Expect(l[1], t, l[3])
  BY <1>1, <1>2
<1>4. t /\ state = l[1] /\ state' = l[3] /\ headers' = headers
  BY <1>3, ExpectMore
<1>5. c = l[2]
  BY <1>2, <1>4
<1>6. LineOpen(input, a, pos, c) /\ AtLine(input, a, pos) /\ pos \in Nat /\ ReadOf(state, input, a, pos)
      /\ input \in Seq(Byte) /\ pos < Len(input) /\ c = input[pos + 1]
  BY OpenLine DEF Moves, LineRead
<1>7. CASE l[2] # LF
  <2>1. t => c # LF
    BY <1>5, <1>7
  <2>2. l[1] \in {"http_version_h", "http_version_t_1", "http_version_t_2", "http_version_p", "http_version_slash"}
    BY <1>7 DEF Literal
  <2> QED BY <1>3, <2>1, <2>2, ExpectKept
<1>8. CASE l[2] = LF
  <2>1. l[3] = "header_line_start" /\ (l[1] = "expecting_newline_1" \/ l[1] = "expecting_newline_2")
    BY <1>8 DEF Literal, T, H, P, Slash, LF
  <2>2. CASE l[1] = "expecting_newline_1"
    <3>1. a = 1 /\ headers = <<>>
      BY <1>4, <1>6, <2>2, OpenLine DEF ReadOf
    <3>2. PICK f : f = [k \in Nat |-> <<>>]
      OBVIOUS
    <3>3. Valued(f) /\ <<>> \in Seq(Nat)
      BY <3>2, EmptySeq DEF Valued
    <3>4. HeadersRead("header_line_start", <<>>, input, pos + 2, pos + 1, f, <<>>)
      BY <1>5, <1>6, <1>8, <3>1, FieldsBegin
    <3>5. GoodLine(input, a, pos + 1)
      BY <1>4, <1>5, <1>6, <1>8, <2>2, RequestNewlineReads
    <3>6. AtLine(input, pos + 2, pos + 1) /\ pos + 2 \in 1 .. pos + 1 + 1
      <4>1. input[pos + 1] = LF
        BY <1>5, <1>6, <1>8
      <4>2. AtLine(input, pos + 2, pos + 1)
        BY <1>6, <3>5, <4>1, NextLine
      <4> QED BY <1>6, <4>2
    <3>7. HeadersKnown("header_line_start", <<>>, input, pos + 1)
      BY <3>3, <3>4, <3>6 DEF HeadersKnown
    <3> QED BY <1>4, <2>1, <3>1, <3>7
  <2>3. CASE l[1] = "expecting_newline_2"
    <3>1. state = "expecting_newline_2" /\ headers # <<>> /\ headers \in Seq(Header)
      BY <1>4, <2>3 DEF TypeOK, HeaderStates
    <3>2. a > 1 /\ a <= pos /\ pos - 1 \in Nat
      <4>1. HeaderTextAt(input, a, pos - 1) /\ a > 1
        BY <1>6, <3>1 DEF ReadOf, HeaderTextAt
      <4>2. a <= pos - 1
        BY <1>6, <4>1 DEF HeaderTextAt, FieldAt, FoldAt
      <4> QED BY <1>6, <4>1, <4>2
    <3>3. PICK b \in 1 .. pos + 1 : AtLine(input, b, pos) /\
             \E f, g : Valued(f) /\ g \in Seq(Nat) /\ HeadersRead(state, headers, input, b, pos, f, g)
      BY DEF HeadersInv, HeadersKnown, Moves
    <3>4. b = a
      BY <1>6, <3>3, LineUnique
    <3>5. PICK f, g : Reading(state, headers, input, a, pos, c, f, g)
      BY <1>6, <3>1, <3>2, <3>3, <3>4 DEF Reading
    <3>6. g \in Seq(Nat)
      BY <3>5 DEF Reading
    <3>7. PICK f2 : Valued(f2) /\ HeadersRead("header_line_start", headers, input, pos + 2, pos + 1, f2, g)
      BY <1>5, <1>8, <3>1, <3>2, <3>5, NextLineRead
    <3>8. GoodLine(input, a, pos + 1)
      BY <1>4, <1>5, <1>6, <1>8, <2>3, HeaderNewlineReads
    <3>9. AtLine(input, pos + 2, pos + 1) /\ pos + 2 \in 1 .. pos + 1 + 1
      <4>1. input[pos + 1] = LF
        BY <1>5, <1>6, <1>8
      <4>2. AtLine(input, pos + 2, pos + 1)
        BY <1>6, <3>8, <4>1, NextLine
      <4> QED BY <1>6, <4>2
    <3>10. HeadersKnown("header_line_start", headers, input, pos + 1)
      BY <3>6, <3>7, <3>9 DEF HeadersKnown
    <3> QED BY <1>4, <2>1, <3>10
  <2> QED BY <2>1, <2>2, <2>3
<1> QED BY <1>7, <1>8

\* So do the steps within the lines of the fields.
LEMMA HeaderKept ==
  ASSUME NEW c, Moves(c), TypeOK, NEW a \in 1 .. pos + 1, LineRead(a), HeadersInv, result' = "more",
         HeaderLineStart(c) \/ HeaderLine(c) \/ SpaceBeforeValue(c)
  PROVE  HeadersKnown(state', headers', input, pos + 1)
<1>1. /\ LineOpen(input, a, pos, c) /\ AtLine(input, a, pos) /\ pos \in Nat
      /\ ReadOf(state, input, a, pos)
      /\ headers \in Seq(Header)
  BY OpenLine DEF Moves, LineRead, TypeOK
<1>2. state \in {"header_line_start", "header_lws", "header_name", "space_before_header_value", "header_value"}
  BY DEF HeaderLineStart, HeaderLine, SpaceBeforeValue, Expect
<1>3. a > 1
  BY <1>1, <1>2 DEF ReadOf, HeaderTextAt
<1>4. state # "header_line_start" => headers # <<>>
  BY <1>2 DEF TypeOK, HeaderStates
<1>5. PICK b \in 1 .. pos + 1 : AtLine(input, b, pos) /\
         \E f, g : Valued(f) /\ g \in Seq(Nat) /\ HeadersRead(state, headers, input, b, pos, f, g)
  BY DEF HeadersInv, HeadersKnown, Moves
<1>6. b = a
  BY <1>1, <1>5, LineUnique
<1>7. PICK f, g : Reading(state, headers, input, a, pos, c, f, g)
  BY <1>1, <1>3, <1>5, <1>6 DEF Reading
<1>8. Reads(c, a, f, g)
  BY <1>1, <1>7 DEF Reads
<1>9. CASE HeaderLineStart(c)
  BY <1>8, <1>9, HeaderLineStartKept
<1>10. CASE SpaceBeforeValue(c)
  <2>1. headers # <<>>
    BY <1>4, <1>10 DEF SpaceBeforeValue, Expect
  <2> QED BY <1>8, <1>10, <2>1, SpaceBeforeValueKept
<1>11. CASE HeaderLine(c)
  <2>1. headers # <<>>
    BY <1>4, <1>11 DEF HeaderLine, Expect
  <2>2. CASE state = "header_lws" /\ c \in {SP, HT} /\ UNCHANGED <<state, result, reqVars>>
    BY <1>8, <2>1, <2>2, BlanksKept
  <2>3. CASE state = "header_lws" /\ c \notin {SP, HT} /\ ValueByte(c)
    BY <1>8, <2>1, <2>3, BlanksKept
  <2>4. CASE c = Colon /\ Expect("header_name", TRUE, "space_before_header_value")
    BY <1>8, <2>1, <2>4, NameKept
  <2>5. CASE /\ state = "header_name" /\ c # Colon
             /\ IF IsToken(c) THEN PushName(c) /\ UNCHANGED <<state, result>>
                ELSE Result("false") /\ UNCHANGED headers
             /\ UNCHANGED <<length, body, headEnd>>
    BY <1>8, <2>1, <2>5, NameKept
  <2>6. CASE state = "header_value" /\ ValueByte(c)
    BY <1>8, <2>1, <2>6, ValueKept
  <2> QED BY <1>11, <2>2, <2>3, <2>4, <2>5, <2>6 DEF HeaderLine
<1> QED BY <1>9, <1>10, <1>11

\* HeadersInv is an invariant.
LEMMA HeadersInvHolds == Spec => [](ParserInv /\ HeadInv /\ HeadersInv)
<1>1. Init => HeadersInv
  <2> SUFFICES ASSUME Init PROVE HeadersInv
    OBVIOUS
  <2>1. input \in Seq(Byte) /\ pos = 0 /\ headers = <<>>
    BY ParserAssumption DEF Init
  <2>2. PICK z \in Nat : z = 0
    OBVIOUS
  <2>3. AtLine(input, 1, z)
    BY <2>2 DEF AtLine, LinesGood
  <2>4. PICK f : f = [k \in Nat |-> <<>>]
    OBVIOUS
  <2>5. Valued(f) /\ <<>> \in Seq(Nat)
    BY <2>4, EmptySeq DEF Valued
  <2>6. HeadersRead(state, <<>>, input, 1, z, f, <<>>)
    BY <2>1, <2>3, FirstLineRead
  <2>7. 1 \in 1 .. z + 1
    BY <2>2
  <2>8. HeadersKnown(state, <<>>, input, z)
    BY <2>3, <2>5, <2>6, <2>7 DEF HeadersKnown
  <2> QED BY <2>1, <2>2, <2>8 DEF HeadersInv
<1>2. ParserInv /\ HeadInv /\ HeadersInv /\ [Next]_vars => HeadersInv'
  <2> SUFFICES ASSUME ParserInv, HeadInv, HeadersInv, [Next]_vars PROVE HeadersInv'
    OBVIOUS
  <2>1. CASE UNCHANGED vars
    BY <2>1 DEF vars, reqVars, HeadersInv
  <2>2. CASE Consume
    <3> SUFFICES ASSUME headEnd' = 0, result' = "more"
                 PROVE  HeadersKnown(state', headers', input', pos')
      BY DEF HeadersInv
    <3>1. PICK c : c = input[pos + 1]
      OBVIOUS
    <3>2. /\ result = "more" /\ pos < Len(input) /\ pos' = pos + 1 /\ input' = input
          /\ pos \in Nat /\ input \in Seq(Byte) /\ c \in Byte /\ TypeOK
      BY <2>2, <3>1 DEF Consume, ParserInv, TypeOK
    <3>3. \/ Method(c) \/ Uri(c) \/ ExpectLiteral(c) \/ Version(c)
          \/ HeaderLineStart(c) \/ HeaderLine(c) \/ SpaceBeforeValue(c)
          \/ HeadEnd(c) \/ Body(c)
      BY <2>2, <3>1 DEF Consume
    <3>4. headEnd = 0
      <4>1. headEnd' = headEnd \/ headEnd' = pos + 1
        BY <3>3, Zenon DEF Method, Uri, ExpectLiteral, Version, Expect, HeaderLineStart, HeaderLine, ValueByte,
           SpaceBeforeValue, HeadEnd, Body, reqVars
      <4> QED BY <3>2, <4>1
    <3>5. state # "body"
      BY <3>2, <3>4 DEF HeadInv, TypeOK
    <3>6. PICK a \in 1 .. pos + 1 : LineRead(a)
      BY <3>2, <3>4 DEF HeadInv
    <3>7. Moves(c)
      BY <3>1, <3>2, <3>4 DEF Moves
    <3>8. ~Body(c)
      BY <3>5 DEF Body
    <3>9. ~HeadEnd(c)
      <4> SUFFICES ASSUME HeadEnd(c) PROVE FALSE
        OBVIOUS
      <4>1. CASE c = LF
        BY <3>2, <4>1 DEF HeadEnd
      <4>2. CASE c # LF
        BY <4>2 DEF HeadEnd, Result
      <4> QED BY <4>1, <4>2
    <3>10. HeadersKnown(state', headers', input, pos + 1)
      BY <3>2, <3>3, <3>6, <3>7, <3>8, <3>9, RequestLineKept, LiteralKept, HeaderKept
    <3> QED BY <3>2, <3>10
  <2> QED BY <2>1, <2>2 DEF Next
<1> QED BY <1>1, <1>2, HeadInvHolds, PTL DEF Spec

-----------------------------------------------------------------------------
(***************************************************************************)
(* The declared length: BodyByLength                                       *)
(***************************************************************************)

\* The head s declares n bytes of body.
Declares(s, n) == LengthLines(s) # {} /\ IsInt(LengthText(s)) /\ IntOf(LengthText(s)) = n

\* The result r of a head s after which no body is read.
Settles(s, r) ==
  \/ LengthLines(s) = {} /\ r = "true"
  \/ LengthLines(s) # {} /\ ~IsInt(LengthText(s)) /\ r = "thrown"
  \/ Declares(s, 0) /\ r = "true"
  \/ \E n \in Int : Declares(s, n) /\ n > MaxBody /\ r = "false"

\* What the head has led to.
DeclaredInv ==
  headEnd > 0 =>
    /\ state = "body" => /\ Declares(SubSeq(input, 1, headEnd), length)
                         /\ body = SubSeq(input, headEnd + 1, pos)
    /\ state # "body" => pos = headEnd /\ Settles(SubSeq(input, 1, headEnd), result)

\* What the parser has gathered of the headers is what the grammar finds in them.
LEMMA GatheredIsMeant ==
  ASSUME NEW c, Moves(c), TypeOK, HeadInv, HeadersInv, HeadEnd(c), c = LF
  PROVE  /\ LengthLines(SubSeq(input, 1, pos + 1)) = {} <=> LengthFields = {}
         /\ LengthFields # {} =>
              LengthText(SubSeq(input, 1, pos + 1)) = headers[Min(LengthFields)].value
<1>1. /\ input \in Seq(Byte) /\ pos \in Nat /\ pos < Len(input) /\ c = input[pos + 1]
      /\ headEnd = 0 /\ result = "more" /\ state = "expecting_newline_3" /\ headers \in Seq(Header)
  BY DEF Moves, HeadEnd, TypeOK
<1>2. PICK a \in 1 .. pos + 1 : LineRead(a)
  BY <1>1 DEF HeadInv
<1>3. AtLine(input, a, pos) /\ a > 1 /\ a = pos /\ input[pos] = CR
  BY <1>1, <1>2 DEF LineRead, ReadOf
<1>4. Complete(input, pos)
  BY <1>1, <1>3 DEF Complete
<1>5. PICK b \in 1 .. pos + 1 : AtLine(input, b, pos) /\
         \E f, g : Valued(f) /\ g \in Seq(Nat) /\ HeadersRead(state, headers, input, b, pos, f, g)
  BY <1>1 DEF HeadersInv, HeadersKnown
<1>6. b = pos
  BY <1>1, <1>3, <1>5, LineUnique
<1>7. PICK f, g : g \in Seq(Nat) /\ HeadersRead("expecting_newline_3", headers, input, pos, pos, f, g)
  BY <1>1, <1>5, <1>6
<1>8. Read(input, pos, headers, f, g)
  BY <1>1, <1>4, <1>7 DEF HeadersRead, LastHeader, Read
<1>9. PICK s : s = HeadPart(input, pos)
  OBVIOUS
<1>10. /\ LengthLines(s) = {} <=> LengthNamed(headers) = {}
       /\ LengthNamed(headers) # {} => LengthText(s) = headers[Min(LengthNamed(headers))].value
  BY <1>8, <1>9, HeadersAreMeant
<1>11. LengthFields = LengthNamed(headers)
  BY DEF LengthFields, LengthNamed
<1> QED BY <1>9, <1>10, <1>11 DEF HeadPart

\* The last byte of the head establishes DeclaredInv.
LEMMA HeadEndDeclares ==
  ASSUME NEW c, Moves(c), TypeOK, HeadInv, HeadersInv, HeadEnd(c), body = <<>>
  PROVE  DeclaredInv'
<1>1. /\ input' = input /\ pos' = pos + 1 /\ pos \in Nat /\ headEnd = 0 /\ state = "expecting_newline_3"
      /\ body' = <<>> /\ input \in Seq(Byte)
  BY DEF Moves, HeadEnd
<1>2. CASE c # LF
  BY <1>1, <1>2 DEF HeadEnd, DeclaredInv
<1>3. CASE c = LF
  <2>1. headEnd' = pos + 1
    BY <1>3 DEF HeadEnd
  <2>2. PICK s : s = SubSeq(input, 1, pos + 1)
    OBVIOUS
  <2>3. /\ LengthLines(s) = {} <=> LengthFields = {}
        /\ LengthFields # {} => LengthText(s) = headers[Min(LengthFields)].value
    BY <1>3, <2>2, GatheredIsMeant
  <2>4. SubSeq(input, pos + 1 + 1, pos + 1) = <<>>
    BY <1>1, SubSeqEmpty
  <2>5. ASSUME state' # "body", Settles(s, result') PROVE DeclaredInv'
    BY <1>1, <2>1, <2>2, <2>5 DEF DeclaredInv
  <2>6. ASSUME state' = "body", Declares(s, length') PROVE DeclaredInv'
    BY <1>1, <2>1, <2>2, <2>4, <2>6 DEF DeclaredInv
  <2>7. CASE LengthFields = {}
    <3>1. state' # "body" /\ result' = "true"
      BY <1>1, <1>3, <2>7 DEF HeadEnd, Result
    <3> QED BY <2>3, <2>5, <2>7, <3>1 DEF Settles
  <2>8. CASE LengthFields # {}
    <3>1. PICK v : v = headers[Min(LengthFields)].value
      OBVIOUS
    <3>2. LengthLines(s) # {} /\ LengthText(s) = v
      BY <2>3, <2>8, <3>1
    <3>3. CASE ~IsInt(v)
      <4>1. state' # "body" /\ result' = "thrown"
        BY <1>1, <1>3, <2>8, <3>1, <3>3 DEF HeadEnd, Result
      <4> QED BY <2>5, <3>2, <3>3, <4>1 DEF Settles
    <3>4. CASE IsInt(v)
      <4>1. IntOf(v) \in - MaxInt .. MaxInt
        BY <3>4, IntRange
      <4>2. PICK n \in Int : n = IntOf(v)
        BY <4>1, GrammarAssumption
      <4>3. length' = n /\ HeadComplete(n)
        BY <1>3, <2>8, <3>1, <3>4, <4>2 DEF HeadEnd
      <4>4. Declares(s, n)
        BY <3>2, <3>4, <4>2 DEF Declares
      <4>5. MaxBody \in Nat
        BY ParserAssumption
      <4>6. CASE n = 0
        <5>1. ~(n > MaxBody)
          BY <4>5, <4>6
        <5>2. Result("true")
          BY <4>3, <4>6, <5>1, Zenon DEF HeadComplete
        <5>3. state' # "body" /\ result' = "true"
          BY <1>1, <5>2 DEF Result
        <5> QED BY <2>5, <4>4, <4>6, <5>3 DEF Settles
      <4>7. CASE n > MaxBody
        <5>1. n # 0 /\ ~(n <= MaxBody)
          BY <4>5, <4>7
        <5>2. Result("false")
          BY <4>3, <4>7, <5>1, Zenon DEF HeadComplete
        <5>3. state' # "body" /\ result' = "false"
          BY <1>1, <5>2 DEF Result
        <5>4. Settles(s, result')
          BY <4>4, <4>7, <5>3 DEF Settles
        <5> QED BY <2>5, <5>3, <5>4
      <4>8. CASE n # 0 /\ n <= MaxBody
        <5>1. ~(n > MaxBody)
          BY <4>5, <4>8
        <5>2. Goto("body")
          BY <4>3, <4>8, <5>1, Zenon DEF HeadComplete
        <5>3. state' = "body" /\ Declares(s, length')
          BY <4>3, <4>4, <5>2 DEF Goto
        <5> QED BY <2>6, <5>3
      <4> QED BY <4>5, <4>6, <4>7, <4>8
    <3> QED BY <3>3, <3>4
  <2> QED BY <2>7, <2>8
<1> QED BY <1>2, <1>3

\* A byte of the body.
LEMMA BodyDeclares ==
  ASSUME NEW c, c = input[pos + 1], input \in Seq(Byte), pos \in Nat, pos < Len(input), headEnd \in 1 .. pos,
         input' = input, pos' = pos + 1, Body(c), DeclaredInv
  PROVE  DeclaredInv'
<1>1. /\ state = "body" /\ state' = "body" /\ body' = Append(body, c) /\ length' = length
      /\ headEnd' = headEnd
  BY DEF Body, Result
<1>2. Declares(SubSeq(input, 1, headEnd), length) /\ body = SubSeq(input, headEnd + 1, pos)
  BY <1>1 DEF DeclaredInv
<1>3. PICK x \in 1 .. pos + 1 : x = headEnd + 1
  OBVIOUS
<1>4. SubSeq(input, x, pos + 1) = Append(SubSeq(input, x, pos), input[pos + 1])
  BY PartGrows
<1>5. body' = SubSeq(input, headEnd + 1, pos + 1)
  BY <1>1, <1>2, <1>3, <1>4
<1> QED BY <1>1, <1>2, <1>5 DEF DeclaredInv

\* DeclaredInv is an invariant.
LEMMA DeclaredInvHolds == Spec => [](ParserInv /\ DeclaredInv)
<1>1. Init => DeclaredInv
  BY DEF Init, DeclaredInv
<1>2. ParserInv /\ HeadInv /\ HeadersInv /\ DeclaredInv /\ [Next]_vars => DeclaredInv'
  <2> SUFFICES ASSUME ParserInv, HeadInv, HeadersInv, DeclaredInv, [Next]_vars PROVE DeclaredInv'
    OBVIOUS
  <2>1. CASE UNCHANGED vars
    BY <2>1 DEF vars, reqVars, DeclaredInv, Declares, Settles
  <2>2. CASE Consume
    <3>1. PICK c : c = input[pos + 1]
      OBVIOUS
    <3>2. /\ result = "more" /\ pos < Len(input) /\ pos' = pos + 1 /\ input' = input
          /\ pos \in Nat /\ input \in Seq(Byte) /\ c \in Byte /\ TypeOK /\ headEnd \in 0 .. pos
      BY <2>2, <3>1 DEF Consume, ParserInv, TypeOK
    <3>3. \/ Method(c) \/ Uri(c) \/ ExpectLiteral(c) \/ Version(c)
          \/ HeaderLineStart(c) \/ HeaderLine(c) \/ SpaceBeforeValue(c)
          \/ HeadEnd(c) \/ Body(c)
      BY <2>2, <3>1 DEF Consume
    <3>4. CASE Body(c)
      <4>1. headEnd \in 1 .. pos
        BY <3>2, <3>4 DEF HeadInv, Body
      <4> QED BY <3>1, <3>2, <3>4, <4>1, BodyDeclares
    <3>5. CASE HeadEnd(c)
      <4>1. state = "expecting_newline_3"
        BY <3>5 DEF HeadEnd
      <4>2. headEnd = 0 /\ body = <<>>
        BY <3>2, <4>1 DEF HeadInv, ParserInv, BodyFits
      <4>3. Moves(c)
        BY <3>1, <3>2, <4>2 DEF Moves
      <4> QED BY <3>2, <3>5, <4>2, <4>3, HeadEndDeclares
    <3>6. CASE ~Body(c) /\ ~HeadEnd(c)
      <4>a. headEnd' = headEnd
        BY <3>3, <3>6, Zenon DEF Method, Uri, ExpectLiteral, Version, Expect, HeaderLineStart, HeaderLine, ValueByte,
           SpaceBeforeValue, reqVars
      <4>b. state # "body"
        <5>1. ASSUME state = "body" PROVE Body(c)
          BY <3>3, <5>1 DEF Method, Uri, ExpectLiteral, Literal, Version, HeaderLineStart, HeaderLine,
             SpaceBeforeValue, HeadEnd, Expect
        <5> QED BY <3>6, <5>1
      <4>1. headEnd' = headEnd /\ state # "body"
        BY <4>a, <4>b
      <4>2. headEnd = 0
        BY <3>2, <4>1 DEF HeadInv
      <4> QED BY <4>1, <4>2 DEF DeclaredInv
    <3> QED BY <3>4, <3>5, <3>6
  <2> QED BY <2>1, <2>2 DEF Next
<1> QED BY <1>1, <1>2, HeadersInvHolds, PTL DEF Spec

\* BodyByLength for every input and every length that is an int.
THEOREM BodiesAreTheDeclared == Spec => []BodyByLength
<1>1. ParserInv /\ DeclaredInv => BodyByLength
  <2> SUFFICES ASSUME ParserInv, DeclaredInv, headEnd > 0,
                      NEW s, s = SubSeq(input, 1, headEnd), NEW v, v = LengthText(s)
               PROVE  /\ LengthLines(s) = {} \/ (LengthLines(s) # {} /\ IsInt(v) /\ IntOf(v) = 0) =>
                           result = "true" /\ pos = headEnd
                      /\ LengthLines(s) # {} /\ IsInt(v) /\ IntOf(v) > MaxBody =>
                           result = "false" /\ pos = headEnd
                      /\ LengthLines(s) # {} /\ IsInt(v) /\ IntOf(v) # 0 /\ IntOf(v) <= MaxBody =>
                           /\ body = SubSeq(input, headEnd + 1, pos)
                           /\ result = IF Len(body) < Max({IntOf(v), 1}) THEN "more" ELSE "true"
                           /\ Len(body) <= Max({IntOf(v), 1})
    BY Zenon DEF BodyByLength
  <2>1. CASE state # "body"
    <3>1. pos = headEnd /\ Settles(s, result)
      BY <2>1 DEF DeclaredInv
    <3>2. CASE LengthLines(s) = {}
      BY <3>1, <3>2 DEF Settles, Declares
    <3>3. CASE LengthLines(s) # {} /\ ~IsInt(v)
      BY <3>3
    <3>4. CASE LengthLines(s) # {} /\ IsInt(v)
      <4>1. \/ IntOf(v) = 0 /\ result = "true"
            \/ IntOf(v) \in Int /\ IntOf(v) > MaxBody /\ result = "false"
        BY <3>1, <3>4 DEF Settles, Declares
      <4>2. MaxBody \in Nat
        BY ParserAssumption
      <4>3. PICK n : n = IntOf(v)
        OBVIOUS
      <4>4. /\ n = 0 => result = "true" /\ ~(n > MaxBody)
            /\ n > MaxBody => result = "false"
            /\ n = 0 \/ ~(n <= MaxBody)
        BY <4>1, <4>2, <4>3
      <4> QED BY <3>1, <3>4, <4>3, <4>4, Zenon
    <3> QED BY <3>2, <3>3, <3>4
  <2>2. CASE state = "body"
    <3>1. LengthLines(s) # {} /\ IsInt(v) /\ IntOf(v) = length /\ body = SubSeq(input, headEnd + 1, pos)
      BY <2>2 DEF DeclaredInv, Declares
    <3>2. /\ length # 0 /\ length <= MaxBody /\ result \in {"more", "true"}
          /\ result = "more" => body = <<>> \/ Len(body) < length
          /\ result = "true" => Len(body) = IF length > 0 THEN length ELSE 1
      BY <2>2 DEF ParserInv, BodyFits
    <3>3. length \in Int /\ MaxBody \in Nat /\ Len(body) \in Nat /\ (body = <<>> => Len(body) = 0)
      BY ParserAssumption, GrammarAssumption, LenProperties, EmptySeq DEF ParserInv, TypeOK
    <3>4. Max({length, 1}) = IF length > 0 THEN length ELSE 1
      <4>1. PICK m \in {length, 1} : m = (IF length > 0 THEN length ELSE 1) /\ \A y \in {length, 1} : m >= y
        BY <3>3
      <4>2. \A x \in {length, 1} : (\A y \in {length, 1} : x >= y) => x = m
        BY <3>3, <4>1
      <4> QED BY <4>1, <4>2 DEF Max
    <3>5. PICK m \in Int : m = Max({length, 1}) /\ m = IF length > 0 THEN length ELSE 1
      BY <3>3, <3>4
    <3>6. /\ result = IF Len(body) < m THEN "more" ELSE "true"
          /\ Len(body) <= m
      <4>1. CASE result = "more"
        <5>1. Len(body) < m
          BY <3>2, <3>3, <3>5, <4>1
        <5> QED BY <3>3, <3>5, <4>1, <5>1
      <4>2. CASE result = "true"
        <5>1. Len(body) = m
          BY <3>2, <3>5, <4>2
        <5> QED BY <3>5, <4>2, <5>1
      <4> QED BY <3>2, <4>1, <4>2
    <3>7. ~(length > MaxBody)
      BY <3>2, <3>3
    <3> QED BY <3>1, <3>2, <3>5, <3>6, <3>7, Zenon
  <2> QED BY <2>1, <2>2
<1> QED BY <1>1, DeclaredInvHolds, PTL
=============================================================================
