--------------------------- MODULE RequestGrammar ---------------------------
(***************************************************************************)
(* The requests the gateway understands, as a grammar: a request line,     *)
(* fields that may be folded over several lines, an empty line, and a body *)
(* whose length a field declares.  It says in terms of lines what          *)
(* request_parser (module RequestParser) does byte by byte.                *)
(*                                                                         *)
(* A byte is its code as a signed char, -128 .. 127.                       *)
(***************************************************************************)
EXTENDS Integers, Sequences, SequencesExt

CONSTANTS
  ContentLength,   \* the name of the field that declares the length
  MaxInt           \* the largest int

Byte == -128 .. 127

HT == 9
LF == 10
CR == 13
SP == 32
Slash == 47
Dot == 46
Colon == 58
Plus == 43
Minus == 45
H == 72
T == 84
P == 80

ASSUME GrammarAssumption == ContentLength \in Seq(Byte) /\ MaxInt \in Nat \ {0}

\* is_char
is_char(c) == c >= 0 /\ c <= 127

\* is_ctl
is_ctl(c) == (c >= 0 /\ c <= 31) \/ c = 127

\* is_tspecial: ( ) < > @ , ; : \ " / [ ] ? = { } space tab
is_tspecial(c) ==
  c \in {40, 41, 60, 62, 64, 44, 59, Colon, 92, 34, Slash, 91, 93, 63, 61, 123, 125, SP, HT}

\* is_digit
is_digit(c) == 48 <= c /\ c <= 57

\* The test of method and field names.
IsToken(c) == is_char(c) /\ ~is_ctl(c) /\ ~is_tspecial(c)

-----------------------------------------------------------------------------
(***************************************************************************)
(* Lines                                                                   *)
(***************************************************************************)

All(Test(_), s) == \A i \in DOMAIN s : Test(s[i])

IsText(s) == All(LAMBDA c : ~is_ctl(c), s)
IsName(s) == s # <<>> /\ All(IsToken, s)
IsDigits(s) == s # <<>> /\ All(is_digit, s)
IsBlank(s) == s # <<>> /\ All(LAMBDA c : c \in {SP, HT}, s)

Before(s, i) == SubSeq(s, 1, i - 1)
After(s, i) == SubSeq(s, i + 1, Len(s))

IsVersion(s) ==
  /\ Len(s) >= 5 /\ SubSeq(s, 1, 5) = <<H, T, T, P, Slash>>
  /\ \E d \in DOMAIN s : s[d] = Dot /\ IsDigits(SubSeq(s, 6, d - 1)) /\ IsDigits(After(s, d))

\* A method, an address that may be empty, a version.
IsRequestLine(s) ==
  \E i, j \in DOMAIN s :
    /\ i < j /\ s[i] = SP /\ s[j] = SP
    /\ IsName(Before(s, i))
    /\ IsText(SubSeq(s, i + 1, j - 1)) /\ ~Contains(SubSeq(s, i + 1, j - 1), SP)
    /\ IsVersion(After(s, j))

IsField(s) == \E i \in DOMAIN s : s[i] = Colon /\ IsName(Before(s, i)) /\ IsText(After(s, i))

\* The continuation of a field.
IsFold(s) == \E i \in DOMAIN s : IsBlank(SubSeq(s, 1, i)) /\ IsText(After(s, i))

\* Where the lines of s end, where the one that ends at e begins, and what it is without
\* its CR LF.
LineEnds(s) == {e \in DOMAIN s : s[e] = LF}
LineStart(s, e) == Max({0} \cup {d \in LineEnds(s) : d < e}) + 1
Line(s, e) == SubSeq(s, LineStart(s, e), e - 2)

IsFirst(s, e) == LineStart(s, e) = 1
IsSecond(s, e) == ~IsFirst(s, e) /\ IsFirst(s, LineStart(s, e) - 1)

\* A request line, fields, and an empty line; only a field can be continued.
IsHead(s) ==
  /\ s # <<>> /\ Last(s) = LF
  /\ \A e \in LineEnds(s) :
       /\ e > LineStart(s, e) /\ s[e - 1] = CR
       /\ \/ IsFirst(s, e) /\ e # Len(s) /\ IsRequestLine(Line(s, e))
          \/ ~IsFirst(s, e) /\ e # Len(s) /\ IsField(Line(s, e))
          \/ ~IsFirst(s, e) /\ e # Len(s) /\ ~IsSecond(s, e) /\ IsFold(Line(s, e))
          \/ ~IsFirst(s, e) /\ e = Len(s) /\ Line(s, e) = <<>>

-----------------------------------------------------------------------------
(***************************************************************************)
(* The declared length                                                     *)
(***************************************************************************)

FirstColon(s) == CHOOSE i \in DOMAIN s : s[i] = Colon /\ ~Contains(Before(s, i), Colon)
FieldName(s) == Before(s, FirstColon(s))

\* What a line adds to the value of its field: one space after the colon is not part of it,
\* nor are the blanks a continuation begins with.
FieldText(s) == LET v == After(s, FirstColon(s)) IN IF v # <<>> /\ v[1] = SP THEN Tail(v) ELSE v
FoldText(s) ==
  LET text == {i \in DOMAIN s : s[i] \notin {SP, HT}}
  IN IF text = {} THEN <<>> ELSE After(s, Min(text) - 1)

\* The lines of the fields of a head, and those of them that continue the line before.
HeaderLines(s) == {e \in LineEnds(s) : ~IsFirst(s, e) /\ Line(s, e) # <<>>}
FoldLines(s) == {e \in HeaderLines(s) : Line(s, e)[1] \in {SP, HT}}

\* The value of the field of each line, as far as that line.
ValueUpTo(s) ==
  LET v[e \in HeaderLines(s)] ==
        IF e \in FoldLines(s) THEN v[LineStart(s, e) - 1] \o FoldText(Line(s, e))
        ELSE FieldText(Line(s, e))
  IN v

\* Where the fields named ContentLength begin, and the value of the first of them: that of
\* its last line.
LengthLines(s) == {e \in HeaderLines(s) \ FoldLines(s) : FieldName(Line(s, e)) = ContentLength}
LastLine(s, e) ==
  Max({d \in HeaderLines(s) : d >= e /\ \A x \in HeaderLines(s) : e < x /\ x <= d => x \in FoldLines(s)})
LengthText(s) == ValueUpTo(s)[LastLine(s, Min(LengthLines(s)))]

\* lexical_cast<int>: digits after an optional sign, and the number fits.
Number(s) == FoldLeft(LAMBDA n, c : 10 * n + (c - 48), 0, s)
Unsigned(s) == IF s # <<>> /\ s[1] \in {Plus, Minus} THEN Tail(s) ELSE s
IsInt(s) == IsDigits(Unsigned(s)) /\ Number(Unsigned(s)) \in 0 .. MaxInt
IntOf(s) == IF s[1] = Minus THEN - Number(Unsigned(s)) ELSE Number(Unsigned(s))

=============================================================================
