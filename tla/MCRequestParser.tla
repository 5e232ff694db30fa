-------------------------- MODULE MCRequestParser --------------------------
(***************************************************************************)
(* Requests that are well formed, and every request that differs from one  *)
(* by a byte changed, added, left out, or by ending early.  Field "L"      *)
(* stands for Content-Length, and a body holds two bytes.                  *)
(***************************************************************************)
EXTENDS RequestParser

L == 76
a == 97

MCContentLength == <<L>>

EOL == <<CR, LF>>
Start(method, uri) == method \o <<SP>> \o uri \o <<SP, H, T, T, P, Slash, 49, Dot, 49>> \o EOL

\* A field with value v, and one that is folded before w.
Field(n, v) == <<n, Colon>> \o v \o EOL
Folded(n, v, w) == Field(n, v) \o <<SP>> \o w \o EOL

Fields ==
  { <<>>,
    Field(L, <<SP, 50>>),                              \* 2
    Field(L, <<49>>),                                  \* 1
    Field(L, <<Minus, 49>>),                           \* negative
    Field(a, <<SP, a>>) \o Field(L, <<50>>),
    Folded(L, <<>>, <<48>>),                           \* 0, on its second line
    Field(L, <<50>>) \o Field(L, <<49>>) }             \* twice

Bodies == {<<>>, <<a, CR, LF>>}

Requests ==
  {Start(<<a>>, <<>>) \o f \o EOL \o b : f \in Fields, b \in Bodies}
    \cup {Start(<<a, a>>, <<Slash>>) \o EOL}

\* A control character, the codes above 127, and one of each kind that the parser tells apart.
Codes == {-1, 0, HT, LF, CR, SP, Slash, Dot, Colon, Minus, 48, 51, L, a, 127}

Changed(s) == {[s EXCEPT ![i] = c] : i \in DOMAIN s, c \in Codes}
Added(s) == {InsertAt(s, i, c) : i \in DOMAIN s, c \in Codes}
LeftOut(s) == {RemoveAt(s, i) : i \in DOMAIN s}
Shortened(s) == {SubSeq(s, 1, i) : i \in 0 .. Len(s)}

MCInputs ==
  UNION {Changed(s) \cup Added(s) \cup LeftOut(s) \cup Shortened(s) : s \in Requests}

=============================================================================
