----------------------------- MODULE MCHttpClient -----------------------------
(***************************************************************************)
(* Small instances of HttpClient for TLC.                                  *)
(***************************************************************************)
EXTENDS HttpClient

CONSTANTS c1, c2, b1, b2

Request(m, is, q, as) == [mode |-> m, items |-> is, base |-> q, arguments |-> as]

\* Bodies: items of every length that fits into two bits, one that does not
\* fit, a raw stream, and bytes.
Bodies == {
    Request("framed", << <<1>>, <<>>, <<0, 1, 1>> >>, <<>>, <<>>),
    Request("framed", << <<1, 0, 1, 0, 1>> >>, <<>>, <<>>),
    Request("raw", << <<1, 0>>, <<1>> >>, <<>>, <<>>),
    Request("bytes", << <<1, 0, 1>> >>, <<>>, <<>>)}

\* a=1, a=<invalid>&b=+ and the flag a
One == <<Literal("a"), Literal("="), Literal("1")>>
Bad == <<Literal("a"), Literal("="), Encoded(Invalid), Literal("&"),
         Literal("b"), Literal("="), Literal("+")>>
Flag == <<Literal("a")>>

Texts == {<<"1">>, <<"+">>, <<"&", "=">>, <<" ", "%">>, <<>>}

Targets ==
    {Request("null", <<>>, q, << <<n, v>>, << <<"b">>, w>>, <<n, w>> >>) :
        q \in {<<>>, One, Bad, Flag}, n \in {<<"a">>, <<"+">>}, v \in {<<"1">>}, w \in Texts}

\* One call goes through all of them, the other is in its way.
Plain == Request("null", <<>>, <<>>, <<>>)
OneInput == c1 :> Bodies \cup Targets @@ c2 :> {Plain}
AllCharacters == {"a", "b", "1", "+", "&", "=", " ", "%", Invalid}
AllNames == {<<"a">>, <<"b">>, <<"+">>}

\* No task and no caller has anything to do.  A call that is left waiting then
\* is for RequestReturns to find.
Quiet ==
    /\ \A b \in Binders : current[b] = None /\ queue[b] = <<>>
    /\ \A c \in Calls : call[c] \notin {"sending", "failing", "sleeping", "reading"}
Rest == Quiet /\ UNCHANGED vars
FairRestSpec == Init /\ [][Next \/ Rest]_vars /\ Fairness
=============================================================================
