------------------------------- MODULE Queries --------------------------------
(***************************************************************************)
(* The query of a URI: how the client builds it of the base URL and the    *)
(* arguments of a request (utils.rs, client/conn.rs) and how the server    *)
(* reads arguments from it (server/conn.rs).                               *)
(*                                                                         *)
(* A name or a value is a sequence of characters, a query a sequence of    *)
(* tokens: a character as it is, or a percent-encoded one.  An encoded     *)
(* Invalid stands for bytes that are not UTF-8.                            *)
(***************************************************************************)
EXTENDS Naturals, Sequences, SequencesExt

CONSTANT MaxQuery \* what a URI has room for behind its path: 2^16 - 2 bytes in all

ASSUME QueryAssumption == MaxQuery \in Nat

Invalid == "invalid"
Literal(c) == <<"literal", c>>
Encoded(c) == <<"encoded", c>>

\* Fault: the set of a path, where a plus sign has no meaning.
ENCODE_SET_Path == {"%", "&", "=", " ", "#"}

\* QUERY_ENCODE_SET, of the characters that mean something in a query.
ENCODE_SET == {"%", "&", "+", "=", " ", "#"}

Encode(text) ==
    [i \in 1 .. Len(text) |->
        IF text[i] \in ENCODE_SET THEN Encoded(text[i]) ELSE Literal(text[i])]

-----------------------------------------------------------------------------
(* The client *)

\* set_argument, called with one argument after the other: the last one counts.
ParamsOf(arguments) ==
    LET last(n) == CHOOSE i \in DOMAIN arguments :
            /\ arguments[i][1] = n
            /\ \A j \in DOMAIN arguments : arguments[j][1] = n => j <= i
    IN [n \in {arguments[i][1] : i \in DOMAIN arguments} |-> arguments[last(n)][2]]

\* An encoded character takes three bytes.
Size(query) == Len(query) + 2 * Cardinality({i \in DOMAIN query : query[i][1] = "encoded"})

\* The arguments behind a query, with the names in the order the map yields them.
Appended(query, params, order) ==
    LET pair(n) == Encode(n) \o <<Literal("=")>> \o Encode(params[n])
        add(q, n) == IF q = <<>> THEN pair(n) ELSE q \o <<Literal("&")>> \o pair(n)
        appended[i \in 0 .. Len(order)] ==
            IF i = 0 THEN query ELSE add(appended[i - 1], order[i])
    IN appended[Len(order)]

\* append_query_params.  A URI that is too long does not parse, and the one
\* without the arguments is used instead.
AppendQuery(query, params, order) ==
    LET longer == Appended(query, params, order)
    IN IF Size(longer) > MaxQuery THEN query ELSE longer

-----------------------------------------------------------------------------
(* The server *)

\* The pairs between the "&", of which there is always one.
Pairs(query) ==
    LET goOn(pairs, t) ==
            IF t = Literal("&") THEN Append(pairs, <<>>)
            ELSE Front(pairs) \o <<Append(Last(pairs), t)>>
        read[i \in 0 .. Len(query)] ==
            IF i = 0 THEN << <<>> >> ELSE goOn(read[i - 1], query[i])
    IN read[Len(query)]

Signs(pair) == {i \in DOMAIN pair : pair[i] = Literal("=")}
FirstSign(pair) == CHOOSE i \in Signs(pair) : \A j \in Signs(pair) : i <= j

NameOf(pair) ==
    IF Signs(pair) = {} THEN pair ELSE SubSeq(pair, 1, FirstSign(pair) - 1)
ValueOf(pair) ==
    IF Signs(pair) = {} THEN <<>> ELSE SubSeq(pair, FirstSign(pair) + 1, Len(pair))

\* url_decode
Decodable(text) == \A i \in DOMAIN text : text[i] # Encoded(Invalid)
Decode(text) ==
    [i \in DOMAIN text |-> IF text[i] = Literal("+") THEN " " ELSE text[i][2]]

Named(pair, name) == Decodable(NameOf(pair)) /\ Decode(NameOf(pair)) = name

\* get_argument: the first value, in a set that is empty for None.
Argument(query, name) ==
    LET pairs == Pairs(query)
        first == {i \in DOMAIN pairs :
                      Named(pairs[i], name) /\ \A j \in 1 .. i - 1 : ~Named(pairs[j], name)}
    IN {Decode(ValueOf(pairs[i])) : i \in {k \in first : Decodable(ValueOf(pairs[k]))}}

\* get_arguments, which skips what cannot be decoded
Arguments(query, name) ==
    LET pairs == Pairs(query)
        values[i \in 0 .. Len(pairs)] ==
            IF i = 0 THEN <<>>
            ELSE IF Named(pairs[i], name) /\ Decodable(ValueOf(pairs[i]))
                 THEN Append(values[i - 1], Decode(ValueOf(pairs[i])))
            ELSE values[i - 1]
    IN values[Len(pairs)]

\* get_all_arguments
AllArguments(query) ==
    LET pairs == Pairs(query)
        readable == {i \in DOMAIN pairs :
            pairs[i] # <<>> /\ Decodable(NameOf(pairs[i])) /\ Decodable(ValueOf(pairs[i]))}
        first(n) == CHOOSE i \in readable :
            /\ Decode(NameOf(pairs[i])) = n
            /\ \A j \in readable : j < i => Decode(NameOf(pairs[j])) # n
    IN [n \in {Decode(NameOf(pairs[i])) : i \in readable} |-> Decode(ValueOf(pairs[first(n)]))]

=============================================================================
