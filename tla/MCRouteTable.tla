---------------------------- MODULE MCRouteTable ----------------------------
(***************************************************************************)
(* Files of up to two routes, and all short headers around two spellings   *)
(* of one name.                                                            *)
(***************************************************************************)
EXTENDS RouteTable

Order == <<"*", "-", ".", ":", "A", "LOCALHOST", "[", "]", "a", "localhost">>
MCChars == {Order[i] : i \in DOMAIN Order}
MCLowerOf == [c \in MCChars |->
                 CASE c = "A" -> "a" [] c = "LOCALHOST" -> "localhost" [] OTHER -> c]
MCRank == [c \in MCChars |-> CHOOSE i \in DOMAIN Order : Order[i] = c]

App == <<"a", ".", "localhost">>
APP == <<"A", ".", "LOCALHOST">>
Nested == <<"a", "-", "a", ".", "a", ".", "localhost">>
Odd == {
    <<>>, <<"localhost">>, <<".", "localhost">>, <<"a", ".", "a">>, <<"*", ".", "localhost">>,
    <<"a", ".", "localhost", ".">>, <<"a", ".", ".", "localhost">>,
    <<"a", "-", ".", "localhost">>, <<"-", "a", ".", "localhost">>,
    <<"a", "a", "a", "a", ".", "localhost">>, <<"a", ".", "localhost", "a">>,
    <<"[", "a", ".", "localhost", "]">>, <<"a", ".", "localhost", ":", "a">> }
Good == {App, APP, <<"a", ".", "LOCALHOST">>, Nested, <<"localhost", ".", "localhost">>}

File(r) == [parses |-> TRUE, routes |-> r, port |-> 0, idle |-> "", engines |-> {}]
RouteSets(names, ports) ==
    UNION {[S -> ports] : S \in {T \in SUBSET names : Cardinality(T) <= 2}}
MCConfigs ==
    {File(r) : r \in RouteSets(Good, {1, 65535})}
    \cup {File(r) : r \in RouteSets(Odd \cup {App}, {1})}
    \cup {File(r) : r \in RouteSets({App}, {-1, 0, 65536})}
    \cup {[File(r) EXCEPT !.parses = p, !.port = q, !.idle = t, !.engines = s] :
             r \in RouteSets({App}, {1}), p \in BOOLEAN, q \in {-1, 0, 65535, 65536},
             t \in {"", "1s", "soon"}, s \in SUBSET {"tunnel"}}

\* Concatenations of up to four of these pieces, and some longer ones.
Pieces == {App, APP} \cup {<<c>> : c \in {".", ":", "[", "]"}}
Two == {p \o q : p, q \in Pieces \cup {<<>>}}
MCHosts ==
    {p \o q : p, q \in Two} \cup
    {<<"[", "[">> \o App \o t : t \in {<<"]", ":", "a", "]">>, <<"]", "]", ":", "a">>}}
    \cup {<<"[">> \o APP \o t : t \in {<<".", "]", ":", "a">>, <<"]", ":", "a", ":">>, <<"]", "a", ":", "a">>}}
    \cup {Nested, <<"localhost", ".", "localhost", ":">>, <<"a", ".", "a">>, <<"a">>}

MCQuestions ==
    {Append(n, ".") : n \in Good \cup Odd \cup
        {App \o <<":", "a">>, <<"[">> \o App, APP \o <<":">> \o App, <<"a", ".">> \o App}}
=============================================================================
