---------------------------- MODULE MCJSONEncoder ----------------------------
(* Instances of JSONEncoder for TLC. *)
EXTENDS JSONEncoderText, JSONReference

Node(kind, keys, items) == [kind |-> kind, keys |-> keys, items |-> items]
Leaf(kind) == Node(kind, <<>>, <<>>)
List(items) == Node("list", <<>>, items)
Dict(keys, items) == Node("dict", keys, items)

\* Node 1 is a list of nodes 2 and 3, each of which may refer to node 4, and
\* node 4 to node 1 or to itself.
Scalars == {Leaf(k) : k \in {"const", "int", "minusOne", "uint", "bigint", "float", "nan",
                             "str", "bytes", "badBytes"}}
Containers == {List(<<>>), List(<<4>>), Dict(<<>>, <<>>), Dict(<<"a">>, <<4>>),
               Dict(<<"c", "b", "a">>, <<3, 4, 3>>), Dict(<<"badKey">>, <<4>>)}
Custom == {Node(k, <<>>, i) : k \in {"object", "toDict", "json"}, i \in {<<>>, <<4>>}}
Raising == {Leaf("badFloat"), Dict(<<"raising">>, <<4>>), Dict(<<"a", "raising">>, <<4, 4>>),
            Dict(<<"mixed", "a">>, <<4, 4>>)}
Ends == {Leaf("str"), Leaf("badBytes"), Dict(<<"b", "a">>, <<1, 1>>), Node("object", <<>>, <<4>>)}

PairGraphs(pairs) == {<<List(<<2, 3>>), p[1], p[2], c>> : p \in pairs, c \in Ends}

\* Failing: each kind of element after and before each kind of failure.
Failing == {Leaf("badFloat"), Leaf("nan"), Leaf("badBytes"), Dict(<<"raising">>, <<4>>),
            Dict(<<"mixed", "a">>, <<4, 4>>), Node("object", <<>>, <<4>>),
            Node("json", <<>>, <<4>>), Node("toDict", <<>>, <<4>>)}
FaultGraphs == PairGraphs(((Containers \union Custom \union Raising) \X Failing)
                          \union (Failing \X (Scalars \union {List(<<4>>)})))
\* In QuietGraphs no exception is pending while encode() goes on.
Quiet == Scalars \union Containers \union Custom
QuietGraphs == PairGraphs(Quiet \X Quiet)
AllGraphs == FaultGraphs \union QuietGraphs
FewGraphs == PairGraphs((Raising \union {Node("object", <<>>, <<4>>)}) \X
                        {Leaf("bigint"), List(<<4>>), Node("object", <<>>, <<4>>)})

Opt(valid, sortKeys, default, lax) ==
  [valid |-> valid, sortKeys |-> sortKeys, default |-> default,
   rejectBytes |-> ~lax, ensureAscii |-> ~lax, allowNan |-> lax]
BytesOpt == [Opt(TRUE, FALSE, FALSE, TRUE) EXCEPT !.ensureAscii = TRUE]

FaultOptions == {Opt(TRUE, FALSE, TRUE, FALSE), Opt(TRUE, TRUE, TRUE, TRUE), BytesOpt,
                 Opt(FALSE, FALSE, FALSE, FALSE)}
\* sort_keys and default= not together
SomeOptions == {BytesOpt} \union {Opt(TRUE, FALSE, d, l) : d, l \in BOOLEAN}
                          \union {Opt(TRUE, TRUE, FALSE, l) : l \in BOOLEAN}
AllOptions == FaultOptions \union SomeOptions
\* default= returns a dictionary
SortGraphs == {<<Node("object", <<>>, <<2>>), Dict(<<"b", "a">>, <<3, 3>>), Leaf("int")>>}
SortDefault == {Opt(TRUE, TRUE, TRUE, TRUE)}
FewOptions == {Opt(TRUE, FALSE, TRUE, TRUE)}
=============================================================================
