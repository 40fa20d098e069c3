---------------------------- MODULE JSONReference ----------------------------
(***************************************************************************)
(* The JSON text that an object graph g stands for with the options o, one *)
(* level of nesting on top of the other: what dumps is to return.          *)
(***************************************************************************)
EXTENDS JSONEncoder

\* The object that default= makes of an object in the end, by the number of
\* calls left; 0 if it makes none.
Made(g, o) ==
  LET made[k \in 0 .. DefaultMax] ==
        [n \in DOMAIN g |->
           IF g[n].kind # "object" THEN n
           ELSE IF ~o.default \/ k = 0 \/ g[n].items = <<>> THEN 0
           ELSE made[k - 1][g[n].items[1]]]
  IN made

\* The names and values of a list and of a dictionary in the order of its text.
ListElements(g, n) == [i \in DOMAIN g[n].items |-> <<"NULL", g[n].items[i]>>]
DictElements(g, o, d) ==
  LET keys == g[d].keys
      order == IF o.sortKeys THEN CHOOSE s \in Orders(keys) : TRUE ELSE keys
      place(key) == CHOOSE i \in DOMAIN keys : keys[i] = key
  IN [i \in DOMAIN keys |-> <<order[i], g[d].items[place(order[i])]>>]

NameText(key) ==
  CASE key = "NULL" -> <<>> [] key = "raising" -> <<"error">> [] OTHER -> <<key, ":">>

\* The text of a container by the number of elements left, up to its bracket;
\* t has the texts of the values.
Rest(elements, t, bracket) ==
  LET rest[j \in 0 .. Len(elements)] ==
        IF j = 0 THEN <<bracket>>
        ELSE LET e == elements[Len(elements) + 1 - j] IN
               (IF j < Len(elements) THEN <<",">> ELSE <<>>)
               \o NameText(e[1]) \o t[e[2]] \o rest[j - 1]
  IN rest

\* The text of the object n, and "error" for what has none.
ObjectText(g, o, n, t) ==
  LET kind == g[n].kind
      made == g[n].items
      list == <<"[">> \o Rest(ListElements(g, n), t, "]")[Len(made)]
      dict(d) == <<"{">> \o (IF o.sortKeys => Sortable(g[d].keys)
                             THEN Rest(DictElements(g, o, d), t, "}")[Len(g[d].keys)]
                             ELSE <<"error">>)
  IN IF n = 0 THEN <<"error">>
     ELSE CASE kind = "list" -> list
            [] kind = "dict" -> dict(n)
            [] kind = "toDict" /\ made # <<>> /\ g[made[1]].kind = "dict" -> dict(made[1])
            [] kind = "json" /\ made # <<>> /\ g[made[1]].kind \in {"str", "bytes"} -> <<"raw">>
            [] kind = "json" /\ made # <<>> /\ g[made[1]].kind = "badBytes" -> <<"badBytes">>
            [] \/ kind \in {"const", "int", "minusOne", "uint", "bigint", "float", "str"}
               \/ kind = "nan" /\ o.allowNan
               \/ kind \in {"bytes", "badBytes"} /\ ~o.rejectBytes -> <<kind>>
            [] OTHER -> <<"error">>

\* The texts of all objects by the number of levels that are left.
Texts(g, o) ==
  LET text[r \in 0 .. RecursionMax + 1] ==
        [n \in DOMAIN g |-> IF r = 0 THEN <<"error">>
                            ELSE ObjectText(g, o, Made(g, o)[DefaultMax][n], text[r - 1])]
  IN text

\* The text of the argument; it has none if there is an error in it, or a name
\* or string that is not UTF-8.
Expected == Texts(graph, opt)[RecursionMax + 1][1]
HasText == \A i \in DOMAIN Expected : Expected[i] \notin {"error", "badKey", "badBytes"}

\* default= makes something with keys of an object and sort_keys is on: what
\* comes out then is the subject of SortKeysOrders.
DefaultMadeDict ==
  opt.sortKeys /\ \E n \in DOMAIN graph :
    /\ graph[n].kind = "object"
    /\ LET m == Made(graph, opt)[DefaultMax][n] IN
         m # 0 /\ graph[m].kind \in {"dict", "toDict"}

\* dumps returns the text of the object graph, with every item and key in its
\* place and, with sort_keys, keys in order; and raises when there is none: an
\* object nothing makes JSON of, a method that raises or returns something else
\* than it should, a cycle, a key or string that is not UTF-8.  (Excluded are an
\* allocation that failed, or the conversion of a big int, which JSONEncoder takes
\* for one, and the dictionaries of DefaultMadeDict.  After a
\* failure of which encode() was not told dumps may return a str, as NullOnError
\* shows, but never where there is a text.)
EncodesReference ==
  pc = "done" /\ opt.valid /\ "MemoryError" \notin raised /\ ~DefaultMadeDict =>
    IF HasText THEN result = "str" /\ out = Expected
    ELSE result = "NULL" \/ "silent" \in raised

\* sort_keys iterates through a dictionary in the order of its keys, also when
\* default= returned the dictionary: it omits none.
SortKeysOrders == pc = "done" /\ opt.sortKeys /\ result = "str" => out = Expected
=============================================================================
