----------------------------- MODULE MCIdentity -----------------------------
(***************************************************************************)
(* Documents for Identity.  A root r with two or three elements, some of   *)
(* them nested; keys and keyrefs on the root, on an inner element or on    *)
(* both, over attributes, children and their own text.                     *)
(***************************************************************************)
EXTENDS Identity

CONSTANT Family

Num(n) == [space |-> "decimal", keyed |-> "number", number |-> n, chars |-> <<ToString(n)>>]
MinusZero == [space |-> "decimal", keyed |-> "-0", number |-> 0, chars |-> <<"-", "0">>]
Text(chars) == [space |-> "string", keyed |-> "text", number |-> 0, chars |-> chars]
\* A number in simple content, a binary value.
Content(chars, n) == [space |-> "decimal", keyed |-> "text", number |-> n, chars |-> chars]
Hex(chars, n) == [space |-> "hexBinary", keyed |-> "text", number |-> n, chars |-> chars]
Blank == Text(<<>>)
Elem(parent, name, value, attrs) ==
  [parent |-> parent, name |-> name, value |-> value, attrs |-> attrs]

\* A namespace has one schema document, but see IncludedDocs.
Con(kind, name, ns, refer, selector, fields) ==
  [kind |-> kind, name |-> name, schema |-> ns, ns |-> ns, refer |-> refer,
   selector |-> selector, fields |-> fields]
Key(kind, ns, selector, fields) == Con(kind, "k", ns, <<>>, selector, fields)
Ref(ns, referNS, selector, fields) == Con("keyref", "f", ns, <<referNS, "k">>, selector, fields)

Child(name) == <<Path(FALSE, <<name>>, "")>>
Deep(name) == <<Path(TRUE, <<name>>, "")>>
At(a) == <<Path(FALSE, <<>>, a)>>
Self == <<Path(FALSE, <<>>, "")>>
Whatever == <<Path(FALSE, <<>>, "*")>>
Either == <<Path(FALSE, <<>>, "x"), Path(FALSE, <<>>, "*")>>

\* Attribute sets: one or two values, or one missing.
Vals == {Num(1), Num(2), Text(<<"a">>)}
OddVals == {Num(4), Num(5), Text(<<"a", NUL, "s">>), Text(<<>>), Text(<<"a">>), Text(<<"s">>)}
Attrs == {{<<"x", v>>} : v \in Vals} \cup {{}}
            \cup {{<<"x", v>>, <<"y", w>>} : v \in {Num(1), Text(<<"a">>)}, w \in {Num(1), Num(2)}}

\* One number in several spellings and types, text that looks like it, and zeros.
SpeltVals == {Num(1), Content(<<"1">>, 1), Content(<<"0", "1">>, 1), Content(<<"2">>, 2), Text(<<"1">>),
              Num(0), MinusZero, Hex(<<"0", "a">>, 10), Hex(<<"0", "A">>, 10)}

\* r has two groups g; each has an item and a reference.
Nested(i, j, u, v) ==
  <<Elem(0, "r", Blank, {}), Elem(1, "g", Blank, {}), Elem(2, "i", Blank, i), Elem(2, "u", Blank, u),
    Elem(1, "g", Blank, {}), Elem(5, "i", Blank, j), Elem(5, "u", Blank, v)>>
None == <<>>
OnRoot(cs, n) == [m \in 1..n |-> IF m = 1 THEN cs ELSE None]
OnGroups(root, group) == [m \in 1..7 |-> IF m = 1 THEN root ELSE IF m \in {2, 5} THEN group ELSE None]
Doc(ns0, cs, ns) == [nodes |-> ns0, constraints |-> cs, schemaNS |-> ns]

Kinds == {"key", "unique"}
Fields == {<<At("x")>>, <<At("x"), At("y")>>}
Placements ==
  {OnGroups(<<Key(kind, "n", Deep("i"), f), Ref("n", "n", Deep("u"), f)>>, None) : kind \in Kinds, f \in Fields}
    \cup {OnGroups(<<Key("key", "n", Deep("i"), f)>>, <<Ref("n", "n", Child("u"), f)>>) : f \in Fields}
    \cup {OnGroups(<<Ref("n", "n", Deep("u"), f)>>, <<Key("key", "n", Child("i"), f)>>) : f \in Fields}
    \cup {OnGroups(None, <<Ref("n", "n", Child("u"), f), Key("unique", "n", Child("i"), f)>>) : f \in Fields}
    \* the second group and the root share a key, so the nearest matters
    \cup {[OnGroups(<<Key("key", "n", Deep("i"), <<At("x")>>)>>, None) EXCEPT
             ![2] = <<Key("key", "n", Deep("i"), <<At("x")>>)>>, ![4] = c] :
            c \in {<<Ref("n", "n", Self, <<At("x")>>)>>, None}}
    \cup {[OnGroups(<<Key("key", "n", Deep("i"), <<At("x")>>)>>, None) EXCEPT
             ![2] = <<Key("key", "n", Deep("i"), <<At("x")>>)>>,
             ![5] = <<Ref("n", "n", Child("u"), <<At("x")>>)>>]}
    \* a field that selects nothing before one that selects two
    \cup {OnGroups(<<Key("unique", "n", Deep("i"), <<At("z"), Whatever>>)>>, None),
          OnGroups(<<Key("unique", "n", Deep("i"), <<Whatever, At("z")>>)>>, None)}
    \* names that are wrong
    \cup {OnGroups(<<Key("key", "n", Deep("i"), <<At("x")>>)>>, <<Key("unique", "n", Child("i"), <<At("x")>>)>>),
          OnGroups(<<Ref("n", "n", Deep("u"), <<At("x")>>)>>, None)}
    \cup {OnGroups(<<Key("key", "n", Deep("i"), <<Either>>), Ref("n", "", Deep("u"), <<At("x")>>)>>, None)}

NestedDocs ==
  {Doc(Nested(i, j, u, v), p, "n") : p \in Placements, i \in Attrs, j \in Attrs,
     u \in {{<<"x", Num(1)>>}, {<<"x", Text(<<"a">>)>>, <<"y", Num(1)>>}}, v \in {{<<"x", Num(2)>>}, {}}}

\* r with two elements of one text each; numbers and text the comparison mixes up.
Flat(i, j) == <<Elem(0, "r", Blank, {}), Elem(1, "i", i[1], {<<"y", i[2]>>}),
                Elem(1, "i", j[1], {<<"y", j[2]>>})>>
FlatDocs ==
  {Doc(Flat(i, j), OnRoot(<<Key("key", "n", Child("i"), f)>> \o c, 3), "n") :
     i \in OddVals \X OddVals, j \in OddVals \X OddVals,
     f \in {<<Self>>, <<Self, At("y")>>}, c \in {None, <<Ref("n", "n", Child("i"), <<At("y"), Self>>)>>}}
SpeltDocs ==
  {Doc(Flat(i, j), OnRoot(<<Key("key", "n", Child("i"), <<Self>>), Ref("n", "n", Child("i"), <<At("y")>>)>>, 3), "n") :
     i \in SpeltVals \X SpeltVals, j \in SpeltVals \X {Num(1), Num(2), Content(<<"1">>, 1)}}
    \cup {Doc(Flat(<<v, Num(1)>>, <<w, Num(1)>>), OnRoot(<<Key(kind, "n", Child("i"), <<Self>>)>>, 3), "n") :
            kind \in Kinds, v \in SpeltVals, w \in SpeltVals}

\* Constraints of an imported schema, compiled by it or by the importing one.
ImportedDocs ==
  {Doc(Nested({<<"x", Num(1)>>}, {<<"x", Num(2)>>}, u, {}),
       OnGroups(<<Key("key", ns, Deep("i"), <<At("x")>>), Ref(ns, ns, Deep("u"), <<At("x")>>)>>, None), "n") :
     u \in {{<<"x", Num(1)>>}, {<<"x", Num(3)>>}, {}}, ns \in {"n", "imported"}}

\* Keys of two documents of one namespace: a name of each its own, the same
\* name in both, and a reference to the key of the other.
In(schema, c) == [c EXCEPT !.schema = schema]
IncludedDocs ==
  {Doc(Nested(i, {<<"x", Num(2)>>}, u, {}), OnGroups(<<Key("key", "n", Deep("i"), <<At("x")>>)>>, inner), "n") :
     i \in Attrs, u \in {{<<"x", Num(1)>>}, {<<"x", Num(3)>>}},
     inner \in {<<In("b", Key("key", "n", Child("i"), <<At("x")>>)), Ref("n", "n", Child("u"), <<At("x")>>)>>,
                <<In("b", [Key("key", "n", Child("i"), <<At("x")>>) EXCEPT !.name = "l"]),
                  In("b", [Ref("n", "n", Child("u"), <<At("x")>>) EXCEPT !.refer = <<"n", "l">>])>>,
                <<In("b", Ref("n", "n", Child("u"), <<At("x")>>))>>}}

MCInputs == CASE Family = "all" -> NestedDocs \cup FlatDocs \cup SpeltDocs \cup ImportedDocs \cup IncludedDocs
              [] Family = "imported" -> ImportedDocs
=============================================================================
