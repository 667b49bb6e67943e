----------------------------- MODULE MCElement -----------------------------
(***************************************************************************)
(* Elements for Element.  Most have one or two alternatives and types that *)
(* ask nothing; the others have one complex type and attributes for it.    *)
(***************************************************************************)
EXTENDS Element

MCText == {"", "0", "1", "01", "NaN", "six"}
MCRank == [t \in MCText |-> CHOOSE n \in 0..5 : <<"", "0", "01", "1", "NaN", "six">>[n + 1] = t]
MCNumber == [t \in MCText |-> CASE t = "0" -> 0 [] t \in {"1", "01"} -> 1
                                [] t = "NaN" -> NaN [] OTHER -> NoNumber]
MCBuiltin == {"int", "double", "string"}
MCNumeric == {"int", "double"}
MCAccepted == [b \in MCBuiltin |-> CASE b = "int" -> {"0", "1", "01"}
                                     [] b = "double" -> {"0", "1", "01", "NaN"}
                                     [] b = "string" -> MCText]

\* Types: plain ones to choose from, and complex ones.
Decl(local, ns, use, fixed, text) ==
  [local |-> local, ns |-> ns, use |-> use, fixed |-> fixed, text |-> text]
Simple(text) == [kind |-> "simple", text |-> text]
Complex(attributes, wildcard, content, mixed) ==
  [kind |-> "complex", attributes |-> attributes, wildcard |-> wildcard, content |-> content,
   text |-> {"1"}, mixed |-> mixed]
Wildcard(words) == [namespace |-> words]
Ints == MCAccepted["int"]
Needs == Decl("a", "", "required", "", Ints)
Fixes == Decl("b", "", "required", "1", MCText)
Bars == Decl("b", "", "prohibited", "", MCText)
Offers == Decl("a", "n", "optional", "", {"1"})

MCTypes ==
  [t \in {"A", "B", "C", "pair", "qualified", "barred", "any", "open", "mixed", "listed", "local"} |->
     CASE t \in {"A", "B"} -> Simple(MCText)
       [] t = "C" -> Simple({"1", "six"})
       [] t = "pair" -> Complex(<<Needs, Fixes>>, Nil, "simple", FALSE)
       [] t = "qualified" -> Complex(<<Offers, Needs>>, Wildcard({"##other"}), "empty", FALSE)
       [] t = "barred" -> Complex(<<Bars, Needs>>, Nil, "model", FALSE)
       [] t = "any" -> Complex(<<Bars, Offers>>, Wildcard({"##any"}), "empty", FALSE)
       [] t = "open" -> Complex(<<Needs>>, Wildcard({}), "empty", TRUE)
       [] t = "mixed" -> Complex(<<Offers>>, Wildcard({"##targetNamespace"}), "empty", TRUE)
       [] t = "listed" -> Complex(<<Fixes>>, Wildcard({"n", "##local"}), "model", FALSE)
       [] t = "local" -> Complex(<<Offers>>, Wildcard({"##local"}), "simple", FALSE)]

Plain(local, value) == [form |-> "plain", ns |-> "", local |-> local, value |-> value]
InNS(ns, local, value) == [form |-> "plain", ns |-> ns, local |-> local, value |-> value]
Special == {[form |-> "xmlns", ns |-> "", local |-> "a", value |-> "n"],
            [form |-> "xml", ns |-> "", local |-> "c", value |-> "1"],
            [form |-> "xsi", ns |-> "xsi", local |-> "a", value |-> "1"]}
-----------------------------------------------------------------------------
(* Tests.                                                                  *)
Word(w) == Token("name", w)
Quoted(t) == Token("str", t)
Num(t) == Token("num", t)
Open == Token("(", "(")
Close == Token(")", ")")
Op(o) == Token("op", o)
A == Token("attr", "a")
B == Token("attr", "b")
InParens(s) == <<Open>> \o s \o <<Close>>
Call(f, s) == <<Word(f)>> \o InParens(s)
CastAs(s, t) == s \o <<Word("cast"), Word("as"), Word(t)>>
Compare(l, o, r) == l \o <<Op(o)>> \o r

Short(alphabet, n) == UNION {[1..m -> alphabet] : m \in 0..n}
ShortTests == Short({A, Open, Close, Word("or"), Word("and"), Word("not"), Op("="), Num("1")}, 5)
                \cup Short({A, Open, Close, Word("cast"), Word("as"), Word("int"), Op("?")}, 4)

Values == {<<A>>, <<B>>, <<Quoted("1")>>, <<Num("1")>>, <<Num("0")>>, <<Quoted("")>>,
           Call("int", <<A>>), Call("string", <<A>>), Call("double", <<A>>),
           CastAs(<<A>>, "int"), CastAs(<<A>>, "int") \o <<Op("?")>>, CastAs(<<A>>, "string"),
           Call("int", Call("string", <<A>>)), CastAs(Call("int", <<A>>), "string"), <<Num("six")>>}
Comparisons == {Compare(l, o, r) : l \in Values, o \in Comparator, r \in Values}
                 \cup Values \cup {Call("not", v) : v \in Values}

Conditions == {<<A>>, Compare(<<A>>, "=", <<Num("1")>>), Compare(<<B>>, "!=", <<A>>), Call("not", <<B>>)}
Connectives == {Word("and"), Word("or")}
Combined ==
  UNION {{p \o <<c>> \o q \o <<d>> \o r, InParens(p \o <<c>> \o q) \o <<d>> \o r,
          p \o <<c>> \o InParens(q \o <<d>> \o r), Call("not", p \o <<c>> \o q) \o <<d>> \o r} :
           p \in Conditions, q \in Conditions, r \in Conditions, c \in Connectives, d \in Connectives}
-----------------------------------------------------------------------------
Alternative(test, type) == [written |-> "text", test |-> test, type |-> type]
Untested(written, type) == [written |-> written, test |-> <<>>, type |-> type]
Family(alternatives, types, fixed, attrs, texts, children) ==
  [alternatives |-> alternatives, type |-> types, fixed |-> fixed, attrs |-> attrs,
   text |-> texts, children |-> children]
Tested(expressions, attrs) ==
  Family({<<Alternative(e, "B")>> : e \in expressions}, {"A"}, {""}, attrs, {""}, {0})

One(local) == {<<>>} \cup {<<Plain(local, v)>> : v \in MCText}
Few(local) == {<<>>, <<Plain(local, "01")>>}
Both == {a \o b : a \in One("a"), b \in Few("b")}
Foreign == {<<InNS("n", "a", "1"), Plain("a", "0")>>, <<Plain("a", "0"), InNS("n", "a", "1")>>}

Numbers == {b \in Both : \A i \in DOMAIN b : b[i].value \in {"", "1", "01"}}
Chained == {Alternative(<<A>>, "A"), Alternative(<<B>>, "pair"), Alternative(<<>>, "A"), Untested("empty", "A"),
            Untested("no", "C"), Alternative(Call("not", <<A>>), "open")}

Occurring == {Plain("a", "1"), Plain("a", "six"), Plain("b", "1"), Plain("b", "0"), Plain("c", "1"),
              InNS("n", "a", "1"), InNS("n", "a", "0"), InNS("t", "a", "1")} \cup Special
NameOf(a) == <<a.form, a.ns, a.local>>
AttrLists == {s \in Short(Occurring, 3) :
                \A i, j \in DOMAIN s : i # j => NameOf(s[i]) # NameOf(s[j])}

MCFamilies ==
  {Tested(ShortTests, {<<>>, <<Plain("a", "1")>>}),
   Tested(Comparisons, Both \cup Foreign),
   Tested(Combined, Numbers),
   Family({<<x, y>> : x, y \in Chained}, {"B", Nil}, {"", "six"},
          {<<>>, <<Plain("a", "1")>>, <<Plain("b", "1")>>}, {"six", "0"}, {0, 1}),
   Family({<<>>}, {t \in DOMAIN MCTypes : MCTypes[t].kind = "complex"}, {""}, AttrLists,
          {"", "1"}, {0, 1})}
=============================================================================
