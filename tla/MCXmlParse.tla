----------------------------- MODULE MCXmlParse -----------------------------
(***************************************************************************)
(* Documents for XmlParse: short sequences of a few tokens, which are      *)
(* mostly not well-formed; and well-nested trees of four elements whose    *)
(* tags declare and use prefixes in every combination.                     *)
(***************************************************************************)
EXTENDS XmlParse

CONSTANT MaxTokens   \* the length of the short sequences

MCPrefix == {"", "p", "q", "xml", "xmlns"}
MCLocal == MCPrefix \cup {"a", "b", "x"}
MCValue == {"", "u", "v", XmlNS, XmlnsNS}

Name(p, l) == [prefix |-> p, local |-> l]
Attr(p, l, v) == [prefix |-> p, local |-> l, value |-> v]
Start(name, attrs, empty) == [kind |-> "start", name |-> name, attrs |-> attrs, empty |-> empty]
End(name) == [kind |-> "end", name |-> name]
Other(kind) == [kind |-> kind]

A == Name("", "a")
B == Name("p", "b")
DeclP(v) == Attr("xmlns", "p", v)
DeclQ(v) == Attr("xmlns", "q", v)
Default(v) == Attr("", "xmlns", v)

\* Short sequences.
Few == {Start(A, <<>>, FALSE), Start(B, <<DeclP("u")>>, FALSE), Start(B, <<>>, TRUE),
        End(A), End(B), Other("text"), Other("misc")}
Rare == {Other("doctype"), Other("garbage"), Start(A, <<Default("u")>>, TRUE)}
Sequences == UNION {[1..n -> Few] : n \in 0..MaxTokens}
               \cup UNION {[1..n -> Few \cup Rare] : n \in 0..(MaxTokens - 1)}
ShortDocs == {[role |-> r, version |-> "1.0", tokens |-> t] :
                r \in {"instance", "schema"}, t \in Sequences}

\* Trees: an outer element around an empty and a nested one.
Uses == {<<>>, <<Attr("p", "x", "v"), Attr("", "x", "v")>>, <<Attr("p", "x", "v"), Attr("q", "x", "v")>>,
         <<Attr("xml", "x", "v")>>}
Decls == {<<>>, <<DeclP("u")>>, <<DeclP("")>>, <<DeclQ("u"), DeclP("v")>>, <<Default("u")>>,
          <<Default("")>>}
Odd == {<<DeclP("u"), DeclP("v")>>, <<Attr("xmlns", "xmlns", "u")>>, <<Attr("xmlns", "xml", "u")>>,
        <<Attr("xmlns", "xml", XmlNS)>>, <<DeclQ(XmlNS)>>, <<Default(XmlnsNS)>>,
        <<DeclP("u"), DeclQ("u"), Attr("p", "x", "v"), Attr("q", "x", "u")>>}
Inner == {Start(n, u, TRUE) : n \in {A, B}, u \in Uses}
Middle == {Start(n, d \o u, FALSE) : n \in {A, B}, d \in Decls, u \in {<<>>, <<Attr("p", "x", "v")>>}}
           \cup {Start(A, o, FALSE) : o \in Odd} \cup {Start(Name("xmlns", "a"), <<>>, FALSE)}
Outer == {Start(A, d, FALSE) : d \in Decls \ {<<DeclP("")>>}}
TreeDocs == {[role |-> r, version |-> v,
              tokens |-> <<o, m, i, End(m.name), j, End(A)>>] :
               r \in {"instance", "schema"}, v \in {"1.0", "1.1"}, o \in Outer, m \in Middle,
               i \in Inner, j \in {Start(B, <<>>, TRUE), Start(A, <<>>, TRUE)}}

MCDocs == ShortDocs \cup TreeDocs
=============================================================================
