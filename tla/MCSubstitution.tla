--------------------------- MODULE MCSubstitution ---------------------------
(***************************************************************************)
(* Declaration sets for Substitution: every shape of groups among four     *)
(* elements of one type in one pass; three elements with types and blocks, *)
(* in one pass or in two, the second being that of an importing schema;    *)
(* and two namespaces with one local name in both, where the importing     *)
(* schema may read the same name as another head.                          *)
(***************************************************************************)
EXTENDS Substitution

CONSTANT Family

\* The attribute is read as empty when it is absent.
MCNoGroup == <<"", "">>

MCBase == [t \in Type |-> CASE t = "derived" -> "base" [] t = "derived2" -> "derived"
                            [] OTHER -> "notype"]

Three == {"a", "b", "c"}
Plain == [e \in Element |-> "base"]
Default == [e \in Element |-> "default"]
One(elements, types, refuses) ==
  [elements |-> elements, ns |-> [e \in Element |-> "n"], binding |-> [x \in Prefix |-> "n"],
   type |-> types, base |-> MCBase, refuses |-> refuses]

\* A function of three elements, d having no group and the type "base".
WithD(f, x) == [e \in Element |-> IF e = "d" THEN x ELSE f[e]]
OwnName == [e \in Element |-> e]

\* The groups in which an element names any of S, itself too, "none", which is
\* not there, or has no group.
Groups(D, S) == [D -> ({""} \X S) \cup {NoGroup}]
Groups3 == {WithD(f, NoGroup) : f \in Groups(Three, Three)}

Shapes ==
  {[local |-> OwnName, group |-> g, block |-> Default,
    passes |-> <<One(Element, Plain, FALSE)>>] :
     g \in {f \in Groups(Element, Element) : f["a"] \in {NoGroup, <<"", "b">>}}
           \cup {[f \in Element |-> IF f = "d" THEN <<"", "none">> ELSE g[f]] : g \in Groups3}}

Typed ==
  {[local |-> OwnName, group |-> g, block |-> h[1],
    passes |-> IF h[2] THEN <<One({"a", "b"}, WithD(t, "base"), FALSE), One(Three, WithD(t, "base"), FALSE)>>
               ELSE <<One(Three, WithD(t, "base"), TRUE)>>] :
     g \in Groups3,
     t \in {f \in [Three -> {"base", "derived", "derived2", "any", "other", "notype", "absent"}] :
              f["a"] \in {"base", "derived2"} /\ f["b"] # "absent"},
     h \in {<<Default, FALSE>>, <<Default, TRUE>>,
            <<[e \in Element |-> IF e = "a" THEN "refuses" ELSE "allows"], FALSE>>}}

\* a and b are of the inner schema, c and d of the outer; c is called as a is.
\* The outer schema includes the inner one or has its own namespace, and it
\* may find a type that the inner one misses, or not refuse what that refuses.
Imports ==
  {[local |-> [e \in Element |-> IF e = "c" THEN "a" ELSE e], group |-> g, block |-> Default,
    passes |-> <<[elements |-> {"a", "b"}, ns |-> [e \in Element |-> n],
                  binding |-> [x \in Prefix |-> IF x = "" THEN n ELSE "none"],
                  type |-> h[1], base |-> MCBase, refuses |-> h[2]],
                 [elements |-> Element, ns |-> [e \in Element |-> IF e \in {"a", "b"} THEN "n" ELSE "m"],
                  binding |-> bd, type |-> [h[1] EXCEPT !["b"] = "base"], base |-> MCBase, refuses |-> FALSE]>>] :
     g \in {f \in [Element -> {<<"", "a">>, <<"p", "a">>, <<"", "b">>, <<"", "d">>, NoGroup}] :
              f["a"] \in {NoGroup, <<"", "b">>} /\ f["c"] \in {NoGroup, <<"", "d">>} /\ f["d"] # <<"", "d">>},
     bd \in {[x \in Prefix |-> IF x = "" THEN y ELSE z] : y \in {"m", "n"}, z \in {"n", "none"}},
     n \in {"n", "none"},
     h \in {<<Plain, FALSE>>, <<Plain, TRUE>>, <<[Plain EXCEPT !["b"] = "absent"], FALSE>>,
            <<[Plain EXCEPT !["c"] = "other"], FALSE>>}}

\* Types that are there and types that are not.
Absents ==
  {[local |-> OwnName, group |-> g, block |-> Default,
    passes |-> <<One(Three, WithD(t, "base"), FALSE)>>] :
     g \in Groups3, t \in [Three -> {"base", "derived", "absent"}]}

MCDeclarations == IF Family = "absents" THEN Absents ELSE Typed \cup (Shapes \cup Imports)
=============================================================================
