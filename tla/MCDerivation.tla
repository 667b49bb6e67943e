---------------------------- MODULE MCDerivation ----------------------------
(***************************************************************************)
(* Schemas for Derivation: three named types a, b and d, an anonymous type *)
(* k, a global element g, a conditional element v and a local element l.   *)
(***************************************************************************)
EXTENDS Derivation

CONSTANT Family    \* which of the schemas below to resolve

Tok(kind, of, n) == [kind |-> kind, of |-> of, occurs |-> n, linked |-> FALSE]
ElementTok(e, anonymous) == [kind |-> "element", of |-> e, occurs |-> 1, linked |-> anonymous]
Model(compositor, items) == <<Open(compositor, 1)>> \o items \o <<Close>>
OneOf(item) == Model("sequence", <<item>>)
RefTo(e) == Tok("ref", e, 1)
GroupTo(g, n) == Tok("group", g, n)
L == ElementTok("l", FALSE)
K == ElementTok("l", TRUE)
NoTypes == [t \in Type |-> <<>>]

Bases(a, b, d, k) == [t \in Type |-> CASE t = "a" -> a [] t = "b" -> b [] t = "d" -> d [] t = "k" -> k]

Plain ==
  [named |-> {"a", "b", "d"}, global |-> {"g", "v"}, globalAttrs |-> {"x"},
   base |-> [t \in Type |-> NoType], method |-> [t \in Type |-> "extension"],
   content |-> NoTypes, traits |-> [t \in Type |-> {}],
   attrs |-> NoTypes, attrGroupRefs |-> NoTypes,
   type |-> [e \in Element |-> Simple], alternatives |-> [e \in Element |-> <<>>],
   groups |-> [g \in Group |-> <<>>], groupNames |-> {},
   attrGroups |-> [g \in AttrGroup |-> [attrs |-> IF g = "G" THEN <<"x4">> ELSE <<"x1", "y1">>, any |-> g = "G"]],
   attrGroupNames |-> {"G", "H"}, late |-> {},
   decl |-> [x \in AttrDecl |-> [name |-> "x", ref |-> FALSE, use |-> "optional"]]]

\* Chains of bases, circular ones included, whose models refer to an element
\* of any type of the chain.
Chains ==
  {[Plain EXCEPT !.base = Bases(NoType, bb, bd, "b"),
                 !.method["d"] = m,
                 !.type["g"] = tg, !.traits["a"] = {"text", "anyAttribute"},
                 !.content = Bases(ca, cb, cd, OneOf(L))] :
     bb \in {NoType, "a", "d"}, bd \in {"a", "b", "d"},
     m \in {"extension", "restriction"}, tg \in {"a", "b", "d", "k"},
     ca \in {OneOf(RefTo("g")), Model("all", <<L>>), <<>>},
     cb \in {OneOf(L), <<>>}, cd \in {OneOf(RefTo("g")), OneOf(L)}}

\* Elements with conditional types.
Conditional ==
  {[Plain EXCEPT !.base = Bases(NoType, "a", bd, NoType),
                 !.type["v"] = tv, !.type["l"] = "k", !.type["g"] = "d",
                 !.alternatives["v"] = alts,
                 !.content = Bases(ca, OneOf(K), cd, OneOf(RefTo("g")))] :
     bd \in {"a", "b"}, tv \in {Simple, "a", "k"},
     alts \in {<<"a">>, <<Simple, "b">>, <<"d", Missing>>, <<"d", "b">>, <<"k">>},
     ca \in {OneOf(RefTo("v")), OneOf(K), OneOf(RefTo("g"))},
     cd \in {OneOf(RefTo("v")), OneOf(K)}}

\* Named groups that refer to each other, to themselves or to nothing.
Grouped ==
  {[Plain EXCEPT !.base = Bases(NoType, "a", bd, NoType),
                 !.groupNames = D, !.groups = [n \in Group |-> CASE n = "p" -> gp [] n = "q" -> gq [] n = "r" -> gr],
                 !.content = Bases(ca, OneOf(GroupTo("q", 2)), OneOf(RefTo(ref)), <<>>)] :
     bd \in {"b", Simple, Missing}, D \in {{"p", "q", "r"}, {"p", "q"}},
     gp \in {OneOf(L), Model("choice", <<GroupTo("q", 2), L>>), Model("sequence", <<GroupTo("r", 3), GroupTo("r", 0)>>)},
     gq \in {OneOf(L), OneOf(GroupTo("r", 3)), OneOf(GroupTo("q", 1)), <<>>},
     gr \in {OneOf(RefTo("g")), Model("choice", <<GroupTo("q", 2), L>>), Model("all", <<L>>)},
     ca \in {OneOf(GroupTo("p", 2)), Model("choice", <<L, GroupTo("r", 1), GroupTo("r", 2)>>),
            Model("sequence", <<GroupTo("q", 2), GroupTo("p", 0)>>)},
     ref \in {"g", "l"}}

\* Attributes stated, restated, prohibited and referred to along a chain.
Attributed ==
  {[Plain EXCEPT !.base = Bases(NoType, "a", bd, NoType),
                 !.method["d"] = "restriction",
                 !.type["g"] = "d", !.content["a"] = ca,
                 !.attrs = Bases(aa, ab, ad, <<>>),
                 !.attrGroupRefs = Bases(<<>>, gb, gd, <<>>),
                 !.late = late,
                 !.decl = [x1 |-> [name |-> "x", ref |-> FALSE, use |-> "optional"],
                           x2 |-> [name |-> "x", ref |-> FALSE, use |-> "prohibited"],
                           x3 |-> [name |-> "x", ref |-> TRUE, use |-> use],
                           x4 |-> [name |-> "x", ref |-> TRUE, use |-> "required"],
                           y1 |-> [name |-> "y", ref |-> FALSE, use |-> "optional"]]] :
     bd \in {"a", "b"}, ca \in {<<>>, OneOf(RefTo("g"))},
     aa \in {<<"x1">>, <<"x3", "y1">>, <<>>}, ab \in {<<"x2">>, <<"y1">>}, ad \in {<<"x3">>, <<"x2", "y1">>, <<>>},
     gb \in {<<>>, <<"G">>}, gd \in {<<"H">>, <<"G", "M">>}, late \in {{}, {"H"}},
     use \in {"optional", "prohibited"}}

\* References to a global attribute that nobody declares.
Unknown == {[s EXCEPT !.globalAttrs = {}] : s \in {u \in Attributed : u.late = {} /\ u.attrs["d"] # <<>>}}

MCSchemas ==
  IF Family = "conditional" THEN Conditional
  ELSE Chains \cup Conditional \cup Grouped \cup Attributed \cup Unknown
=============================================================================
