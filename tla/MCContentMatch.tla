--------------------------- MODULE MCContentMatch ---------------------------
(***************************************************************************)
(* Content models for ContentMatch: sequences and choices of one or two    *)
(* particles, the first of which may be a group of two, all groups of two, *)
(* and an all group that a reference brought into a sequence or a choice,  *)
(* with up to three children.                                              *)
(***************************************************************************)
EXTENDS ContentMatch

CONSTANT MaxKids

\* h is an abstract head, m its only member; w is a global element of another
\* namespace, for wildcards.
MCGlobalNames == {<<"n", "a">>, <<"n", "b">>, <<"n", "h">>, <<"n", "m">>, <<"o", "w">>}
MCAbstractNames == {<<"n", "h">>}
MCSubstitutes(q) == IF q = <<"n", "h">> THEN {<<"n", "m">>} ELSE {}

El(local, ref, min, max) ==
  [kind |-> "element", name |-> <<"n", local>>, ref |-> ref, min |-> min, max |-> max]
Head1 == El("h", TRUE, 1, 1)
AnyIn(ns, min, max) == [kind |-> "any", allowed |-> {ns}, min |-> min, max |-> max]
GroupOf(kind, items, occurs) ==
  [kind |-> kind, items |-> items, min |-> occurs[1], max |-> occurs[2]]

As == {El("a", FALSE, 1, 1), El("a", FALSE, 0, 1), El("a", FALSE, 1, 2), El("a", FALSE, 0, -1)}
Bs == {El("b", FALSE, 1, 1), El("b", FALSE, 0, 2)}
Others == {Head1, AnyIn("o", 1, -1), AnyIn("o", 0, 1)}
Occurs == {<<1, 1>>, <<0, 1>>, <<1, 2>>, <<2, 2>>, <<0, -1>>}
Tops == {<<1, 1>>, <<0, 1>>, <<2, -1>>}
Kinds == {"sequence", "choice"}

\* A group of two leaves, and a group of such a group and a leaf.
Flat(kinds, ps, qs, occurs) ==
  {<<p, q, GroupOf(kind, <<1, 2>>, o)>> : kind \in kinds, p \in ps, q \in qs, o \in occurs}
Nested == {Append(g, q) \o <<GroupOf(kind, <<3, 4>>, <<1, 1>>)>> :
             g \in Flat(Kinds, As \ {El("a", FALSE, 0, -1)}, Bs, Occurs),
             q \in Others \cup {El("b", FALSE, 1, 1)}, kind \in Kinds}

\* A group declared as an all group: referenced as the whole content, which the
\* parser wraps in a sequence, and beside an element.
Alls == Flat({"all"}, {El("a", FALSE, 1, 1), El("a", FALSE, 0, 1)}, {El("b", FALSE, 1, 1)}, {<<1, 1>>, <<0, 1>>})
Referenced == {Append(g, GroupOf("sequence", <<3>>, <<1, 1>>)) : g \in Alls}
                \cup {Append(g, AnyIn("o", 1, 1)) \o <<GroupOf(kind, <<3, 4>>, <<1, 1>>)>> :
                        g \in Alls, kind \in Kinds}

MCModels == Flat(Kinds, As \cup Others, As \cup Bs \cup Others, Tops)
              \cup Nested
              \cup Flat({"all"}, As \cup Others, Bs \cup Others, Tops)
              \cup Referenced
              \cup {<<GroupOf("empty", <<>>, <<1, 1>>)>>}

Kid(ns, local, valid) == [local |-> local, ns |-> ns, valid |-> valid]
Kids == {Kid("n", "a", TRUE), Kid("n", "b", TRUE), Kid("n", "m", TRUE), Kid("o", "w", TRUE)}
KidsPlain == {Kid("n", "a", TRUE), Kid("n", "b", TRUE)}
KidsOdd == {Kid("n", "a", TRUE), Kid("n", "a", FALSE), Kid("n", "h", TRUE), Kid("o", "x", TRUE)}
UpTo(n, S) == UNION {[1..k -> S] : k \in 0..n}

MCInputs == {[particles |-> m, kids |-> c] : m \in MCModels,
               c \in UpTo(MaxKids, Kids) \cup UpTo(2, KidsOdd) \cup UpTo(MaxKids + 1, KidsPlain)}
=============================================================================
