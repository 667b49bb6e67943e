------------------------------ MODULE MCWriter ------------------------------
(***************************************************************************)
(* Trees for Writer: every short text and attribute value of the           *)
(* characters that escape, the encodings and the reader tell apart, and    *)
(* small elements of several children.                                     *)
(***************************************************************************)
EXTENDS Writer

Upto(S, n) == UNION {[1..k -> S] : k \in 0..n}

\* "a", TAB, LF, CR, NEL, LINE SEPARATOR, quote, markup, NUL, a restricted
\* character of each half, the ends of the byte, of two, three and four bytes.
Letters == {97, TAB, LF, CR, NEL, LS, QUOT, AMP, LT, GT, 0, 1, 128,
            255, 256, 2047, 2048, 65535, 65536, 1114111}
Letters3 == {97, LF, CR, NEL, 233, 8364}
Strings == Upto(Letters, 2) \cup Upto(Letters3, 3)

Tag(name, declarations, attrs, children) ==
  [kind |-> "element", name |-> name, declarations |-> declarations, attrs |-> attrs,
   children |-> children]
A == <<97>>
E == <<233>>
W == <<97, 256>>
Attr(name, value) == [name |-> name, value |-> value]
U == {Attr(XMLNS, <<117>>)}
\* Attributes of trees built by hand: declarations, twice of a name too, and
\* what only looks like one.
Declaring == {Attr(n, v) : n \in {XMLNS, XMLNS \o <<COLON, 97>>, XMLNS \o A}, v \in {<<>>, <<117>>}}

Texts == {Text(s) : s \in Strings}
Leaves == {Tag(A, ns, <<>>, <<>>) : ns \in {{}, U}} \cup {Tag(E, {}, <<Attr(A, <<QUOT>>)>>, <<>>)}
            \cup {Tag(W, {}, <<>>, <<>>)}
\* One text of each way, and the empty text.
Some == {Text(s) : s \in {<<>>, <<CR>>, <<LF, 97>>, <<233>>, <<AMP>>}} \cup Leaves
Inner == {Tag(A, U, <<>>, c) : c \in [1..2 -> {Text(<<CR>>), Text(<<NEL>>), Tag(A, {}, <<>>, <<>>)}]}
Roots == {Tag(A, {}, <<>>, <<t>>) : t \in Texts}
           \cup {Tag(A, {}, <<Attr(A, s)>>, <<>>) : s \in Strings}
           \cup {Tag(A, {}, <<Attr(n, <<LS>>), Attr(E, <<97>>)>>, <<>>) : n \in {A, W}}
           \cup {Tag(E, {}, <<>>, c) : c \in [1..3 -> Some]}
           \cup {Tag(A, {}, <<>>, <<x, y>>) : x \in Inner, y \in Some}
           \cup {Tag(A, {}, s, <<Text(A), Tag(A, {}, <<>>, <<>>)>>) : s \in Upto(Declaring, 2)}
MCNode == Texts \cup Leaves \cup Inner \cup Roots
MCHeight[n \in MCNode] == IF IsText(n) THEN 0 ELSE 1 + Max({0} \cup {MCHeight[c] : c \in Range(n.children)})
MCPayload == Upto({97, TAB, LF, CR, NEL, AMP, LT, 0, 1, 128, 194, 255}, 2)
               \cup [1..3 -> {97, CR, LF, NEL, 0, 194}] \cup {<<b>> : b \in Byte}
MCTagName == {A, E, W}
=============================================================================
