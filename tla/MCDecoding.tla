----------------------------- MODULE MCDecoding -----------------------------
(***************************************************************************)
(* Documents for Decoding: every beginning, with its ends inside, at and   *)
(* past the window, before every short body of the bytes and of the        *)
(* characters that the decoders and the line ends tell apart.              *)
(***************************************************************************)
EXTENDS Decoding

Upto(S, n) == UNION {[1..k -> S] : k \in 0..n}
Encoded(t) == FlattenSeq([k \in DOMAIN t |-> Utf8(t[k])])

\* "a", CR, LF, NEL in both modes, a restricted character, broken sequences.
Bytes == {97, CR, LF, NEL, 194, 1, 237, 160, 240}
\* NEL, LINE SEPARATOR and a restricted character, and the edges of the rules.
Letters == {97, CR, LF, NEL, LS, 128}
Edges == {0, 31, 127, 55295, 57344, 65533, 65534, 65536, 1114111}
Broken == {<<192, 128>>, <<224, 128, 128>>, <<244, 144, 128, 128>>, <<240, 159, 152>>, <<237, 160, 128>>,
           <<226, 128>>, <<CR, CR, LF>>, <<CR, NEL, LF>>}
Bodies == Upto(Bytes, 2) \cup {Encoded(t) : t \in Upto(Letters, 3)} \cup {Utf8(c) : c \in Edges}
            \cup Broken \cup {m \o <<97>> : m \in Marks}
            \cup {Encoded(t) : t \in [1..4 -> {CR, LF, NEL}]}

\* A beginning: its target, version and encoding with their ends.
Plain == {<<"none", "none", 0, "none", 0>>}
           \cup {<<"xml", v, 19, "none", 0>> : v \in {"1.0", "1.1", "other"}}
           \cup {<<"xml", v, 19, e, 41>> : v \in {"1.0", "1.1"}, e \in {"UTF-8", "ISO-8859-1", "other"}}
           \cup {<<"xml", "1.1", 256, "none", 0>>, <<"xml", "1.1", 19, "ISO-8859-1", 256>>}
Long == {<<"xml", "1.1", 257, "none", 0>>, <<"xml", "1.1", 19, "ISO-8859-1", 257>>,
         <<"xml", "1.1", 41, "UTF-8", 30>>}
Styled == {<<"xml-stylesheet", "none", 0, e, IF e = "none" THEN 0 ELSE 60>> :
             e \in {"none", "UTF-8", "ISO-8859-1"}}
Beginnings == Plain \cup Long \cup Styled
Places == {<<"instance", "text">>, <<"instance", "verbatim">>, <<"schema", "text">>}

MCDocs == {[target |-> h[1], version |-> h[2], versionEnd |-> h[3], encoding |-> h[4],
            encodingEnd |-> h[5], role |-> p[1], place |-> p[2], body |-> b] :
             h \in Beginnings, p \in Places, b \in Bodies}
=============================================================================
