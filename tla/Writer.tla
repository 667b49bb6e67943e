------------------------------- MODULE Writer -------------------------------
(***************************************************************************)
(* writer/writer.go, and what reader.ParseTree makes of its output.  A     *)
(* tree is written node by node, in characters; emit turns the characters  *)
(* into the bytes of an encoding, and the reader goes the way back: it     *)
(* decodes, normalises line ends, parses and resolves references.          *)
(*                                                                         *)
(* The output is a sequence of symbols: the declaration, the tags, and in  *)
(* text and attribute values a character as it stands ("literal"), as a    *)
(* named entity or as a character reference; a "byte" is one of a literal. *)
(***************************************************************************)
EXTENDS Characters

CONSTANTS
  Node,      \* the nodes of the trees, closed under children
  Height,    \* of the tree below each: trees are finite
  Payload,   \* byte strings for WriteBinary
  TagName    \* names of its element

IsNameStartChar(r) ==
  \/ r \in {58, 95} \cup (65..90) \cup (97..122)
  \/ r \in (192..767) \ {215, 247}
  \/ r \in (880..8191) \ {894}
  \/ r \in {8204, 8205} \cup (8304..8591) \cup (11264..12271)
  \/ 12289 <= r /\ r <= 55295
  \/ (63744 <= r /\ r <= 65533) /\ ~(64976 <= r /\ r <= 65007)
  \/ 65536 <= r /\ r <= 983039

IsNameChar(r) ==
  IsNameStartChar(r) \/ r \in {45, 46, 183, 8255, 8256} \cup (48..57) \cup (768..879)

IsName(s) ==
  s \in Seq(CodePoint) /\ s # <<>> /\ IsNameStartChar(s[1]) /\ \A k \in DOMAIN s : IsNameChar(s[k])
IsString(s) == s \in Seq(CodePoint) /\ \A k \in DOMAIN s : IsScalar(s[k])
IsText(n) == n.kind = "text"
Text(s) == [kind |-> "text", content |-> s]

\* Namespaces, and the Namespace of an element and of its attributes, follow
\* from the declarations of the element and those around it: "declarations"
\* are its own, none of which is in attrs if the tree was read.  No function of
\* the writer reads them.
ASSUME WriterAssumption ==
  /\ \A n \in Node :
       IF IsText(n) THEN n = Text(n.content) /\ IsString(n.content)
       ELSE /\ n.kind = "element" /\ IsName(n.name)
            /\ n.attrs \in Seq([name : Seq(CodePoint), value : Seq(CodePoint)])
            /\ \A k \in DOMAIN n.attrs : IsName(n.attrs[k].name) /\ IsString(n.attrs[k].value)
            /\ n.children \in Seq(Node)
            /\ \A c \in Range(n.children) : Height[c] < Height[n]
  /\ Height \in [Node -> Nat]
  /\ Payload \subseteq Seq(Byte)
  /\ \A t \in TagName : IsName(t)

Encoding == {"UTF8", "Bytes", "References"}
BinaryEncoding == {"Base64", "Hex", "Text"}
\* "root" is empty for a document without one.
DocumentJob == [what : {"document"}, encoding : Encoding,
                root : {<<>>} \cup {<<n>> : n \in {m \in Node : ~IsText(m)}}]
BinaryJob == [what : {"binary"}, encoding : Encoding, binary : BinaryEncoding \cup {"unknown"},
              element : TagName, payload : Payload]

VARIABLES
  job,     \* the call of WriteDocument or WriteBinary
  phase,   \* "start", "write", "emit", "read", then "done", "failed" or "unreadable"
  stack,   \* the elements whose content is being written, with the next child
  out,     \* the document, as characters and then as bytes
  at,      \* the next symbol to read
  open,    \* the elements being read, with what they hold so far
  back     \* the tree read back, none before "done"

vars == <<job, phase, stack, out, at, open, back>>

Popped(s) == SubSeq(s, 1, Len(s) - 1)

\* The encoding a call comes down to: text of bytes is never written as UTF-8.
Effective == IF job.what = "binary" /\ job.encoding = "UTF8" THEN "Bytes" ELSE job.encoding

Declared == IF Effective = "Bytes" THEN "ISO-8859-1" ELSE "UTF-8"
-----------------------------------------------------------------------------
\* escape.
QUOT == 34
AMP == 38
LT == 60
GT == 62

Named(r, inAttr) == r \in {AMP, LT, GT} \/ (inAttr /\ r = QUOT)

\* Mutants of Referenced: line ends stand, restricted characters stand, and
\* byte mode has references for the names only.
ReferencedButLineEnds(r, inAttr) ==
  \/ r = 0 \/ IsRestrictedChar(r) \/ (inAttr /\ r \in {TAB, LF})
  \/ Effective = "References" \/ (Effective = "Bytes" /\ r > 255)
ReferencedButRestricted(r, inAttr) ==
  \/ r = 0 \/ r \in LineEnd("1.1") \/ (inAttr /\ r \in {TAB, LF})
  \/ Effective = "References" \/ (Effective = "Bytes" /\ r > 255)
ReferencedButWide(r, inAttr) ==
  \/ r = 0 \/ IsRestrictedChar(r) \/ r \in LineEnd("1.1") \/ (inAttr /\ r \in {TAB, LF})
  \/ Effective = "References"

Referenced(r, inAttr) ==
  \/ r = 0 \/ IsRestrictedChar(r)
  \/ r \in {CR, NEL, LS}
  \/ inAttr /\ r \in {TAB, LF}
  \/ Effective = "References" \/ (Effective = "Bytes" /\ r > 255)

Form(r, inAttr) ==
  IF Named(r, inAttr) THEN "entity" ELSE IF Referenced(r, inAttr) THEN "reference" ELSE "literal"

Escape(s, inAttr) == [k \in DOMAIN s |-> [form |-> Form(s[k], inAttr), code |-> s[k]]]
-----------------------------------------------------------------------------
\* Writing.  A tag's name stands unescaped.
Declaration == [form |-> "declaration", encoding |-> Declared]
StartTag(name, attrs, empty) ==
  [form |-> "start", name |-> name, empty |-> empty,
   attrs |-> [k \in DOMAIN attrs |->
                [name |-> attrs[k].name, value |-> Escape(attrs[k].value, TRUE)]]]
EndTag(name) == [form |-> "end", name |-> name]
IsTag(x) == x.form \in {"start", "end"}

Opening(n) == StartTag(n.name, n.attrs, n.children = <<>>)
Entered(n) == IF n.children = <<>> THEN <<>> ELSE <<[node |-> n, next |-> 1]>>
PhaseAfter(s) == IF s = <<>> THEN "emit" ELSE "write"

Init == /\ job \in DocumentJob \/ job \in BinaryJob
        /\ phase = "start" /\ stack = <<>> /\ out = <<>>
        /\ at = 2 /\ open = <<>> /\ back = <<>>

\* No root, or a binary encoding there is none of.
RejectJob ==
  /\ phase = "start"
  /\ IF job.what = "document" THEN job.root = <<>> ELSE job.binary \notin BinaryEncoding
  /\ phase' = "failed"
  /\ UNCHANGED <<job, stack, out, at, open, back>>

WriteRoot ==
  /\ phase = "start" /\ job.what = "document" /\ job.root # <<>>
  /\ out' = <<Declaration, Opening(job.root[1])>>
  /\ stack' = Entered(job.root[1])
  /\ phase' = PhaseAfter(stack')
  /\ UNCHANGED <<job, at, open, back>>

WriteChild ==
  /\ phase = "write" /\ Last(stack).next <= Len(Last(stack).node.children)
  /\ LET c == Last(stack).node.children[Last(stack).next]
         rest == [stack EXCEPT ![Len(stack)].next = @ + 1]
     IN  IF IsText(c) THEN out' = out \o Escape(c.content, FALSE) /\ stack' = rest
         ELSE out' = Append(out, Opening(c)) /\ stack' = rest \o Entered(c)
  /\ UNCHANGED <<job, phase, at, open, back>>

WriteEnd ==
  /\ phase = "write" /\ Last(stack).next > Len(Last(stack).node.children)
  /\ out' = Append(out, EndTag(Last(stack).node.name))
  /\ stack' = Popped(stack)
  /\ phase' = PhaseAfter(stack')
  /\ UNCHANGED <<job, at, open, back>>

\* WriteBinary with text, each byte the character of its value.
WriteBinaryAsText ==
  /\ phase = "start" /\ job.what = "binary" /\ job.binary = "Text"
  /\ out' = <<Declaration, StartTag(job.element, <<>>, FALSE)>> \o Escape(job.payload, FALSE)
              \o <<EndTag(job.element)>>
  /\ phase' = "emit"
  /\ UNCHANGED <<job, stack, at, open, back>>

\* Base64 or hex, one symbol here: it is ASCII, and goes out as UTF-8 whatever
\* the encoding asked for.
WriteCoded ==
  /\ phase = "start" /\ job.what = "binary" /\ job.binary \in {"Base64", "Hex"}
  /\ out' = <<[form |-> "declaration", encoding |-> "UTF-8"], StartTag(job.element, <<>>, FALSE),
              [form |-> job.binary, code |-> job.payload], EndTag(job.element)>>
  /\ phase' = "done"
  /\ UNCHANGED <<job, stack, at, open, back>>
-----------------------------------------------------------------------------
\* emit.
BytesOf(r) == IF Effective = "Bytes" THEN <<r>> ELSE Utf8(r)
NameBytes(s) == FlattenSeq([k \in DOMAIN s |-> BytesOf(s[k])])
Spelled(x) ==
  IF x.form # "literal" THEN <<x>>
  ELSE [k \in DOMAIN BytesOf(x.code) |-> [form |-> "byte", code |-> BytesOf(x.code)[k]]]
ValueBytes(t) == FlattenSeq([k \in DOMAIN t |-> Spelled(t[k])])
Emitted(x) ==
  CASE x.form = "start" ->
         <<[x EXCEPT !.name = NameBytes(@),
                     !.attrs = [k \in DOMAIN @ |-> [name |-> NameBytes(@[k].name),
                                                    value |-> ValueBytes(@[k].value)]]]>>
    [] x.form = "end" -> <<[x EXCEPT !.name = NameBytes(@)]>>
    [] OTHER -> Spelled(x)

\* The characters that stand for themselves.
Literals(t) == {t[k].code : k \in {j \in DOMAIN t : t[j].form = "literal"}}
Standing(x) ==
  CASE x.form = "start" -> Range(x.name) \cup UNION {Range(a.name) \cup Literals(a.value) : a \in Range(x.attrs)}
    [] x.form = "end" -> Range(x.name)
    [] OTHER -> Literals(<<x>>)
Wide == \E k \in DOMAIN out : \E r \in Standing(out[k]) : r > 255

EmitFails ==
  /\ phase = "emit" /\ Effective = "Bytes" /\ Wide
  /\ phase' = "failed"
  /\ UNCHANGED <<job, stack, out, at, open, back>>

Emit ==
  /\ phase = "emit" /\ ~(Effective = "Bytes" /\ Wide)
  /\ out' = FlattenSeq([k \in DOMAIN out |-> Emitted(out[k])])
  /\ phase' = "read"
  /\ UNCHANGED <<job, stack, at, open, back>>
-----------------------------------------------------------------------------
\* Reading.  A reference to r is the number -1 - r between the bytes: no byte,
\* no line end.  The result is a set of at most one sequence.
Coded(t) == [k \in DOMAIN t |-> IF t[k].form = "byte" THEN t[k].code ELSE -1 - t[k].code]
Decoded(s) ==
  LET bytewise == out[1].encoding = "ISO-8859-1"
      from[k \in 1..Len(s) + 1] ==
        IF k > Len(s) THEN {<<>>}
        ELSE IF s[k] < 0 \/ bytewise THEN {<<s[k]>> \o rest : rest \in from[k + 1]}
        ELSE UNION {{<<r>> \o rest : rest \in from[k + Len(Utf8(r))]} : r \in RuneAt(s, k)}
  IN  {Normal(t, "1.1") : t \in from[1]}
ReadString(t) == {[k \in DOMAIN s |-> IF s[k] < 0 THEN -1 - s[k] ELSE s[k]] : s \in Decoded(Coded(t))}

\* The document of the symbols, as the reader sees it.
Only(S) == CHOOSE x \in S : TRUE
Legible(x) ==
  Decoded(x.name) # {} /\ \A a \in Range(x.attrs) : Decoded(a.name) # {} /\ ReadString(a.value) # {}
ReadAttrs(attrs) ==
  [k \in DOMAIN attrs |-> [name |-> Only(Decoded(attrs[k].name)), value |-> Only(ReadString(attrs[k].value))]]
\* An attribute xmlns or xmlns:p is a declaration, the last of a name counts.
XMLNS == <<120, 109, 108, 110, 115>>
COLON == 58
Declares(a) == a.name = XMLNS \/ IsPrefix(Append(XMLNS, COLON), a.name)
Element(name, attrs, children) ==
  LET declaring == {k \in DOMAIN attrs : Declares(attrs[k])}
      counting == {k \in declaring : \A j \in declaring : j > k => attrs[j].name # attrs[k].name}
  IN  [kind |-> "element", name |-> name, children |-> children,
       declarations |-> {attrs[k] : k \in counting},
       attrs |-> IF declaring = {} THEN attrs ELSE SelectSeq(attrs, LAMBDA a : ~Declares(a))]

Reading == phase = "read" /\ at <= Len(out)
\* parseElement returns n to its parent, or to the document.
Attach(outer, n) ==
  /\ at' = at + 1
  /\ IF outer = <<>> THEN back' = <<n>> /\ phase' = "done" /\ open' = outer
     ELSE /\ open' = [outer EXCEPT ![Len(outer)].children = Append(@, n)]
          /\ UNCHANGED <<back, phase>>

\* Bytes that are no characters, or an end tag of another name.
Unreadable == phase' = "unreadable" /\ UNCHANGED <<at, open, back>>

ReadStart ==
  /\ Reading /\ out[at].form = "start"
  /\ IF ~Legible(out[at]) THEN Unreadable
     ELSE LET n == Element(Only(Decoded(out[at].name)), ReadAttrs(out[at].attrs), <<>>)
          IN  IF out[at].empty THEN Attach(open, n)
              ELSE at' = at + 1 /\ open' = Append(open, n) /\ UNCHANGED <<back, phase>>
  /\ UNCHANGED <<job, stack, out>>

\* The characters up to the next tag are one node.
TextEnd == CHOOSE k \in at..Len(out) : IsTag(out[k]) /\ \A j \in at..k - 1 : ~IsTag(out[j])
ReadText ==
  /\ Reading /\ ~IsTag(out[at])
  /\ LET read == ReadString(SubSeq(out, at, TextEnd - 1))
     IN  IF read = {} THEN Unreadable
         ELSE /\ open' = [open EXCEPT ![Len(open)].children = Append(@, Text(Only(read)))]
              /\ at' = TextEnd
              /\ UNCHANGED <<phase, back>>
  /\ UNCHANGED <<job, stack, out>>

ReadEnd ==
  /\ Reading /\ out[at].form = "end"
  /\ IF Decoded(out[at].name) # {Last(open).name} THEN Unreadable
     ELSE Attach(Popped(open), Last(open))
  /\ UNCHANGED <<job, stack, out>>

\* The call has returned.
Done == phase \in {"done", "failed", "unreadable"} /\ UNCHANGED vars

Next == \/ RejectJob \/ WriteRoot \/ WriteChild \/ WriteEnd \/ WriteBinaryAsText \/ WriteCoded
        \/ EmitFails \/ Emit
        \/ ReadStart \/ ReadText \/ ReadEnd
        \/ Done

Spec == Init /\ [][Next]_vars
-----------------------------------------------------------------------------

\* A tree, the texts that stand together in one node.
Adding(done, c) ==
  IF ~IsText(c) THEN Append(done, c)
  ELSE IF c.content = <<>> THEN done
  ELSE IF done # <<>> /\ IsText(Last(done))
       THEN [done EXCEPT ![Len(done)].content = @ \o c.content]
  ELSE Append(done, c)
Together(s) ==
  LET upto[k \in 0..Len(s)] == IF k = 0 THEN <<>> ELSE Adding(upto[k - 1], s[k])
  IN  upto[Len(s)]
Joined[n \in Node] ==
  IF IsText(n) THEN n
  ELSE [kind |-> "element", name |-> n.name, declarations |-> n.declarations, attrs |-> n.attrs,
        children |-> Together([k \in DOMAIN n.children |-> Joined[n.children[k]]])]

NodesOf[n \in Node] ==
  IF IsText(n) THEN {} ELSE {n} \cup UNION {NodesOf[c] : c \in Range(n.children)}
\* The writer drops the declarations, and the reader makes declarations of the
\* attributes that look like one.
Undeclared(root) ==
  \A n \in NodesOf[root] : n.declarations = {} /\ \A k \in DOMAIN n.attrs : ~Declares(n.attrs[k])

\* Every document that WriteDocument writes can be read back, in every encoding
\* and whatever its characters; one without namespaces parses back to an equal
\* tree (the comment on WriteDocument claims it of every tree); and the bytes
\* that WriteBinary spells as text come back, NUL, line ends and markup among
\* them, in any order.  escape leaves nothing to the normalisation of line ends,
\* to the markup or to the declared encoding.
RoundTrip ==
  /\ phase # "unreadable"
  /\ phase = "done" /\ job.what = "document" /\ Undeclared(job.root[1]) =>
       back = <<Joined[job.root[1]]>>
  /\ phase = "done" /\ job.what = "binary" /\ job.binary = "Text" =>
       back = <<Element(job.element, <<>>,
                        IF job.payload = <<>> THEN <<>> ELSE <<Text(job.payload)>>)>>

NamesOf ==
  IF job.what = "binary" THEN {job.element}
  ELSE UNION {{n.name} \cup {a.name : a \in Range(n.attrs)} : n \in NodesOf[job.root[1]]}
NoJob == IF job.what = "document" THEN job.root = <<>> ELSE job.binary \notin BinaryEncoding
WideName == Effective = "Bytes" /\ \E s \in NamesOf : \E r \in Range(s) : r > 255
\* A job fails if it is none, or if byte mode has no byte for a character of a
\* name; a character of text or of a value never makes it fail, and a document
\* with such a name is never written.
FailsOnlyForNames ==
  /\ phase = "failed" => NoJob \/ WideName
  /\ phase = "read" => ~WideName

Standard(x, inAttr) ==
  /\ x.form = "literal" =>
       /\ IsChar(x.code) => LiteralAllowed(x.code, "1.1")
       /\ x.code # 0 /\ x.code \notin LineEnd("1.1") \cup {AMP, LT}
       /\ inAttr => x.code \notin {TAB, LF, QUOT}
  /\ x.form = "reference" /\ IsChar(x.code) => ReferenceAllowed(x.code, "1.1")
Agreed(x) ==
  IF x.form = "start" THEN \A k \in DOMAIN x.attrs : \A j \in DOMAIN x.attrs[k].value :
                             Standard(x.attrs[k].value[j], TRUE)
  ELSE Standard(x, FALSE)

\* Not only this tree parser: what stands literally in the output is allowed by
\* the strict parser if the tree's character is one at all, is no line end that
\* any reader changes, and in a value no white space that a conforming reader
\* folds; and what is referenced may be referenced.
AnyReaderAgrees == phase = "emit" => \A k \in DOMAIN out : Agreed(out[k])

=============================================================================
