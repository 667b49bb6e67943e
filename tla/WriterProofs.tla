---------------------------- MODULE WriterProofs ----------------------------
(***************************************************************************)
(* AnyReaderAgrees for every set of trees and payloads: whatever is put    *)
(* into the document is agreed on when it is put there, and emit is the    *)
(* first to change it.  FailsOnlyForNames for trees of any depth: the      *)
(* names written, with those of the nodes to come, are the job's, and text *)
(* and values are spelled without a character that has no byte.            *)
(*                                                                         *)
(* RoundTrip for them too.  A Trace says what the reader will have open    *)
(* and complete after each symbol of the document; while the tree is       *)
(* written, what is open in it are the elements of the stack, each with    *)
(* the children written so far (Building), and at the end it holds the     *)
(* tree (Written).  emit spells each symbol on its own (Piece), so that    *)
(* the places where one ends are known (Laid); from such a place the       *)
(* decoder finds the characters written and no others (ReadBack), and the  *)
(* reader gets to the next with what the Trace says is open (Stands).      *)
(***************************************************************************)
EXTENDS Writer, WellFoundedInduction, TLAPS

CharSymbol == [form : {"entity", "reference", "literal"}, code : CodePoint]
StartSymbol == [form : {"start"}, name : Seq(CodePoint), empty : BOOLEAN,
                attrs : Seq([name : Seq(CodePoint), value : Seq(CharSymbol)])]
EndSymbol == [form : {"end"}, name : Seq(CodePoint)]
DeclarationSymbol == [form : {"declaration"}, encoding : {"UTF-8", "ISO-8859-1"}]
Symbol == {x \in CharSymbol \cup StartSymbol \cup EndSymbol \cup DeclarationSymbol : Agreed(x)}

ElementNode == {n \in Node : ~IsText(n)}
Frame == [node : ElementNode, next : Nat \ {0}]

\* While the document is written: it is made of symbols that are agreed on, and
\* the elements being written are elements of the trees.
IInv ==
  /\ job \in DocumentJob \/ job \in BinaryJob
  /\ phase \in {"start", "write", "emit"} => out \in Seq(Symbol)
  /\ phase \in {"start", "write"} => stack \in Seq(Frame)
  /\ phase = "write" => stack # <<>>

LEMMA Runes == LastRune \in Nat /\ 255 <= LastRune
BY Z3 DEF LastRune

\* Sequences: their members, and one with the domain of another.
LEMMA Member ==
  ASSUME NEW S, NEW s \in Seq(S), NEW k \in DOMAIN s
  PROVE  s[k] \in S
OBVIOUS

LEMMA Alike ==
  ASSUME NEW S, NEW T, NEW s \in Seq(S), NEW f, f \in [DOMAIN s -> T]
  PROVE  f \in Seq(T)
<1>1. DOMAIN s = 1..Len(s) /\ Len(s) \in Nat  OBVIOUS
<1> QED BY <1>1

LEMMA Joining ==
  ASSUME NEW S, NEW s \in Seq(S), NEW t \in Seq(S)
  PROVE  s \o t \in Seq(S)
OBVIOUS

LEMMA Concatenation ==
  ASSUME NEW S, NEW s \in Seq(S), NEW t \in Seq(S)
  PROVE  /\ s \o t \in Seq(S) /\ Len(s \o t) = Len(s) + Len(t)
         /\ \A i \in DOMAIN s : i \in DOMAIN (s \o t) /\ (s \o t)[i] = s[i]
         /\ \A i \in DOMAIN t : Len(s) + i \in DOMAIN (s \o t) /\ (s \o t)[Len(s) + i] = t[i]
         /\ \A k \in DOMAIN (s \o t) : \/ k \in DOMAIN s
                                       \/ k - Len(s) \in DOMAIN t /\ (s \o t)[k] = t[k - Len(s)]
<1>1. /\ s \o t \in Seq(S) /\ Len(s \o t) = Len(s) + Len(t) /\ Len(s) \in Nat /\ Len(t) \in Nat
      /\ DOMAIN s = 1..Len(s) /\ DOMAIN t = 1..Len(t) /\ DOMAIN (s \o t) = 1..(Len(s) + Len(t))
  OBVIOUS
<1>2. \A k \in 1..(Len(s) + Len(t)) : (s \o t)[k] = IF k <= Len(s) THEN s[k] ELSE t[k - Len(s)]
  OBVIOUS
<1> QED BY <1>1, <1>2

LEMMA Pair ==
  ASSUME NEW S, NEW a \in S, NEW b \in S
  PROVE  <<a, b>> \in Seq(S)
OBVIOUS

\* escape makes symbols that are agreed on, of whatever it is given, in text and
\* in values.
LEMMA CharAgreed ==
  ASSUME NEW r \in CodePoint, NEW inAttr \in BOOLEAN
  PROVE  /\ [form |-> Form(r, inAttr), code |-> r] \in CharSymbol
         /\ Standard([form |-> Form(r, inAttr), code |-> r], inAttr)
<1> DEFINE x == [form |-> Form(r, inAttr), code |-> r]
<1>1. x \in CharSymbol  BY DEF Form, CharSymbol
<1>2. ASSUME Form(r, inAttr) = "literal"
      PROVE  /\ r \notin {AMP, LT, 0, CR, NEL, LS} /\ ~IsRestrictedChar(r)
             /\ inAttr => r \notin {TAB, LF, QUOT}
  BY <1>2 DEF Form, Named, Referenced
<1>3. ASSUME Form(r, inAttr) = "literal", IsChar(r)
      PROVE  LiteralAllowed(r, "1.1")
  BY <1>2, <1>3 DEF LiteralAllowed, VerbatimAllowed
<1>4. ASSUME IsChar(r)
      PROVE  ReferenceAllowed(r, "1.1")
  BY <1>4 DEF ReferenceAllowed, VerbatimAllowed
<1>5. LineEnd("1.1") = {CR, NEL, LS}  BY DEF LineEnd
<1>6. Standard(x, inAttr)
  BY <1>2, <1>3, <1>4, <1>5 DEF Standard
<1> QED BY <1>1, <1>6

LEMMA EscapeAgreed ==
  ASSUME NEW s \in Seq(CodePoint), NEW inAttr \in BOOLEAN
  PROVE  /\ Escape(s, inAttr) \in Seq(CharSymbol)
         /\ \A k \in DOMAIN Escape(s, inAttr) : Standard(Escape(s, inAttr)[k], inAttr)
         /\ ~inAttr => Escape(s, inAttr) \in Seq(Symbol)
<1>1. \A k \in DOMAIN s : s[k] \in CodePoint  BY Member
<1>2. /\ Escape(s, inAttr) \in Seq(CharSymbol)
      /\ \A k \in DOMAIN Escape(s, inAttr) : Standard(Escape(s, inAttr)[k], inAttr)
  <2>1. \A k \in DOMAIN s :
          /\ [form |-> Form(s[k], inAttr), code |-> s[k]] \in CharSymbol
          /\ Standard([form |-> Form(s[k], inAttr), code |-> s[k]], inAttr)
    BY <1>1, CharAgreed
  <2>2. Escape(s, inAttr) \in [DOMAIN s -> CharSymbol]  BY <2>1 DEF Escape
  <2>3. Escape(s, inAttr) \in Seq(CharSymbol)  BY <2>2, Alike
  <2>4. \A k \in DOMAIN Escape(s, inAttr) : Standard(Escape(s, inAttr)[k], inAttr)
    BY <2>1 DEF Escape
  <2> QED BY <2>3, <2>4
<1>3. ASSUME ~inAttr
      PROVE  \A k \in DOMAIN Escape(s, inAttr) : Escape(s, inAttr)[k] \in Symbol
  <2> TAKE k \in DOMAIN Escape(s, inAttr)
  <2>1. Escape(s, inAttr)[k] \in CharSymbol  BY <1>2
  <2>2. Agreed(Escape(s, inAttr)[k])
    BY <1>2, <1>3, <2>1 DEF Agreed, CharSymbol
  <2> QED BY <2>1, <2>2 DEF Symbol
<1>4. ~inAttr => Escape(s, inAttr) \in Seq(Symbol)
  <2>1. Escape(s, inAttr) = [k \in DOMAIN Escape(s, inAttr) |-> Escape(s, inAttr)[k]]
    BY DEF Escape
  <2>2. ~inAttr => Escape(s, inAttr) \in [DOMAIN Escape(s, inAttr) -> Symbol]
    BY <1>3, <2>1
  <2> QED BY <1>2, <2>2, Alike
<1> QED BY <1>2, <1>4

\* The tags and the declaration.
LEMMA DeclarationAgreed == Declaration \in Symbol
BY DEF Declaration, Declared, Symbol, DeclarationSymbol, Agreed, Standard

LEMMA EndTagAgreed == \A name \in Seq(CodePoint) : EndTag(name) \in Symbol
BY DEF EndTag, Symbol, EndSymbol, Agreed, Standard

LEMMA StartTagAgreed ==
  ASSUME NEW name \in Seq(CodePoint), NEW empty \in BOOLEAN,
         NEW attrs \in Seq([name : Seq(CodePoint), value : Seq(CodePoint)])
  PROVE  StartTag(name, attrs, empty) \in Symbol
<1> DEFINE x == StartTag(name, attrs, empty)
<1>1. \A k \in DOMAIN attrs : attrs[k].name \in Seq(CodePoint) /\ attrs[k].value \in Seq(CodePoint)
  <2>1. \A k \in DOMAIN attrs : attrs[k] \in [name : Seq(CodePoint), value : Seq(CodePoint)]
    BY Member
  <2> QED BY <2>1
<1>2. \A k \in DOMAIN attrs : /\ Escape(attrs[k].value, TRUE) \in Seq(CharSymbol)
                              /\ \A j \in DOMAIN Escape(attrs[k].value, TRUE) :
                                   Standard(Escape(attrs[k].value, TRUE)[j], TRUE)
  BY <1>1, EscapeAgreed
<1>3. x \in StartSymbol
  <2> DEFINE f == [k \in DOMAIN attrs |->
                     [name |-> attrs[k].name, value |-> Escape(attrs[k].value, TRUE)]]
  <2>1. f \in [DOMAIN attrs -> [name : Seq(CodePoint), value : Seq(CharSymbol)]]
    BY <1>1, <1>2
  <2>2. f \in Seq([name : Seq(CodePoint), value : Seq(CharSymbol)])
    <3> DEFINE S == [name : Seq(CodePoint), value : Seq(CodePoint)]
               T == [name : Seq(CodePoint), value : Seq(CharSymbol)]
    <3>1. attrs \in Seq(S) /\ f \in [DOMAIN attrs -> T]  BY <2>1
    <3> HIDE DEF f, S, T
    <3>2. f \in Seq(T)  BY <3>1, Alike
    <3> QED BY <3>2 DEF T
  <2>3. x = [form |-> "start", name |-> name, empty |-> empty, attrs |-> f]
    BY DEF StartTag
  <2> HIDE DEF f, x
  <2> QED BY <2>2, <2>3 DEF StartSymbol
<1>4. Agreed(x)
  <2>1. x.form = "start" /\ DOMAIN x.attrs = DOMAIN attrs
        /\ \A k \in DOMAIN attrs : x.attrs[k].value = Escape(attrs[k].value, TRUE)
    BY DEF StartTag
  <2> HIDE DEF x
  <2> QED BY <1>2, <2>1 DEF Agreed
<1> QED BY <1>3, <1>4 DEF Symbol

\* What the trees are made of, and what entering an element puts on the stack.
LEMMA NodesTyped ==
  ASSUME NEW n \in ElementNode
  PROVE  /\ n.name \in Seq(CodePoint) /\ n.children \in Seq(Node)
         /\ n.attrs \in Seq([name : Seq(CodePoint), value : Seq(CodePoint)])
BY WriterAssumption DEF ElementNode, IsName

LEMMA OpeningAgreed ==
  ASSUME NEW n \in ElementNode
  PROVE  Opening(n) \in Symbol /\ Entered(n) \in Seq(Frame)
<1>1. Opening(n) \in Symbol  BY NodesTyped, StartTagAgreed DEF Opening
<1>2. Entered(n) \in Seq(Frame)
  <2>1. [node |-> n, next |-> 1] \in Frame  BY DEF Frame
  <2> QED BY <2>1 DEF Entered
<1> QED BY <1>1, <1>2

LEMMA InitInvariant == Init => IInv
BY DEF Init, IInv

LEMMA RootTyped ==
  ASSUME IInv, job.what = "document", job.root # <<>>
  PROVE  job.root[1] \in ElementNode
BY DEF IInv, DocumentJob, BinaryJob, ElementNode

LEMMA RootInvariant == IInv /\ WriteRoot => IInv'
<1> SUFFICES ASSUME IInv, WriteRoot PROVE IInv'
  OBVIOUS
<1>1. job.root[1] \in ElementNode  BY RootTyped DEF WriteRoot
<1>2. Opening(job.root[1]) \in Symbol /\ Entered(job.root[1]) \in Seq(Frame)
  BY <1>1, OpeningAgreed
<1>3. <<Declaration, Opening(job.root[1])>> \in Seq(Symbol)
  BY <1>2, DeclarationAgreed, Pair
<1> QED BY <1>2, <1>3 DEF IInv, WriteRoot, PhaseAfter

\* The element at the top, and the stack with its position advanced.
LEMMA TopTyped ==
  ASSUME IInv, phase = "write"
  PROVE  /\ stack # <<>> /\ stack \in Seq(Frame) /\ out \in Seq(Symbol)
         /\ Last(stack).node \in ElementNode /\ Last(stack).next \in Nat \ {0}
<1>1. stack # <<>> /\ stack \in Seq(Frame) /\ out \in Seq(Symbol)
  BY DEF IInv
<1>2. Len(stack) \in DOMAIN stack  BY <1>1
<1>3. Last(stack) \in Frame  BY <1>1, <1>2, Member DEF Last
<1> QED BY <1>1, <1>3 DEF Frame

LEMMA ChildInvariant == IInv /\ WriteChild => IInv'
<1> SUFFICES ASSUME IInv, WriteChild PROVE IInv'
  OBVIOUS
<1> DEFINE top == Last(stack)
          c == top.node.children[top.next]
          rest == [stack EXCEPT ![Len(stack)].next = @ + 1]
<1>1. phase = "write"  BY DEF WriteChild
<1>2. /\ stack # <<>> /\ stack \in Seq(Frame) /\ out \in Seq(Symbol)
      /\ top.node \in ElementNode /\ top.next \in Nat \ {0}
  BY <1>1, TopTyped
<1>3. c \in Node
  <2>1. top.node.children \in Seq(Node)  BY <1>2, NodesTyped
  <2>2. top.next <= Len(top.node.children)  BY DEF WriteChild
  <2>3. top.next \in DOMAIN top.node.children
    <3> HIDE DEF top
    <3> QED BY <1>2, <2>1, <2>2
  <2> QED BY <2>1, <2>3, Member
<1>4. rest \in Seq(Frame) /\ rest # <<>>
  <2>1. Len(stack) \in DOMAIN stack /\ DOMAIN stack = 1..Len(stack)  BY <1>2
  <2>2. stack[Len(stack)] \in Frame  BY <1>2, <2>1, Member
  <2>3. [stack[Len(stack)] EXCEPT !.next = @ + 1] \in Frame
    BY <2>2 DEF Frame
  <2>4. rest = [stack EXCEPT ![Len(stack)] = [stack[Len(stack)] EXCEPT !.next = @ + 1]]
    OBVIOUS
  <2>5. rest \in [DOMAIN stack -> Frame]
    <3>1. \A k \in DOMAIN stack : stack[k] \in Frame  BY <1>2, Member
    <3> QED BY <2>3, <2>4, <3>1
  <2>6. rest \in Seq(Frame)  BY <1>2, <2>5, Alike
  <2> QED BY <2>1, <2>5, <2>6
<1>5. CASE IsText(c)
  <2>1. c.content \in Seq(CodePoint)  BY <1>3, <1>5, WriterAssumption DEF IsString
  <2>2. Escape(c.content, FALSE) \in Seq(Symbol)  BY <2>1, EscapeAgreed, Zenon
  <2>3. out' = out \o Escape(c.content, FALSE) /\ stack' = rest
    BY <1>5 DEF WriteChild
  <2>4. out' \in Seq(Symbol)
    <3> DEFINE t == Escape(c.content, FALSE)
    <3>1. t \in Seq(Symbol) /\ out' = out \o t  BY <2>2, <2>3
    <3>2. out \in Seq(Symbol)  BY <1>2
    <3> HIDE DEF t, rest, c
    <3>3. out \o t \in Seq(Symbol)  BY <3>1, <3>2, Joining
    <3> QED BY <3>1, <3>3
  <2>5. stack' \in Seq(Frame) /\ stack' # <<>>
    BY <1>4, <2>3
  <2> QED BY <2>4, <2>5 DEF IInv, WriteChild
<1>6. CASE ~IsText(c)
  <2>1. c \in ElementNode  BY <1>3, <1>6 DEF ElementNode
  <2>2. Opening(c) \in Symbol /\ Entered(c) \in Seq(Frame)  BY <2>1, OpeningAgreed
  <2>3. out' = Append(out, Opening(c)) /\ stack' = rest \o Entered(c)
    BY <1>6 DEF WriteChild
  <2>4. out' \in Seq(Symbol)  BY <1>2, <2>2, <2>3
  <2>5. stack' \in Seq(Frame) /\ stack' # <<>>
    <3> HIDE DEF rest, c
    <3> QED BY <1>4, <2>2, <2>3
  <2> QED BY <2>4, <2>5 DEF IInv, WriteChild
<1> QED BY <1>5, <1>6

LEMMA EndInvariant == IInv /\ WriteEnd => IInv'
<1> SUFFICES ASSUME IInv, WriteEnd PROVE IInv'
  OBVIOUS
<1>1. phase = "write"  BY DEF WriteEnd
<1>2. /\ stack # <<>> /\ stack \in Seq(Frame) /\ out \in Seq(Symbol)
      /\ Last(stack).node \in ElementNode
  BY <1>1, TopTyped
<1>3. EndTag(Last(stack).node.name) \in Symbol  BY <1>2, NodesTyped, EndTagAgreed
<1>4. out' \in Seq(Symbol)  BY <1>2, <1>3 DEF WriteEnd
<1>5. stack' \in Seq(Frame)  BY <1>2 DEF WriteEnd, Popped
<1> QED BY <1>4, <1>5 DEF IInv, WriteEnd, PhaseAfter

LEMMA BinaryTyped ==
  ASSUME IInv, job.what = "binary"
  PROVE  job.element \in Seq(CodePoint) /\ job.payload \in Seq(CodePoint)
<1>1. job.element \in Seq(CodePoint) /\ job.payload \in Seq(Byte)
  BY WriterAssumption DEF IInv, DocumentJob, BinaryJob, IsName
<1>2. Byte \subseteq CodePoint
  BY Runes DEF Byte, CodePoint
<1>3. \A k \in DOMAIN job.payload : job.payload[k] \in CodePoint
  BY <1>1, <1>2, Member
<1>4. job.payload \in [DOMAIN job.payload -> CodePoint]
  BY <1>1, <1>3
<1> QED BY <1>1, <1>4, Alike

LEMMA BinaryInvariant == IInv /\ WriteBinaryAsText => IInv'
<1> SUFFICES ASSUME IInv, WriteBinaryAsText PROVE IInv'
  OBVIOUS
<1>1. job.element \in Seq(CodePoint) /\ job.payload \in Seq(CodePoint)
  BY BinaryTyped DEF WriteBinaryAsText
<1>3. StartTag(job.element, <<>>, FALSE) \in Symbol
  <2>1. <<>> \in Seq([name : Seq(CodePoint), value : Seq(CodePoint)])  OBVIOUS
  <2> QED BY <1>1, <2>1, StartTagAgreed
<1>4. Escape(job.payload, FALSE) \in Seq(Symbol)  BY <1>1, EscapeAgreed
<1>5. EndTag(job.element) \in Symbol  BY <1>1, EndTagAgreed
<1>6. <<Declaration, StartTag(job.element, <<>>, FALSE)>> \in Seq(Symbol)
  BY <1>3, DeclarationAgreed, Pair
<1>7. out' \in Seq(Symbol)
  <2>1. <<EndTag(job.element)>> \in Seq(Symbol)  BY <1>5
  <2>2. <<Declaration, StartTag(job.element, <<>>, FALSE)>> \o Escape(job.payload, FALSE)
          \in Seq(Symbol)
    BY <1>4, <1>6, Joining
  <2> QED BY <2>1, <2>2, Joining DEF WriteBinaryAsText
<1> QED BY <1>7 DEF IInv, WriteBinaryAsText

\* Every other action leaves the phases of writing, or was never in one.
LEMMA NextInvariant == IInv /\ [Next]_vars => IInv'
<1> SUFFICES ASSUME IInv, [Next]_vars PROVE IInv'
  OBVIOUS
<1>1. CASE RejectJob  BY <1>1 DEF IInv, RejectJob
<1>2. CASE WriteRoot  BY <1>2, RootInvariant
<1>3. CASE WriteChild  BY <1>3, ChildInvariant
<1>4. CASE WriteEnd  BY <1>4, EndInvariant
<1>5. CASE WriteBinaryAsText  BY <1>5, BinaryInvariant
<1>6. CASE WriteCoded  BY <1>6 DEF IInv, WriteCoded
<1>7. CASE EmitFails  BY <1>7 DEF IInv, EmitFails
<1>8. CASE Emit  BY <1>8 DEF IInv, Emit
<1>9. CASE ReadStart
  <2>1. phase' \in {"read", "done", "unreadable"} /\ job' = job
    BY <1>9 DEF ReadStart, Reading, Attach, Unreadable
  <2> QED BY <2>1 DEF IInv
<1>10. CASE ReadText
  <2>1. phase' \in {"read", "unreadable"} /\ job' = job
    BY <1>10 DEF ReadText, Reading, Unreadable
  <2> QED BY <2>1 DEF IInv
<1>11. CASE ReadEnd
  <2>1. phase' \in {"read", "done", "unreadable"} /\ job' = job
    BY <1>11 DEF ReadEnd, Reading, Attach, Unreadable
  <2> QED BY <2>1 DEF IInv
<1>12. CASE Done  BY <1>12 DEF IInv, Done, vars
<1>13. CASE UNCHANGED vars  BY <1>13 DEF IInv, vars
<1> QED
  BY <1>1, <1>2, <1>3, <1>4, <1>5, <1>6, <1>7, <1>8, <1>9, <1>10, <1>11, <1>12, <1>13
  DEF Next

\* The output is in every state of every job one that the writer's own reader
\* and a stricter one read alike (escape, writer/writer.go).
LEMMA InvariantAgreed == IInv => AnyReaderAgrees
<1> SUFFICES ASSUME IInv, phase = "emit", NEW k \in DOMAIN out
             PROVE  Agreed(out[k])
  BY DEF AnyReaderAgrees
<1>1. out \in Seq(Symbol)  BY DEF IInv
<1>2. out[k] \in Symbol  BY <1>1, Member
<1> QED BY <1>2 DEF Symbol

\* In every state of every job, for any trees and payloads: a document is made
\* of characters on whose meaning this reader and a stricter one agree (escape).
THEOREM AgreedByAll == Spec => []AnyReaderAgrees
<1>1. Spec => []IInv  BY InitInvariant, NextInvariant, PTL DEF Spec
<1> QED BY <1>1, InvariantAgreed, PTL
\* Induction, over numbers and over trees.
LEMMA LeastNatural ==
  ASSUME NEW S \in SUBSET Nat, S # {}
  PROVE  \E j \in S : \A i \in S : j <= i
<1> DEFINE R == {ss \in Nat \X Nat : ss[1] < ss[2]}
<1>1. IsWellFoundedOn(R, Nat)
  BY NatLessThanWellFounded, Zenon DEF OpToRel
<1>2. PICK x \in S : \A y \in S : ~(<<y, x>> \in R)
  <2> HIDE DEF R
  <2> QED BY <1>1, WFMin
<1>3. \A y \in S : ~(y < x)
  BY <1>2
<1> QED BY <1>3

LEMMA Upwards ==
  ASSUME NEW S, 0 \in S, \A m \in Nat : m \in S => m + 1 \in S
  PROVE  Nat \subseteq S
<1> SUFFICES ASSUME NEW k \in Nat, k \notin S PROVE FALSE
  OBVIOUS
<1> DEFINE T == {m \in Nat : m \notin S}
<1>1. PICK m \in T : \A i \in T : m <= i
  <2>1. T \in SUBSET Nat /\ T # {}
    OBVIOUS
  <2> HIDE DEF T
  <2> QED BY <2>1, LeastNatural
<1>2. m # 0 /\ m - 1 \in Nat /\ ~(m <= m - 1)
  BY <1>1
<1>3. m - 1 \in S
  BY <1>1, <1>2
<1>4. (m - 1) + 1 = m /\ m \notin S
  BY <1>1
<1> QED BY <1>2, <1>3, <1>4

LEMMA TreeInduction ==
  ASSUME NEW S, \A n \in Node : (\A c \in Node : Height[c] < Height[n] => c \in S) => n \in S
  PROVE  Node \subseteq S
<1> DEFINE T == {Height[n] : n \in Node \ S}
<1> SUFFICES ASSUME Node \ S # {} PROVE FALSE
  OBVIOUS
<1>1. PICK m \in T : \A i \in T : m <= i
  <2>1. T \in SUBSET Nat /\ T # {}
    BY WriterAssumption
  <2> HIDE DEF T
  <2> QED BY <2>1, LeastNatural
<1>2. PICK n \in Node \ S : Height[n] = m
  BY <1>1
<1>3. \A c \in Node : Height[c] \in Nat
  BY WriterAssumption
<1>4. \A c \in Node : Height[c] < Height[n] => c \in S
  BY <1>1, <1>2, <1>3
<1> QED BY <1>2, <1>4

LEMMA ChildrenLower ==
  ASSUME NEW n \in Node, ~IsText(n)
  PROVE  /\ n \in ElementNode /\ n.children \in Seq(Node)
         /\ \A k \in DOMAIN n.children : n.children[k] \in Node /\ Height[n.children[k]] < Height[n]
         /\ \A c \in Range(n.children) : c \in Node /\ Height[c] < Height[n]
<1>1. n \in ElementNode /\ n.children \in Seq(Node)
  BY NodesTyped DEF ElementNode
<1>2. \A c \in Range(n.children) : Height[c] < Height[n]
  BY WriterAssumption
<1>3. \A k \in DOMAIN n.children : n.children[k] \in Node /\ n.children[k] \in Range(n.children)
  BY <1>1, Member DEF Range
<1>4. \A c \in Range(n.children) : \E k \in DOMAIN n.children : c = n.children[k]
  BY DEF Range
<1> QED BY <1>1, <1>2, <1>3, <1>4, Zenon

\* NodesOf, Joined and what the reader returns are recursive over trees: what makes a value of those of
\* the children, for all at once.
Elements(n, below) == IF IsText(n) THEN {} ELSE {n} \cup UNION {below[c] : c \in Range(n.children)}
Reread(n, below) ==
  IF IsText(n) THEN n
  ELSE Element(n.name, n.attrs, Together([k \in DOMAIN n.children |-> below[n.children[k]]]))
Merged(n, below) ==
  IF IsText(n) THEN n
  ELSE [kind |-> "element", name |-> n.name, declarations |-> n.declarations, attrs |-> n.attrs,
        children |-> Together([k \in DOMAIN n.children |-> below[n.children[k]]])]
Low(m) == {n \in Node : Height[n] < m}
Part(f, D, i) == [c \in D |-> f[c][i]]
All(f, D, n) == <<Elements(n, Part(f, D, 1)), Reread(n, Part(f, D, 2)), Merged(n, Part(f, D, 3))>>
Solves(f, D) == f = [n \in D |-> All(f, D, n)]
\* The tree that the reader makes of what is written of another: its attributes
\* are taken for declarations where they look like them.
Returned == Part(CHOOSE f : Solves(f, Node), Node, 2)

\* What makes a value looks at the children only.
LEMMA Local ==
  ASSUME NEW n \in Node, NEW D, NEW E, NEW f, NEW g,
         \A c \in Node : Height[c] < Height[n] => c \in D /\ c \in E /\ f[c] = g[c]
  PROVE  All(f, D, n) = All(g, E, n)
<1>1. CASE IsText(n)
  BY <1>1 DEF All, Elements, Reread, Merged
<1>2. CASE ~IsText(n)
  <2>1. /\ \A k \in DOMAIN n.children : n.children[k] \in Node /\ Height[n.children[k]] < Height[n]
        /\ \A c \in Range(n.children) : c \in Node /\ Height[c] < Height[n]
    BY <1>2, ChildrenLower
  <2>2. \A c \in Range(n.children) : Part(f, D, 1)[c] = Part(g, E, 1)[c]
    BY <2>1 DEF Part
  <2>3. \A k \in DOMAIN n.children : Part(f, D, 2)[n.children[k]] = Part(g, E, 2)[n.children[k]]
    BY <2>1 DEF Part
  <2>4. {Part(f, D, 1)[c] : c \in Range(n.children)} = {Part(g, E, 1)[c] : c \in Range(n.children)}
    BY <2>2, Zenon
  <2>5. [k \in DOMAIN n.children |-> Part(f, D, 2)[n.children[k]]]
          = [k \in DOMAIN n.children |-> Part(g, E, 2)[n.children[k]]]
    BY <2>3, Zenon
  <2>6. Elements(n, Part(f, D, 1)) = Elements(n, Part(g, E, 1))
    BY <2>4 DEF Elements
  <2>7. Reread(n, Part(f, D, 2)) = Reread(n, Part(g, E, 2))
    BY <2>5 DEF Reread
  <2>8. \A k \in DOMAIN n.children : Part(f, D, 3)[n.children[k]] = Part(g, E, 3)[n.children[k]]
    BY <2>1 DEF Part
  <2>9. [k \in DOMAIN n.children |-> Part(f, D, 3)[n.children[k]]]
          = [k \in DOMAIN n.children |-> Part(g, E, 3)[n.children[k]]]
    BY <2>8, Zenon
  <2>10. Merged(n, Part(f, D, 3)) = Merged(n, Part(g, E, 3))
    BY <2>9 DEF Merged
  <2> QED BY <2>6, <2>7, <2>10 DEF All
<1> QED BY <1>1, <1>2

LEMMA SolutionsAgree ==
  ASSUME NEW m, NEW k, NEW f, NEW g, Solves(f, Low(m)), Solves(g, Low(k)), m \in Nat, k \in Nat
  PROVE  \A n \in Low(m) \cap Low(k) : f[n] = g[n]
<1> DEFINE S == {n \in Node : n \in Low(m) \cap Low(k) => f[n] = g[n]}
<1>1. ASSUME NEW n \in Node, \A c \in Node : Height[c] < Height[n] => c \in S
      PROVE  n \in S
  <2> SUFFICES ASSUME n \in Low(m), n \in Low(k) PROVE f[n] = g[n]
    OBVIOUS
  <2>1. \A c \in Node : Height[c] < Height[n] => c \in Low(m) /\ c \in Low(k)
    BY WriterAssumption DEF Low
  <2>2. \A c \in Node : Height[c] < Height[n] => c \in Low(m) /\ c \in Low(k) /\ f[c] = g[c]
    BY <1>1, <2>1
  <2>3. All(f, Low(m), n) = All(g, Low(k), n)
    BY <2>2, Local
  <2>4. f[n] = All(f, Low(m), n) /\ g[n] = All(g, Low(k), n)
    BY Zenon DEF Solves
  <2> QED BY <2>3, <2>4
<1>2. Node \subseteq S
  <2> HIDE DEF S
  <2> QED BY <1>1, TreeInduction
<1> QED BY <1>2 DEF Low

LEMMA SolvedBelow == \A m \in Nat : \E f : Solves(f, Low(m))
<1> DEFINE S == {m \in Nat : \E f : Solves(f, Low(m))}
<1>1. 0 \in S
  <2>1. Low(0) = {}
    BY WriterAssumption DEF Low
  <2>2. Solves([n \in {} |-> 0], Low(0))
    BY <2>1 DEF Solves
  <2> QED BY <2>2
<1>2. ASSUME NEW m \in Nat, m \in S
      PROVE  m + 1 \in S
  <2>1. PICK f : Solves(f, Low(m))
    BY <1>2
  <2> DEFINE g == [n \in Low(m + 1) |-> All(f, Low(m), n)]
  <2>2. ASSUME NEW n \in Low(m + 1)
        PROVE  All(f, Low(m), n) = All(g, Low(m + 1), n)
    <3>1. n \in Node /\ \A c \in Node : Height[c] < Height[n] => c \in Low(m) /\ c \in Low(m + 1)
      BY WriterAssumption DEF Low
    <3>2. \A c \in Low(m) : f[c] = All(f, Low(m), c)
      BY <2>1, Zenon DEF Solves
    <3>3. \A c \in Node : Height[c] < Height[n] => c \in Low(m) /\ c \in Low(m + 1) /\ f[c] = g[c]
      BY <3>1, <3>2
    <3> HIDE DEF g
    <3> QED BY <3>1, <3>3, Local
  <2>3. g = [n \in Low(m + 1) |-> All(g, Low(m + 1), n)]
    BY <2>2, Zenon
  <2>4. Solves(g, Low(m + 1))
    BY <2>3, Zenon DEF Solves
  <2> QED BY <2>4
<1>3. Nat \subseteq S
  <2> HIDE DEF S
  <2> QED BY <1>1, <1>2, Upwards
<1> QED BY <1>3

LEMMA Solved == \E f : Solves(f, Node)
<1> DEFINE F(m) == CHOOSE f : Solves(f, Low(m))
           g == [n \in Node |-> F(Height[n] + 1)[n]]
<1>1. \A m \in Nat : Solves(F(m), Low(m))
  BY SolvedBelow
<1> HIDE DEF F
<1>2. ASSUME NEW n \in Node
      PROVE  g[n] = All(g, Node, n)
  <2> DEFINE m == Height[n] + 1
  <2>1. m \in Nat /\ n \in Low(m) /\ Solves(F(m), Low(m))
    BY <1>1, WriterAssumption DEF Low
  <2>2. g[n] = All(F(m), Low(m), n)
    BY <2>1, Zenon DEF Solves
  <2>3. ASSUME NEW c \in Node, Height[c] < Height[n]
        PROVE  c \in Low(m) /\ c \in Node /\ F(m)[c] = g[c]
    <3>1. Height[c] + 1 \in Nat /\ c \in Low(Height[c] + 1) /\ c \in Low(m)
      BY <2>3, WriterAssumption DEF Low
    <3>2. Solves(F(Height[c] + 1), Low(Height[c] + 1))
      BY <1>1, <3>1
    <3> HIDE DEF m
    <3>3. F(m)[c] = F(Height[c] + 1)[c]
      BY <2>1, <3>1, <3>2, SolutionsAgree
    <3> QED BY <3>1, <3>3
  <2> HIDE DEF m, g
  <2>4. All(F(m), Low(m), n) = All(g, Node, n)
    BY <2>3, Local
  <2> QED BY <2>2, <2>4
<1>3. g = [n \in Node |-> All(g, Node, n)]
  BY <1>2, Zenon
<1>4. Solves(g, Node)
  BY <1>3, Zenon DEF Solves
<1> QED BY <1>4

\* The defining equations.
LEMMA NodesOfEquation ==
  \A n \in Node : NodesOf[n] = IF IsText(n) THEN {}
                               ELSE {n} \cup UNION {NodesOf[c] : c \in Range(n.children)}
<1>1. PICK f : f = [n \in Node |-> All(f, Node, n)]
  BY Solved DEF Solves
<1> DEFINE g == Part(f, Node, 1)
<1>2. \A n \in Node : g[n] = Elements(n, g)
  <2> TAKE n \in Node
  <2>1. f[n] = <<Elements(n, Part(f, Node, 1)), Reread(n, Part(f, Node, 2)),
                Merged(n, Part(f, Node, 3))>>
    BY <1>1, Zenon DEF All
  <2>2. f[n][1] = Elements(n, g)
    BY <2>1
  <2>3. g[n] = f[n][1]
    BY DEF Part
  <2> HIDE DEF g
  <2> QED BY <2>2, <2>3
<1>3. g = [n \in Node |-> IF IsText(n) THEN {} ELSE {n} \cup UNION {g[c] : c \in Range(n.children)}]
  <2>1. DOMAIN g = Node /\ g = [n \in Node |-> g[n]]
    BY DEF Part
  <2> HIDE DEF g
  <2> QED BY <1>2, <2>1 DEF Elements
<1>4. NodesOf = [n \in Node |-> IF IsText(n) THEN {}
                                ELSE {n} \cup UNION {NodesOf[c] : c \in Range(n.children)}]
  <2> HIDE DEF g
  <2> QED BY <1>3, Zenon DEF NodesOf
<1> QED BY <1>4

LEMMA ReturnedEquation ==
  \A n \in Node :
    Returned[n] = IF IsText(n) THEN n
                  ELSE Element(n.name, n.attrs,
                               Together([k \in DOMAIN n.children |-> Returned[n.children[k]]]))
<1> DEFINE f == CHOOSE f : Solves(f, Node)
<1>1. f = [n \in Node |-> All(f, Node, n)]
  BY Solved, Zenon DEF Solves
<1>2. \A n \in Node : Returned[n] = f[n][2]
  BY Zenon DEF Returned, Part
<1>3. Part(f, Node, 2) = Returned
  BY Zenon DEF Returned
<1> HIDE DEF f
<1>4. \A n \in Node : Returned[n] = Reread(n, Returned)
  <2> TAKE n \in Node
  <2>1. f[n] = <<Elements(n, Part(f, Node, 1)), Reread(n, Part(f, Node, 2)),
                Merged(n, Part(f, Node, 3))>>
    BY <1>1, Zenon DEF All
  <2>2. f[n][2] = Reread(n, Returned)
    BY <1>3, <2>1
  <2> QED BY <1>2, <2>2
<1> QED BY <1>4, Zenon DEF Reread

LEMMA JoinedEquation ==
  \A n \in Node :
    Joined[n] = IF IsText(n) THEN n
                ELSE [kind |-> "element", name |-> n.name, declarations |-> n.declarations,
                      attrs |-> n.attrs,
                      children |-> Together([k \in DOMAIN n.children |-> Joined[n.children[k]]])]
<1>1. PICK f : f = [n \in Node |-> All(f, Node, n)]
  BY Solved DEF Solves
<1> DEFINE g == Part(f, Node, 3)
<1>2. \A n \in Node : g[n] = Merged(n, g)
  <2> TAKE n \in Node
  <2>1. f[n] = <<Elements(n, Part(f, Node, 1)), Reread(n, Part(f, Node, 2)),
                Merged(n, Part(f, Node, 3))>>
    BY <1>1, Zenon DEF All
  <2>2. f[n][3] = Merged(n, g)
    BY <2>1
  <2>3. g[n] = f[n][3]
    BY DEF Part
  <2> HIDE DEF g
  <2> QED BY <2>2, <2>3
<1>3. g = [n \in Node |->
            IF IsText(n) THEN n
            ELSE [kind |-> "element", name |-> n.name, declarations |-> n.declarations,
                  attrs |-> n.attrs,
                  children |-> Together([k \in DOMAIN n.children |-> g[n.children[k]]])]]
  <2>1. DOMAIN g = Node /\ g = [n \in Node |-> g[n]]
    BY DEF Part
  <2> HIDE DEF g
  <2> QED BY <1>2, <2>1 DEF Merged
<1>4. Joined = [n \in Node |->
                 IF IsText(n) THEN n
                 ELSE [kind |-> "element", name |-> n.name, declarations |-> n.declarations,
                       attrs |-> n.attrs,
                       children |-> Together([k \in DOMAIN n.children |-> Joined[n.children[k]]])]]
  <2> HIDE DEF g
  <2> QED BY <1>3, Zenon DEF Joined
<1> QED BY <1>4
\* NodesOf: the elements of a tree, down to the leaves.
LEMMA NodesTree ==
  \A n \in Node : /\ NodesOf[n] \subseteq ElementNode
                  /\ ~IsText(n) => n \in NodesOf[n]
                  /\ \A m \in NodesOf[n] : \A c \in Range(m.children) : NodesOf[c] \subseteq NodesOf[n]
<1> DEFINE S == {n \in Node : /\ NodesOf[n] \subseteq ElementNode
                              /\ \A m \in NodesOf[n] : \A c \in Range(m.children) :
                                   NodesOf[c] \subseteq NodesOf[n]}
<1>1. ASSUME NEW n \in Node, ~IsText(n)
      PROVE  NodesOf[n] = {n} \cup UNION {NodesOf[c] : c \in Range(n.children)}
  BY <1>1, NodesOfEquation
<1>2. ASSUME NEW n \in Node, \A c \in Node : Height[c] < Height[n] => c \in S
      PROVE  n \in S
  <2>1. CASE IsText(n)
    <3>1. NodesOf[n] = {}
      BY <2>1, NodesOfEquation
    <3> QED BY <3>1
  <2>2. CASE ~IsText(n)
    <3>1. NodesOf[n] = {n} \cup UNION {NodesOf[c] : c \in Range(n.children)}
      BY <1>1, <2>2
    <3>2. n \in ElementNode /\ \A c \in Range(n.children) : c \in S
      BY <1>2, <2>2, ChildrenLower
    <3>3. NodesOf[n] \subseteq ElementNode
      BY <3>1, <3>2
    <3>4. ASSUME NEW m \in NodesOf[n], NEW c \in Range(m.children)
          PROVE  NodesOf[c] \subseteq NodesOf[n]
      <4>1. CASE m = n
        BY <3>1, <4>1
      <4>2. CASE m # n
        <5>1. PICK d \in Range(n.children) : m \in NodesOf[d]
          BY <3>1, <4>2
        <5>2. NodesOf[c] \subseteq NodesOf[d]
          BY <3>2, <3>4, <5>1
        <5> QED BY <3>1, <5>1, <5>2
      <4> QED BY <4>1, <4>2
    <3> QED BY <3>3, <3>4
  <2> QED BY <2>1, <2>2
<1>3. Node \subseteq S
  <2> HIDE DEF S
  <2> QED BY <1>2, TreeInduction
<1> QED BY <1>1, <1>3

\* The names a tag stands for, and what byte mode asks of a symbol: a character
\* that is no byte is one of a name.
TagNames(n) == {n.name} \cup {a.name : a \in Range(n.attrs)}
SymbolNames(x) ==
  CASE x.form = "start" -> TagNames(x) [] x.form = "end" -> {x.name} [] OTHER -> {}
NamesIn(s) == UNION {SymbolNames(s[k]) : k \in DOMAIN s}
Spellable(x, names, encoding) ==
  /\ SymbolNames(x) \subseteq names
  /\ encoding = "Bytes" => \A r \in Standing(x) : r > 255 => \E s \in SymbolNames(x) : r \in Range(s)

\* The names that are still to be written.
NamesBelow(n) == UNION {TagNames(m) : m \in NodesOf[n]}
Ahead(s) ==
  UNION {UNION {NamesBelow(s[i].node.children[j]) : j \in s[i].next..Len(s[i].node.children)} :
           i \in DOMAIN s}

\* While the document is written: the names in it and those ahead are the job's.
NamesInv ==
  /\ phase = "write" => /\ job.what = "document" /\ job.root # <<>>
                        /\ \A i \in DOMAIN stack : stack[i].node \in NodesOf[job.root[1]]
  /\ phase \in {"start", "emit"} => stack = <<>>
  /\ phase \in {"write", "emit"} =>
       /\ \A k \in DOMAIN out : Spellable(out[k], NamesOf, Effective)
       /\ NamesOf \subseteq NamesIn(out) \cup Ahead(stack)
  /\ FailsOnlyForNames

LEMMA CharSpelled ==
  \A r \in CodePoint : \A inAttr \in BOOLEAN :
    Effective = "Bytes" /\ Form(r, inAttr) = "literal" => ~(r > 255)
BY DEF Form, Referenced

LEMMA OneLiteral ==
  ASSUME NEW x
  PROVE  Literals(<<x>>) = IF x.form = "literal" THEN {x.code} ELSE {}
<1>1. DOMAIN <<x>> = {1} /\ <<x>>[1] = x
  OBVIOUS
<1> QED BY <1>1, Zenon DEF Literals

LEMMA AttributeNames ==
  ASSUME NEW f
  PROVE  {a.name : a \in Range(f)} = {f[k].name : k \in DOMAIN f}
<1>1. \A s : s \in {a.name : a \in Range(f)} => s \in {f[k].name : k \in DOMAIN f}
  BY Zenon DEF Range
<1>2. \A s : s \in {f[k].name : k \in DOMAIN f} => s \in {a.name : a \in Range(f)}
  BY Zenon DEF Range
<1> QED BY <1>1, <1>2

LEMMA EscapeLiterals ==
  ASSUME NEW s, NEW inAttr, NEW r \in Literals(Escape(s, inAttr))
  PROVE  \E j \in DOMAIN s : r = s[j] /\ Form(r, inAttr) = "literal"
<1> DEFINE t == Escape(s, inAttr)
<1>1. DOMAIN t = DOMAIN s /\ \A k \in DOMAIN s : t[k].form = Form(s[k], inAttr) /\ t[k].code = s[k]
  BY DEF Escape
<1> HIDE DEF t
<1>2. PICK k \in DOMAIN t : t[k].form = "literal" /\ r = t[k].code
  BY Zenon DEF Literals, t
<1> QED BY <1>1, <1>2

LEMMA TextSpellable ==
  ASSUME NEW s \in Seq(CodePoint)
  PROVE  \A k \in DOMAIN Escape(s, FALSE) :
           Spellable(Escape(s, FALSE)[k], NamesOf, Effective) /\ SymbolNames(Escape(s, FALSE)[k]) = {}
<1> TAKE k \in DOMAIN Escape(s, FALSE)
<1>1. k \in DOMAIN s /\ s[k] \in CodePoint
  BY Member DEF Escape
<1> DEFINE x == [form |-> Form(s[k], FALSE), code |-> s[k]]
<1>2. Escape(s, FALSE)[k] = x
  BY <1>1 DEF Escape
<1>3. x.form \in {"entity", "reference", "literal"}
  BY DEF Form
<1>4. SymbolNames(x) = {}
  <2> HIDE DEF x
  <2> QED BY <1>3 DEF SymbolNames
<1>5. Standing(x) = Literals(<<x>>)
  <2> HIDE DEF x
  <2> QED BY <1>3 DEF Standing
<1>6. ASSUME Effective = "Bytes", NEW r \in Literals(<<x>>)
      PROVE  ~(r > 255)
  <2>1. r = s[k] /\ Form(s[k], FALSE) = "literal"
    <3>1. x.form = "literal" /\ r = x.code
      BY <1>6, OneLiteral
    <3> QED BY <3>1
  <2> QED BY <1>1, <1>6, <2>1, CharSpelled
<1> HIDE DEF x
<1> QED BY <1>2, <1>4, <1>5, <1>6 DEF Spellable

LEMMA StartSpellable ==
  ASSUME NEW name, NEW empty, NEW attrs \in Seq([name : Seq(CodePoint), value : Seq(CodePoint)]),
         {name} \cup {a.name : a \in Range(attrs)} \subseteq NamesOf
  PROVE  /\ SymbolNames(StartTag(name, attrs, empty)) = {name} \cup {a.name : a \in Range(attrs)}
         /\ Spellable(StartTag(name, attrs, empty), NamesOf, Effective)
<1> DEFINE x == StartTag(name, attrs, empty)
<1>1. /\ x.form = "start" /\ x.name = name /\ DOMAIN x.attrs = DOMAIN attrs
      /\ \A k \in DOMAIN attrs : /\ x.attrs[k].name = attrs[k].name
                                 /\ x.attrs[k].value = Escape(attrs[k].value, TRUE)
  BY DEF StartTag
<1> HIDE DEF x
<1>2. {a.name : a \in Range(x.attrs)} = {a.name : a \in Range(attrs)}
  <2>1. {x.attrs[k].name : k \in DOMAIN x.attrs} = {attrs[k].name : k \in DOMAIN attrs}
    BY <1>1, Zenon
  <2> QED BY <2>1, AttributeNames
<1>3. SymbolNames(x) = {name} \cup {a.name : a \in Range(attrs)}
  BY <1>1, <1>2 DEF SymbolNames, TagNames
<1>4. ASSUME NEW a \in Range(x.attrs), NEW r \in Literals(a.value), Effective = "Bytes"
      PROVE  ~(r > 255)
  <2>1. PICK k \in DOMAIN attrs : a.value = Escape(attrs[k].value, TRUE)
    BY <1>1 DEF Range
  <2>2. attrs[k].value \in Seq(CodePoint)
    <3>1. attrs[k] \in [name : Seq(CodePoint), value : Seq(CodePoint)]
      BY Member
    <3> QED BY <3>1
  <2>3. PICK j \in DOMAIN attrs[k].value : r = attrs[k].value[j] /\ Form(r, TRUE) = "literal"
    BY <1>4, <2>1, EscapeLiterals
  <2>4. r \in CodePoint
    BY <2>2, <2>3, Member
  <2> QED BY <1>4, <2>3, <2>4, CharSpelled
<1>5. ASSUME Effective = "Bytes", NEW r \in Standing(x), r > 255
      PROVE  \E s \in SymbolNames(x) : r \in Range(s)
  <2>1. r \in Range(x.name) \/ \E a \in Range(x.attrs) : r \in Range(a.name) \/ r \in Literals(a.value)
    BY <1>1, <1>5 DEF Standing
  <2>2. CASE r \in Range(x.name)
    BY <1>1, <1>3, <2>2
  <2>3. ASSUME NEW a \in Range(x.attrs), r \in Range(a.name) \/ r \in Literals(a.value)
        PROVE  \E s \in SymbolNames(x) : r \in Range(s)
    <3>1. r \in Range(a.name)
      BY <1>4, <1>5, <2>3
    <3>2. a.name \in SymbolNames(x)
      BY <1>2, <1>3
    <3> QED BY <3>1, <3>2
  <2> QED BY <2>1, <2>2, <2>3
<1>6. Spellable(x, NamesOf, Effective)
  BY <1>3, <1>5 DEF Spellable
<1> QED BY <1>3, <1>6 DEF x

LEMMA OthersSpellable ==
  /\ SymbolNames(Declaration) = {} /\ Spellable(Declaration, NamesOf, Effective)
  /\ \A name \in NamesOf : SymbolNames(EndTag(name)) = {name} /\ Spellable(EndTag(name), NamesOf, Effective)
<1>1. Declaration.form = "declaration"
  BY DEF Declaration
<1>2. SymbolNames(Declaration) = {}
  BY <1>1 DEF SymbolNames
<1>3. Standing(Declaration) = {}
  BY <1>1 DEF Standing, Literals
<1>4. ASSUME NEW name \in NamesOf
      PROVE  SymbolNames(EndTag(name)) = {name} /\ Spellable(EndTag(name), NamesOf, Effective)
  <2>1. EndTag(name).form = "end" /\ EndTag(name).name = name
    BY DEF EndTag
  <2>2. SymbolNames(EndTag(name)) = {name} /\ Standing(EndTag(name)) = Range(name)
    BY <2>1 DEF SymbolNames, Standing
  <2> QED BY <2>2 DEF Spellable
<1> QED BY <1>2, <1>3, <1>4 DEF Spellable

LEMMA OpeningSpellable ==
  ASSUME job.what = "document", job.root # <<>>, job.root[1] \in Node,
         NEW n \in NodesOf[job.root[1]]
  PROVE  /\ n \in ElementNode /\ TagNames(n) \subseteq NamesOf
         /\ SymbolNames(Opening(n)) = TagNames(n) /\ Spellable(Opening(n), NamesOf, Effective)
<1>1. n \in ElementNode
  BY NodesTree
<1>2. TagNames(n) \subseteq NamesOf
  BY DEF NamesOf, TagNames
<1>3. n.attrs \in Seq([name : Seq(CodePoint), value : Seq(CodePoint)])
  BY <1>1, NodesTyped
<1>4. PICK e : e = (n.children = <<>>)
  OBVIOUS
<1>5. {n.name} \cup {a.name : a \in Range(n.attrs)} \subseteq NamesOf
  BY <1>2 DEF TagNames
<1>6. /\ SymbolNames(StartTag(n.name, n.attrs, e)) = TagNames(n)
      /\ Spellable(StartTag(n.name, n.attrs, e), NamesOf, Effective)
  BY <1>3, <1>5, StartSpellable DEF TagNames
<1> QED BY <1>1, <1>2, <1>4, <1>6, Zenon DEF Opening
\* What is ahead of the stack, in each of its moves.
LEMMA AheadMember ==
  ASSUME NEW s, NEW x
  PROVE  x \in Ahead(s) <=> \E i \in DOMAIN s : \E j \in s[i].next..Len(s[i].node.children) :
                              x \in NamesBelow(s[i].node.children[j])
<1>1. x \in Ahead(s) <=> \E i \in DOMAIN s :
                            x \in UNION {NamesBelow(s[i].node.children[j]) :
                                          j \in s[i].next..Len(s[i].node.children)}
  BY Zenon DEF Ahead
<1>2. \A i : x \in UNION {NamesBelow(s[i].node.children[j]) : j \in s[i].next..Len(s[i].node.children)}
          <=> \E j \in s[i].next..Len(s[i].node.children) : x \in NamesBelow(s[i].node.children[j])
  <2> TAKE i
  <2> HIDE DEF NamesBelow
  <2> QED BY Zenon
<1> QED BY <1>1, <1>2, Zenon

LEMMA Advanced ==
  ASSUME NEW s \in Seq(Frame), s # <<>>, Last(s).next <= Len(Last(s).node.children),
         NEW x \in Ahead(s)
  PROVE  \/ x \in Ahead([s EXCEPT ![Len(s)].next = @ + 1])
         \/ x \in NamesBelow(Last(s).node.children[Last(s).next])
<1> DEFINE r == [s EXCEPT ![Len(s)].next = @ + 1]
<1>1. PICK i, j : /\ i \in DOMAIN s /\ j \in s[i].next..Len(s[i].node.children)
                  /\ x \in NamesBelow(s[i].node.children[j])
  BY AheadMember
<1>2. s[i] \in Frame /\ i \in 1..Len(s) /\ Len(s) \in DOMAIN s
  BY <1>1, Member
<1>3. s[i].next \in Nat /\ j \in Int
  BY <1>1, <1>2 DEF Frame
<1>4. CASE i = Len(s) /\ j = s[i].next
  BY <1>1, <1>4, Zenon DEF Last
<1>5. CASE i # Len(s)
  <2>1. r[i] = s[i] /\ i \in DOMAIN r
    BY <1>1, <1>5, Zenon
  <2> HIDE DEF r
  <2>2. x \in Ahead(r)
    BY <1>1, <2>1, AheadMember
  <2> QED BY <2>2 DEF r
<1>6. CASE i = Len(s) /\ j # s[i].next
  <2>1. r[i].next = s[i].next + 1 /\ r[i].node = s[i].node /\ i \in DOMAIN r
    BY <1>1, <1>2, <1>6 DEF Frame
  <2>2. Len(s[i].node.children) \in Nat
    BY <1>2, NodesTyped DEF Frame
  <2>3. j \in r[i].next..Len(r[i].node.children)
    <3> HIDE DEF r
    <3> QED BY <1>1, <1>3, <1>6, <2>1, <2>2
  <2> HIDE DEF r
  <2>4. x \in Ahead(r)
    BY <1>1, <2>1, <2>3, AheadMember
  <2> QED BY <2>4 DEF r
<1> QED BY <1>4, <1>5, <1>6

LEMMA Deeper ==
  ASSUME NEW s \in Seq(Frame), NEW c \in ElementNode, NEW x \in Ahead(s) \cup NamesBelow(c)
  PROVE  x \in TagNames(c) \cup Ahead(s \o Entered(c))
<1> DEFINE r == s \o Entered(c)
<1>0. Entered(c) \in Seq(Frame)
  BY OpeningAgreed
<1>1. CASE x \in Ahead(s)
  <2>1. PICK i, j : /\ i \in DOMAIN s /\ j \in s[i].next..Len(s[i].node.children)
                  /\ x \in NamesBelow(s[i].node.children[j])
    BY <1>1, AheadMember
  <2>2. i \in DOMAIN r /\ r[i] = s[i]
    BY <1>0, <2>1, Concatenation
  <2> HIDE DEF r
  <2>3. x \in Ahead(r)
    BY <2>1, <2>2, AheadMember
  <2> QED BY <2>3 DEF r
<1>2. CASE x \in NamesBelow(c)
  <2>1. PICK m \in NodesOf[c] : x \in TagNames(m)
    BY <1>2 DEF NamesBelow
  <2>2. CASE m = c
    BY <2>1, <2>2
  <2>3. CASE m # c
    <3>1. c \in Node /\ ~IsText(c) /\ c.children \in Seq(Node)
      BY NodesTyped DEF ElementNode
    <3>2. PICK d \in Range(c.children) : m \in NodesOf[d]
      <4>1. NodesOf[c] = {c} \cup UNION {NodesOf[d] : d \in Range(c.children)}
        BY <3>1, NodesOfEquation
      <4> QED BY <2>1, <2>3, <4>1, Zenon
    <3>3. PICK j \in DOMAIN c.children : d = c.children[j]
      BY <3>2, Zenon DEF Range
    <3>4. c.children # <<>> /\ j \in 1..Len(c.children)
      BY <3>1, <3>3
    <3>5. Entered(c) = <<[node |-> c, next |-> 1]>>
      BY <3>4 DEF Entered
    <3>6. /\ Len(s) + 1 \in DOMAIN r /\ r[Len(s) + 1].node = c /\ r[Len(s) + 1].next = 1
      BY <1>0, <3>5
    <3> HIDE DEF r
    <3>7. x \in NamesBelow(c.children[j])
      BY <2>1, <3>2, <3>3 DEF NamesBelow
    <3>8. x \in Ahead(r)
      BY <3>4, <3>6, <3>7, AheadMember
    <3> QED BY <3>8 DEF r
  <2> QED BY <2>2, <2>3
<1> QED BY <1>1, <1>2

LEMMA Shallower ==
  ASSUME NEW s \in Seq(Frame), s # <<>>, Last(s).next > Len(Last(s).node.children),
         NEW x \in Ahead(s)
  PROVE  x \in Ahead(Popped(s))
<1>1. PICK i, j : /\ i \in DOMAIN s /\ j \in s[i].next..Len(s[i].node.children)
                  /\ x \in NamesBelow(s[i].node.children[j])
  BY AheadMember
<1>2. s[i] \in Frame /\ i \in 1..Len(s) /\ Len(s) \in Nat /\ Len(s[i].node.children) \in Nat
  <2>1. s[i] \in Frame
    BY <1>1, Member
  <2>2. s[i].node.children \in Seq(Node)
    BY <2>1, NodesTyped DEF Frame
  <2> QED BY <1>1, <2>1, <2>2
<1>3. i # Len(s)
  <2> SUFFICES ASSUME i = Len(s) PROVE FALSE
    OBVIOUS
  <2>1. s[i].next > Len(s[i].node.children) /\ s[i].next \in Nat
    BY <1>2 DEF Last, Frame
  <2> QED BY <1>1, <1>2, <2>1
<1>4. i \in DOMAIN Popped(s) /\ Popped(s)[i] = s[i]
  BY <1>2, <1>3 DEF Popped
<1> QED BY <1>1, <1>4, AheadMember
LEMMA PutOut ==
  ASSUME NEW s \in Seq(Symbol), NEW t \in Seq(Symbol), NEW names, NEW encoding,
         \A k \in DOMAIN s : Spellable(s[k], names, encoding),
         \A k \in DOMAIN t : Spellable(t[k], names, encoding)
  PROVE  /\ \A k \in DOMAIN (s \o t) : Spellable((s \o t)[k], names, encoding)
         /\ NamesIn(s) \cup NamesIn(t) \subseteq NamesIn(s \o t)
<1> DEFINE u == s \o t
<1>1. /\ \A i \in DOMAIN s : i \in DOMAIN u /\ u[i] = s[i]
      /\ \A i \in DOMAIN t : Len(s) + i \in DOMAIN u /\ u[Len(s) + i] = t[i]
      /\ \A k \in DOMAIN u : \/ k \in DOMAIN s
                             \/ k - Len(s) \in DOMAIN t /\ u[k] = t[k - Len(s)]
  BY Concatenation
<1> HIDE DEF u
<1>2. \A k \in DOMAIN u : Spellable(u[k], names, encoding)
  BY <1>1
<1>3. NamesIn(s) \subseteq NamesIn(u)
  BY <1>1, Zenon DEF NamesIn
<1>4. NamesIn(t) \subseteq NamesIn(u)
  <2>1. \A i \in DOMAIN t : \E k \in DOMAIN u : u[k] = t[i]  BY <1>1
  <2> QED BY <2>1, Zenon DEF NamesIn
<1> QED BY <1>2, <1>3, <1>4 DEF u

LEMMA OneName ==
  ASSUME NEW x
  PROVE  DOMAIN <<x>> = {1} /\ <<x>>[1] = x /\ NamesIn(<<x>>) = SymbolNames(x)
<1>1. DOMAIN <<x>> = {1} /\ <<x>>[1] = x
  OBVIOUS
<1>2. NamesIn(<<x>>) = UNION {SymbolNames(<<x>>[k]) : k \in {1}}
  BY <1>1, Zenon DEF NamesIn
<1> QED BY <1>1, <1>2

LEMMA WriteNames ==
  ASSUME job' = job, phase' \in {"write", "emit"}, phase' = "emit" => stack' = <<>>,
         phase' = "write" => /\ job.what = "document" /\ job.root # <<>>
                             /\ \A i \in DOMAIN stack' : stack'[i].node \in NodesOf[job.root[1]],
         \A k \in DOMAIN out' : Spellable(out'[k], NamesOf, Effective),
         NamesOf \subseteq NamesIn(out') \cup Ahead(stack')
  PROVE  NamesInv'
<1>1. NamesOf' = NamesOf /\ Effective' = Effective
  BY DEF NamesOf, Effective
<1>2. FailsOnlyForNames'
  BY DEF FailsOnlyForNames
<1>3. (/\ \A k \in DOMAIN out : Spellable(out[k], NamesOf, Effective)
       /\ NamesOf \subseteq NamesIn(out) \cup Ahead(stack))'
  BY <1>1
<1>4. (phase \in {"start", "emit"} => stack = <<>>)'
  OBVIOUS
<1>5. (phase = "write" => /\ job.what = "document" /\ job.root # <<>>
                         /\ \A i \in DOMAIN stack : stack[i].node \in NodesOf[job.root[1]])'
  OBVIOUS
<1> QED BY <1>2, <1>3, <1>4, <1>5, Zenon DEF NamesInv

LEMMA RootNames == ASSUME IInv, WriteRoot PROVE NamesInv'
<1> DEFINE n == job.root[1]
<1>1. /\ job.what = "document" /\ job.root # <<>> /\ n \in ElementNode /\ n \in Node
      /\ out' = <<Declaration, Opening(n)>> /\ stack' = Entered(n) /\ phase' = PhaseAfter(stack')
      /\ job' = job
  BY RootTyped DEF WriteRoot, ElementNode
<1>2. n \in NodesOf[n] /\ NodesOf[n] = {n} \cup UNION {NodesOf[c] : c \in Range(n.children)}
  BY <1>1, NodesOfEquation DEF ElementNode
<1>3. SymbolNames(Opening(n)) = TagNames(n) /\ Spellable(Opening(n), NamesOf, Effective)
  BY <1>1, <1>2, OpeningSpellable
<1>4. NamesOf = NamesBelow(n)
  BY <1>1 DEF NamesOf, NamesBelow, TagNames
<1>5. \A x \in NamesOf : x \in TagNames(n) \/ x \in Ahead(stack')
  <2> TAKE x \in NamesOf
  <2>1. <<>> \in Seq(Frame) /\ <<>> \o Entered(n) = Entered(n)
    BY <1>1, OpeningAgreed
  <2>2. x \in TagNames(n) \cup Ahead(<<>> \o Entered(n))
    BY <1>1, <1>4, <2>1, Deeper
  <2> QED BY <1>1, <2>1, <2>2
<1> HIDE DEF n
<1>6. DOMAIN out' = {1, 2} /\ out'[1] = Declaration /\ out'[2] = Opening(n)
  BY <1>1
<1>7. \A k \in DOMAIN out' : Spellable(out'[k], NamesOf, Effective)
  BY <1>3, <1>6, OthersSpellable
<1>8. TagNames(n) \subseteq NamesIn(out')
  BY <1>3, <1>6, Zenon DEF NamesIn
<1>9. \A i \in DOMAIN stack' : stack'[i].node \in NodesOf[job.root[1]]
  <2>1. stack' = <<>> \/ stack' = <<[node |-> n, next |-> 1]>>
    BY <1>1 DEF Entered
  <2>2. \A i \in DOMAIN stack' : stack'[i].node = n
    BY <2>1
  <2> QED BY <1>2, <2>2 DEF n
<1>10. phase' \in {"write", "emit"} /\ (phase' = "emit" => stack' = <<>>)
  BY <1>1 DEF PhaseAfter
<1>11. NamesOf \subseteq NamesIn(out') \cup Ahead(stack')
  BY <1>5, <1>8
<1> QED BY <1>1, <1>7, <1>9, <1>10, <1>11, WriteNames

LEMMA ChildNames == ASSUME IInv, NamesInv, WriteChild PROVE NamesInv'
<1> DEFINE top == Last(stack)
          c == top.node.children[top.next]
          rest == [stack EXCEPT ![Len(stack)].next = @ + 1]
<1>1. /\ phase = "write" /\ phase' = "write" /\ job' = job /\ job.what = "document" /\ job.root # <<>>
      /\ \A i \in DOMAIN stack : stack[i].node \in NodesOf[job.root[1]]
      /\ \A k \in DOMAIN out : Spellable(out[k], NamesOf, Effective)
      /\ NamesOf \subseteq NamesIn(out) \cup Ahead(stack)
      /\ top.next <= Len(top.node.children)
  BY DEF WriteChild, NamesInv
<1>2. /\ stack # <<>> /\ stack \in Seq(Frame) /\ out \in Seq(Symbol)
      /\ top.node \in ElementNode /\ top.next \in Nat \ {0} /\ job.root[1] \in Node
  BY <1>1, TopTyped, RootTyped DEF ElementNode
<1>3. c \in Node /\ c \in Range(top.node.children)
  <2>1. top.node.children \in Seq(Node)
    BY <1>2, NodesTyped
  <2>2. top.next \in DOMAIN top.node.children
    <3> HIDE DEF top
    <3> QED BY <1>1, <1>2, <2>1
  <2> QED BY <2>1, <2>2, Member DEF Range
<1>4. NodesOf[c] \subseteq NodesOf[job.root[1]]
  <2>1. top.node \in NodesOf[job.root[1]]
    BY <1>1, <1>2 DEF Last
  <2> QED BY <1>2, <1>3, <2>1, NodesTree
<1>5. \A x \in Ahead(stack) : x \in Ahead(rest) \/ x \in NamesBelow(c)
  BY <1>1, <1>2, Advanced
<1>6. /\ rest \in Seq(Frame) /\ DOMAIN rest = DOMAIN stack
      /\ \A i \in DOMAIN rest : rest[i].node \in NodesOf[job.root[1]]
  <2>1. \A i \in DOMAIN stack : stack[i] \in Frame
    BY <1>2, Member
  <2>2. \A i \in DOMAIN stack : rest[i] \in Frame /\ rest[i].node = stack[i].node
    BY <2>1 DEF Frame
  <2>3. DOMAIN rest = DOMAIN stack /\ rest \in [DOMAIN stack -> Frame]
    BY <2>2
  <2> HIDE DEF rest
  <2> QED BY <1>1, <1>2, <2>2, <2>3, Alike
<1> HIDE DEF rest, c, top
<1>7. CASE IsText(c)
  <2>1. out' = out \o Escape(c.content, FALSE) /\ stack' = rest
    BY <1>7 DEF WriteChild, rest, c, top
  <2>2. c.content \in Seq(CodePoint)
    BY <1>3, <1>7, WriterAssumption DEF IsString
  <2>3. /\ Escape(c.content, FALSE) \in Seq(Symbol)
        /\ \A k \in DOMAIN Escape(c.content, FALSE) :
             Spellable(Escape(c.content, FALSE)[k], NamesOf, Effective)
    BY <2>2, EscapeAgreed, TextSpellable
  <2>4. /\ \A k \in DOMAIN out' : Spellable(out'[k], NamesOf, Effective)
        /\ NamesIn(out) \subseteq NamesIn(out')
    BY <1>1, <1>2, <2>1, <2>3, PutOut
  <2>5. NamesBelow(c) = {}
    BY <1>3, <1>7, NodesOfEquation DEF NamesBelow
  <2> QED BY <1>1, <1>5, <1>6, <2>1, <2>4, <2>5, WriteNames
<1>8. CASE ~IsText(c)
  <2>1. out' = Append(out, Opening(c)) /\ stack' = rest \o Entered(c)
    BY <1>8 DEF WriteChild, rest, c, top
  <2>2. c \in ElementNode /\ c \in NodesOf[c] /\ c \in NodesOf[job.root[1]]
    BY <1>3, <1>4, <1>8, NodesTree DEF ElementNode
  <2>3. /\ SymbolNames(Opening(c)) = TagNames(c) /\ Spellable(Opening(c), NamesOf, Effective)
        /\ Opening(c) \in Symbol /\ Entered(c) \in Seq(Frame)
    BY <1>1, <1>2, <2>2, OpeningSpellable, OpeningAgreed
  <2>4. out' = out \o <<Opening(c)>> /\ <<Opening(c)>> \in Seq(Symbol)
    BY <1>2, <2>1, <2>3
  <2>5. /\ \A k \in DOMAIN out' : Spellable(out'[k], NamesOf, Effective)
        /\ NamesIn(out) \cup TagNames(c) \subseteq NamesIn(out')
    <3>1. \A k \in DOMAIN <<Opening(c)>> : Spellable(<<Opening(c)>>[k], NamesOf, Effective)
      BY <2>3, OneName
    <3>2. NamesIn(<<Opening(c)>>) = TagNames(c)
      BY <2>3, OneName
    <3> QED BY <1>1, <1>2, <2>4, <3>1, <3>2, PutOut
  <2>6. \A x \in Ahead(rest) \cup NamesBelow(c) : x \in TagNames(c) \cup Ahead(stack')
    BY <1>6, <2>1, <2>2, Deeper
  <2>7. \A i \in DOMAIN stack' : stack'[i].node \in NodesOf[job.root[1]]
    <3>1. Entered(c) = <<>> \/ Entered(c) = <<[node |-> c, next |-> 1]>>
      BY DEF Entered
    <3>2. \A i \in DOMAIN Entered(c) : Entered(c)[i].node = c
      BY <3>1
    <3> QED BY <1>6, <2>1, <2>2, <2>3, <3>2, Concatenation
  <2>8. NamesOf \subseteq NamesIn(out') \cup Ahead(stack')
    BY <1>1, <1>5, <2>5, <2>6
  <2> QED BY <1>1, <2>5, <2>7, <2>8, WriteNames
<1> QED BY <1>7, <1>8

LEMMA EndNames == ASSUME IInv, NamesInv, WriteEnd PROVE NamesInv'
<1> DEFINE top == Last(stack)
<1>1. /\ phase = "write" /\ phase' = PhaseAfter(stack') /\ job' = job
      /\ job.what = "document" /\ job.root # <<>>
      /\ \A i \in DOMAIN stack : stack[i].node \in NodesOf[job.root[1]]
      /\ \A k \in DOMAIN out : Spellable(out[k], NamesOf, Effective)
      /\ NamesOf \subseteq NamesIn(out) \cup Ahead(stack)
      /\ top.next > Len(top.node.children)
      /\ stack' = Popped(stack) /\ out' = Append(out, EndTag(top.node.name))
  BY DEF WriteEnd, NamesInv
<1>2. /\ stack # <<>> /\ stack \in Seq(Frame) /\ out \in Seq(Symbol) /\ top.node \in ElementNode
  BY <1>1, TopTyped
<1>3. \A x \in Ahead(stack) : x \in Ahead(stack')
  BY <1>1, <1>2, Shallower
<1>4. top.node.name \in NamesOf
  <2>1. top.node \in NodesOf[job.root[1]]
    BY <1>1, <1>2 DEF Last
  <2> QED BY <1>1, <2>1 DEF NamesOf
<1>5. top.node.name \in Seq(CodePoint)
  BY <1>2, NodesTyped
<1> HIDE DEF top
<1>6. /\ Spellable(EndTag(top.node.name), NamesOf, Effective) /\ EndTag(top.node.name) \in Symbol
  BY <1>4, <1>5, OthersSpellable, EndTagAgreed
<1>7. out' = out \o <<EndTag(top.node.name)>> /\ <<EndTag(top.node.name)>> \in Seq(Symbol)
  BY <1>1, <1>2, <1>6
<1>8. /\ \A k \in DOMAIN out' : Spellable(out'[k], NamesOf, Effective)
      /\ NamesIn(out) \subseteq NamesIn(out')
  <2>1. \A k \in DOMAIN <<EndTag(top.node.name)>> :
          Spellable(<<EndTag(top.node.name)>>[k], NamesOf, Effective)
    BY <1>6, OneName
  <2> QED BY <1>1, <1>2, <1>7, <2>1, PutOut
<1>9. \A i \in DOMAIN stack' : stack'[i].node \in NodesOf[job.root[1]]
  BY <1>1, <1>2 DEF Popped
<1>10. phase' \in {"write", "emit"} /\ (phase' = "emit" => stack' = <<>>)
  BY <1>1 DEF PhaseAfter
<1> QED BY <1>1, <1>3, <1>8, <1>9, <1>10, WriteNames
LEMMA BinaryNames == ASSUME IInv, NamesInv, WriteBinaryAsText PROVE NamesInv'
<1>1. /\ job.what = "binary" /\ phase' = "emit" /\ job' = job /\ stack' = stack
      /\ out' = <<Declaration, StartTag(job.element, <<>>, FALSE)>> \o Escape(job.payload, FALSE)
                  \o <<EndTag(job.element)>>
  BY DEF WriteBinaryAsText
<1>2. NamesOf = {job.element}
  BY <1>1 DEF NamesOf
<1>3. job.element \in Seq(CodePoint) /\ job.payload \in Seq(CodePoint)
  BY <1>1, BinaryTyped
<1>4. /\ Escape(job.payload, FALSE) \in Seq(Symbol)
      /\ \A k \in DOMAIN Escape(job.payload, FALSE) :
           Spellable(Escape(job.payload, FALSE)[k], NamesOf, Effective)
  BY <1>3, EscapeAgreed, TextSpellable
<1> DEFINE x == StartTag(job.element, <<>>, FALSE)
           y == EndTag(job.element)
<1>5. x \in Symbol /\ SymbolNames(x) = {job.element} /\ Spellable(x, NamesOf, Effective)
  <2>1. <<>> \in Seq([name : Seq(CodePoint), value : Seq(CodePoint)]) /\ {a.name : a \in Range(<<>>)} = {}
    BY DEF Range
  <2>2. {job.element} \cup {a.name : a \in Range(<<>>)} \subseteq NamesOf
    BY <1>2, <2>1
  <2>3. x \in Symbol
    BY <1>3, <2>1, StartTagAgreed
  <2>4. /\ SymbolNames(x) = {job.element} \cup {a.name : a \in Range(<<>>)}
        /\ Spellable(x, NamesOf, Effective)
    BY <2>1, <2>2, StartSpellable
  <2> HIDE DEF x
  <2> QED BY <2>1, <2>3, <2>4
<1>6. y \in Symbol /\ Spellable(y, NamesOf, Effective)
  BY <1>2, <1>3, EndTagAgreed, OthersSpellable
<1> HIDE DEF x, y
<1> DEFINE front == <<Declaration, x>>
           u == front \o Escape(job.payload, FALSE)
<1>7. /\ front \in Seq(Symbol) /\ NamesOf \subseteq NamesIn(front)
      /\ \A k \in DOMAIN front : Spellable(front[k], NamesOf, Effective)
  <2>1. DOMAIN front = {1, 2} /\ front[1] = Declaration /\ front[2] = x
    OBVIOUS
  <2>2. front \in Seq(Symbol)
    BY <1>5, DeclarationAgreed, Pair
  <2> HIDE DEF front
  <2>3. \A k \in DOMAIN front : Spellable(front[k], NamesOf, Effective)
    BY <1>5, <2>1, OthersSpellable
  <2>4. SymbolNames(front[2]) \subseteq NamesIn(front)
    BY <2>1, Zenon DEF NamesIn
  <2> QED BY <1>2, <1>5, <2>1, <2>2, <2>3, <2>4
<1> HIDE DEF front
<1>8. /\ u \in Seq(Symbol) /\ NamesOf \subseteq NamesIn(u)
      /\ \A k \in DOMAIN u : Spellable(u[k], NamesOf, Effective)
  BY <1>4, <1>7, PutOut, Joining
<1> HIDE DEF u
<1>9. out' = u \o <<y>>
  BY <1>1 DEF u, front, x, y
<1>10. <<y>> \in Seq(Symbol) /\ \A k \in DOMAIN <<y>> : Spellable(<<y>>[k], NamesOf, Effective)
  BY <1>6, OneName
<1>11. /\ \A k \in DOMAIN out' : Spellable(out'[k], NamesOf, Effective)
       /\ NamesIn(u) \subseteq NamesIn(out')
  BY <1>8, <1>9, <1>10, PutOut
<1>12. stack' = <<>>
  BY <1>1 DEF NamesInv, WriteBinaryAsText
<1> QED BY <1>1, <1>8, <1>11, <1>12, WriteNames

\* At the end of writing a character that is no byte can only be a name's.
LEMMA WideAtEmit ==
  ASSUME NamesInv, phase = "emit", Effective = "Bytes"
  PROVE  Wide <=> WideName
<1>1. /\ stack = <<>> /\ \A k \in DOMAIN out : Spellable(out[k], NamesOf, Effective)
      /\ NamesOf \subseteq NamesIn(out) \cup Ahead(stack)
  BY DEF NamesInv
<1>2. Ahead(stack) = {}
  BY <1>1 DEF Ahead
<1>3. ASSUME Wide
      PROVE  WideName
  <2>1. PICK k \in DOMAIN out : \E r \in Standing(out[k]) : r > 255
    BY <1>3 DEF Wide
  <2>2. PICK r \in Standing(out[k]) : r > 255
    BY <2>1
  <2>3. \E s \in SymbolNames(out[k]) : r \in Range(s)
    BY <1>1, <2>2 DEF Spellable
  <2>4. SymbolNames(out[k]) \subseteq NamesOf
    BY <1>1 DEF Spellable
  <2> QED BY <2>2, <2>3, <2>4 DEF WideName
<1>4. ASSUME WideName
      PROVE  Wide
  <2>1. PICK s, r : s \in NamesOf /\ r \in Range(s) /\ r > 255
    BY <1>4 DEF WideName
  <2>2. PICK k \in DOMAIN out : s \in SymbolNames(out[k])
    <3>1. s \in NamesIn(out)
      BY <1>1, <1>2, <2>1
    <3> QED BY <3>1, Zenon DEF NamesIn
  <2>3. r \in Standing(out[k])
    <3>1. CASE out[k].form = "start"
      <4>1. s = out[k].name \/ \E a \in Range(out[k].attrs) : s = a.name
        BY <2>2, <3>1 DEF SymbolNames, TagNames
      <4> QED BY <2>1, <3>1, <4>1 DEF Standing
    <3>2. CASE out[k].form = "end"
      BY <2>1, <2>2, <3>2 DEF SymbolNames, Standing
    <3> QED BY <2>2, <3>1, <3>2 DEF SymbolNames
  <2> QED BY <2>1, <2>3 DEF Wide
<1> QED BY <1>3, <1>4

LEMMA LaterNames ==
  ASSUME NamesInv, job' = job, phase' \notin {"start", "write", "emit"},
         phase' = "failed" => NoJob \/ WideName, phase' = "read" => ~WideName
  PROVE  NamesInv'
<1>1. NamesOf' = NamesOf /\ Effective' = Effective
  BY DEF NamesOf, Effective
<1>2. NoJob' = NoJob /\ WideName' = WideName
  BY <1>1 DEF NoJob, WideName
<1>3. FailsOnlyForNames'
  BY <1>2 DEF FailsOnlyForNames
<1> QED BY <1>3 DEF NamesInv

LEMMA NextNames == ASSUME IInv, NamesInv, [Next]_vars PROVE NamesInv'
<1>1. CASE RejectJob
  <2>1. NoJob /\ phase' = "failed" /\ job' = job
    BY <1>1 DEF RejectJob, NoJob
  <2> QED BY <2>1, LaterNames
<1>2. CASE WriteRoot  BY <1>2, RootNames
<1>3. CASE WriteChild  BY <1>3, ChildNames
<1>4. CASE WriteEnd  BY <1>4, EndNames
<1>5. CASE WriteBinaryAsText  BY <1>5, BinaryNames
<1>6. CASE WriteCoded
  BY <1>6, LaterNames DEF WriteCoded
<1>7. CASE EmitFails
  <2>1. phase' = "failed" /\ job' = job /\ WideName
    BY <1>7, WideAtEmit DEF EmitFails
  <2> QED BY <2>1, LaterNames
<1>8. CASE Emit
  <2>1. phase' = "read" /\ job' = job
    BY <1>8 DEF Emit
  <2>2. ~WideName
    BY <1>8, WideAtEmit DEF Emit, WideName
  <2> QED BY <2>1, <2>2, LaterNames
<1>9. CASE ReadStart \/ ReadText \/ ReadEnd
  <2>1. phase = "read" /\ phase' \in {"read", "done", "unreadable"} /\ job' = job
    BY <1>9 DEF ReadStart, ReadText, ReadEnd, Reading, Attach, Unreadable
  <2>2. ~WideName
    BY <2>1 DEF NamesInv, FailsOnlyForNames
  <2> QED BY <2>1, <2>2, LaterNames
<1>10. CASE Done \/ UNCHANGED vars
  <2>1. UNCHANGED <<job, phase, stack, out>>
    BY <1>10 DEF Done, vars
  <2>2. NamesOf' = NamesOf /\ Effective' = Effective
    BY <2>1 DEF NamesOf, Effective
  <2>3. NoJob' = NoJob /\ WideName' = WideName
    BY <2>1, <2>2 DEF NoJob, WideName
  <2>4. FailsOnlyForNames'
    BY <2>1, <2>3 DEF FailsOnlyForNames, NamesInv
  <2> QED BY <2>1, <2>2, <2>4 DEF NamesInv
<1> QED BY <1>1, <1>2, <1>3, <1>4, <1>5, <1>6, <1>7, <1>8, <1>9, <1>10 DEF Next

LEMMA InitNames == Init => NamesInv
BY DEF Init, NamesInv, FailsOnlyForNames

\* A job fails if it is none, or in byte mode for a name that has a character
\* beyond U+00FF: never for what escape has written (emit, writer/writer.go).
THEOREM OnlyNamesFail == Spec => []FailsOnlyForNames
<1>1. Spec => [](IInv /\ NamesInv)
  BY InitInvariant, NextInvariant, InitNames, NextNames, PTL DEF Spec
<1>2. NamesInv => FailsOnlyForNames
  BY DEF NamesInv
<1> QED BY <1>1, <1>2, PTL

(***************************************************************************)
(* What is put out and read back: the bytes of a character, of a text,     *)
(* and the characters read where they were put.                            *)
(***************************************************************************)

LEMMA Digits ==
  \A x \in 0..63 : (128 + x) % 64 = x /\ IsTrail(128 + x) /\ 128 + x \in Nat /\ x \in Nat
BY Z3 DEF IsTrail

\* A number by its digits to the base 64.
LEMMA Split ==
  \A c \in Nat : /\ c = (c \div 64) * 64 + (c % 64) /\ (c % 64) \in 0..63 /\ c \div 64 \in Nat
                 /\ (c \div 64) \div 64 = c \div 4096
                 /\ (c \div 4096) \div 64 = c \div 262144
                 /\ c \div 4096 \in Nat /\ c \div 262144 \in Nat
BY Z3

Form1(c) == <<c>>
Form2(c) == <<192 + (c \div 64), Trail(c, 1)>>
Form3(c) == <<224 + (c \div 4096), Trail(c, 64), Trail(c, 1)>>
Form4(c) == <<240 + (c \div 262144), Trail(c, 4096), Trail(c, 64), Trail(c, 1)>>

\* How many bytes a character takes, and which.
LEMMA Utf8Forms ==
  ASSUME NEW c \in CodePoint
  PROVE  /\ c < 128 => Utf8(c) = Form1(c)
         /\ 128 <= c /\ c < 2048 => Utf8(c) = Form2(c)
         /\ 2048 <= c /\ c < 65536 => Utf8(c) = Form3(c)
         /\ 65536 <= c => Utf8(c) = Form4(c)
<1>1. c \in Nat
  BY DEF CodePoint
<1>2. c < 128 => Utf8(c) = <<c>>
  BY <1>1 DEF Utf8
<1>3. 128 <= c /\ c < 2048 => Utf8(c) = <<192 + (c \div 64), Trail(c, 1)>>
  BY <1>1 DEF Utf8
<1>4. 2048 <= c /\ c < 65536 => Utf8(c) = <<224 + (c \div 4096), Trail(c, 64), Trail(c, 1)>>
  BY <1>1 DEF Utf8
<1>5. 65536 <= c => Utf8(c) = <<240 + (c \div 262144), Trail(c, 4096), Trail(c, 64), Trail(c, 1)>>
  BY <1>1 DEF Utf8
<1> QED BY <1>2, <1>3, <1>4, <1>5 DEF Form1, Form2, Form3, Form4

\* The trailing bytes of a character are the digits of its number.
LEMMA Trails ==
  ASSUME NEW c \in CodePoint
  PROVE  /\ IsTrail(Trail(c, 1)) /\ IsTrail(Trail(c, 64)) /\ IsTrail(Trail(c, 4096))
         /\ Trail(c, 1) \in Nat /\ Trail(c, 64) \in Nat /\ Trail(c, 4096) \in Nat
         /\ Trail(c, 1) % 64 = c % 64
         /\ Trail(c, 64) % 64 = (c \div 64) % 64
         /\ Trail(c, 4096) % 64 = (c \div 4096) % 64
<1>1. c \in Nat
  BY DEF CodePoint
<1>2. c \div 1 = c
  BY <1>1, Z3
<1>3. /\ Trail(c, 1) = 128 + (c % 64)
      /\ Trail(c, 64) = 128 + ((c \div 64) % 64)
      /\ Trail(c, 4096) = 128 + ((c \div 4096) % 64)
  BY <1>2 DEF Trail
<1>4. /\ (c % 64) \in 0..63
      /\ ((c \div 64) % 64) \in 0..63
      /\ ((c \div 4096) % 64) \in 0..63
  BY <1>1, Split
<1> DEFINE x == c % 64
           y == (c \div 64) % 64
           z == (c \div 4096) % 64
<1>5. /\ x \in 0..63 /\ y \in 0..63 /\ z \in 0..63
      /\ Trail(c, 1) = 128 + x /\ Trail(c, 64) = 128 + y /\ Trail(c, 4096) = 128 + z
  BY <1>3, <1>4
<1> HIDE DEF x, y, z
<1>6. /\ IsTrail(Trail(c, 1)) /\ IsTrail(Trail(c, 64)) /\ IsTrail(Trail(c, 4096))
      /\ Trail(c, 1) \in Nat /\ Trail(c, 64) \in Nat /\ Trail(c, 4096) \in Nat
      /\ Trail(c, 1) % 64 = x /\ Trail(c, 64) % 64 = y /\ Trail(c, 4096) % 64 = z
  BY <1>5, Digits
<1> QED BY <1>6 DEF x, y, z

\* The number a leading byte and its trailing bytes stand for.
LEMMA Weights ==
  ASSUME NEW c \in CodePoint
  PROVE  /\ c = (c \div 64) * 64 + (c % 64)
         /\ c = (c \div 4096) * 4096 + ((c \div 64) % 64) * 64 + (c % 64)
         /\ c = (c \div 262144) * 262144 + ((c \div 4096) % 64) * 4096
                 + ((c \div 64) % 64) * 64 + (c % 64)
         /\ c < 2048 => c \div 64 < 32
         /\ 128 <= c => c \div 64 >= 2
         /\ c < 65536 => c \div 4096 < 16
         /\ c \div 262144 < 5
         /\ c \div 64 \in Nat /\ c \div 4096 \in Nat /\ c \div 262144 \in Nat
<1>1. c \in Nat /\ c <= 1114111
  <2>1. c \in Nat /\ c <= LastRune
    BY Runes DEF CodePoint
  <2>2. LastRune = 1114111
    BY Z3 DEF LastRune
  <2> QED BY <2>1, <2>2
<1>2. c = (c \div 64) * 64 + (c % 64) /\ c \div 64 \in Nat /\ (c % 64) \in 0..63
  BY <1>1, Split
<1>3. c \div 64 = (c \div 4096) * 64 + ((c \div 64) % 64) /\ c \div 4096 \in Nat /\ ((c \div 64) % 64) \in 0..63
  BY <1>1, Split
<1>4. /\ c \div 4096 = (c \div 262144) * 64 + ((c \div 4096) % 64)
      /\ c \div 262144 \in Nat /\ ((c \div 4096) % 64) \in 0..63
  BY <1>1, Split
<1> DEFINE a == c \div 64
           b == c \div 4096
           d == c \div 262144
           x == c % 64
           y == (c \div 64) % 64
           z == (c \div 4096) % 64
<1>5. /\ c \in Nat /\ a \in Nat /\ b \in Nat /\ d \in Nat /\ x \in 0..63 /\ y \in 0..63 /\ z \in 0..63
      /\ c = a * 64 + x /\ a = b * 64 + y /\ b = d * 64 + z /\ c <= 1114111
  BY <1>1, <1>2, <1>3, <1>4
<1> HIDE DEF a, b, d, x, y, z
<1>6. /\ c = a * 64 + x
      /\ c = b * 4096 + y * 64 + x
      /\ c = d * 262144 + z * 4096 + y * 64 + x
      /\ c < 2048 => a < 32
      /\ 128 <= c => a >= 2
      /\ c < 65536 => b < 16
      /\ d < 5
  BY <1>5, Z3
<1> QED BY <1>5, <1>6 DEF a, b, d, x, y, z

\* A first byte announces the length of its character, and the bytes add up to it.
LEMMA Announcing ==
  \A b \in Nat : /\ b < 128 => Announced(b) = {1}
                 /\ 192 <= b /\ b < 224 => Announced(b) = {2}
                 /\ 224 <= b /\ b < 240 => Announced(b) = {3}
                 /\ 240 <= b /\ b < 248 => Announced(b) = {4}
                 /\ IsTrail(b) => Announced(b) = {}
<1> TAKE b \in Nat
<1>1. /\ b < 128 => b \notin 192..223 /\ b \notin 224..239 /\ b \notin 240..247
      /\ 192 <= b /\ b < 224 => ~(b < 128) /\ b \in 192..223 /\ b \notin 224..239 /\ b \notin 240..247
      /\ 224 <= b /\ b < 240 => ~(b < 128) /\ b \notin 192..223 /\ b \in 224..239 /\ b \notin 240..247
      /\ 240 <= b /\ b < 248 => ~(b < 128) /\ b \notin 192..223 /\ b \notin 224..239 /\ b \in 240..247
      /\ IsTrail(b) => ~(b < 128) /\ b \notin 192..223 /\ b \notin 224..239 /\ b \notin 240..247
  BY Z3 DEF IsTrail
<1>2. b < 128 => Announced(b) = {1}
  BY <1>1 DEF Announced
<1>3. 192 <= b /\ b < 224 => Announced(b) = {2}
  BY <1>1 DEF Announced
<1>4. 224 <= b /\ b < 240 => Announced(b) = {3}
  BY <1>1 DEF Announced
<1>5. 240 <= b /\ b < 248 => Announced(b) = {4}
  BY <1>1 DEF Announced
<1>6. IsTrail(b) => Announced(b) = {}
  BY <1>1 DEF Announced
<1> QED BY <1>2, <1>3, <1>4, <1>5, <1>6

\* The lengths and the elements of short sequences.
LEMMA Tuples ==
  /\ \A a \in Nat : <<a>> \in Seq(Nat) /\ Len(<<a>>) = 1 /\ <<a>>[1] = a
  /\ \A a, b \in Nat : <<a, b>> \in Seq(Nat) /\ Len(<<a, b>>) = 2 /\ <<a, b>>[1] = a /\ <<a, b>>[2] = b
  /\ \A a, b, c \in Nat : /\ <<a, b, c>> \in Seq(Nat) /\ Len(<<a, b, c>>) = 3
                           /\ <<a, b, c>>[1] = a /\ <<a, b, c>>[2] = b /\ <<a, b, c>>[3] = c
  /\ \A a, b, c, d \in Nat : /\ <<a, b, c, d>> \in Seq(Nat) /\ Len(<<a, b, c, d>>) = 4
                              /\ <<a, b, c, d>>[1] = a /\ <<a, b, c, d>>[2] = b
                              /\ <<a, b, c, d>>[3] = c /\ <<a, b, c, d>>[4] = d
OBVIOUS

Back(u, c) ==
  /\ u \in Seq(Nat) /\ Len(u) \in 1..4
  /\ Announced(u[1]) = {Len(u)} /\ Weighed(u) = c
  /\ \A j \in 2..Len(u) : IsTrail(u[j])

\* What is read where a character was written is the character.
LEMMA Utf8Back ==
  ASSUME NEW c \in CodePoint
  PROVE  Back(Utf8(c), c)
<1>1. c \in Nat
  BY DEF CodePoint
<1>2. /\ IsTrail(Trail(c, 1)) /\ IsTrail(Trail(c, 64)) /\ IsTrail(Trail(c, 4096))
      /\ Trail(c, 1) \in Nat /\ Trail(c, 64) \in Nat /\ Trail(c, 4096) \in Nat
      /\ Trail(c, 1) % 64 = c % 64
      /\ Trail(c, 64) % 64 = (c \div 64) % 64
      /\ Trail(c, 4096) % 64 = (c \div 4096) % 64
  BY Trails
<1>3. CASE c < 128
  <2>1. Utf8(c) = <<c>>
    BY <1>3, Utf8Forms DEF Form1
  <2>2. /\ <<c>> \in Seq(Nat) /\ Len(<<c>>) = 1 /\ <<c>>[1] = c
    BY <1>1, Tuples
  <2>3. Announced(c) = {1}
    BY <1>1, <1>3, Announcing
  <2>4. Weighed(<<c>>) = c
    BY <2>2 DEF Weighed
  <2>5. Back(<<c>>, c)
    BY <2>2, <2>3, <2>4 DEF Back
  <2> QED BY <2>1, <2>5
<1>4. CASE 128 <= c /\ c < 2048
  <2> DEFINE a == 192 + (c \div 64)
             x == Trail(c, 1)
             s == <<a, x>>
  <2>1. Utf8(c) = s
    BY <1>4, Utf8Forms DEF Form2
  <2>2. c \div 64 < 32 /\ c \div 64 \in Nat /\ c = (c \div 64) * 64 + (c % 64)
    BY <1>4, Weights
  <2>3. a - 192 = c \div 64 /\ a \in Nat /\ 192 <= a /\ a < 224
    BY <2>2
  <2>4. (a - 192) * 64 + (x % 64) = c
    BY <1>2, <2>2, <2>3
  <2> HIDE DEF a
  <2>5. x \in Nat /\ IsTrail(x)
    BY <1>2
  <2> HIDE DEF x
  <2>6. s \in Seq(Nat) /\ Len(s) = 2 /\ s[1] = a /\ s[2] = x
    BY <2>3, <2>5, Tuples
  <2>7. Announced(a) = {2}
    BY <2>3, Announcing
  <2> HIDE DEF s
  <2>8. Weighed(s) = (s[1] - 192) * 64 + (s[2] % 64)
    BY <2>6 DEF Weighed
  <2>9. Weighed(s) = c
    BY <2>4, <2>6, <2>8
  <2>10. \A j \in 2..Len(s) : IsTrail(s[j])
    BY <2>5, <2>6
  <2>11. Back(s, c)
    BY <2>6, <2>7, <2>9, <2>10 DEF Back
  <2> QED BY <2>1, <2>11
<1>5. CASE 2048 <= c /\ c < 65536
  <2> DEFINE a == 224 + (c \div 4096)
             x == Trail(c, 64)
             y == Trail(c, 1)
             s == <<a, x, y>>
  <2>1. Utf8(c) = s
    BY <1>5, Utf8Forms DEF Form3
  <2>2. /\ c \div 4096 < 16 /\ c \div 4096 \in Nat
        /\ c = (c \div 4096) * 4096 + ((c \div 64) % 64) * 64 + (c % 64)
    BY <1>5, Weights
  <2>3. a - 224 = c \div 4096 /\ a \in Nat /\ 224 <= a /\ a < 240
    BY <2>2
  <2>4. (a - 224) * 4096 + (x % 64) * 64 + (y % 64) = c
    BY <1>2, <2>2, <2>3
  <2> HIDE DEF a
  <2>5. x \in Nat /\ IsTrail(x) /\ y \in Nat /\ IsTrail(y)
    BY <1>2
  <2> HIDE DEF x, y
  <2>6. s \in Seq(Nat) /\ Len(s) = 3 /\ s[1] = a /\ s[2] = x /\ s[3] = y
    BY <2>3, <2>5, Tuples
  <2>7. Announced(a) = {3}
    BY <2>3, Announcing
  <2> HIDE DEF s
  <2>8. Weighed(s) = (s[1] - 224) * 4096 + (s[2] % 64) * 64 + (s[3] % 64)
    BY <2>6 DEF Weighed
  <2>9. Weighed(s) = c
    BY <2>4, <2>6, <2>8
  <2>10. \A j \in 2..Len(s) : IsTrail(s[j])
    <3>1. \A j \in 2..3 : j = 2 \/ j = 3
      OBVIOUS
    <3> QED BY <2>5, <2>6, <3>1
  <2>11. Back(s, c)
    BY <2>6, <2>7, <2>9, <2>10 DEF Back
  <2> QED BY <2>1, <2>11
<1>6. CASE 65536 <= c
  <2> DEFINE a == 240 + (c \div 262144)
             x == Trail(c, 4096)
             y == Trail(c, 64)
             z == Trail(c, 1)
             s == <<a, x, y, z>>
  <2>1. Utf8(c) = s
    BY <1>6, Utf8Forms DEF Form4
  <2>2. /\ c \div 262144 < 5 /\ c \div 262144 \in Nat
        /\ c = (c \div 262144) * 262144 + ((c \div 4096) % 64) * 4096
               + ((c \div 64) % 64) * 64 + (c % 64)
    BY Weights
  <2>3. a - 240 = c \div 262144 /\ a \in Nat /\ 240 <= a /\ a < 248
    BY <2>2
  <2>4. (a - 240) * 262144 + (x % 64) * 4096 + (y % 64) * 64 + (z % 64) = c
    BY <1>2, <2>2, <2>3
  <2> HIDE DEF a
  <2>5. x \in Nat /\ IsTrail(x) /\ y \in Nat /\ IsTrail(y) /\ z \in Nat /\ IsTrail(z)
    BY <1>2
  <2> HIDE DEF x, y, z
  <2>6. s \in Seq(Nat) /\ Len(s) = 4 /\ s[1] = a /\ s[2] = x /\ s[3] = y /\ s[4] = z
    BY <2>3, <2>5, Tuples
  <2>7. Announced(a) = {4}
    BY <2>3, Announcing
  <2> HIDE DEF s
  <2>8. Weighed(s) = (s[1] - 240) * 262144 + (s[2] % 64) * 4096 + (s[3] % 64) * 64 + (s[4] % 64)
    BY <2>6 DEF Weighed
  <2>9. Weighed(s) = c
    BY <2>4, <2>6, <2>8
  <2>10. \A j \in 2..Len(s) : IsTrail(s[j])
    <3>1. \A j \in 2..4 : j = 2 \/ j = 3 \/ j = 4
      OBVIOUS
    <3> QED BY <2>5, <2>6, <3>1
  <2>11. Back(s, c)
    BY <2>6, <2>7, <2>9, <2>10 DEF Back
  <2> QED BY <2>1, <2>11
<1> QED BY <1>1, <1>3, <1>4, <1>5, <1>6

\* What stands at p is the character whose bytes start there, and a trailing
\* byte starts none.
LEMMA Slice ==
  ASSUME NEW S, NEW s \in Seq(S), NEW p \in Nat \ {0}, NEW m \in Nat, m <= Len(s), p <= m + 1
  PROVE  /\ SubSeq(s, p, m) \in Seq(S) /\ Len(SubSeq(s, p, m)) = m + 1 - p
         /\ \A j \in 1..m + 1 - p : SubSeq(s, p, m)[j] = s[p + j - 1]
OBVIOUS

\* The character at a place of a text that was laid out from characters.
LEMMA RuneThere ==
  ASSUME NEW c, IsScalar(c), NEW s \in Seq(Int), NEW p \in Nat \ {0},
         p + Len(Utf8(c)) - 1 <= Len(s),
         \A j \in 1..Len(Utf8(c)) : s[p + j - 1] = Utf8(c)[j]
  PROVE  RuneAt(s, p) = {c}
<1>1. c \in CodePoint
  BY DEF IsScalar
<1> DEFINE u == Utf8(c)
           n == Len(u)
           m == p + n - 1
           t == SubSeq(s, p, m)
<1>2. u \in Seq(Nat) /\ n \in 1..4 /\ Announced(u[1]) = {n} /\ Weighed(u) = c
  BY <1>1, Utf8Back DEF Back
<1>3. n \in 1..4 /\ m <= Len(s) /\ \A j \in 1..n : s[p + j - 1] = u[j]
  BY <1>2
<1>4. s[p] = u[1]
  <2>1. 1 \in 1..n /\ p + 1 - 1 = p
    <3>1. n \in 1..4
      BY <1>3
    <3> HIDE DEF n
    <3> QED BY <3>1
  <2> HIDE DEF n, u
  <2> QED BY <1>3, <2>1
<1>5. t = u
  <2>1. m \in Nat /\ p <= m + 1 /\ m + 1 - p = n
    <3>1. n \in 1..4
      BY <1>3
    <3> HIDE DEF n
    <3> QED BY <3>1
  <2> HIDE DEF m, u
  <2>2. t \in Seq(Int) /\ Len(t) = n /\ \A j \in 1..n : t[j] = s[p + j - 1]
    BY <1>3, <2>1, Slice
  <2>3. u \in Seq(Int) /\ Len(u) = n
    BY <1>2 DEF n
  <2> HIDE DEF t, n
  <2>4. \A j \in 1..n : t[j] = u[j]
    BY <1>3, <2>2
  <2> QED BY <2>2, <2>3, <2>4
<1>6. {k \in Announced(s[p]) : p + k - 1 <= Len(s)} = {n}
  <2> HIDE DEF n, u
  <2> QED BY <1>2, <1>3, <1>4 DEF m
<1>7. {Weighed(SubSeq(s, p, p + k - 1)) : k \in {l \in Announced(s[p]) : p + l - 1 <= Len(s)}} = {c}
  <2> HIDE DEF n, u
  <2>1. Weighed(SubSeq(s, p, p + n - 1)) = c
    BY <1>2, <1>5 DEF t, m
  <2> QED BY <1>6, <2>1, Zenon
<1> QED BY <1>5, <1>7, Zenon DEF RuneAt, t, m, n, u

\* No character begins at a trailing byte.
LEMMA NoRune ==
  ASSUME NEW s, NEW p, s[p] \in Nat, IsTrail(s[p])
  PROVE  RuneAt(s, p) = {}
<1>1. Announced(s[p]) = {}
  BY Announcing
<1> QED BY <1>1 DEF RuneAt

\* b is the sequence of the sequences of q, of which the i-th ends at off[i].
Laid(b, q, off) ==
  /\ off \in [0..Len(q) -> Nat] /\ off[0] = 0 /\ off[Len(q)] = Len(b)
  /\ \A i \in 1..Len(q) : /\ off[i] = off[i - 1] + Len(q[i])
                          /\ \A j \in 1..Len(q[i]) : b[off[i - 1] + j] = q[i][j]

Flattens(q, f, m) == f = [i \in 1..m |-> IF i = 1 THEN q[i] ELSE f[i - 1] \o q[i]]

\* The partial concatenations of any sequence of sequences exist.
LEMMA FlattenedUpto == ASSUME NEW q PROVE \A m \in Nat : \E f : Flattens(q, f, m)
<1> DEFINE S == {m \in Nat : \E f : Flattens(q, f, m)}
<1>1. 0 \in S
  <2>1. Flattens(q, [i \in 1..0 |-> 0], 0)
    BY DEF Flattens
  <2> QED BY <2>1
<1>2. ASSUME NEW m \in Nat, m \in S
      PROVE  m + 1 \in S
  <2>1. PICK f : Flattens(q, f, m)
    BY <1>2
  <2> DEFINE v(i, h) == IF i = 1 THEN q[i] ELSE h[i - 1] \o q[i]
             g == [i \in 1..m + 1 |-> v(i, f)]
  <2>2. ASSUME NEW i \in 1..m + 1
        PROVE  v(i, f) = v(i, g)
    <3>1. CASE i = 1
      BY <3>1
    <3>2. CASE i # 1
      <4>1. i - 1 \in 1..m /\ i - 1 \in 1..m + 1
        BY <3>2
      <4>2. f[i - 1] = v(i - 1, f)
        BY <2>1, <4>1, Zenon DEF Flattens
      <4>3. g[i - 1] = v(i - 1, f)
        BY <4>1
      <4> HIDE DEF g
      <4> QED BY <3>2, <4>2, <4>3
    <3> QED BY <3>1, <3>2
  <2>3. g = [i \in 1..m + 1 |-> v(i, g)]
    <3> HIDE DEF v
    <3> QED BY <2>2, Zenon
  <2>4. Flattens(q, g, m + 1)
    BY <2>3, Zenon DEF Flattens
  <2> QED BY <2>4
<1>3. Nat \subseteq S
  <2> HIDE DEF S
  <2> QED BY <1>1, <1>2, Upwards
<1> QED BY <1>3

\* FlattenSeq puts the sequences one after the other.
LEMMA Flattening ==
  ASSUME NEW S, NEW q \in Seq(Seq(S))
  PROVE  FlattenSeq(q) \in Seq(S) /\ \E off : Laid(FlattenSeq(q), q, off)
<1> DEFINE n == Len(q)
<1>1. n \in Nat /\ \A i \in 1..n : q[i] \in Seq(S)
  OBVIOUS
<1>2. CASE n = 0
  <2>1. FlattenSeq(q) = q /\ q = << >>
    BY <1>2 DEF FlattenSeq
  <2>2. Laid(q, q, [i \in 0..0 |-> 0])
    BY <1>2 DEF Laid
  <2> QED BY <2>1, <2>2
<1>3. CASE n # 0
  <2> DEFINE f == CHOOSE f : Flattens(q, f, n)
             h == [i \in 0..n |-> IF i = 0 THEN << >> ELSE f[i]]
             off == [i \in 0..n |-> Len(h[i])]
  <2>1. FlattenSeq(q) = f[n]
    BY <1>3, Zenon DEF FlattenSeq, Flattens
  <2>2. Flattens(q, f, n)
    BY <1>1, FlattenedUpto
  <2> HIDE DEF f
  <2>3. \A i \in 1..n : f[i] = IF i = 1 THEN q[i] ELSE f[i - 1] \o q[i]
    BY <2>2, Zenon DEF Flattens
  <2>4. \A i \in 1..n : h[i] = h[i - 1] \o q[i]
    <3> TAKE i \in 1..n
    <3>1. CASE i = 1
      <4>1. h[i - 1] = << >> /\ h[i] = q[i]
        BY <2>3, <3>1
      <4>2. q[i] \in Seq(S) /\ << >> \o q[i] = q[i]
        BY <1>1
      <4> HIDE DEF h
      <4> QED BY <4>1, <4>2
    <3>2. CASE i # 1
      <4>1. i - 1 \in 1..n /\ i - 1 \in 0..n /\ i - 1 # 0 /\ i \in 0..n /\ i # 0
        BY <1>1, <3>2
      <4>2. h[i - 1] = f[i - 1] /\ h[i] = f[i]
        BY <4>1
      <4> QED BY <2>3, <3>2, <4>2
    <3> QED BY <3>1, <3>2
  <2>5. h[0] = << >> /\ h[n] = f[n] /\ \A i \in 0..n : off[i] = Len(h[i])
    BY <1>1, <1>3
  <2>6. DOMAIN off = 0..n
    OBVIOUS
  <2> HIDE DEF h, off
  <2>7. \A i \in 0..n : h[i] \in Seq(S)
    <3> DEFINE T == {m \in Nat : m <= n => h[m] \in Seq(S)}
    <3>1. 0 \in T
      <4>1. h[0] = << >> /\ << >> \in Seq(S)
        BY <2>5
      <4> QED BY <4>1
    <3>2. ASSUME NEW m \in Nat, m \in T
          PROVE  m + 1 \in T
      <4> SUFFICES ASSUME m + 1 <= n PROVE h[m + 1] \in Seq(S)
        OBVIOUS
      <4>1. h[m] \in Seq(S) /\ q[m + 1] \in Seq(S) /\ m + 1 \in 1..n /\ (m + 1) - 1 = m
        BY <1>1, <3>2
      <4>2. h[m + 1] = h[m] \o q[m + 1]
        BY <2>4, <4>1
      <4> QED BY <4>1, <4>2, Joining
    <3>3. Nat \subseteq T
      <4> HIDE DEF T
      <4> QED BY <3>1, <3>2, Upwards
    <3> QED BY <1>1, <3>3
  <2>8. ASSUME NEW i \in 1..n
        PROVE  /\ i - 1 \in 0..n /\ i \in 0..n
               /\ off[i] = off[i - 1] + Len(q[i]) /\ off[i - 1] \in Nat /\ Len(q[i]) \in Nat
               /\ \A p \in 1..off[i - 1] : h[i][p] = h[i - 1][p]
               /\ \A j \in 1..Len(q[i]) : h[i][off[i - 1] + j] = q[i][j]
    <3> DEFINE a == h[i - 1]
               b == q[i]
               c == h[i]
    <3>1. i - 1 \in 0..n /\ i \in 0..n
      BY <1>1
    <3>2. a \in Seq(S) /\ b \in Seq(S) /\ c = a \o b
      BY <1>1, <2>4, <2>7, <3>1
    <3>3. off[i - 1] = Len(a) /\ off[i] = Len(c)
      BY <2>5, <3>1
    <3> HIDE DEF a, b, c
    <3>4. /\ Len(c) = Len(a) + Len(b) /\ Len(a) \in Nat /\ Len(b) \in Nat
          /\ \A p \in 1..Len(a) : c[p] = a[p]
          /\ \A j \in 1..Len(b) : c[Len(a) + j] = b[j]
      BY <3>2
    <3> QED BY <3>1, <3>3, <3>4 DEF a, b, c
  <2>9. off \in [0..n -> Nat]
    <3>1. \A i \in 0..n : off[i] \in Nat
      BY <2>5, <2>7
    <3> QED BY <2>6, <3>1
  <2>10. \A i \in 1..n : \A j \in 1..Len(q[i]) : h[n][off[i - 1] + j] = q[i][j]
    <3> DEFINE T == {m \in Nat : m <= n =>
                       \A i \in 1..m : \A j \in 1..Len(q[i]) :
                         /\ off[i - 1] + j \in 1..off[m]
                         /\ h[m][off[i - 1] + j] = q[i][j]}
    <3>1. 0 \in T
      OBVIOUS
    <3>2. ASSUME NEW m \in Nat, m \in T
          PROVE  m + 1 \in T
      <4> SUFFICES ASSUME m + 1 <= n, NEW i \in 1..m + 1, NEW j \in 1..Len(q[i])
                   PROVE  off[i - 1] + j \in 1..off[m + 1] /\ h[m + 1][off[i - 1] + j] = q[i][j]
        OBVIOUS
      <4>1. m + 1 \in 1..n /\ (m + 1) - 1 = m /\ i \in 1..n
        BY <1>1
      <4>2. /\ off[m + 1] = off[m] + Len(q[m + 1]) /\ off[m] \in Nat /\ Len(q[m + 1]) \in Nat
            /\ \A p \in 1..off[m] : h[m + 1][p] = h[m][p]
            /\ \A k \in 1..Len(q[m + 1]) : h[m + 1][off[m] + k] = q[m + 1][k]
        <5> DEFINE e == m + 1
        <5>1. e \in 1..n /\ e - 1 = m
          BY <4>1
        <5> HIDE DEF e
        <5>2. /\ off[e] = off[e - 1] + Len(q[e]) /\ off[e - 1] \in Nat /\ Len(q[e]) \in Nat
              /\ \A p \in 1..off[e - 1] : h[e][p] = h[e - 1][p]
              /\ \A k \in 1..Len(q[e]) : h[e][off[e - 1] + k] = q[e][k]
          BY <2>8, <5>1, Zenon
        <5>3. /\ off[e] = off[m] + Len(q[e]) /\ off[m] \in Nat /\ Len(q[e]) \in Nat
              /\ \A p \in 1..off[m] : h[e][p] = h[m][p]
              /\ \A k \in 1..Len(q[e]) : h[e][off[m] + k] = q[e][k]
          BY <5>1, <5>2, Zenon
        <5> QED BY <5>3, Zenon DEF e
      <4>3. CASE i = m + 1
        <5>1. i - 1 = m /\ q[i] = q[m + 1] /\ j \in 1..Len(q[m + 1])
          BY <4>1, <4>3
        <5> DEFINE x == off[m]
                   y == off[m + 1]
                   z == Len(q[m + 1])
        <5>2. y = x + z /\ x \in Nat /\ z \in Nat /\ j \in 1..z
          BY <4>2, <5>1
        <5>3. h[m + 1][x + j] = q[m + 1][j]
          BY <4>2, <5>1
        <5> HIDE DEF x, y, z
        <5>4. x + j \in 1..y
          BY <5>2
        <5> QED BY <5>1, <5>3, <5>4 DEF x, y
      <4>4. CASE i # m + 1
        <5>1. i \in 1..m
          BY <4>4
        <5> DEFINE x == off[i - 1] + j
                   y == off[m]
                   z == Len(q[m + 1])
        <5>2. x \in 1..y /\ h[m][x] = q[i][j]
          BY <3>2, <4>1, <5>1
        <5>3. y \in Nat /\ z \in Nat /\ off[m + 1] = y + z /\ \A p \in 1..y : h[m + 1][p] = h[m][p]
          BY <4>2
        <5> HIDE DEF x, y, z
        <5>4. x \in 1..off[m + 1] /\ h[m + 1][x] = q[i][j]
          BY <5>2, <5>3
        <5> QED BY <5>4 DEF x
      <4> QED BY <4>3, <4>4
    <3>3. Nat \subseteq T
      <4> HIDE DEF T
      <4> QED BY <3>1, <3>2, Upwards
    <3>4. n \in T
      BY <1>1, <3>3
    <3> QED BY <3>4
  <2>11. h[n] \in Seq(S) /\ FlattenSeq(q) = h[n] /\ off[n] = Len(h[n]) /\ off[0] = 0
    BY <1>1, <2>1, <2>5, <2>7
  <2>12. Laid(h[n], q, off)
    BY <2>8, <2>9, <2>10, <2>11 DEF Laid
  <2> QED BY <2>11, <2>12
<1> QED BY <1>2, <1>3

\* Text without a line end is its own normal form.
LEMMA Unfolded ==
  ASSUME NEW v \in Seq(Int), \A k \in DOMAIN v : v[k] \notin LineEnd("1.1")
  PROVE  Normal(v, "1.1") = v
<1> DEFINE n == Len(v)
           w(f, k) == IF k = 0 THEN << >> ELSE f[k - 1] \o Kept(v, k, "1.1")
           S(f) == f = [k \in 0..n |-> w(f, k)]
           f == CHOOSE f : S(f)
           g == [k \in 0..n |-> SubSeq(v, 1, k)]
<1>1. n \in Nat /\ DOMAIN v = 1..n
  OBVIOUS
<1>2. Normal(v, "1.1") = f[n]
  BY Zenon DEF Normal
<1>3. \A k \in 1..n : Kept(v, k, "1.1") = <<v[k]>>
  <2> TAKE k \in 1..n
  <2>1. Halved(v, "1.1") = {}
    <3>1. \A j \in DOMAIN v : v[j] # CR
      BY DEF LineEnd
    <3>2. \A j \in DOMAIN v : j > 1 => j - 1 \in DOMAIN v
      OBVIOUS
    <3> QED BY <3>1, <3>2 DEF Halved
  <2> QED BY <2>1 DEF Kept
<1>4. \A k \in 0..n : SubSeq(v, 1, k) = IF k = 0 THEN << >> ELSE SubSeq(v, 1, k - 1) \o <<v[k]>>
  OBVIOUS
<1>5. S(g)
  <2>1. ASSUME NEW k \in 0..n
        PROVE  SubSeq(v, 1, k) = w(g, k)
    <3>1. CASE k = 0
      BY <1>4, <3>1
    <3>2. CASE k # 0
      <4>1. k - 1 \in 0..n /\ k \in 1..n
        BY <3>2
      <4>2. g[k - 1] = SubSeq(v, 1, k - 1)
        BY <4>1
      <4>3. Kept(v, k, "1.1") = <<v[k]>>
        BY <1>3, <4>1
      <4> HIDE DEF g
      <4> QED BY <1>4, <3>2, <4>2, <4>3
    <3> QED BY <3>1, <3>2
  <2> HIDE DEF w
  <2> QED BY <2>1, Zenon
<1>6. S(f)
  <2> HIDE DEF S, g
  <2> QED BY <1>5
<1> HIDE DEF f
<1>7. \A k \in 0..n : f[k] = w(f, k)
  <2> HIDE DEF w
  <2> QED BY <1>6
<1>8. f[n] = SubSeq(v, 1, n)
  <2> DEFINE T == {k \in Nat : k <= n => f[k] = SubSeq(v, 1, k)}
  <2>1. 0 \in T
    <3>1. f[0] = << >> /\ SubSeq(v, 1, 0) = << >>
      BY <1>1, <1>7
    <3> QED BY <3>1
  <2>2. ASSUME NEW m \in Nat, m \in T
        PROVE  m + 1 \in T
    <3> SUFFICES ASSUME m + 1 <= n PROVE f[m + 1] = SubSeq(v, 1, m + 1)
      OBVIOUS
    <3>1. m + 1 \in 0..n /\ m + 1 \in 1..n /\ (m + 1) - 1 = m /\ m + 1 # 0
      BY <1>1
    <3>2. f[m] = SubSeq(v, 1, m)
      BY <2>2
    <3>3. f[m + 1] = f[m] \o Kept(v, m + 1, "1.1")
      BY <1>7, <3>1
    <3>4. Kept(v, m + 1, "1.1") = <<v[m + 1]>>
      BY <1>3, <3>1
    <3> QED BY <1>4, <3>1, <3>2, <3>3, <3>4
  <2>3. Nat \subseteq T
    <3> HIDE DEF T
    <3> QED BY <2>1, <2>2, Upwards
  <2> QED BY <1>1, <2>3
<1> QED BY <1>2, <1>8

\* The offsets of a layout grow, and end within the sequence laid out.
LEMMA Offsets ==
  ASSUME NEW n \in Nat, NEW off \in [0..n -> Nat], \A i \in 1..n : off[i - 1] <= off[i]
  PROVE  \A j \in 0..n : \A i \in 0..j : off[i] <= off[j]
<1> DEFINE T == {m \in Nat : m <= n => \A i \in 0..m : off[i] <= off[m]}
<1>1. 0 \in T
  <2>1. \A i \in 0..0 : i = 0
    OBVIOUS
  <2>2. off[0] \in Nat
    OBVIOUS
  <2> QED BY <2>1, <2>2
<1>2. ASSUME NEW m \in Nat, m \in T
      PROVE  m + 1 \in T
  <2> SUFFICES ASSUME m + 1 <= n, NEW i \in 0..m + 1 PROVE off[i] <= off[m + 1]
    OBVIOUS
  <2>1. m + 1 \in 1..n /\ (m + 1) - 1 = m /\ off[m] \in Nat /\ off[m + 1] \in Nat /\ off[i] \in Nat
    OBVIOUS
  <2>2. off[m] <= off[m + 1]
    BY <2>1
  <2>3. CASE i = m + 1
    BY <2>1, <2>3
  <2>4. CASE i # m + 1
    <3>1. i \in 0..m
      BY <2>4
    <3>2. off[i] <= off[m]
      BY <1>2, <2>1, <3>1
    <3> QED BY <2>1, <2>2, <3>2
  <2> QED BY <2>3, <2>4
<1>3. Nat \subseteq T
  <2> HIDE DEF T
  <2> QED BY <1>1, <1>2, Upwards
<1> QED BY <1>3

\* Where the pieces of a sequence lie.
LEMMA Pieces ==
  ASSUME NEW S, NEW q \in Seq(Seq(S)), NEW b, NEW off, Laid(b, q, off)
  PROVE  /\ Len(q) \in Nat /\ off \in [0..Len(q) -> Nat]
         /\ \A i \in 1..Len(q) : /\ i - 1 \in 0..Len(q) /\ i \in 0..Len(q) /\ Len(q[i]) \in Nat
                                 /\ off[i - 1] \in Nat /\ off[i] \in Nat
                                 /\ off[i] = off[i - 1] + Len(q[i]) /\ off[i] <= Len(b)
         /\ \A j \in 0..Len(q) : \A i \in 0..j : off[i] <= off[j]
         /\ Len(b) \in Nat
<1> DEFINE n == Len(q)
<1>1. n \in Nat /\ \A i \in 1..n : q[i] \in Seq(S) /\ Len(q[i]) \in Nat
  OBVIOUS
<1> HIDE DEF n
<1>2. /\ off \in [0..n -> Nat] /\ off[n] = Len(b)
      /\ \A i \in 1..n : off[i] = off[i - 1] + Len(q[i])
  BY Zenon DEF Laid, n
<1>3. \A i \in 1..n : i - 1 \in 0..n /\ i \in 0..n /\ off[i - 1] \in Nat /\ off[i] \in Nat
  BY <1>1, <1>2
<1>4. \A i \in 1..n : off[i - 1] <= off[i]
  <2> TAKE i \in 1..n
  <2>1. off[i] = off[i - 1] + Len(q[i])
    BY <1>2
  <2>2. off[i - 1] \in Nat /\ Len(q[i]) \in Nat
    BY <1>1, <1>3
  <2> QED BY <2>1, <2>2
<1>5. \A j \in 0..n : \A i \in 0..j : off[i] <= off[j]
  BY <1>1, <1>2, <1>4, Offsets
<1>6. n \in 0..n /\ off[n] \in Nat
  BY <1>1, <1>2
<1>7. \A i \in 1..n : off[i] <= Len(b)
  <2> TAKE i \in 1..n
  <2>1. i \in 0..n
    BY <1>1
  <2> QED BY <1>2, <1>5, <1>6, <2>1
<1> QED BY <1>1, <1>2, <1>3, <1>5, <1>6, <1>7 DEF n

Lies(p, q, off) == \E i \in 1..Len(q) : \E j \in 1..Len(q[i]) : p = off[i - 1] + j

\* Every place of what is laid out lies in one of the pieces.
LEMMA Located ==
  ASSUME NEW S, NEW q \in Seq(Seq(S)), NEW b, NEW off, Laid(b, q, off), NEW p \in 1..Len(b)
  PROVE  Lies(p, q, off)
<1> DEFINE n == Len(q)
<1>1. /\ n \in Nat /\ off \in [0..n -> Nat] /\ off[0] = 0 /\ off[n] = Len(b) /\ Len(b) \in Nat
      /\ \A i \in 1..n : /\ i - 1 \in 0..n /\ Len(q[i]) \in Nat /\ off[i - 1] \in Nat
                         /\ off[i] = off[i - 1] + Len(q[i])
  <2>1. off[0] = 0 /\ off[n] = Len(b)
    BY DEF Laid
  <2> QED BY <2>1, Pieces
<1> HIDE DEF n
<1> DEFINE R == {i \in 0..n : p <= off[i]}
<1>2. PICK i \in R : \A k \in R : i <= k
  <2>1. R \in SUBSET Nat /\ n \in R
    BY <1>1
  <2> HIDE DEF R
  <2> QED BY <2>1, LeastNatural
<1>3. i # 0
  BY <1>1, <1>2
<1>4. i \in 1..n /\ i - 1 \in 0..n
  BY <1>1, <1>2, <1>3
<1>5. ~(i <= i - 1)
  BY <1>1, <1>4
<1>6. ~(p <= off[i - 1])
  BY <1>2, <1>4, <1>5
<1>7. p <= off[i] /\ off[i] = off[i - 1] + Len(q[i]) /\ off[i - 1] \in Nat /\ Len(q[i]) \in Nat
  BY <1>1, <1>2, <1>4
<1> DEFINE j == p - off[i - 1]
<1>8. j \in 1..Len(q[i]) /\ p = off[i - 1] + j
  <2> DEFINE x == off[i - 1]
             y == Len(q[i])
  <2>1. p <= x + y /\ ~(p <= x) /\ x \in Nat /\ y \in Nat /\ p \in Nat
    BY <1>1, <1>6, <1>7
  <2> HIDE DEF x, y
  <2>2. p - x \in 1..y /\ p = x + (p - x)
    BY <2>1
  <2> QED BY <2>2 DEF x, y
<1> QED BY <1>4, <1>8 DEF n, Lies

\* What a character, or the number of a reference, is in the encoding declared.
Unit(c, d) == IF c < 0 \/ d = "ISO-8859-1" THEN <<c>> ELSE Utf8(c)
Units(v, d) == [k \in DOMAIN v |-> Unit(v[k], d)]
Spells(b, v, d) == b \in Seq(Int) /\ \E off : Laid(b, Units(v, d), off)
\* A character that stands as it is, or the number of one: no line end.
Plain(c) == c \in Int /\ (c < 0 \/ IsScalar(c)) /\ c \notin LineEnd("1.1")

\* What a character is written as is a sequence of numbers.
LEMMA UnitBytes ==
  ASSUME NEW c, Plain(c), NEW d
  PROVE  /\ Unit(c, d) \in Seq(Int) /\ Len(Unit(c, d)) \in Nat \ {0}
         /\ c < 0 \/ d = "ISO-8859-1" => Unit(c, d) = <<c>>
         /\ ~(c < 0 \/ d = "ISO-8859-1") =>
              /\ Unit(c, d) = Utf8(c) /\ IsScalar(c)
              /\ \A j \in 1..Len(Unit(c, d)) : Unit(c, d)[j] \in Nat
              /\ \A j \in 2..Len(Unit(c, d)) : IsTrail(Unit(c, d)[j])
<1>1. CASE c < 0 \/ d = "ISO-8859-1"
  <2>1. Unit(c, d) = <<c>> /\ c \in Int
    BY <1>1 DEF Unit, Plain
  <2> QED BY <1>1, <2>1
<1>2. CASE ~(c < 0 \/ d = "ISO-8859-1")
  <2>1. Unit(c, d) = Utf8(c) /\ IsScalar(c) /\ c \in CodePoint
    BY <1>2 DEF Unit, Plain, IsScalar
  <2> DEFINE u == Utf8(c)
  <2>2. u \in Seq(Nat) /\ Len(u) \in 1..4 /\ \A j \in 2..Len(u) : IsTrail(u[j])
    BY <2>1, Utf8Back DEF Back
  <2> HIDE DEF u
  <2>3. u \in Seq(Int) /\ Len(u) \in Nat \ {0} /\ \A j \in 1..Len(u) : u[j] \in Nat
    BY <2>2
  <2> QED BY <1>2, <2>1, <2>2, <2>3 DEF u
<1> QED BY <1>1, <1>2

\* One step of the decoder.
Prepended(c, S) == {<<c>> \o rest : rest \in S}
Step(b, d, h, k) ==
  IF k > Len(b) THEN {<<>>}
  ELSE IF b[k] < 0 \/ d = "ISO-8859-1" THEN Prepended(b[k], h[k + 1])
  ELSE UNION {Prepended(r, h[k + Len(Utf8(r))]) : r \in RuneAt(b, k)}

\* It reads a unit where one begins, and nothing inside of one.
LEMMA StepAtUnit ==
  ASSUME NEW b \in Seq(Int), NEW d, NEW h, NEW c, Plain(c), NEW p \in Nat \ {0},
         p + Len(Unit(c, d)) - 1 <= Len(b),
         \A j \in 1..Len(Unit(c, d)) : b[p + j - 1] = Unit(c, d)[j]
  PROVE  Step(b, d, h, p) = Prepended(c, h[p + Len(Unit(c, d))])
<1> DEFINE u == Unit(c, d)
<1>1. u \in Seq(Int) /\ Len(u) \in Nat \ {0}
  BY UnitBytes
<1>2. ~(p > Len(b)) /\ b[p] = u[1]
  <2>1. 1 \in 1..Len(u) /\ p + 1 - 1 = p /\ Len(b) \in Nat
    BY <1>1
  <2>2. p <= Len(b)
    <3> DEFINE m == Len(u)
    <3>1. m \in Nat \ {0} /\ p + m - 1 <= Len(b)
      BY <1>1
    <3> HIDE DEF m
    <3> QED BY <2>1, <3>1
  <2> HIDE DEF u
  <2>3. \A j \in 1..Len(u) : b[p + j - 1] = u[j]
    BY DEF u
  <2> QED BY <2>1, <2>2, <2>3
<1>3. CASE c < 0 \/ d = "ISO-8859-1"
  <2>1. u = <<c>> /\ Len(u) = 1 /\ u[1] = c
    <3>1. u = <<c>>
      BY <1>3, UnitBytes
    <3> QED BY <3>1
  <2> HIDE DEF u
  <2>2. Step(b, d, h, p) = Prepended(c, h[p + 1])
    BY <1>2, <1>3, <2>1, Zenon DEF Step
  <2> QED BY <2>1, <2>2 DEF u
<1>4. CASE ~(c < 0 \/ d = "ISO-8859-1")
  <2>1. u = Utf8(c) /\ IsScalar(c) /\ u[1] \in Nat
    <3>1. 1 \in 1..Len(u)
      BY <1>1
    <3> QED BY <1>4, <3>1, UnitBytes
  <2>2. RuneAt(b, p) = {c}
    BY <2>1, RuneThere
  <2>3. ~(b[p] < 0)
    <3> HIDE DEF u
    <3> QED BY <1>2, <2>1
  <2>4. Step(b, d, h, p) = UNION {Prepended(r, h[p + Len(Utf8(r))]) : r \in RuneAt(b, p)}
    BY <1>2, <1>4, <2>3, Zenon DEF Step
  <2> HIDE DEF u
  <2>5. Step(b, d, h, p) = Prepended(c, h[p + Len(Utf8(c))])
    BY <2>2, <2>4
  <2> QED BY <2>1, <2>5 DEF u
<1> QED BY <1>3, <1>4

\* Inside a character nothing can be read.
LEMMA StepInside ==
  ASSUME NEW b \in Seq(Int), NEW d, NEW h, NEW c, Plain(c), NEW p \in 1..Len(b),
         NEW j \in 2..Len(Unit(c, d)), b[p] = Unit(c, d)[j]
  PROVE  Step(b, d, h, p) = {}
<1> DEFINE u == Unit(c, d)
<1>1. ~(c < 0 \/ d = "ISO-8859-1")
  <2> SUFFICES ASSUME c < 0 \/ d = "ISO-8859-1" PROVE FALSE
    OBVIOUS
  <2>1. Len(Unit(c, d)) = 1
    <3>1. Unit(c, d) = <<c>>
      BY UnitBytes
    <3> QED BY <3>1
  <2> QED BY <2>1
<1>2. u[j] \in Nat /\ IsTrail(u[j])
  <2>1. j \in 1..Len(u) /\ j \in 2..Len(u)
    <3>1. Len(u) \in Nat
      BY UnitBytes
    <3> QED BY <3>1
  <2> QED BY <1>1, <2>1, UnitBytes
<1>3. RuneAt(b, p) = {}
  BY <1>2, NoRune
<1>4. ~(p > Len(b)) /\ ~(b[p] < 0)
  BY <1>2
<1>5. Step(b, d, h, p) = UNION {Prepended(r, h[p + Len(Utf8(r))]) : r \in RuneAt(b, p)}
  BY <1>1, <1>4, Zenon DEF Step
<1> QED BY <1>3, <1>5

Steps(b, d, h) == h = [k \in 1..Len(b) + 1 |-> Step(b, d, h, k)]

Spelt(v, d, b, off) ==
  /\ v \in Seq(Int) /\ \A k \in DOMAIN v : Plain(v[k])
  /\ b \in Seq(Int) /\ Laid(b, Units(v, d), off)
Boundaries(v, d, b, off) ==
  /\ Units(v, d) \in Seq(Seq(Int)) /\ Len(Units(v, d)) = Len(v)
  /\ \A i \in 1..Len(v) : Units(v, d)[i] = Unit(v[i], d)
  /\ off \in [0..Len(v) -> Nat] /\ off[0] = 0 /\ off[Len(v)] = Len(b)
  /\ \A i \in 1..Len(v) : /\ Plain(v[i]) /\ i - 1 \in 0..Len(v)
                          /\ off[i] = off[i - 1] + Len(Unit(v[i], d))
                          /\ Len(Unit(v[i], d)) \in Nat \ {0}
                          /\ off[i - 1] \in Nat /\ off[i] \in Nat /\ off[i] <= Len(b)
                          /\ \A j \in 1..Len(Unit(v[i], d)) :
                               b[off[i - 1] + j] = Unit(v[i], d)[j]
  /\ \A j \in 0..Len(v) : \A i \in 0..j : off[i] <= off[j]

\* Where the characters of a spelling begin and end.
LEMMA UnitsLaid ==
  ASSUME NEW v, NEW d, NEW b, NEW off, Spelt(v, d, b, off)
  PROVE  Boundaries(v, d, b, off)
<1> DEFINE n == Len(v)
           q == Units(v, d)
<1>1. n \in Nat /\ DOMAIN v = 1..n /\ v \in Seq(Int)
  BY DEF Spelt
<1>2. \A i \in 1..n : Plain(v[i]) /\ Unit(v[i], d) \in Seq(Int) /\ Len(Unit(v[i], d)) \in Nat \ {0}
  BY <1>1, UnitBytes DEF Spelt
<1>3. q \in [1..n -> Seq(Int)] /\ \A i \in 1..n : q[i] = Unit(v[i], d)
  BY <1>1, <1>2 DEF Units
<1> HIDE DEF q
<1>4. q \in Seq(Seq(Int)) /\ Len(q) = n
  BY <1>1, <1>3
<1>5. /\ off[0] = 0 /\ off[n] = Len(b)
      /\ \A i \in 1..n : \A j \in 1..Len(q[i]) : b[off[i - 1] + j] = q[i][j]
  BY <1>4 DEF Spelt, Laid, q
<1>6. /\ off \in [0..n -> Nat]
      /\ \A i \in 1..n : /\ i - 1 \in 0..n /\ off[i - 1] \in Nat /\ off[i] \in Nat
                         /\ off[i] = off[i - 1] + Len(q[i]) /\ off[i] <= Len(b)
      /\ \A j \in 0..n : \A i \in 0..j : off[i] <= off[j]
  <2>1. Laid(b, q, off)
    BY DEF Spelt, q
  <2> QED BY <1>4, <2>1, Pieces
<1> QED BY <1>2, <1>3, <1>4, <1>5, <1>6 DEF q, Boundaries

\* Any solution reads at a boundary what it reads at the next, with the unit's
\* character before it.
LEMMA StepAtBoundary ==
  ASSUME NEW v, NEW d, NEW b, NEW off, Spelt(v, d, b, off), NEW h, NEW i \in 1..Len(v)
  PROVE  Step(b, d, h, off[i - 1] + 1) = Prepended(v[i], h[off[i] + 1])
<1> DEFINE o == off[i - 1]
           u == Unit(v[i], d)
           m == Len(u)
<1>1. /\ Plain(v[i]) /\ o \in Nat /\ off[i] = o + m /\ off[i] <= Len(b)
      /\ m \in Nat \ {0} /\ b \in Seq(Int) /\ Len(b) \in Nat
      /\ \A j \in 1..m : b[o + j] = u[j]
  <2>1. Boundaries(v, d, b, off)
    BY UnitsLaid
  <2>2. b \in Seq(Int) /\ Len(b) \in Nat
    BY DEF Spelt
  <2> QED BY <2>1, <2>2 DEF Boundaries
<1> HIDE DEF o, m
<1>2. /\ o + 1 \in Nat \ {0} /\ o + 1 + m - 1 <= Len(b) /\ o + 1 + m = off[i] + 1
      /\ \A j \in 1..m : o + 1 + j - 1 = o + j
  BY <1>1
<1>3. \A j \in 1..m : b[o + 1 + j - 1] = u[j]
  BY <1>1, <1>2
<1> DEFINE p == o + 1
<1>4. p \in Nat \ {0} /\ p + m - 1 <= Len(b) /\ \A j \in 1..m : b[p + j - 1] = u[j]
  BY <1>2, <1>3
<1> HIDE DEF p
<1>5. Step(b, d, h, p) = Prepended(v[i], h[p + m])
  BY <1>1, <1>4, StepAtUnit DEF m
<1> QED BY <1>2, <1>5, Zenon DEF p, o

\* At the end there is nothing left to read.
LEMMA StepAtEnd ==
  ASSUME NEW b \in Seq(Int), NEW d, NEW h
  PROVE  Step(b, d, h, Len(b) + 1) = {<< >>}
<1>1. Len(b) + 1 > Len(b)
  <2>1. Len(b) \in Nat
    OBVIOUS
  <2> QED BY <2>1
<1> QED BY <1>1, Zenon DEF Step

\* The recursion of the reader over the places of a text has a solution.
LEMMA StepsSolved ==
  ASSUME NEW v, NEW d, NEW b, NEW off, Spelt(v, d, b, off)
  PROVE  \E h : Steps(b, d, h)
<1> DEFINE n == Len(v)
           At(p) == {i \in 0..n : off[i] + 1 = p}
           Heard(p) == {SubSeq(v, i + 1, n) : i \in At(p)}
           g == [p \in 1..Len(b) + 1 |-> Heard(p)]
<1>1. Boundaries(v, d, b, off) /\ v \in Seq(Int) /\ b \in Seq(Int)
  BY UnitsLaid DEF Spelt
<1>2. n \in Nat /\ Len(b) \in Nat
  BY <1>1
<1>3. off \in [0..n -> Nat] /\ off[0] = 0 /\ off[n] = Len(b)
  BY <1>1 DEF Boundaries
<1>4. ASSUME NEW i \in 1..n
      PROVE  /\ i - 1 \in 0..n /\ i \in 0..n /\ off[i - 1] \in Nat /\ off[i] \in Nat
             /\ off[i - 1] < off[i] /\ off[i] <= Len(b)
  <2> DEFINE m == Len(Unit(v[i], d))
  <2>1. off[i] = off[i - 1] + m /\ m \in Nat \ {0} /\ off[i - 1] \in Nat /\ off[i] <= Len(b)
    BY <1>1 DEF Boundaries
  <2> HIDE DEF m
  <2> QED BY <1>2, <2>1
<1>5. \A j \in 0..n : \A i \in 0..j : off[i] <= off[j]
  BY <1>1 DEF Boundaries
<1>6. \A i \in 0..n : off[i] \in Nat /\ off[i] <= Len(b)
  <2> TAKE i \in 0..n
  <2>1. n \in 0..n /\ i \in 0..n
    BY <1>2
  <2> QED BY <1>3, <1>5, <2>1
\* The boundaries are distinct.
<1>7. \A a, c \in 0..n : a < c => off[a] < off[c]
  <2> TAKE a, c \in 0..n
  <2> HAVE a < c
  <2>1. a + 1 \in 1..n /\ (a + 1) - 1 = a /\ a + 1 \in 0..c
    BY <1>2
  <2>2. off[a] < off[a + 1] /\ off[a + 1] <= off[c] /\ off[a] \in Nat /\ off[a + 1] \in Nat /\ off[c] \in Nat
    BY <1>4, <1>5, <1>6, <2>1
  <2> QED BY <2>2
<1>8. ASSUME NEW i \in 0..n
      PROVE  Heard(off[i] + 1) = {SubSeq(v, i + 1, n)} /\ off[i] + 1 \in 1..Len(b) + 1
  <2>1. \A k \in 0..n : off[k] + 1 = off[i] + 1 => k = i
    <3> TAKE k \in 0..n
    <3>1. off[k] \in Nat /\ off[i] \in Nat
      BY <1>6
    <3>2. ~(off[k] < off[i]) /\ ~(off[i] < off[k]) => k = i
      BY <1>2, <1>7
    <3> QED BY <3>1, <3>2
  <2>2. At(off[i] + 1) = {i}
    BY <2>1
  <2>3. off[i] + 1 \in 1..Len(b) + 1
    BY <1>2, <1>6
  <2> HIDE DEF At
  <2> QED BY <2>2, <2>3
<1> HIDE DEF Heard
<1>9. \A p \in 1..Len(b) + 1 : g[p] = Heard(p)
  OBVIOUS
<1> HIDE DEF g
<1>10. \A i \in 0..n : g[off[i] + 1] = {SubSeq(v, i + 1, n)}
  BY <1>8, <1>9
<1>11. ASSUME NEW p \in 1..Len(b) + 1
       PROVE  Heard(p) = Step(b, d, g, p)
  <2>1. CASE p = Len(b) + 1
    <3>1. p = off[n] + 1 /\ n \in 0..n
      BY <1>2, <1>3, <2>1
    <3>2. Heard(p) = {SubSeq(v, n + 1, n)}
      BY <1>8, <3>1
    <3>3. SubSeq(v, n + 1, n) = << >>
      BY <1>1
    <3>4. Step(b, d, g, p) = {<< >>}
      BY <1>1, <2>1, StepAtEnd
    <3> QED BY <3>2, <3>3, <3>4
  <2>2. CASE p # Len(b) + 1
    <3>1. p \in 1..Len(b)
      BY <1>2, <2>2
    <3>2. PICK i \in 1..n : \E j \in 1..Len(Unit(v[i], d)) : p = off[i - 1] + j
      <4> DEFINE q == Units(v, d)
      <4>1. q \in Seq(Seq(Int)) /\ Len(q) = n /\ Laid(b, q, off)
        BY <1>1 DEF Boundaries, Spelt
      <4>2. \A k \in 1..n : q[k] = Unit(v[k], d)
        BY <1>1 DEF Boundaries
      <4> HIDE DEF q
      <4>3. Lies(p, q, off)
        BY <3>1, <4>1, Located
      <4> HIDE DEF n
      <4> QED BY <4>1, <4>2, <4>3 DEF Lies
    <3> DEFINE u == Unit(v[i], d)
               m == Len(u)
    <3>3. PICK j \in 1..m : p = off[i - 1] + j
      BY <3>2
    <3>4. Plain(v[i]) /\ off[i] = off[i - 1] + m /\ m \in Nat /\ b[p] = u[j]
      <4>1. Plain(v[i]) /\ off[i] = off[i - 1] + m /\ m \in Nat
        BY <1>1 DEF Boundaries
      <4>2. \A k \in 1..m : b[off[i - 1] + k] = u[k]
        BY <1>1 DEF Boundaries
      <4> HIDE DEF u, m
      <4> QED BY <3>3, <4>1, <4>2
    <3>5. i \in 0..n /\ i - 1 \in 0..n /\ off[i - 1] \in Nat /\ off[i] \in Nat
      BY <1>4
    <3>6. CASE j = 1
      <4>1. p = off[i - 1] + 1 /\ (i - 1) + 1 = i
        BY <3>3, <3>6
      <4>2. Step(b, d, g, off[i - 1] + 1) = Prepended(v[i], g[off[i] + 1])
        BY StepAtBoundary
      <4>3. Heard(off[i - 1] + 1) = {SubSeq(v, (i - 1) + 1, n)}
        BY <1>8, <3>5
      <4>4. g[off[i] + 1] = {SubSeq(v, i + 1, n)}
        BY <1>10, <3>5
      <4>5. SubSeq(v, i, n) = <<v[i]>> \o SubSeq(v, i + 1, n)
        BY <1>1
      <4>6. Step(b, d, g, off[i - 1] + 1) = {SubSeq(v, i, n)}
        BY <4>2, <4>4, <4>5 DEF Prepended
      <4> QED BY <4>1, <4>3, <4>6
    <3>7. CASE j # 1
      <4> HIDE DEF m
      <4>1. j \in 2..m
        BY <3>4, <3>7
      <4>2. Step(b, d, g, p) = {}
        BY <1>1, <3>1, <3>4, <4>1, StepInside DEF m
      <4>3. \A k \in 0..n : off[k] + 1 # p
        <5> SUFFICES ASSUME NEW k \in 0..n, off[k] + 1 = p PROVE FALSE
          OBVIOUS
        <5>1. off[k] \in Nat /\ off[i - 1] < off[k] /\ off[k] < off[i]
          <6> DEFINE x == off[k]
                     y == off[i - 1]
                     z == off[i]
          <6>1. x \in Nat /\ y \in Nat /\ z = y + m /\ m \in Nat /\ x + 1 = y + j
            BY <1>6, <3>3, <3>4, <3>5
          <6> HIDE DEF x, y, z
          <6>2. y < x /\ x < z
            BY <4>1, <6>1
          <6> QED BY <6>1, <6>2 DEF x, y, z
        <5>2. ~(k < i - 1) /\ ~(i < k)
          <6>1. k < i - 1 => off[k] < off[i - 1]
            BY <1>7, <3>5
          <6>2. i < k => off[i] < off[k]
            BY <1>7, <3>5
          <6> QED BY <3>5, <5>1, <6>1, <6>2
        <5>3. k = i - 1 \/ k = i
          BY <5>2
        <5> QED BY <3>5, <5>1, <5>3
      <4>4. Heard(p) = {}
        BY <4>3 DEF Heard
      <4> QED BY <4>2, <4>4
    <3> QED BY <3>6, <3>7
  <2> QED BY <2>1, <2>2
<1>12. Steps(b, d, g)
  <2>1. g = [p \in 1..Len(b) + 1 |-> Heard(p)]
    BY DEF g
  <2> QED BY <1>11, <2>1, Zenon DEF Steps
<1> QED BY <1>12

\* Bytes that spell v are decoded as v and nothing else.
LEMMA DecodedBack ==
  ASSUME NEW v \in Seq(Int), \A k \in DOMAIN v : Plain(v[k]), NEW b, Spells(b, v, out[1].encoding)
  PROVE  Decoded(b) = {v}
<1> DEFINE d == out[1].encoding
           n == Len(v)
           from == CHOOSE h : Steps(b, d, h)
<1>1. b \in Seq(Int) /\ n \in Nat /\ Len(b) \in Nat
  BY DEF Spells
<1>2. PICK off : Laid(b, Units(v, d), off)
  BY DEF Spells
<1>3. Spelt(v, d, b, off) /\ Boundaries(v, d, b, off)
  <2>1. Spelt(v, d, b, off)
    BY <1>1, <1>2 DEF Spelt
  <2> QED BY <2>1, UnitsLaid
<1>4. Steps(b, d, from)
  <2>1. \E h : Steps(b, d, h)
    BY <1>3, StepsSolved
  <2> QED BY <2>1
<1>5. Decoded(b) = {Normal(t, "1.1") : t \in from[1]}
  BY Zenon DEF Decoded, Steps, Step, Prepended
<1> HIDE DEF from
<1>6. \A k \in 1..Len(b) + 1 : from[k] = Step(b, d, from, k)
  BY <1>4 DEF Steps
<1> HIDE DEF d
<1>7. \A i \in 0..n : off[i] \in Nat /\ off[i] <= Len(b)
  <2>1. off \in [0..n -> Nat] /\ off[n] = Len(b) /\ \A i \in 0..n : off[i] <= off[n]
    BY <1>1, <1>3 DEF Boundaries
  <2> QED BY <2>1
<1> DEFINE T == {m \in Nat : m <= n => from[off[n - m] + 1] = {SubSeq(v, n - m + 1, n)}}
<1>8. 0 \in T
  <2>1. off[n - 0] + 1 = Len(b) + 1 /\ Len(b) + 1 \in 1..Len(b) + 1
    <3>1. off[n] = Len(b) /\ n - 0 = n
      BY <1>1, <1>3 DEF Boundaries
    <3> QED BY <1>1, <3>1
  <2>2. from[Len(b) + 1] = {<< >>}
    BY <1>1, <1>6, <2>1, StepAtEnd
  <2>3. SubSeq(v, n - 0 + 1, n) = << >>
    OBVIOUS
  <2> QED BY <2>1, <2>2, <2>3
<1>9. ASSUME NEW m \in Nat, m \in T
      PROVE  m + 1 \in T
  <2> SUFFICES ASSUME m + 1 <= n
               PROVE  from[off[n - (m + 1)] + 1] = {SubSeq(v, n - (m + 1) + 1, n)}
    OBVIOUS
  <2> DEFINE i == n - m
  <2>1. i \in 1..n /\ n - (m + 1) = i - 1 /\ n - (m + 1) + 1 = i /\ i - 1 \in 0..n
    BY <1>1
  <2>2. from[off[i] + 1] = {SubSeq(v, i + 1, n)}
    BY <1>1, <1>9
  <2> HIDE DEF i
  <2>3. off[i - 1] + 1 \in 1..Len(b) + 1
    <3>1. off[i - 1] \in Nat /\ off[i - 1] <= Len(b)
      BY <1>7, <2>1
    <3> QED BY <1>1, <3>1
  <2>4. Step(b, d, from, off[i - 1] + 1) = Prepended(v[i], from[off[i] + 1])
    <3>1. Spelt(v, d, b, off) /\ i \in 1..Len(v)
      BY <1>3, <2>1
    <3> QED BY <3>1, StepAtBoundary
  <2>5. from[off[i - 1] + 1] = Step(b, d, from, off[i - 1] + 1)
    BY <1>6, <2>3
  <2>6. SubSeq(v, i, n) = <<v[i]>> \o SubSeq(v, i + 1, n)
    BY <2>1
  <2> QED BY <2>1, <2>2, <2>4, <2>5, <2>6 DEF Prepended
<1>10. Nat \subseteq T
  <2> HIDE DEF T
  <2> QED BY <1>8, <1>9, Upwards
<1>11. from[1] = {v}
  <2>1. from[off[n - n] + 1] = {SubSeq(v, n - n + 1, n)}
    BY <1>1, <1>10
  <2>2. off[0] = 0
    BY <1>3 DEF Boundaries
  <2>3. n - n = 0 /\ 0 + 1 = 1 /\ SubSeq(v, 1, n) = v
    BY <1>1
  <2> QED BY <2>1, <2>2, <2>3
<1>12. Normal(v, "1.1") = v
  <2>1. \A k \in DOMAIN v : v[k] \notin LineEnd("1.1")
    BY DEF Plain
  <2> QED BY <2>1, Unfolded
<1> QED BY <1>5, <1>11, <1>12

\* A symbol of text or a value, as the number the reader has for it.
Number(y) == IF y.form = "literal" THEN y.code ELSE -1 - y.code
Numbers(t) == [k \in DOMAIN t |-> Number(t[k])]
Codes(t) == [k \in DOMAIN t |-> t[k].code]
PlainSymbol == {y \in CharSymbol : IsScalar(y.code) /\ (y.form = "literal" => y.code \notin LineEnd("1.1"))}
ByteSymbol == [form : {"byte", "entity", "reference"}, code : Int]

\* The number of a symbol is one that the reader takes as it is.
LEMMA NumberPlain ==
  ASSUME NEW y \in PlainSymbol
  PROVE  /\ Plain(Number(y)) /\ y.code \in Nat
         /\ Number(y) < 0 => y.code = -1 - Number(y)
         /\ ~(Number(y) < 0) => y.code = Number(y)
<1>1. y.code \in CodePoint /\ IsScalar(y.code)
  BY DEF PlainSymbol, IsScalar
<1>2. y.code \in Nat
  BY <1>1 DEF CodePoint
<1>3. CASE y.form = "literal"
  <2>1. Number(y) = y.code /\ y.code \notin LineEnd("1.1")
    BY <1>3 DEF Number, PlainSymbol
  <2> QED BY <1>1, <1>2, <2>1 DEF Plain
<1>4. CASE y.form # "literal"
  <2>1. Number(y) = -1 - y.code
    BY <1>4 DEF Number
  <2>2. Number(y) \in Int /\ Number(y) < 0 /\ y.code = -1 - Number(y)
    BY <1>2, <2>1
  <2>3. \A c \in LineEnd("1.1") : ~(c < 0)
    BY DEF LineEnd, CR, NEL, LS
  <2>4. Plain(Number(y))
    BY <2>2, <2>3 DEF Plain
  <2> QED BY <1>2, <2>2, <2>4
<1> QED BY <1>3, <1>4

\* The numbers of symbols of text are ones that the reader takes as they are.
LEMMA NumbersPlain ==
  ASSUME NEW t \in Seq(PlainSymbol)
  PROVE  /\ Numbers(t) \in Seq(Int) /\ \A k \in DOMAIN Numbers(t) : Plain(Numbers(t)[k])
         /\ Len(Numbers(t)) = Len(t) /\ \A k \in 1..Len(t) : Numbers(t)[k] = Number(t[k])
<1> DEFINE n == Len(t)
<1>1. n \in Nat /\ DOMAIN t = 1..n /\ \A k \in 1..n : t[k] \in PlainSymbol
  OBVIOUS
<1>2. \A k \in 1..n : Plain(Number(t[k])) /\ Number(t[k]) \in Int
  BY <1>1, NumberPlain DEF Plain
<1>3. DOMAIN Numbers(t) = 1..n /\ \A k \in 1..n : Numbers(t)[k] = Number(t[k])
  BY <1>1 DEF Numbers
<1>4. Numbers(t) = [k \in 1..n |-> Number(t[k])]
  BY <1>1 DEF Numbers
<1>5. Numbers(t) \in [1..n -> Int]
  BY <1>2, <1>4
<1>6. Numbers(t) \in Seq(Int) /\ Len(Numbers(t)) = n
  BY <1>1, <1>5
<1> QED BY <1>2, <1>3, <1>6

\* What is spelled comes back.
LEMMA ReadBack ==
  ASSUME NEW t \in Seq(PlainSymbol), NEW b, Spells(Coded(b), Numbers(t), out[1].encoding)
  PROVE  ReadString(b) = {Codes(t)}
<1> DEFINE v == Numbers(t)
           Read(s) == [k \in DOMAIN s |-> IF s[k] < 0 THEN -1 - s[k] ELSE s[k]]
<1>1. /\ v \in Seq(Int) /\ \A k \in DOMAIN v : Plain(v[k])
      /\ Len(v) = Len(t) /\ \A k \in 1..Len(t) : v[k] = Number(t[k])
  BY NumbersPlain
<1>2. Decoded(Coded(b)) = {v}
  <2> HIDE DEF v
  <2>1. Spells(Coded(b), v, out[1].encoding)
    BY DEF v
  <2> QED BY <1>1, <2>1, DecodedBack
<1>3. Read(v) = Codes(t)
  <2>1. DOMAIN v = 1..Len(t) /\ DOMAIN t = 1..Len(t)
    BY <1>1
  <2>2. ASSUME NEW k \in 1..Len(t)
        PROVE  (IF v[k] < 0 THEN -1 - v[k] ELSE v[k]) = t[k].code
    <3>1. v[k] = Number(t[k]) /\ t[k] \in PlainSymbol
      BY <1>1
    <3> HIDE DEF v
    <3> QED BY <3>1, NumberPlain
  <2> HIDE DEF v
  <2> QED BY <2>1, <2>2, Zenon DEF Codes
<1>4. ReadString(b) = {Read(s) : s \in Decoded(Coded(b))}
  BY Zenon DEF ReadString
<1> HIDE DEF Read
<1> QED BY <1>2, <1>3, <1>4

\* The numbers of a layout are laid out the same way.
LEMMA CodedLaid ==
  ASSUME NEW S, NEW b \in Seq(S), NEW q \in Seq(Seq(ByteSymbol)), NEW off, Laid(b, q, off),
         NEW u, u \in Seq(Seq(Int)), Len(u) = Len(q), \A i \in 1..Len(q) : Coded(q[i]) = u[i]
  PROVE  Coded(b) \in Seq(Int) /\ Laid(Coded(b), u, off)
<1> DEFINE n == Len(q)
           Code(y) == IF y.form = "byte" THEN y.code ELSE -1 - y.code
<1>1. /\ n \in Nat /\ off \in [0..n -> Nat] /\ Len(b) \in Nat
      /\ \A i \in 1..n : /\ Len(q[i]) \in Nat /\ off[i - 1] \in Nat /\ off[i] \in Nat
                         /\ off[i] = off[i - 1] + Len(q[i]) /\ off[i] <= Len(b)
  BY Pieces
<1>2. /\ off[0] = 0 /\ off[n] = Len(b)
      /\ \A i \in 1..n : \A j \in 1..Len(q[i]) : b[off[i - 1] + j] = q[i][j]
  BY DEF Laid
<1>3. \A s : Coded(s) = [k \in DOMAIN s |-> Code(s[k])]
  BY DEF Coded
<1> HIDE DEF Code
<1>4. DOMAIN Coded(b) = 1..Len(b) /\ Len(Coded(b)) = Len(b) /\ \A p \in 1..Len(b) : Coded(b)[p] = Code(b[p])
  <2>1. Coded(b) = [k \in 1..Len(b) |-> Code(b[k])]
    BY <1>3
  <2> QED BY <1>1, <2>1
<1>5. ASSUME NEW i \in 1..n
      PROVE  /\ Len(u[i]) = Len(q[i])
             /\ \A j \in 1..Len(q[i]) : u[i][j] = Code(q[i][j]) /\ u[i][j] \in Int
  <2> DEFINE s == q[i]
  <2>1. s \in Seq(ByteSymbol) /\ u[i] = [k \in DOMAIN s |-> Code(s[k])] /\ u[i] \in Seq(Int)
    BY <1>3
  <2> HIDE DEF s
  <2>2. DOMAIN u[i] = 1..Len(s) /\ Len(u[i]) = Len(s)
    BY <2>1
  <2> QED BY <2>1, <2>2 DEF s
<1>6. ASSUME NEW i \in 1..n, NEW j \in 1..Len(q[i])
      PROVE  Coded(b)[off[i - 1] + j] = u[i][j]
  <2>1. off[i - 1] + j \in 1..Len(b)
    <3> DEFINE m == Len(q[i])
               o == off[i - 1]
    <3>1. m \in Nat /\ o \in Nat /\ o + m <= Len(b) /\ j \in 1..m
      BY <1>1
    <3> HIDE DEF m, o
    <3>2. o + j \in 1..Len(b)
      BY <1>1, <3>1
    <3> QED BY <3>2 DEF o
  <2> QED BY <1>2, <1>4, <1>5, <2>1
<1>7. Coded(b) \in Seq(Int)
  <2>1. ASSUME NEW p \in 1..Len(b) PROVE Coded(b)[p] \in Int
    <3>1. PICK i \in 1..n : \E j \in 1..Len(q[i]) : p = off[i - 1] + j
      <4>1. Lies(p, q, off)
        BY Located
      <4> QED BY <4>1 DEF Lies
    <3>2. PICK j \in 1..Len(q[i]) : p = off[i - 1] + j
      BY <3>1
    <3> QED BY <1>5, <1>6, <3>2
  <2>2. Coded(b) \in [1..Len(b) -> Int]
    <3>1. Coded(b) = [p \in 1..Len(b) |-> Coded(b)[p]]
      <4>1. Coded(b) = [k \in 1..Len(b) |-> Code(b[k])]
        BY <1>3
      <4> QED BY <4>1
    <3> QED BY <2>1, <3>1
  <2> DEFINE m == Len(b)
  <2>3. m \in Nat /\ Coded(b) \in [1..m -> Int]
    BY <2>2
  <2> HIDE DEF m
  <2> QED BY <2>3
<1>8. \A i \in 1..n : off[i] = off[i - 1] + Len(u[i]) /\ \A j \in 1..Len(u[i]) : Coded(b)[off[i - 1] + j] = u[i][j]
  BY <1>1, <1>5, <1>6
<1>9. Laid(Coded(b), u, off)
  <2> HIDE DEF n
  <2>1. Len(u) = n
    BY DEF n
  <2> QED BY <1>1, <1>2, <1>4, <1>8, <2>1 DEF Laid
<1> QED BY <1>7, <1>9

\* Which encoding is declared decides how a character is written.
LEMMA Encoded == /\ Declared = "ISO-8859-1" <=> Effective = "Bytes"
                 /\ Declared \in {"ISO-8859-1", "UTF-8"}
BY DEF Declared

\* The bytes of one symbol are the spelling of its number.
LEMMA Spelling ==
  ASSUME NEW y \in PlainSymbol
  PROVE  /\ Spelled(y) \in Seq(ByteSymbol) /\ Len(Spelled(y)) \in Nat \ {0}
         /\ Coded(Spelled(y)) = Unit(Number(y), Declared)
<1>1. y.form \in {"entity", "reference", "literal"} /\ y.code \in Nat /\ Plain(Number(y)) /\ y \in CharSymbol
  BY NumberPlain DEF PlainSymbol, CharSymbol
<1>2. CASE y.form # "literal"
  <2>1. Spelled(y) = <<y>>
    BY <1>2 DEF Spelled
  <2>2. y \in ByteSymbol
    <3>1. y = [form |-> y.form, code |-> y.code]
      BY <1>1 DEF CharSymbol
    <3>2. y.code \in Int
      BY <1>1
    <3> QED BY <1>1, <1>2, <3>1, <3>2 DEF ByteSymbol
  <2>3. Number(y) = -1 - y.code /\ Number(y) < 0
    BY <1>1, <1>2 DEF Number
  <2>4. Coded(<<y>>) = <<-1 - y.code>>
    <3>1. y.form # "byte"
      BY <1>1
    <3> QED BY <3>1 DEF Coded
  <2>5. Unit(Number(y), Declared) = <<Number(y)>>
    BY <2>3 DEF Unit
  <2>6. <<y>> \in Seq(ByteSymbol) /\ Len(<<y>>) = 1
    BY <2>2
  <2> QED BY <2>1, <2>3, <2>4, <2>5, <2>6
<1>3. CASE y.form = "literal"
  <2> DEFINE c == y.code
             u == BytesOf(c)
  <2>1. Number(y) = c /\ ~(c < 0) /\ Plain(c)
    BY <1>1, <1>3 DEF Number
  <2>2. Unit(c, Declared) = u
    BY <2>1, Encoded DEF Unit, BytesOf
  <2>3. u \in Seq(Int) /\ Len(u) \in Nat \ {0}
    <3> HIDE DEF c, u
    <3> QED BY <2>1, <2>2, UnitBytes
  <2>4. Spelled(y) = [k \in DOMAIN u |-> [form |-> "byte", code |-> u[k]]]
    BY <1>3 DEF Spelled
  <2> HIDE DEF u, c
  <2>5. Spelled(y) \in Seq(ByteSymbol) /\ Len(Spelled(y)) = Len(u)
    <3> DEFINE m == Len(u)
    <3>1. m \in Nat /\ DOMAIN u = 1..m /\ \A k \in 1..m : u[k] \in Int
      BY <2>3
    <3>2. \A k \in 1..m : [form |-> "byte", code |-> u[k]] \in ByteSymbol
      BY <3>1 DEF ByteSymbol
    <3> HIDE DEF m
    <3>3. Spelled(y) \in [1..m -> ByteSymbol]
      BY <2>4, <3>1, <3>2
    <3> QED BY <3>1, <3>3 DEF m
  <2>6. Coded(Spelled(y)) = u
    <3>1. DOMAIN Spelled(y) = DOMAIN u /\ \A k \in DOMAIN u : Spelled(y)[k].form = "byte" /\ Spelled(y)[k].code = u[k]
      BY <2>4
    <3>2. Coded(Spelled(y)) = [k \in DOMAIN u |-> u[k]]
      BY <3>1, Zenon DEF Coded
    <3>3. u = [k \in DOMAIN u |-> u[k]]
      BY <2>3
    <3> QED BY <3>2, <3>3
  <2> QED BY <2>1, <2>2, <2>3, <2>5, <2>6
<1> QED BY <1>2, <1>3

\* emit spells an attribute value, symbol by symbol.
LEMMA ValueSpelled ==
  ASSUME NEW t \in Seq(PlainSymbol)
  PROVE  Spells(Coded(ValueBytes(t)), Numbers(t), Declared)
<1> DEFINE n == Len(t)
           q == [k \in DOMAIN t |-> Spelled(t[k])]
           u == Units(Numbers(t), Declared)
           b == FlattenSeq(q)
<1>1. n \in Nat /\ DOMAIN t = 1..n /\ \A k \in 1..n : t[k] \in PlainSymbol
  OBVIOUS
<1>2. q \in Seq(Seq(ByteSymbol)) /\ Len(q) = n /\ \A k \in 1..n : q[k] = Spelled(t[k])
  <2>1. q \in [1..n -> Seq(ByteSymbol)] /\ \A k \in 1..n : q[k] = Spelled(t[k])
    BY <1>1, Spelling
  <2> HIDE DEF q
  <2> QED BY <1>1, <2>1
<1>3. u \in Seq(Seq(Int)) /\ Len(u) = n /\ \A k \in 1..n : u[k] = Unit(Number(t[k]), Declared)
  <2>1. DOMAIN Numbers(t) = 1..n /\ \A k \in 1..n : Numbers(t)[k] = Number(t[k])
    BY NumbersPlain
  <2>2. \A k \in 1..n : Unit(Number(t[k]), Declared) \in Seq(Int)
    BY <1>1, NumberPlain, UnitBytes
  <2>3. u = [k \in 1..n |-> Unit(Number(t[k]), Declared)]
    BY <2>1 DEF Units
  <2> HIDE DEF u
  <2>4. u \in [1..n -> Seq(Int)] /\ \A k \in 1..n : u[k] = Unit(Number(t[k]), Declared)
    BY <2>2, <2>3
  <2> QED BY <1>1, <2>4
<1>4. ValueBytes(t) = b
  BY DEF ValueBytes
<1> HIDE DEF q, u
<1>5. PICK off : b \in Seq(ByteSymbol) /\ Laid(b, q, off)
  BY <1>2, Flattening
<1> HIDE DEF b
<1>6. \A k \in 1..n : Coded(q[k]) = u[k]
  BY <1>1, <1>2, <1>3, Spelling
<1>7. Coded(b) \in Seq(Int) /\ Laid(Coded(b), u, off)
  BY <1>2, <1>3, <1>5, <1>6, CodedLaid
<1> QED BY <1>4, <1>7 DEF Spells, u

\* emit spells a name, character by character.
LEMMA NameSpelled ==
  ASSUME NEW s \in Seq(CodePoint), \A k \in DOMAIN s : Plain(s[k])
  PROVE  Spells(NameBytes(s), s, Declared)
<1> DEFINE n == Len(s)
           q == [k \in DOMAIN s |-> BytesOf(s[k])]
           b == FlattenSeq(q)
<1>1. n \in Nat /\ DOMAIN s = 1..n /\ \A k \in 1..n : Plain(s[k]) /\ ~(s[k] < 0)
  <2>1. \A k \in DOMAIN s : s[k] \in Nat
    <3>1. \A k \in DOMAIN s : s[k] \in CodePoint
      OBVIOUS
    <3>2. \A c \in CodePoint : c \in Nat
      BY DEF CodePoint
    <3> QED BY <3>1, <3>2
  <2> QED BY <2>1
<1>2. \A k \in 1..n : BytesOf(s[k]) = Unit(s[k], Declared)
  BY <1>1, Encoded DEF Unit, BytesOf
<1>3. q = Units(s, Declared)
  BY <1>1, <1>2 DEF Units
<1>4. q \in Seq(Seq(Int))
  <2>1. \A k \in 1..n : BytesOf(s[k]) \in Seq(Int)
    BY <1>1, <1>2, UnitBytes
  <2>2. q \in [1..n -> Seq(Int)] /\ n \in Nat
    BY <1>1, <2>1
  <2> HIDE DEF q, n
  <2> QED BY <2>2
<1>5. NameBytes(s) = b
  BY DEF NameBytes
<1> HIDE DEF q
<1>6. b \in Seq(Int) /\ \E off : Laid(b, q, off)
  BY <1>4, Flattening
<1> QED BY <1>3, <1>5, <1>6 DEF Spells

\* A name holds no line end.
LEMMA NameChars ==
  \A r \in Nat : IsNameChar(r) => r # 13 /\ r # 133 /\ r # 8232 /\ ~(55296 <= r /\ r <= 57343)
<1>1. \A r \in Nat : IsNameStartChar(r) => r # 13 /\ r # 133 /\ r # 8232
  BY Z3 DEF IsNameStartChar
<1>2. \A r \in Nat : IsNameStartChar(r) => ~(55296 <= r /\ r <= 57343)
  BY Z3 DEF IsNameStartChar
<1> QED BY <1>1, <1>2, Z3 DEF IsNameChar

\* The characters of a name are ones that the reader takes as they are.
LEMMA NamePlain ==
  ASSUME NEW s, IsName(s)
  PROVE  s \in Seq(CodePoint) /\ s \in Seq(Int) /\ \A k \in DOMAIN s : Plain(s[k])
<1>1. s \in Seq(CodePoint) /\ \A k \in DOMAIN s : s[k] \in CodePoint /\ IsNameChar(s[k])
  BY DEF IsName
<1>2. \A c \in CodePoint : c \in Nat
  BY DEF CodePoint
<1>3. ASSUME NEW k \in DOMAIN s
      PROVE  Plain(s[k])
  <2> DEFINE r == s[k]
  <2>1. r \in CodePoint /\ r \in Nat /\ IsNameChar(r)
    BY <1>1, <1>2
  <2> HIDE DEF r
  <2>2. r # 13 /\ r # 133 /\ r # 8232 /\ ~(55296 <= r /\ r <= 57343)
    BY <2>1, NameChars
  <2>3. IsScalar(r)
    BY <2>1, <2>2 DEF IsScalar
  <2>4. r \notin LineEnd("1.1")
    BY <2>2 DEF LineEnd, CR, NEL, LS
  <2>5. Plain(r)
    BY <2>1, <2>3, <2>4 DEF Plain
  <2> QED BY <2>5 DEF r
<1>4. s \in Seq(Int)
  BY <1>1, <1>2
<1> QED BY <1>1, <1>3, <1>4

\* What escape returns is text without a literal line end, and its codes are the text.
LEMMA EscapePlain ==
  ASSUME NEW s, IsString(s), NEW inAttr \in BOOLEAN
  PROVE  /\ Escape(s, inAttr) \in Seq(PlainSymbol) /\ Len(Escape(s, inAttr)) = Len(s)
         /\ Codes(Escape(s, inAttr)) = s
         /\ \A k \in 1..Len(s) : Escape(s, inAttr)[k].code = s[k]
<1> DEFINE n == Len(s)
           e == Escape(s, inAttr)
<1>1. s \in Seq(CodePoint) /\ \A k \in DOMAIN s : s[k] \in CodePoint /\ IsScalar(s[k])
  BY DEF IsString
<1>2. n \in Nat /\ DOMAIN s = 1..n
  BY <1>1
<1>3. ASSUME NEW k \in 1..n
      PROVE  [form |-> Form(s[k], inAttr), code |-> s[k]] \in PlainSymbol
  <2> DEFINE r == s[k]
             y == [form |-> Form(r, inAttr), code |-> r]
  <2>1. r \in CodePoint /\ IsScalar(r)
    BY <1>1, <1>2
  <2> HIDE DEF r
  <2>2. y \in CharSymbol
    BY <2>1, CharAgreed
  <2>3. Form(r, inAttr) = "literal" => r \notin LineEnd("1.1")
    BY DEF Form, Referenced, LineEnd
  <2>4. y \in PlainSymbol
    BY <2>1, <2>2, <2>3 DEF PlainSymbol
  <2> QED BY <2>4 DEF r
<1>4. e = [k \in 1..n |-> [form |-> Form(s[k], inAttr), code |-> s[k]]]
  BY <1>2 DEF Escape
<1>5. \A k \in 1..n : e[k].code = s[k]
  BY <1>4
<1>6. e \in [1..n -> PlainSymbol]
  BY <1>3, <1>4
<1> HIDE DEF e
<1>7. e \in Seq(PlainSymbol) /\ Len(e) = n /\ DOMAIN e = 1..n
  BY <1>2, <1>6
<1>8. Codes(e) = s
  <2>1. Codes(e) = [k \in 1..n |-> s[k]]
    BY <1>5, <1>7, Zenon DEF Codes
  <2>2. s = [k \in 1..n |-> s[k]]
    BY <1>1
  <2> QED BY <2>1, <2>2
<1> QED BY <1>5, <1>7, <1>8 DEF e

\* A sequence, of whatever.
IsSeq(s) == \E T : s \in Seq(T)

(***************************************************************************)
(* What has been written, as it will be read: a document is a sequence of  *)
(* symbols, and a Trace what is open and complete after each of them.      *)
(***************************************************************************)

\* The length of a sequence, and when it is empty.
LEMMA SeqLength ==
  ASSUME NEW s, IsSeq(s)
  PROVE  Len(s) \in Nat /\ DOMAIN s = 1..Len(s) /\ (s = << >> <=> Len(s) = 0)
<1>1. PICK T : s \in Seq(T)  BY DEF IsSeq
<1> QED BY <1>1

\* A sequence with one element more.
LEMMA SeqAppend ==
  ASSUME NEW s, IsSeq(s), NEW x
  PROVE  /\ IsSeq(Append(s, x)) /\ Len(Append(s, x)) = Len(s) + 1
         /\ \A k \in 1..Len(s) : Append(s, x)[k] = s[k]
         /\ Append(s, x)[Len(s) + 1] = x /\ Append(s, x) # << >>
<1>1. PICK T : s \in Seq(T)  BY DEF IsSeq
<1> DEFINE U == T \cup {x}
<1>2. s \in Seq(U) /\ x \in U
  <2>1. Len(s) \in Nat /\ s \in [1..Len(s) -> T]
    BY <1>1
  <2>2. s \in [1..Len(s) -> U]
    BY <2>1
  <2> HIDE DEF U
  <2> QED BY <2>1, <2>2 DEF U
<1> HIDE DEF U
<1>3. Append(s, x) \in Seq(U)
  BY <1>2
<1>4. Len(Append(s, x)) = Len(s) + 1 /\ Len(s) \in Nat
      /\ \A k \in 1..Len(s) : Append(s, x)[k] = s[k]
  BY <1>2
<1>5. Append(s, x)[Len(s) + 1] = x
  BY <1>2
<1>6. Append(s, x) # << >>
  BY <1>3, <1>4
<1> QED BY <1>3, <1>4, <1>5, <1>6 DEF IsSeq

\* A sequence with one element changed.
LEMMA SeqChange ==
  ASSUME NEW s, IsSeq(s), NEW i, NEW x
  PROVE  /\ IsSeq([s EXCEPT ![i] = x]) /\ Len([s EXCEPT ![i] = x]) = Len(s)
         /\ \A k \in 1..Len(s) : [s EXCEPT ![i] = x][k] = IF k = i THEN x ELSE s[k]
<1>1. PICK T : s \in Seq(T)  BY DEF IsSeq
<1> DEFINE U == T \cup {x}
           n == Len(s)
           t == [s EXCEPT ![i] = x]
<1>2. n \in Nat /\ s \in [1..n -> T]
  BY <1>1
<1>3. t = [k \in 1..n |-> IF k = i THEN x ELSE s[k]]
  BY <1>2
<1> HIDE DEF t, n
<1>4. t \in [1..n -> U]
  BY <1>2, <1>3
<1> HIDE DEF U
<1>5. t \in Seq(U) /\ Len(t) = n
  BY <1>2, <1>4
<1> QED BY <1>3, <1>5 DEF IsSeq, t, n

\* A sequence without its last element.
LEMMA SeqPopped ==
  ASSUME NEW s, IsSeq(s), s # << >>
  PROVE  /\ IsSeq(Popped(s)) /\ Len(Popped(s)) = Len(s) - 1 /\ Len(s) \in Nat \ {0}
         /\ \A k \in 1..Len(s) - 1 : Popped(s)[k] = s[k]
<1>1. PICK T : s \in Seq(T)  BY DEF IsSeq
<1>2. Len(s) \in Nat \ {0}
  BY <1>1
<1>3. Popped(s) \in Seq(T) /\ Len(Popped(s)) = Len(s) - 1 /\ \A k \in 1..Len(s) - 1 : Popped(s)[k] = s[k]
  <2> DEFINE m == Len(s) - 1
  <2>1. m \in Nat /\ m <= Len(s) /\ 1 <= m + 1 /\ m + 1 - 1 = m /\ 1 \in Nat \ {0}
    BY <1>2
  <2>2. \A j \in 1..m : 1 + j - 1 = j
    BY <2>1
  <2> HIDE DEF m
  <2>3. /\ SubSeq(s, 1, m) \in Seq(T) /\ Len(SubSeq(s, 1, m)) = m
        /\ \A j \in 1..m : SubSeq(s, 1, m)[j] = s[j]
    BY <1>1, <2>1, <2>2, Slice
  <2> QED BY <2>3 DEF m, Popped
<1> QED BY <1>2, <1>3 DEF IsSeq

\* Sequences of the same elements are the same.
LEMMA SeqSame ==
  ASSUME NEW s, IsSeq(s), NEW t, IsSeq(t), Len(s) = Len(t), \A k \in 1..Len(s) : s[k] = t[k]
  PROVE  s = t
<1>1. PICK S : s \in Seq(S)  BY DEF IsSeq
<1>2. PICK T : t \in Seq(T)  BY DEF IsSeq
<1> DEFINE n == Len(s)
<1>3. s = [k \in 1..n |-> s[k]]
  BY <1>1
<1>4. t = [k \in 1..n |-> t[k]]
  BY <1>2
<1>5. \A k \in 1..n : s[k] = t[k]
  OBVIOUS
<1> HIDE DEF n
<1> QED BY <1>3, <1>4, <1>5, Zenon

\* Together, one child at a time.
Gathered(s) == CHOOSE f : f = [k \in 0..Len(s) |-> IF k = 0 THEN <<>> ELSE Adding(f[k - 1], s[k])]
Gathers(s, f, m) == f = [k \in 0..m |-> IF k = 0 THEN <<>> ELSE Adding(f[k - 1], s[k])]

\* The partial results of gathering the children exist.
LEMMA GatheredUpto == ASSUME NEW s PROVE \A m \in Nat : \E f : Gathers(s, f, m)
<1> DEFINE S == {m \in Nat : \E f : Gathers(s, f, m)}
<1>1. 0 \in S
  <2> DEFINE f == [k \in 0..0 |-> <<>>]
  <2>1. \A k \in 0..0 : k = 0
    OBVIOUS
  <2>2. f = [k \in 0..0 |-> IF k = 0 THEN <<>> ELSE Adding(f[k - 1], s[k])]
    <3>1. \A k \in 0..0 : <<>> = IF k = 0 THEN <<>> ELSE Adding(f[k - 1], s[k])
      BY <2>1
    <3> QED BY <3>1, Zenon
  <2>3. Gathers(s, f, 0)
    BY <2>2, Zenon DEF Gathers
  <2> QED BY <2>3
<1>2. ASSUME NEW m \in Nat, m \in S
      PROVE  m + 1 \in S
  <2>1. PICK f : Gathers(s, f, m)
    BY <1>2
  <2> DEFINE v(k, h) == IF k = 0 THEN <<>> ELSE Adding(h[k - 1], s[k])
             g == [k \in 0..m + 1 |-> v(k, f)]
  <2>2. ASSUME NEW k \in 0..m + 1
        PROVE  v(k, f) = v(k, g)
    <3>1. CASE k = 0
      BY <3>1
    <3>2. CASE k # 0
      <4>1. k - 1 \in 0..m /\ k - 1 \in 0..m + 1
        BY <3>2
      <4>2. f[k - 1] = v(k - 1, f)
        BY <2>1, <4>1, Zenon DEF Gathers
      <4>3. g[k - 1] = v(k - 1, f)
        BY <4>1
      <4> HIDE DEF g
      <4> QED BY <3>2, <4>2, <4>3
    <3> QED BY <3>1, <3>2
  <2>3. g = [k \in 0..m + 1 |-> v(k, g)]
    <3> HIDE DEF v
    <3> QED BY <2>2, Zenon
  <2>4. Gathers(s, g, m + 1)
    BY <2>3, Zenon DEF Gathers
  <2> QED BY <2>4
<1>3. Nat \subseteq S
  <2> HIDE DEF S
  <2> QED BY <1>1, <1>2, Upwards
<1> QED BY <1>3

\* The children gathered, as the last of the partial results.
LEMMA TogetherEquation ==
  ASSUME NEW s, Len(s) \in Nat
  PROVE  /\ Together(s) = Gathered(s)[Len(s)] /\ Gathered(s)[0] = << >>
         /\ \A k \in 1..Len(s) : Gathered(s)[k] = Adding(Gathered(s)[k - 1], s[k])
<1> DEFINE f == Gathered(s)
<1>1. Together(s) = f[Len(s)]
  BY Zenon DEF Together, Gathered
<1>2. f = [k \in 0..Len(s) |-> IF k = 0 THEN <<>> ELSE Adding(f[k - 1], s[k])]
  <2>1. \E h : h = [k \in 0..Len(s) |-> IF k = 0 THEN <<>> ELSE Adding(h[k - 1], s[k])]
    BY GatheredUpto DEF Gathers
  <2> QED BY <2>1, Zenon DEF Gathered
<1> HIDE DEF f
<1>3. \A k \in 0..Len(s) : f[k] = IF k = 0 THEN <<>> ELSE Adding(f[k - 1], s[k])
  BY <1>2
<1>4. f[0] = << >>
  BY <1>3
<1>5. \A k \in 1..Len(s) : k \in 0..Len(s) /\ k # 0
  OBVIOUS
<1> QED BY <1>1, <1>3, <1>4, <1>5 DEF f

\* What an element holds after its first m children.
Children(n) == [k \in DOMAIN n.children |-> Returned[n.children[k]]]
Prefix(n, m) == Gathered(Children(n))[m]

\* The first m children gathered, from the first m - 1 and the m-th.
LEMMA PrefixEquation ==
  ASSUME NEW n \in ElementNode
  PROVE  /\ Prefix(n, 0) = << >>
         /\ \A k \in 1..Len(n.children) : Prefix(n, k) = Adding(Prefix(n, k - 1), Returned[n.children[k]])
         /\ Returned[n] = Element(n.name, n.attrs, Prefix(n, Len(n.children)))
<1>1. n \in Node /\ ~IsText(n) /\ n.children \in Seq(Node)
  <2>1. n \in Node /\ ~IsText(n)
    BY DEF ElementNode
  <2> QED BY <2>1, ChildrenLower
<1> DEFINE s == Children(n)
           m == Len(n.children)
<1>2. m \in Nat /\ DOMAIN n.children = 1..m
  BY <1>1
<1>3. s = [k \in 1..m |-> Returned[n.children[k]]]
  BY <1>2 DEF Children
<1>4. Len(s) = m /\ \A k \in 1..m : s[k] = Returned[n.children[k]]
  BY <1>2, <1>3
<1>5. Returned[n] = Element(n.name, n.attrs, Together(s))
  BY <1>1, ReturnedEquation DEF Children
<1> HIDE DEF s, m
<1>6. /\ Together(s) = Gathered(s)[m] /\ Gathered(s)[0] = << >>
      /\ \A k \in 1..m : Gathered(s)[k] = Adding(Gathered(s)[k - 1], s[k])
  <2>1. Len(s) \in Nat
    BY <1>2, <1>4
  <2> QED BY <1>4, <2>1, TogetherEquation
<1> QED BY <1>4, <1>5, <1>6 DEF Prefix, s, m

\* What has been read when a symbol is: the elements that are open, the tree if
\* it is complete, and the characters of the text that is not complete.
Begun == [open |-> << >>, back |-> << >>, text |-> << >>]
Flush(children, text) == IF text = << >> THEN children ELSE Append(children, Text(text))
Flushed(a) ==
  IF a.text = << >> THEN a.open
  ELSE [a.open EXCEPT ![Len(a.open)].children = Append(@, Text(a.text))]
Lands(outer, n, old, b) ==
  IF outer = << >> THEN b.open = outer /\ b.back = <<n>>
  ELSE b.open = [outer EXCEPT ![Len(outer)].children = Append(@, n)] /\ b.back = old
AttrsRead(attrs) == [k \in DOMAIN attrs |-> [name |-> attrs[k].name, value |-> Codes(attrs[k].value)]]
Starts(a, x, b) ==
  LET n == Element(x.name, AttrsRead(x.attrs), << >>)
  IN  /\ b.text = << >>
      /\ IF x.empty THEN Lands(Flushed(a), n, a.back, b)
         ELSE b.open = Append(Flushed(a), n) /\ b.back = a.back
Ends(a, x, b) ==
  /\ b.text = << >> /\ x.name = Last(Flushed(a)).name
  /\ Lands(Popped(Flushed(a)), Last(Flushed(a)), a.back, b)
Continues(a, x, b) ==
  b.text = Append(a.text, x.code) /\ b.text # << >> /\ b.open = a.open /\ b.back = a.back

StartReadable == {x \in StartSymbol :
  /\ IsName(x.name)
  /\ \A k \in DOMAIN x.attrs : IsName(x.attrs[k].name) /\ x.attrs[k].value \in Seq(PlainSymbol)}
EndReadable == {x \in EndSymbol : IsName(x.name)}
Moves(a, x, b) ==
  \/ x \in StartReadable /\ Starts(a, x, b)
  \/ x \in EndReadable /\ Ends(a, x, b)
  \/ x \in PlainSymbol /\ Continues(a, x, b)

\* The readings of a document, the tree not complete before the end.
Trace(s, tr) ==
  /\ tr[1] = Begun
  /\ \A k \in 2..Len(s) : Moves(tr[k - 1], s[k], tr[k])
  /\ \A k \in 1..Len(s) - 1 : tr[k].back = << >>

\* A reading can be continued by a symbol.
LEMMA TraceMore ==
  ASSUME NEW s \in Seq(Symbol), s # << >>, NEW tr, Trace(s, tr), NEW x \in Symbol, NEW b,
         tr[Len(s)].back = << >>, Moves(tr[Len(s)], x, b)
  PROVE  \E new : Trace(Append(s, x), new) /\ new[Len(Append(s, x))] = b
<1> DEFINE n == Len(s)
           u == Append(s, x)
           new == [k \in 1..n + 1 |-> IF k <= n THEN tr[k] ELSE b]
<1>1. n \in Nat \ {0} /\ Len(u) = n + 1 /\ u[n + 1] = x /\ \A k \in 1..n : u[k] = s[k]
  OBVIOUS
<1>2. /\ tr[1] = Begun /\ \A k \in 2..n : Moves(tr[k - 1], s[k], tr[k])
      /\ \A k \in 1..n - 1 : tr[k].back = << >>
  BY DEF Trace
<1>3. tr[n].back = << >> /\ Moves(tr[n], x, b)
  OBVIOUS
<1> HIDE DEF n, u
<1>4. new[n + 1] = b /\ \A k \in 1..n : new[k] = tr[k]
  BY <1>1
<1> HIDE DEF new
<1>5. new[1] = Begun
  BY <1>1, <1>2, <1>4
<1>6. ASSUME NEW k \in 2..n + 1
      PROVE  Moves(new[k - 1], u[k], new[k])
  <2>1. CASE k = n + 1
    <3>1. k - 1 = n /\ n \in 1..n
      BY <1>1, <2>1
    <3>2. new[k - 1] = tr[n] /\ u[k] = x /\ new[k] = b
      BY <1>1, <1>4, <2>1, <3>1
    <3> QED BY <1>3, <3>2
  <2>2. CASE k # n + 1
    <3>1. k \in 2..n /\ k \in 1..n /\ k - 1 \in 1..n
      BY <1>1, <2>2
    <3>2. new[k - 1] = tr[k - 1] /\ u[k] = s[k] /\ new[k] = tr[k]
      BY <1>1, <1>4, <3>1
    <3> QED BY <1>2, <3>1, <3>2
  <2> QED BY <2>1, <2>2
<1>7. ASSUME NEW k \in 1..(n + 1) - 1
      PROVE  new[k].back = << >>
  <2>1. k \in 1..n /\ (k = n \/ k \in 1..n - 1)
    BY <1>1
  <2> QED BY <1>2, <1>3, <1>4, <2>1
<1>8. Trace(u, new) /\ new[Len(u)] = b
  BY <1>1, <1>4, <1>5, <1>6, <1>7 DEF Trace
<1> QED BY <1>8 DEF u

Longer(a, codes) == [open |-> a.open, back |-> a.back, text |-> a.text \o codes]

\* A reading can be continued by text, whose characters are added.
LEMMA TraceText ==
  ASSUME NEW s \in Seq(Symbol), s # << >>, NEW tr, Trace(s, tr), NEW t \in Seq(Symbol), t \in Seq(PlainSymbol),
         tr[Len(s)] = [open |-> tr[Len(s)].open, back |-> << >>, text |-> tr[Len(s)].text],
         tr[Len(s)].text \in Seq(CodePoint)
  PROVE  \E new : Trace(s \o t, new) /\ new[Len(s \o t)] = Longer(tr[Len(s)], Codes(t))
<1> DEFINE n == Len(s)
           m == Len(t)
           a == tr[n]
           u == s \o t
           c == Codes(t)
           new == [k \in 1..n + m |-> IF k <= n THEN tr[k] ELSE Longer(a, SubSeq(c, 1, k - n))]
<1>1. /\ n \in Nat \ {0} /\ m \in Nat /\ Len(u) = n + m
      /\ \A k \in 1..n : u[k] = s[k]
      /\ \A j \in 1..m : u[n + j] = t[j]
  OBVIOUS
<1>2. /\ tr[1] = Begun /\ \A k \in 2..n : Moves(tr[k - 1], s[k], tr[k])
      /\ \A k \in 1..n - 1 : tr[k].back = << >>
  BY DEF Trace
<1>3. a = [open |-> a.open, back |-> << >>, text |-> a.text] /\ a.text \in Seq(CodePoint) /\ a.back = << >>
  OBVIOUS
<1>4. /\ c \in Seq(CodePoint) /\ Len(c) = m
      /\ \A j \in 1..m : c[j] = t[j].code /\ t[j] \in PlainSymbol
  <2>1. DOMAIN t = 1..m /\ \A j \in 1..m : t[j] \in PlainSymbol
    OBVIOUS
  <2>2. \A y \in PlainSymbol : y.code \in CodePoint
    BY DEF PlainSymbol, CharSymbol
  <2>3. c = [j \in 1..m |-> t[j].code]
    BY <2>1 DEF Codes
  <2>4. c \in [1..m -> CodePoint]
    BY <2>1, <2>2, <2>3
  <2> HIDE DEF c
  <2> QED BY <1>1, <2>1, <2>3, <2>4
<1> HIDE DEF n, m, a, u, c
\* After j characters of it.
<1> DEFINE v(j) == Longer(a, SubSeq(c, 1, j))
<1>5. v(0) = a
  <2>1. SubSeq(c, 1, 0) = << >> /\ a.text \o << >> = a.text
    BY <1>3, <1>4
  <2> QED BY <1>3, <2>1 DEF Longer
<1>6. v(m) = Longer(a, c)
  <2>1. SubSeq(c, 1, m) = c
    BY <1>4
  <2> QED BY <2>1
<1>7. ASSUME NEW j \in 1..m
      PROVE  Moves(v(j - 1), t[j], v(j))
  <2>1. j - 1 \in Nat /\ SubSeq(c, 1, j) = Append(SubSeq(c, 1, j - 1), c[j])
    BY <1>4
  <2>2. SubSeq(c, 1, j - 1) \in Seq(CodePoint)
    BY <1>4
  <2> DEFINE w == SubSeq(c, 1, j - 1)
  <2> HIDE DEF w
  <2>3. a.text \o Append(w, c[j]) = Append(a.text \o w, c[j])
    <3>1. w \in Seq(CodePoint) /\ c[j] \in CodePoint
      BY <1>4, <2>2 DEF w
    <3> QED BY <1>3, <3>1
  <2>6. Append(a.text \o w, c[j]) # << >>
    <3>1. w \in Seq(CodePoint) /\ c[j] \in CodePoint
      BY <1>4, <2>2 DEF w
    <3>2. a.text \o w \in Seq(CodePoint)
      BY <1>3, <3>1
    <3> DEFINE e == a.text \o w
    <3> HIDE DEF e
    <3>3. e \in Seq(CodePoint)
      BY <3>2 DEF e
    <3>4. IsSeq(e)
      BY <3>3 DEF IsSeq
    <3>6. Append(e, c[j]) # << >>
      BY <3>4, SeqAppend
    <3> QED BY <3>6 DEF e
  <2>4. v(j - 1).text = a.text \o w /\ v(j).text = a.text \o Append(w, c[j])
    BY <2>1 DEF Longer, w
  <2>5. v(j - 1).open = v(j).open /\ v(j - 1).back = v(j).back
    BY DEF Longer
  <2> HIDE DEF v
  <2> QED BY <1>4, <2>3, <2>4, <2>5, <2>6 DEF Moves, Continues
<1>8. \A j \in 0..m : v(j).back = << >>
  BY <1>3 DEF Longer
<1>9. /\ \A k \in 1..n : new[k] = tr[k]
      /\ \A j \in 1..m : new[n + j] = v(j)
  <2>1. \A k \in 1..n : new[k] = tr[k]
    BY <1>1
  <2>2. \A j \in 1..m : n + j \in 1..n + m /\ ~(n + j <= n) /\ (n + j) - n = j
    BY <1>1
  <2>3. \A j \in 1..m : new[n + j] = Longer(a, SubSeq(c, 1, j))
    BY <2>2
  <2> QED BY <2>1, <2>3
<1> HIDE DEF new
<1>10. \A j \in 0..m : new[n + j] = v(j)
  <2> TAKE j \in 0..m
  <2>1. CASE j = 0
    <3>1. n + 0 = n /\ n \in 1..n
      BY <1>1
    <3> QED BY <1>5, <1>9, <2>1, <3>1 DEF a
  <2>2. CASE j # 0
    <3>1. j \in 1..m
      BY <2>2
    <3> HIDE DEF v
    <3> QED BY <1>9, <3>1
  <2> QED BY <2>1, <2>2
<1> HIDE DEF v
<1>11. ASSUME NEW k \in 2..n + m
       PROVE  Moves(new[k - 1], u[k], new[k])
  <2>1. CASE k > n
    <3> DEFINE j == k - n
    <3>1. j \in 1..m /\ j - 1 \in 0..m /\ j \in 0..m /\ n + j = k /\ n + (j - 1) = k - 1
      BY <1>1, <2>1
    <3> HIDE DEF j
    <3>2. new[k - 1] = v(j - 1) /\ new[k] = v(j) /\ u[k] = t[j]
      BY <1>1, <1>10, <3>1
    <3> QED BY <1>7, <3>1, <3>2
  <2>2. CASE k <= n
    <3>1. k \in 2..n /\ k \in 1..n /\ k - 1 \in 1..n
      BY <1>1, <2>2
    <3>2. new[k - 1] = tr[k - 1] /\ u[k] = s[k] /\ new[k] = tr[k]
      BY <1>1, <1>9, <3>1
    <3> QED BY <1>2, <3>1, <3>2
  <2> QED BY <1>1, <2>1, <2>2
<1>12. ASSUME NEW k \in 1..n + m
       PROVE  new[k].back = << >>
  <2>1. CASE k >= n
    <3>1. k - n \in 0..m /\ n + (k - n) = k
      BY <1>1, <2>1
    <3> QED BY <1>8, <1>10, <3>1
  <2>2. CASE k < n
    <3>1. k \in 1..n - 1 /\ k \in 1..n
      BY <1>1, <2>2
    <3> QED BY <1>2, <1>9, <3>1
  <2> QED BY <1>1, <2>1, <2>2
<1>13. new[1] = Begun /\ new[n + m] = v(m)
  <2>1. 1 \in 1..n /\ m \in 0..m
    BY <1>1
  <2> QED BY <1>2, <1>9, <1>10, <2>1
<1>14. Trace(u, new) /\ new[Len(u)] = Longer(a, c)
  <2>1. \A k \in 1..(n + m) - 1 : k \in 1..n + m
    BY <1>1
  <2> QED BY <1>1, <1>6, <1>11, <1>12, <1>13, <2>1 DEF Trace
<1> QED BY <1>14 DEF u, a, c, n

\* The fields of an element.
LEMMA Fields ==
  ASSUME NEW name, NEW attrs, NEW children, NEW more
  PROVE  /\ Element(name, attrs, children).name = name
         /\ Element(name, attrs, children).children = children
         /\ ~IsText(Element(name, attrs, children))
         /\ [Element(name, attrs, children) EXCEPT !.children = more] = Element(name, attrs, more)
<1>1. ASSUME NEW z, NEW y
      PROVE  LET e == [kind |-> "element", name |-> name, children |-> children, declarations |-> z, attrs |-> y]
             IN  /\ e.name = name /\ e.children = children /\ ~IsText(e)
                 /\ [e EXCEPT !.children = more] =
                      [kind |-> "element", name |-> name, children |-> more, declarations |-> z, attrs |-> y]
  BY DEF IsText
<1> QED BY <1>1, Zenon DEF Element

\* The fields of a text node.
LEMMA TextFields ==
  ASSUME NEW s, NEW t
  PROVE  /\ IsText(Text(s)) /\ Text(s).content = s
         /\ [Text(s) EXCEPT !.content = t] = Text(t)
BY DEF IsText, Text

\* A text joins the text before it.
LEMMA TextJoins ==
  ASSUME NEW ch, IsSeq(ch), ch = << >> \/ ~IsText(Last(ch)), NEW t \in Seq(CodePoint), NEW s \in Seq(CodePoint)
  PROVE  Adding(Flush(ch, t), Text(s)) = Flush(ch, t \o s)
<1>0. Adding(Flush(ch, t), Text(s)) =
        IF s = << >> THEN Flush(ch, t)
        ELSE IF Flush(ch, t) # <<>> /\ IsText(Last(Flush(ch, t)))
          THEN [Flush(ch, t) EXCEPT ![Len(Flush(ch, t))].content = @ \o s]
        ELSE Append(Flush(ch, t), Text(s))
  BY TextFields, Zenon DEF Adding
<1>1. CASE s = << >>
  <2>1. t \o s = t
    BY <1>1
  <2> QED BY <1>0, <1>1, <2>1
<1>2. CASE s # << >> /\ t = << >>
  <2>1. t \o s = s /\ Flush(ch, t) = ch
    BY <1>2 DEF Flush
  <2>2. Flush(ch, s) = Append(ch, Text(s))
    BY <1>2 DEF Flush
  <2> QED BY <1>0, <1>2, <2>1, <2>2
<1>3. CASE s # << >> /\ t # << >>
  <2> DEFINE w == Append(ch, Text(t))
             n == Len(ch)
             x == Text(t \o s)
  <2>1. Flush(ch, t) = w
    BY <1>3 DEF Flush
  <2>2. IsSeq(w) /\ Len(w) = n + 1 /\ w[n + 1] = Text(t) /\ w # << >> /\ \A k \in 1..n : w[k] = ch[k]
    BY SeqAppend
  <2>3. n \in Nat
    BY SeqLength
  <2>4. t \o s # << >>
    <3>1. Len(t \o s) # 0
      BY <1>3
    <3> QED BY <3>1
  <2>5. Flush(ch, t \o s) = Append(ch, x)
    BY <2>4 DEF Flush
  <2>6. IsSeq(Append(ch, x)) /\ Len(Append(ch, x)) = n + 1 /\ Append(ch, x)[n + 1] = x
        /\ \A k \in 1..n : Append(ch, x)[k] = ch[k]
    BY SeqAppend
  <2>7. Last(w) = Text(t) /\ IsText(Last(w))
    BY <2>2, TextFields DEF Last
  <2>8. [w EXCEPT ![Len(w)].content = @ \o s] = [w EXCEPT ![Len(w)] = x]
    <3>1. w[Len(w)].content = t /\ [w[Len(w)] EXCEPT !.content = t \o s] = x
      <4>1. w[Len(w)] = Text(t)
        BY <2>2
      <4> HIDE DEF w
      <4>2. Text(t).content = t /\ [Text(t) EXCEPT !.content = t \o s] = Text(t \o s)
        BY TextFields, Zenon
      <4> QED BY <4>1, <4>2, Zenon
    <3>2. [w EXCEPT ![Len(w)].content = @ \o s] = [w EXCEPT ![Len(w)] = [w[Len(w)] EXCEPT !.content = w[Len(w)].content \o s]]
      OBVIOUS
    <3> HIDE DEF w, x
    <3> QED BY <3>1, <3>2
  <2> DEFINE u == [w EXCEPT ![Len(w)] = x]
  <2>9. IsSeq(u) /\ Len(u) = Len(w) /\ \A k \in 1..Len(w) : u[k] = IF k = Len(w) THEN x ELSE w[k]
    <3> HIDE DEF w, x
    <3>1. IsSeq(w)
      BY <2>2
    <3> DEFINE i == Len(w)
    <3> HIDE DEF i
    <3>2. IsSeq([w EXCEPT ![i] = x]) /\ Len([w EXCEPT ![i] = x]) = Len(w)
      BY <3>1, SeqChange
    <3>3. \A k \in 1..Len(w) : [w EXCEPT ![i] = x][k] = IF k = i THEN x ELSE w[k]
      BY <3>1, SeqChange
    <3> QED BY <3>2, <3>3 DEF i
  <2>10. u = Append(ch, x)
    <3> DEFINE y == Append(ch, x)
    <3> HIDE DEF w, x, u, y, n
    <3>1. IsSeq(y) /\ Len(u) = Len(y) /\ Len(u) = n + 1
      BY <2>2, <2>6, <2>9 DEF y
    <3>2. ASSUME NEW k \in 1..n + 1 PROVE u[k] = y[k]
      <4>1. k = n + 1 \/ k \in 1..n
        BY <2>3
      <4>2. k \in 1..n => k # n + 1
        BY <2>3
      <4> QED BY <2>2, <2>6, <2>9, <4>1, <4>2 DEF y
    <3> QED BY <2>9, <3>1, <3>2, SeqSame DEF y
  <2> HIDE DEF w, u, x
  <2>11. Adding(Flush(ch, t), Text(s)) = [w EXCEPT ![Len(w)].content = @ \o s]
    <3>1. Flush(ch, t) # <<>> /\ IsText(Last(Flush(ch, t))) /\ Flush(ch, t) = w /\ s # << >>
      BY <1>3, <2>1, <2>2, <2>7
    <3> QED BY <1>0, <3>1, Zenon
  <2> QED BY <2>5, <2>8, <2>10, <2>11 DEF u
<1> QED BY <1>1, <1>2, <1>3

\* One child more.
LEMMA PrefixChild ==
  ASSUME NEW n \in ElementNode, NEW k \in 1..Len(n.children)
  PROVE  LET c == n.children[k]
         IN  /\ c \in Node
             /\ IsText(c) => /\ IsString(c.content)
                             /\ Prefix(n, k) = Adding(Prefix(n, k - 1), Text(c.content))
             /\ ~IsText(c) => /\ c \in ElementNode /\ ~IsText(Returned[c])
                              /\ Prefix(n, k) = Append(Prefix(n, k - 1), Returned[c])
<1> DEFINE c == n.children[k]
<1>1. c \in Node
  <2>1. n.children \in Seq(Node)
    BY NodesTyped
  <2> QED BY <2>1
<1>2. Prefix(n, k) = Adding(Prefix(n, k - 1), Returned[c])
  BY PrefixEquation
<1> HIDE DEF c
<1>3. ASSUME IsText(c)
      PROVE  IsString(c.content) /\ Prefix(n, k) = Adding(Prefix(n, k - 1), Text(c.content))
  <2>1. c = Text(c.content) /\ IsString(c.content)
    BY <1>1, <1>3, WriterAssumption, Zenon
  <2>2. Returned[c] = c
    BY <1>1, <1>3, ReturnedEquation
  <2> QED BY <1>2, <2>1, <2>2
<1>4. ASSUME ~IsText(c)
      PROVE  /\ c \in ElementNode /\ ~IsText(Returned[c])
             /\ Prefix(n, k) = Append(Prefix(n, k - 1), Returned[c])
  <2>1. c \in ElementNode
    BY <1>1, <1>4 DEF ElementNode
  <2>2. Returned[c] = Element(c.name, c.attrs, Prefix(c, Len(c.children)))
    BY <2>1, PrefixEquation
  <2>3. ~IsText(Returned[c])
    BY <2>2, Fields
  <2> QED BY <1>2, <2>1, <2>3 DEF Adding
<1> QED BY <1>1, <1>3, <1>4 DEF c

\* What is open in the reader, of an element whose children up to the m-th have
\* been read.
Held(n, m) == Element(n.name, n.attrs, Prefix(n, m))
\* The top one, with the text that is not complete.
Fills(e, text, f) ==
  \E ch : /\ IsSeq(ch) /\ (ch = << >> \/ ~IsText(Last(ch)))
          /\ e = Element(f.node.name, f.node.attrs, ch) /\ Flush(ch, text) = Prefix(f.node, f.next - 1)
\* A reading of what has been written while the elements of st are.
Building(a, st) ==
  /\ a = [open |-> a.open, back |-> << >>, text |-> a.text] /\ a.text \in Seq(CodePoint)
  /\ IsSeq(a.open) /\ Len(a.open) = Len(st)
  /\ \A i \in 1..Len(st) - 1 : a.open[i] = Held(st[i].node, st[i].next - 2)
  /\ Fills(a.open[Len(st)], a.text, st[Len(st)])
\* Each element being written is the child of the one below it.
Nested(st, root) ==
  /\ st \in Seq(Frame) /\ st # << >> /\ st[1].node = root
  /\ \A i \in 1..Len(st) : st[i].next <= Len(st[i].node.children) + 1
  /\ \A i \in 1..Len(st) - 1 : /\ st[i].next >= 2
                               /\ st[i + 1].node = st[i].node.children[st[i].next - 1]

\* Completing the text completes the children written.
LEMMA FlushedHeld ==
  ASSUME NEW a, NEW st, NEW root, Nested(st, root), Building(a, st)
  PROVE  /\ IsSeq(Flushed(a)) /\ Len(Flushed(a)) = Len(st) /\ Len(st) \in Nat \ {0}
         /\ \A i \in 1..Len(st) - 1 : Flushed(a)[i] = Held(st[i].node, st[i].next - 2)
         /\ Flushed(a)[Len(st)] = Held(st[Len(st)].node, st[Len(st)].next - 1)
<1> DEFINE n == Len(st)
           f == st[n]
           o == a.open
           e == o[n]
           h == Held(f.node, f.next - 1)
<1>1. n \in Nat \ {0}
  BY DEF Nested
<1>2. IsSeq(o) /\ Len(o) = n /\ \A i \in 1..n - 1 : o[i] = Held(st[i].node, st[i].next - 2)
  BY DEF Building
<1>3. PICK ch : /\ IsSeq(ch) /\ (ch = << >> \/ ~IsText(Last(ch)))
                /\ e = Element(f.node.name, f.node.attrs, ch) /\ Flush(ch, a.text) = Prefix(f.node, f.next - 1)
  <2>1. Fills(e, a.text, f)
    BY DEF Building
  <2> HIDE DEF e, f
  <2> QED BY <2>1 DEF Fills
<1> HIDE DEF n, f, e, o
<1>4. CASE a.text = << >>
  <2>1. Flushed(a) = o /\ Flush(ch, a.text) = ch
    BY <1>4 DEF Flushed, Flush, o
  <2>2. e = h
    BY <1>3, <2>1 DEF Held
  <2> QED BY <1>1, <1>2, <2>1, <2>2 DEF e, f, n
<1>5. CASE a.text # << >>
  <2> DEFINE new == Append(ch, Text(a.text))
  <2>1. Flush(ch, a.text) = new
    BY <1>5 DEF Flush
  <2>2. Flushed(a) = [o EXCEPT ![n].children = Append(@, Text(a.text))]
    BY <1>2, <1>5 DEF Flushed, o
  <2>3. e.children = ch
    BY <1>3, Fields
  <2>4. [e EXCEPT !.children = new] = h
    <3>1. [e EXCEPT !.children = new] = Element(f.node.name, f.node.attrs, new)
      <4> HIDE DEF new
      <4> QED BY <1>3, Fields
    <3> QED BY <1>3, <2>1, <3>1 DEF Held
  <2>5. Flushed(a) = [o EXCEPT ![n] = h]
    <3>1. [o EXCEPT ![n].children = Append(@, Text(a.text))] =
            [o EXCEPT ![n] = [o[n] EXCEPT !.children = Append(o[n].children, Text(a.text))]]
      OBVIOUS
    <3>2. [o[n] EXCEPT !.children = Append(o[n].children, Text(a.text))] = h
      BY <2>3, <2>4 DEF e
    <3> QED BY <2>2, <3>1, <3>2, Zenon
  <2> HIDE DEF h
  <2>0. IsSeq(o)
    BY <1>2
  <2>6. IsSeq([o EXCEPT ![n] = h]) /\ Len([o EXCEPT ![n] = h]) = Len(o)
    BY <2>0, SeqChange, Zenon
  <2>7. \A k \in 1..Len(o) : [o EXCEPT ![n] = h][k] = IF k = n THEN h ELSE o[k]
    BY <2>0, SeqChange
  <2>8. n \in 1..n /\ \A i \in 1..n - 1 : i \in 1..n /\ i # n
    BY <1>1
  <2> QED BY <1>1, <1>2, <2>5, <2>6, <2>7, <2>8 DEF h, f, n
<1> QED BY <1>4, <1>5

\* The stack is one of elements and of places among their children.
LEMMA Frames ==
  ASSUME NEW st, NEW root, Nested(st, root)
  PROVE  /\ Len(st) \in Nat \ {0} /\ st \in Seq(Frame) /\ DOMAIN st = 1..Len(st)
         /\ \A i \in 1..Len(st) : /\ st[i] \in Frame /\ st[i].node \in ElementNode /\ st[i].next \in Nat \ {0}
                                  /\ Len(st[i].node.children) \in Nat
<1>1. st \in Seq(Frame) /\ st # << >>
  BY DEF Nested
<1>2. Len(st) \in Nat \ {0} /\ DOMAIN st = 1..Len(st) /\ \A i \in 1..Len(st) : st[i] \in Frame
  BY <1>1
<1>3. \A f \in Frame : f.node \in ElementNode /\ f.next \in Nat \ {0}
  BY DEF Frame
<1>4. \A n \in ElementNode : Len(n.children) \in Nat
  <2> TAKE n \in ElementNode
  <2>1. n.children \in Seq(Node)
    BY NodesTyped
  <2> QED BY <2>1
<1> QED BY <1>1, <1>2, <1>3, <1>4

\* The child that comes next, and the stack once it has been taken.
AtChild(st, c) ==
  /\ st[Len(st)].next <= Len(st[Len(st)].node.children)
  /\ c = st[Len(st)].node.children[st[Len(st)].next]
Taken(st, rest) ==
  /\ rest \in Seq(Frame) /\ Len(rest) = Len(st)
  /\ \A i \in 1..Len(st) - 1 : rest[i] = st[i]
  /\ rest[Len(st)].node = st[Len(st)].node /\ rest[Len(st)].next = st[Len(st)].next + 1

\* Taking the next child keeps the stack one of open elements.
LEMMA Advances ==
  ASSUME NEW st, NEW root, Nested(st, root), NEW c, AtChild(st, c)
  PROVE  /\ Taken(st, [st EXCEPT ![Len(st)].next = @ + 1])
         /\ Nested([st EXCEPT ![Len(st)].next = @ + 1], root)
<1> DEFINE n == Len(st)
           f == st[n]
           g == [f EXCEPT !.next = @ + 1]
           rest == [st EXCEPT ![n] = g]
<1>1. [st EXCEPT ![Len(st)].next = @ + 1] = rest
  OBVIOUS
<1>2. n \in Nat \ {0} /\ st \in Seq(Frame) /\ DOMAIN st = 1..n /\ f \in Frame
      /\ f.next \in Nat \ {0} /\ Len(f.node.children) \in Nat
  BY Frames
<1>3. g \in Frame /\ g.node = f.node /\ g.next = f.next + 1
  <2> HIDE DEF f
  <2> QED BY <1>2 DEF Frame
<1> HIDE DEF g
<1>4. rest \in Seq(Frame) /\ Len(rest) = n /\ \A i \in 1..n : rest[i] = IF i = n THEN g ELSE st[i]
  <2> HIDE DEF n
  <2>1. rest = [i \in 1..n |-> IF i = n THEN g ELSE st[i]]
    BY <1>2
  <2>2. \A i \in 1..n : (IF i = n THEN g ELSE st[i]) \in Frame
    BY <1>2, <1>3
  <2> HIDE DEF rest
  <2>3. rest \in [1..n -> Frame]
    BY <2>1, <2>2
  <2> QED BY <1>2, <2>1, <2>3
<1>5. Taken(st, rest)
  <2>1. n \in 1..n /\ \A i \in 1..n - 1 : i \in 1..n /\ i # n
    <3>1. n \in Nat \ {0}
      BY <1>2
    <3> HIDE DEF n
    <3> QED BY <3>1
  <2> HIDE DEF rest
  <2> QED BY <1>3, <1>4, <2>1 DEF Taken
<1>6. Nested(rest, root)
  <2>1. /\ st[1].node = root
        /\ \A i \in 1..n : st[i].next <= Len(st[i].node.children) + 1
        /\ \A i \in 1..n - 1 : st[i].next >= 2 /\ st[i + 1].node = st[i].node.children[st[i].next - 1]
    BY DEF Nested
  <2>2. f.next + 1 <= Len(f.node.children) + 1
    <3>1. f.next <= Len(f.node.children)
      BY DEF AtChild
    <3> HIDE DEF f
    <3> QED BY <1>2, <3>1
  <2> HIDE DEF rest, n, f
  <2>3. \A i \in 1..n : rest[i].node = st[i].node
    BY <1>3, <1>4 DEF f
  <2>4. rest # << >> /\ rest[1].node = root
    <3>1. 1 \in 1..n
      BY <1>2
    <3> QED BY <1>2, <1>4, <2>1, <2>3, <3>1
  <2>5. ASSUME NEW i \in 1..n
        PROVE  rest[i].next <= Len(rest[i].node.children) + 1
    <3>1. CASE i = n
      BY <1>3, <1>4, <2>2, <3>1
    <3>2. CASE i # n
      BY <1>4, <2>1, <3>2
    <3> QED BY <3>1, <3>2
  <2>6. ASSUME NEW i \in 1..n - 1
        PROVE  rest[i].next >= 2 /\ rest[i + 1].node = rest[i].node.children[rest[i].next - 1]
    <3>1. i \in 1..n /\ i + 1 \in 1..n /\ i # n
      BY <1>2
    <3>2. rest[i] = st[i] /\ rest[i + 1].node = st[i + 1].node
      BY <1>4, <2>3, <3>1
    <3> QED BY <2>1, <3>2
  <2> QED BY <1>4, <2>4, <2>5, <2>6 DEF Nested
<1> QED BY <1>1, <1>5, <1>6

\* What has been read under the top one stays what is open of the others.
LEMMA Below ==
  ASSUME NEW a, NEW st, NEW root, Nested(st, root), Building(a, st), NEW rest, Taken(st, rest)
  PROVE  /\ \A i \in 1..Len(st) - 1 : Flushed(a)[i] = Held(rest[i].node, rest[i].next - 2)
         /\ Flushed(a)[Len(st)] = Held(rest[Len(st)].node, rest[Len(st)].next - 2)
<1> DEFINE n == Len(st)
<1>1. /\ n \in Nat \ {0}
      /\ \A i \in 1..n - 1 : Flushed(a)[i] = Held(st[i].node, st[i].next - 2)
      /\ Flushed(a)[n] = Held(st[n].node, st[n].next - 1)
  BY FlushedHeld
<1>2. /\ \A i \in 1..n - 1 : rest[i] = st[i]
      /\ rest[n].node = st[n].node /\ rest[n].next = st[n].next + 1
  BY DEF Taken
<1>3. st[n].next \in Nat /\ (st[n].next + 1) - 2 = st[n].next - 1
  <2>1. st[n].next \in Nat
    BY <1>1, Frames
  <2> DEFINE x == st[n].next
  <2> HIDE DEF x
  <2>2. x \in Nat
    BY <2>1 DEF x
  <2> QED BY <2>2 DEF x
<1> HIDE DEF n
<1>4. \A i \in 1..n - 1 : Flushed(a)[i] = Held(rest[i].node, rest[i].next - 2)
  BY <1>1, <1>2
<1>5. Flushed(a)[n] = Held(rest[n].node, rest[n].next - 2)
  BY <1>1, <1>2, <1>3
<1> QED BY <1>4, <1>5 DEF n

\* The next text.
LEMMA TextBuilt ==
  ASSUME NEW a, NEW st, NEW root, Nested(st, root), Building(a, st), NEW rest, Taken(st, rest),
         NEW c, AtChild(st, c), IsText(c)
  PROVE  Building(Longer(a, c.content), rest)
<1> DEFINE n == Len(st)
           f == st[n]
           g == rest[n]
           b == Longer(a, c.content)
           e == a.open[n]
<1>1. n \in Nat \ {0} /\ f.node \in ElementNode /\ f.next \in Nat \ {0} /\ Len(f.node.children) \in Nat
  BY Frames
<1>2. f.next <= Len(f.node.children) /\ c = f.node.children[f.next]
  BY DEF AtChild
<1>3. /\ \A i \in 1..n - 1 : rest[i] = st[i]
      /\ g.node = f.node /\ g.next = f.next + 1 /\ Len(rest) = n
  BY DEF Taken
<1>4. /\ a.text \in Seq(CodePoint) /\ IsSeq(a.open) /\ Len(a.open) = n /\ a.back = << >>
      /\ \A i \in 1..n - 1 : a.open[i] = Held(st[i].node, st[i].next - 2)
      /\ Fills(e, a.text, f)
  BY DEF Building
<1> HIDE DEF f, g, n, e
<1>5. f.next \in 1..Len(f.node.children) /\ g.next - 1 = f.next
  BY <1>1, <1>2, <1>3
<1>6. IsString(c.content) /\ Prefix(f.node, f.next) = Adding(Prefix(f.node, f.next - 1), Text(c.content))
  BY <1>1, <1>2, <1>5, PrefixChild
<1>7. c.content \in Seq(CodePoint)
  BY <1>6 DEF IsString
<1>8. b.open = a.open /\ b.back = << >> /\ b.text = a.text \o c.content
      /\ b = [open |-> b.open, back |-> << >>, text |-> b.text]
  BY <1>4 DEF Longer
<1> HIDE DEF b
<1>9. b.text \in Seq(CodePoint)
  <2>1. a.text \o c.content \in Seq(CodePoint)
    <3>1. a.text \in Seq(CodePoint)
      BY <1>4
    <3> QED BY <1>7, <3>1, Joining
  <2> QED BY <1>8, <2>1
<1>10. Fills(e, b.text, g)
  <2>1. PICK ch : /\ IsSeq(ch) /\ (ch = << >> \/ ~IsText(Last(ch)))
                  /\ e = Element(f.node.name, f.node.attrs, ch) /\ Flush(ch, a.text) = Prefix(f.node, f.next - 1)
    BY <1>4 DEF Fills
  <2>2. Adding(Flush(ch, a.text), Text(c.content)) = Flush(ch, a.text \o c.content)
    BY <1>4, <1>7, <2>1, TextJoins
  <2>3. Flush(ch, b.text) = Prefix(g.node, g.next - 1)
    BY <1>3, <1>5, <1>6, <1>8, <2>1, <2>2
  <2> QED BY <1>3, <2>1, <2>3 DEF Fills
<1>11. Building(b, rest)
  <2>1. \A i \in 1..n - 1 : b.open[i] = Held(rest[i].node, rest[i].next - 2)
    BY <1>3, <1>4, <1>8
  <2>2. Fills(b.open[n], b.text, rest[n])
    BY <1>8, <1>10 DEF e, g
  <2> QED BY <1>3, <1>4, <1>8, <1>9, <2>1, <2>2 DEF Building
<1> QED BY <1>11 DEF b

\* The children gathered are a sequence.
LEMMA PrefixSeq ==
  ASSUME NEW n \in ElementNode
  PROVE  \A k \in 0..Len(n.children) : IsSeq(Prefix(n, k))
<1> DEFINE m == Len(n.children)
           S == {k \in Nat : k <= m => IsSeq(Prefix(n, k))}
<1>0. m \in Nat
  <2>1. n.children \in Seq(Node)
    BY NodesTyped
  <2> QED BY <2>1
<1>1. /\ Prefix(n, 0) = << >>
      /\ \A k \in 1..m : Prefix(n, k) = Adding(Prefix(n, k - 1), Returned[n.children[k]])
  BY PrefixEquation
<1> HIDE DEF m
<1>2. 0 \in S
  <2>1. << >> \in Seq({})
    OBVIOUS
  <2> QED BY <1>1, <2>1 DEF IsSeq
<1>3. ASSUME NEW k \in Nat, k \in S
      PROVE  k + 1 \in S
  <2> SUFFICES ASSUME k + 1 <= m PROVE IsSeq(Prefix(n, k + 1))
    OBVIOUS
  <2> DEFINE c == Returned[n.children[k + 1]]
             p == Prefix(n, k)
  <2>1. k + 1 \in 1..m /\ (k + 1) - 1 = k /\ IsSeq(p)
    BY <1>0, <1>3
  <2>2. Prefix(n, k + 1) = Adding(p, c)
    BY <1>1, <2>1
  <2> HIDE DEF c, p
  <2>3. IsSeq(Append(p, c))
    BY <2>1, SeqAppend
  <2>4. IsSeq([p EXCEPT ![Len(p)].content = @ \o c.content])
    <3> DEFINE x == [p[Len(p)] EXCEPT !.content = @ \o c.content]
    <3>1. [p EXCEPT ![Len(p)].content = @ \o c.content] = [p EXCEPT ![Len(p)] = x]
      OBVIOUS
    <3> HIDE DEF x
    <3> DEFINE i == Len(p)
    <3> HIDE DEF i
    <3>2. IsSeq([p EXCEPT ![i] = x])
      BY <2>1, SeqChange
    <3> QED BY <3>1, <3>2 DEF i
  <2> QED BY <2>1, <2>2, <2>3, <2>4, Zenon DEF Adding
<1>4. Nat \subseteq S
  <2> HIDE DEF S
  <2> QED BY <1>2, <1>3, Upwards
<1> QED BY <1>0, <1>4 DEF m

\* The next element, complete, is one more of the children.
LEMMA HeldMore ==
  ASSUME NEW n \in ElementNode, NEW k \in 1..Len(n.children), ~IsText(n.children[k]),
         NEW f, f.node = n, f.next = k + 1
  PROVE  /\ [Held(n, k - 1) EXCEPT !.children = Append(@, Returned[n.children[k]])] = Held(n, k)
         /\ Fills(Held(n, k), << >>, f)
<1> DEFINE p == Prefix(n, k - 1)
           q == Prefix(n, k)
           x == Returned[n.children[k]]
<1>1. q = Append(p, x) /\ ~IsText(x)
  BY PrefixChild
<1>2. IsSeq(p) /\ IsSeq(q)
  <2>1. k - 1 \in 0..Len(n.children) /\ k \in 0..Len(n.children)
    OBVIOUS
  <2> QED BY <2>1, PrefixSeq
<1>3. (k + 1) - 1 = k
  OBVIOUS
<1> HIDE DEF p, q, x
<1>4. Held(n, k - 1) = Element(n.name, n.attrs, p) /\ Held(n, k) = Element(n.name, n.attrs, q)
  BY DEF Held, p, q
<1>5. [Held(n, k - 1) EXCEPT !.children = Append(@, x)] = Held(n, k)
  <2>1. Held(n, k - 1).children = p
    BY <1>4, Fields
  <2>2. [Held(n, k - 1) EXCEPT !.children = q] = Held(n, k)
    BY <1>4, Fields
  <2>3. [Held(n, k - 1) EXCEPT !.children = Append(@, x)] =
          [Held(n, k - 1) EXCEPT !.children = Append(Held(n, k - 1).children, x)]
    OBVIOUS
  <2> QED BY <1>1, <2>1, <2>2, <2>3
<1>6. Fills(Held(n, k), << >>, f)
  <2>1. Last(q) = x
    <3>1. Len(p) \in Nat
      BY <1>2, SeqLength
    <3>2. Len(q) = Len(p) + 1 /\ q[Len(p) + 1] = x
      BY <1>1, <1>2, SeqAppend
    <3> QED BY <3>1, <3>2 DEF Last
  <2>2. Flush(q, << >>) = Prefix(f.node, f.next - 1)
    BY <1>3 DEF Flush, q
  <2> QED BY <1>1, <1>2, <1>4, <2>1, <2>2 DEF Fills
<1> QED BY <1>5, <1>6 DEF x

\* An element that has no children is complete at once.
LEMMA EmptyReturned ==
  ASSUME NEW c \in ElementNode
  PROVE  /\ Held(c, 0) = Element(c.name, c.attrs, << >>)
         /\ Held(c, Len(c.children)) = Returned[c]
         /\ c.children = << >> => Returned[c] = Element(c.name, c.attrs, << >>)
         /\ c.children # << >> => Len(c.children) \in Nat \ {0}
<1>1. Prefix(c, 0) = << >> /\ Returned[c] = Element(c.name, c.attrs, Prefix(c, Len(c.children)))
  BY PrefixEquation
<1>2. /\ c.children = << >> => Len(c.children) = 0
      /\ c.children # << >> => Len(c.children) \in Nat \ {0}
  <2>1. c.children \in Seq(Node)
    BY NodesTyped
  <2> QED BY <2>1
<1> QED BY <1>1, <1>2 DEF Held

Reads(x, name, attrs, empty) ==
  /\ x \in StartReadable /\ x \in Symbol /\ AttrsRead(x.attrs) = attrs
  /\ x.name = name /\ x.empty = empty
Attributes(attrs) ==
  /\ attrs \in Seq([name : Seq(CodePoint), value : Seq(CodePoint)])
  /\ \A k \in DOMAIN attrs : IsName(attrs[k].name) /\ IsString(attrs[k].value)
\* The tags come back as the element's name and attributes.
LEMMA StartReads ==
  ASSUME NEW name, IsName(name), NEW attrs, Attributes(attrs), NEW empty \in BOOLEAN
  PROVE  Reads(StartTag(name, attrs, empty), name, attrs, empty)
<1>0. /\ attrs \in Seq([name : Seq(CodePoint), value : Seq(CodePoint)])
      /\ \A k \in DOMAIN attrs : IsName(attrs[k].name) /\ IsString(attrs[k].value)
  BY DEF Attributes
<1> DEFINE x == StartTag(name, attrs, empty)
<1>1. name \in Seq(CodePoint)
  BY DEF IsName
<1>2. x \in Symbol
  BY <1>0, <1>1, StartTagAgreed
<1>3. /\ x.form = "start" /\ x.name = name /\ x.empty = empty /\ DOMAIN x.attrs = DOMAIN attrs
      /\ x.attrs = [k \in DOMAIN attrs |-> [name |-> attrs[k].name, value |-> Escape(attrs[k].value, TRUE)]]
      /\ \A k \in DOMAIN attrs : /\ x.attrs[k].name = attrs[k].name
                                 /\ x.attrs[k].value = Escape(attrs[k].value, TRUE)
  BY DEF StartTag
<1> HIDE DEF x
<1>4. x \in StartSymbol
  BY <1>2, <1>3 DEF Symbol, CharSymbol, EndSymbol, DeclarationSymbol
<1>5. \A k \in DOMAIN attrs : /\ Escape(attrs[k].value, TRUE) \in Seq(PlainSymbol)
                              /\ Codes(Escape(attrs[k].value, TRUE)) = attrs[k].value
  BY <1>0, EscapePlain
<1>6. x \in StartReadable
  BY <1>0, <1>3, <1>4, <1>5 DEF StartReadable
<1>7. AttrsRead(x.attrs) = attrs
  <2>1. AttrsRead(x.attrs) = [k \in DOMAIN attrs |-> [name |-> attrs[k].name, value |-> attrs[k].value]]
    BY <1>3, <1>5 DEF AttrsRead
  <2>2. \A k \in DOMAIN attrs : attrs[k] = [name |-> attrs[k].name, value |-> attrs[k].value]
    <3> TAKE k \in DOMAIN attrs
    <3>1. attrs[k] \in [name : Seq(CodePoint), value : Seq(CodePoint)]
      BY <1>0, Member
    <3> QED BY <3>1
  <2>3. attrs = [k \in DOMAIN attrs |-> attrs[k]]
    BY <1>0
  <2> QED BY <2>1, <2>2, <2>3
<1> QED BY <1>2, <1>3, <1>6, <1>7 DEF x, Reads

\* The start tag of an element is read as its name and attributes.
LEMMA OpeningReads ==
  ASSUME NEW c \in ElementNode
  PROVE  /\ Opening(c) \in StartReadable /\ Opening(c) \in Symbol
         /\ AttrsRead(Opening(c).attrs) = c.attrs
         /\ Opening(c).name = c.name /\ Opening(c).empty = (c.children = << >>)
<1>1. /\ IsName(c.name) /\ c.attrs \in Seq([name : Seq(CodePoint), value : Seq(CodePoint)])
      /\ \A k \in DOMAIN c.attrs : IsName(c.attrs[k].name) /\ IsString(c.attrs[k].value)
  BY WriterAssumption DEF ElementNode
<1>2. (c.children = << >>) \in BOOLEAN
  OBVIOUS
<1> DEFINE e == (c.children = << >>)
<1>3. Opening(c) = StartTag(c.name, c.attrs, e) /\ e \in BOOLEAN
  BY <1>2 DEF Opening
<1> HIDE DEF e
<1>4. Reads(StartTag(c.name, c.attrs, e), c.name, c.attrs, e)
  BY <1>1, <1>3, StartReads DEF Attributes
<1> QED BY <1>3, <1>4 DEF e, Reads

\* The end tag of an element is read as its name.
LEMMA EndReads ==
  ASSUME NEW name, IsName(name)
  PROVE  EndTag(name) \in EndReadable /\ EndTag(name) \in Symbol /\ EndTag(name).name = name
<1>1. name \in Seq(CodePoint)
  BY DEF IsName
<1>2. EndTag(name) \in Symbol
  BY <1>1, EndTagAgreed
<1> QED BY <1>1, <1>2 DEF EndReadable, EndSymbol, EndTag

\* What is open, and the stack, once c is.
Opened(a, c) ==
  [open |-> Append(Flushed(a), Element(c.name, c.attrs, << >>)), back |-> << >>, text |-> << >>]
Raised(rest, c) == rest \o <<[node |-> c, next |-> 1]>>
\* What is open once c, which has no children, is complete.
Filled(a, c) ==
  [open |-> [Flushed(a) EXCEPT ![Len(Flushed(a))].children = Append(@, Element(c.name, c.attrs, << >>))],
   back |-> << >>, text |-> << >>]
\* The next element: one with children is open above the others.
LEMMA OpenBuilt ==
  ASSUME NEW a, NEW st, NEW root, Nested(st, root), Building(a, st), NEW rest, Taken(st, rest), Nested(rest, root),
         NEW c, AtChild(st, c), c \in ElementNode
  PROVE  Building(Opened(a, c), Raised(rest, c)) /\ Nested(Raised(rest, c), root)
<1> DEFINE b == Opened(a, c)
           up == Raised(rest, c)
           n == Len(st)
           x == Element(c.name, c.attrs, << >>)
           F == Flushed(a)
           o == Append(F, x)
           g == [node |-> c, next |-> 1]
<1>1. IsSeq(F) /\ Len(F) = n /\ n \in Nat \ {0}
  BY FlushedHeld
<1>2. \A i \in 1..n : F[i] = Held(rest[i].node, rest[i].next - 2)
  <2>1. /\ \A i \in 1..Len(st) - 1 : F[i] = Held(rest[i].node, rest[i].next - 2)
        /\ F[n] = Held(rest[n].node, rest[n].next - 2)
    BY Below
  <2> HIDE DEF n, F
  <2> QED BY <1>1, <2>1 DEF n
<1>3. Len(rest) = n /\ rest \in Seq(Frame)
  BY DEF Taken
<1>4. g \in Frame
  BY DEF Frame
<1>5. /\ up \in Seq(Frame) /\ Len(up) = n + 1 /\ up[n + 1] = g /\ up # << >>
      /\ \A i \in 1..n : up[i] = rest[i]
  <2>1. up = rest \o <<g>>
    BY DEF Raised
  <2> HIDE DEF g, n, up
  <2>2. up = Append(rest, g)
    BY <1>3, <2>1
  <2>3. n \in Nat /\ Len(rest) = n /\ rest \in Seq(Frame) /\ g \in Frame
    BY <1>1, <1>3, <1>4
  <2> QED BY <2>2, <2>3
<1>7. b.open = o /\ b.text = << >> /\ b = [open |-> b.open, back |-> << >>, text |-> b.text]
  <2>1. b = [open |-> o, back |-> << >>, text |-> << >>]
    BY Zenon DEF Opened
  <2> HIDE DEF b, o
  <2> QED BY <2>1
<1> HIDE DEF F, b, up
<1>6. IsSeq(o) /\ Len(o) = n + 1 /\ o[n + 1] = x /\ \A i \in 1..n : o[i] = F[i]
  <2>1. IsSeq(F) /\ Len(F) = n
    BY <1>1
  <2> HIDE DEF x, n
  <2>2. IsSeq(o) /\ Len(o) = Len(F) + 1 /\ o[Len(F) + 1] = x /\ \A i \in 1..Len(F) : o[i] = F[i]
    BY <2>1, SeqAppend
  <2> QED BY <2>1, <2>2
<1>8. g.node = c /\ g.next = 1
  OBVIOUS
<1>9. Fills(x, << >>, g)
  <2>1. Prefix(c, 0) = << >>
    BY PrefixEquation
  <2>2. IsSeq(<< >>)
    <3>1. << >> \in Seq({})
      OBVIOUS
    <3> QED BY <3>1 DEF IsSeq
  <2>3. Flush(<< >>, << >>) = Prefix(g.node, g.next - 1)
    BY <1>8, <2>1 DEF Flush
  <2> HIDE DEF g
  <2> QED BY <1>8, <2>2, <2>3 DEF Fills
<1>11. Len(c.children) \in Nat /\ 1 <= Len(c.children) + 1
  <2> DEFINE s == c.children
  <2>1. s \in Seq(Node)
    BY NodesTyped
  <2> HIDE DEF s
  <2>2. Len(s) \in Nat
    BY <2>1
  <2>3. 1 <= Len(s) + 1
    BY <2>2
  <2> QED BY <2>2, <2>3 DEF s
<1>12. /\ \A i \in 1..n - 1 : rest[i + 1].node = rest[i].node.children[rest[i].next - 1] /\ rest[i].next >= 2
       /\ \A i \in 1..n : rest[i].next <= Len(rest[i].node.children) + 1
       /\ rest[1].node = root
  BY <1>3 DEF Nested
<1>13. rest[n].next >= 2 /\ c = rest[n].node.children[rest[n].next - 1]
  <2>1. st[n].next \in Nat \ {0} /\ st[n].next + 1 >= 2 /\ (st[n].next + 1) - 1 = st[n].next
    <3>1. st[n].next \in Nat \ {0}
      BY <1>1, Frames
    <3> DEFINE y == st[n].next
    <3> HIDE DEF y
    <3>2. y \in Nat \ {0}
      BY <3>1 DEF y
    <3> QED BY <3>2 DEF y
  <2>2. rest[n].node = st[n].node /\ rest[n].next = st[n].next + 1
    BY DEF Taken
  <2> QED BY <2>1, <2>2 DEF AtChild
<1> HIDE DEF x, o, g, n
<1>14. Building(b, up)
  <2>1. ASSUME NEW i \in 1..(n + 1) - 1
        PROVE  b.open[i] = Held(up[i].node, up[i].next - 2)
    <3>1. i \in 1..n
      BY <1>1
    <3> QED BY <1>2, <1>5, <1>6, <1>7, <3>1
  <2>2. b.open[n + 1] = x /\ up[n + 1] = g
    BY <1>5, <1>6, <1>7
  <2>3. b.text \in Seq(CodePoint)
    BY <1>7
  <2> QED BY <1>5, <1>6, <1>7, <1>9, <2>1, <2>2, <2>3 DEF Building
<1>15. Nested(up, root)
  <2>1. up[1].node = root
    BY <1>1, <1>5, <1>12
  <2>2. ASSUME NEW i \in 1..n + 1
        PROVE  up[i].next <= Len(up[i].node.children) + 1
    <3>1. CASE i = n + 1
      BY <1>5, <1>8, <1>11, <3>1
    <3>2. CASE i # n + 1
      <4>1. i \in 1..n
        BY <1>1, <3>2
      <4> QED BY <1>5, <1>12, <4>1
    <3> QED BY <3>1, <3>2
  <2>3. ASSUME NEW i \in 1..(n + 1) - 1
        PROVE  up[i].next >= 2 /\ up[i + 1].node = up[i].node.children[up[i].next - 1]
    <3>1. i \in 1..n
      BY <1>1
    <3>2. CASE i = n
      BY <1>5, <1>8, <1>13, <3>1, <3>2
    <3>3. CASE i # n
      <4>1. i \in 1..n - 1 /\ i + 1 \in 1..n
        BY <1>1, <3>1, <3>3
      <4>2. up[i] = rest[i] /\ up[i + 1] = rest[i + 1]
        BY <1>5, <3>1, <4>1
      <4> QED BY <1>12, <4>1, <4>2
    <3> QED BY <3>2, <3>3
  <2> QED BY <1>5, <2>1, <2>2, <2>3 DEF Nested
<1> QED BY <1>14, <1>15 DEF b, up

\* One without children is complete at once.
LEMMA EmptyBuilt ==
  ASSUME NEW a, NEW st, NEW root, Nested(st, root), Building(a, st), NEW rest, Taken(st, rest),
         NEW c, AtChild(st, c), c \in ElementNode, c.children = << >>
  PROVE  Building(Filled(a, c), rest)
<1> DEFINE b == Filled(a, c)
           n == Len(st)
           f == st[n]
           g == rest[n]
           x == Element(c.name, c.attrs, << >>)
           F == Flushed(a)
           h == Held(f.node, f.next)
           o == [F EXCEPT ![n] = h]
<1>1. /\ IsSeq(F) /\ Len(F) = n /\ n \in Nat \ {0}
      /\ F[n] = Held(f.node, f.next - 1)
  BY FlushedHeld
<1>2. \A i \in 1..n - 1 : F[i] = Held(rest[i].node, rest[i].next - 2)
  BY Below
<1>3. f.node \in ElementNode /\ f.next \in Nat \ {0} /\ Len(f.node.children) \in Nat
  BY <1>1, Frames
<1>4. g.node = f.node /\ g.next = f.next + 1 /\ Len(rest) = n
  BY DEF Taken
<1>5. f.next <= Len(f.node.children) /\ c = f.node.children[f.next]
  BY DEF AtChild
<1>6. b.open = [F EXCEPT ![Len(F)].children = Append(@, x)] /\ b.text = << >> /\ b.back = << >>
      /\ b = [open |-> b.open, back |-> << >>, text |-> b.text]
  <2> DEFINE y == [F EXCEPT ![Len(F)].children = Append(@, x)]
  <2>1. b = [open |-> y, back |-> << >>, text |-> << >>]
    BY Zenon DEF Filled
  <2> HIDE DEF b, y
  <2>2. b.open = y /\ b.text = << >> /\ b.back = << >> /\ b = [open |-> b.open, back |-> << >>, text |-> b.text]
    BY <2>1
  <2> QED BY <2>2 DEF y
<1> HIDE DEF b
<1>7. Returned[c] = x
  BY EmptyReturned
<1>8. ~IsText(c)
  BY DEF ElementNode
<1> HIDE DEF x, F, n, f, g
<1>9. /\ [Held(f.node, f.next - 1) EXCEPT !.children = Append(@, x)] = h
      /\ Fills(h, << >>, g)
  <2>1. f.next \in 1..Len(f.node.children)
    BY <1>3, <1>5
  <2> QED BY <1>3, <1>4, <1>5, <1>7, <1>8, <2>1, HeldMore
<1>10. b.open = o
  <2>1. [F EXCEPT ![n].children = Append(@, x)] = [F EXCEPT ![n] = [F[n] EXCEPT !.children = Append(@, x)]]
    OBVIOUS
  <2> QED BY <1>1, <1>6, <1>9, <2>1
<1> HIDE DEF h
<1>11. IsSeq(o) /\ Len(o) = n /\ \A i \in 1..n : o[i] = IF i = n THEN h ELSE F[i]
  <2>0. IsSeq(F)
    BY <1>1
  <2>1. IsSeq(o) /\ Len(o) = Len(F)
    BY <2>0, SeqChange, Zenon
  <2>2. \A i \in 1..Len(F) : o[i] = IF i = n THEN h ELSE F[i]
    BY <2>0, SeqChange
  <2> QED BY <1>1, <2>1, <2>2
<1>12. n \in 1..n /\ \A i \in 1..n - 1 : i \in 1..n /\ i # n
  BY <1>1
<1>13. o[n] = h /\ \A i \in 1..n - 1 : o[i] = F[i]
  BY <1>11, <1>12
<1> HIDE DEF o
<1>14. << >> \in Seq(CodePoint)
  OBVIOUS
<1>15. Building(b, rest)
  BY <1>2, <1>4, <1>6, <1>9, <1>10, <1>11, <1>13, <1>14 DEF Building, g
<1> QED BY <1>15 DEF b

\* At its end tag the top one is complete.
LEMMA TopDone ==
  ASSUME NEW a, NEW st, NEW root, Nested(st, root), Building(a, st),
         st[Len(st)].next > Len(st[Len(st)].node.children)
  PROVE  /\ Last(Flushed(a)) = Returned[st[Len(st)].node]
         /\ Last(Flushed(a)).name = st[Len(st)].node.name
         /\ st[Len(st)].next = Len(st[Len(st)].node.children) + 1
<1> DEFINE n == Len(st)
           f == st[n]
           k == f.next
           m == Len(f.node.children)
<1>1. n \in Nat \ {0} /\ Len(Flushed(a)) = n /\ Flushed(a)[n] = Held(f.node, k - 1)
  BY FlushedHeld
<1>2. f.node \in ElementNode /\ k \in Nat \ {0} /\ m \in Nat
  BY <1>1, Frames
<1>3. k <= m + 1
  <2>1. n \in 1..n
    BY <1>1
  <2> QED BY <2>1 DEF Nested
<1>4. k > m
  OBVIOUS
<1> HIDE DEF k, m
<1>5. k = m + 1 /\ k - 1 = m
  BY <1>2, <1>3, <1>4
<1> HIDE DEF n, f
<1>6. Held(f.node, m) = Returned[f.node]
  BY <1>2, EmptyReturned DEF m
<1>7. Last(Flushed(a)) = Returned[f.node]
  BY <1>1, <1>5, <1>6 DEF Last
<1>8. Held(f.node, m).name = f.node.name
  BY Fields DEF Held
<1> QED BY <1>5, <1>6, <1>7, <1>8 DEF k, m, f, n

\* It becomes a child of the one below it.
LEMMA CloseBuilt ==
  ASSUME NEW a, NEW st, NEW root, Nested(st, root), Building(a, st), Len(st) # 1,
         st[Len(st)].next > Len(st[Len(st)].node.children),
         NEW b, b = [open |-> [Popped(Flushed(a)) EXCEPT ![Len(Popped(Flushed(a)))].children =
                                 Append(@, Last(Flushed(a)))],
                     back |-> << >>, text |-> << >>]
  PROVE  Building(b, Popped(st)) /\ Nested(Popped(st), root) /\ Popped(Flushed(a)) # << >>
<1> DEFINE n == Len(st)
           m == n - 1
           f == st[m]
           F == Flushed(a)
           P == Popped(F)
           R == Popped(st)
           c == st[n].node
           x == Returned[c]
           h == Held(f.node, f.next - 1)
           o == [P EXCEPT ![m] = h]
<1>1. /\ IsSeq(F) /\ Len(F) = n /\ n \in Nat \ {0} /\ m \in Nat \ {0}
      /\ \A i \in 1..m : F[i] = Held(st[i].node, st[i].next - 2)
  BY FlushedHeld
<1>2. Last(F) = x
  BY TopDone
<1>3. /\ f.node \in ElementNode /\ f.next \in Nat \ {0} /\ Len(f.node.children) \in Nat
      /\ c \in ElementNode /\ st \in Seq(Frame)
  <2>1. m \in 1..n /\ n \in 1..n
    BY <1>1
  <2> QED BY <2>1, Frames
<1>4. /\ f.next <= Len(f.node.children) + 1 /\ f.next >= 2 /\ c = f.node.children[f.next - 1]
      /\ st[1].node = root
  <2>1. m \in 1..n /\ m \in 1..n - 1 /\ m + 1 = n
    BY <1>1
  <2>2. st[m].next <= Len(st[m].node.children) + 1 /\ st[m].next >= 2
        /\ st[m + 1].node = st[m].node.children[st[m].next - 1] /\ st[1].node = root
    BY <2>1 DEF Nested
  <2> QED BY <2>1, <2>2
<1>5. IsSeq(P) /\ Len(P) = m /\ \A i \in 1..m : P[i] = F[i]
  <2>1. F # << >>
    <3> HIDE DEF F
    <3> QED BY <1>1
  <2> HIDE DEF F
  <2> QED BY <1>1, <2>1, SeqPopped
<1>6. P # << >>
  <2> HIDE DEF P, m
  <2> QED BY <1>1, <1>5
<1>7. IsSeq(R) /\ Len(R) = m /\ R # << >> /\ \A i \in 1..m : R[i] = st[i]
  <2>1. IsSeq(st) /\ st # << >>
    BY <1>3 DEF IsSeq, Nested
  <2>2. IsSeq(R) /\ Len(R) = m /\ \A i \in 1..m : R[i] = st[i]
    BY <2>1, SeqPopped
  <2> HIDE DEF R, m
  <2>3. R # << >>
    BY <1>1, <2>2
  <2> QED BY <2>2, <2>3
<1>8. R \in Seq(Frame)
  <2> DEFINE s == SubSeq(st, 1, m)
  <2>1. m \in Nat /\ m <= Len(st) /\ 1 <= m + 1
    BY <1>1
  <2> HIDE DEF m
  <2>2. s \in Seq(Frame)
    BY <1>3, <2>1
  <2> QED BY <2>2 DEF Popped, m
<1>9. ~IsText(c)
  BY <1>3 DEF ElementNode
<1>10. b.open = [P EXCEPT ![Len(P)].children = Append(@, Last(F))] /\ b.text = << >> /\ b.back = << >>
       /\ b = [open |-> b.open, back |-> << >>, text |-> b.text]
  OBVIOUS
<1> DEFINE k == f.next - 1
<1>11. k \in 1..Len(f.node.children) /\ f.next = k + 1 /\ k - 1 = f.next - 2
  <2> DEFINE y == f.next
             l == Len(f.node.children)
  <2>1. y \in Nat \ {0} /\ l \in Nat /\ y <= l + 1 /\ y >= 2
    BY <1>3, <1>4
  <2> HIDE DEF y, l
  <2> QED BY <2>1 DEF y, l
<1> HIDE DEF F, P, R, c, x, f
<1>12. /\ [Held(f.node, k - 1) EXCEPT !.children = Append(@, x)] = h
       /\ Fills(h, << >>, f)
  <2>1. k \in 1..Len(f.node.children) /\ f.next = k + 1 /\ c = f.node.children[k] /\ h = Held(f.node, k)
    BY <1>4, <1>11
  <2> HIDE DEF k, h
  <2>2. Returned[f.node.children[k]] = x
    BY <2>1 DEF x
  <2>3. ~IsText(f.node.children[k])
    BY <1>9, <2>1
  <2> QED BY <1>3, <2>1, <2>2, <2>3, HeldMore
<1> HIDE DEF k, h
<1>13. P[m] = Held(f.node, k - 1)
  <2>1. m \in 1..m
    BY <1>1
  <2> QED BY <1>1, <1>5, <1>11, <2>1 DEF f
<1> HIDE DEF m
<1>14. b.open = o
  <2>1. [P EXCEPT ![m].children = Append(@, x)] = [P EXCEPT ![m] = [P[m] EXCEPT !.children = Append(@, x)]]
    OBVIOUS
  <2> QED BY <1>2, <1>5, <1>10, <1>12, <1>13, <2>1
<1>15. IsSeq(o) /\ Len(o) = m /\ \A i \in 1..m : o[i] = IF i = m THEN h ELSE P[i]
  <2>0. IsSeq(P)
    BY <1>5
  <2>1. IsSeq(o) /\ Len(o) = Len(P)
    BY <2>0, SeqChange
  <2>2. \A i \in 1..Len(P) : o[i] = IF i = m THEN h ELSE P[i]
    BY <2>0, SeqChange
  <2> QED BY <1>5, <2>1, <2>2
<1>16. m \in 1..m /\ \A i \in 1..m - 1 : i \in 1..m /\ i # m
  BY <1>1
<1> HIDE DEF o
<1>17. Building(b, R)
  <2>1. << >> \in Seq(CodePoint)
    OBVIOUS
  <2>2. ASSUME NEW i \in 1..m - 1
        PROVE  b.open[i] = Held(R[i].node, R[i].next - 2)
    <3>1. i \in 1..m /\ i # m
      BY <1>16
    <3> QED BY <1>1, <1>5, <1>7, <1>14, <1>15, <3>1
  <2>3. b.open[m] = h /\ R[m] = f
    BY <1>7, <1>14, <1>15, <1>16 DEF f
  <2> QED BY <1>7, <1>10, <1>12, <1>14, <1>15, <2>1, <2>2, <2>3 DEF Building
<1>18. Nested(R, root)
  <2>1. /\ \A i \in 1..n : st[i].next <= Len(st[i].node.children) + 1
        /\ \A i \in 1..n - 1 : st[i].next >= 2 /\ st[i + 1].node = st[i].node.children[st[i].next - 1]
    BY DEF Nested
  <2>2. m \in Nat \ {0} /\ n = m + 1
    BY <1>1 DEF m
  <2> HIDE DEF n
  <2>3. R[1].node = root
    <3>1. 1 \in 1..m
      BY <2>2
    <3> QED BY <1>4, <1>7, <3>1
  <2>4. ASSUME NEW i \in 1..m
        PROVE  R[i].next <= Len(R[i].node.children) + 1
    <3>1. i \in 1..n
      BY <2>2
    <3> QED BY <1>7, <2>1, <3>1
  <2>5. ASSUME NEW i \in 1..m - 1
        PROVE  R[i].next >= 2 /\ R[i + 1].node = R[i].node.children[R[i].next - 1]
    <3>1. i \in 1..m /\ i + 1 \in 1..m /\ i \in 1..n - 1
      BY <2>2
    <3>2. R[i] = st[i] /\ R[i + 1] = st[i + 1]
      BY <1>7, <3>1
    <3> QED BY <2>1, <3>1, <3>2
  <2> QED BY <1>7, <1>8, <2>3, <2>4, <2>5 DEF Nested
<1> QED BY <1>6, <1>17, <1>18 DEF R, P, F

\* The document so far is read as the elements of st; and all of it as n.
Writing(s, st, root) == Nested(st, root) /\ \E tr : Trace(s, tr) /\ Building(tr[Len(s)], st)
Finished(n) == [open |-> << >>, back |-> <<n>>, text |-> << >>]
Written(s, n) == s # << >> /\ \E tr : Trace(s, tr) /\ tr[Len(s)] = Finished(n)

\* WriteChild of a text.
LEMMA WritingText ==
  ASSUME NEW s \in Seq(Symbol), s # << >>, NEW st, NEW root, Writing(s, st, root),
         NEW c, AtChild(st, c), IsText(c)
  PROVE  Writing(s \o Escape(c.content, FALSE), [st EXCEPT ![Len(st)].next = @ + 1], root)
<1> DEFINE rest == [st EXCEPT ![Len(st)].next = @ + 1]
           t == Escape(c.content, FALSE)
<1>1. PICK tr : Trace(s, tr) /\ Building(tr[Len(s)], st)
  BY DEF Writing
<1>2. Nested(st, root)
  BY DEF Writing
<1>3. Taken(st, rest) /\ Nested(rest, root)
  BY <1>2, Advances
<1> DEFINE a == tr[Len(s)]
<1>4. Building(Longer(a, c.content), rest)
  <2> HIDE DEF rest, a
  <2>1. Building(a, st)
    BY <1>1 DEF a
  <2> QED BY <1>2, <1>3, <2>1, TextBuilt
<1>5. IsString(c.content)
  <2>1. st[Len(st)].node \in ElementNode /\ st[Len(st)].next \in Nat \ {0} /\ Len(st[Len(st)].node.children) \in Nat
    <3>1. Len(st) \in 1..Len(st)
      <4>1. Len(st) \in Nat \ {0}
        BY <1>2, Frames
      <4> DEFINE n == Len(st)
      <4> HIDE DEF n
      <4>2. n \in Nat \ {0}
        BY <4>1 DEF n
      <4>3. n \in 1..n
        BY <4>2
      <4> QED BY <4>3 DEF n
    <3> QED BY <1>2, <3>1, Frames
  <2> DEFINE n == st[Len(st)].node
             k == st[Len(st)].next
  <2>2. k <= Len(n.children) /\ c = n.children[k]
    BY DEF AtChild
  <2>3. n \in ElementNode /\ k \in Nat \ {0} /\ Len(n.children) \in Nat
    BY <2>1
  <2> HIDE DEF n, k
  <2>4. k \in 1..Len(n.children)
    BY <2>2, <2>3
  <2> QED BY <2>2, <2>3, <2>4, PrefixChild
<1>6. /\ t \in Seq(PlainSymbol) /\ Codes(t) = c.content /\ t \in Seq(Symbol)
  <2>1. t \in Seq(PlainSymbol) /\ Codes(t) = c.content
    BY <1>5, EscapePlain
  <2>2. c.content \in Seq(CodePoint)
    BY <1>5 DEF IsString
  <2>3. t \in Seq(Symbol)
    BY <2>2, EscapeAgreed
  <2> QED BY <2>1, <2>3
<1>7. a = [open |-> a.open, back |-> << >>, text |-> a.text] /\ a.text \in Seq(CodePoint)
  BY <1>1 DEF Building
<1> HIDE DEF t, rest
<1>8. PICK new : Trace(s \o t, new) /\ new[Len(s \o t)] = Longer(a, Codes(t))
  BY <1>1, <1>6, <1>7, TraceText
<1>9. Building(new[Len(s \o t)], rest)
  BY <1>4, <1>6, <1>8
<1>10. Writing(s \o t, rest, root)
  BY <1>3, <1>8, <1>9 DEF Writing
<1> QED BY <1>10 DEF t, rest

\* A tag more.
LEMMA WritingElement ==
  ASSUME NEW s \in Seq(Symbol), s # << >>, NEW st, NEW root, Writing(s, st, root),
         NEW c, AtChild(st, c), c \in ElementNode
  PROVE  Writing(Append(s, Opening(c)), [st EXCEPT ![Len(st)].next = @ + 1] \o Entered(c), root)
<1> DEFINE rest == [st EXCEPT ![Len(st)].next = @ + 1]
           x == Opening(c)
           n == Element(c.name, c.attrs, << >>)
<1>1. PICK tr : Trace(s, tr) /\ Building(tr[Len(s)], st)
  BY DEF Writing
<1>2. Nested(st, root)
  BY DEF Writing
<1>3. Taken(st, rest) /\ Nested(rest, root)
  BY <1>2, Advances
<1> DEFINE a == tr[Len(s)]
<1>4. Building(a, st) /\ a.back = << >>
  <2>1. a = [open |-> a.open, back |-> << >>, text |-> a.text]
    BY <1>1 DEF Building
  <2> QED BY <1>1, <2>1
<1>5. /\ x \in StartReadable /\ x \in Symbol /\ x.name = c.name /\ x.empty = (c.children = << >>)
      /\ Element(x.name, AttrsRead(x.attrs), << >>) = n
  <2>1. /\ x \in StartReadable /\ x \in Symbol /\ x.name = c.name /\ x.empty = (c.children = << >>)
        /\ AttrsRead(x.attrs) = c.attrs
    BY OpeningReads
  <2> HIDE DEF x
  <2> QED BY <2>1
<1>6. IsSeq(Flushed(a)) /\ Len(Flushed(a)) \in Nat \ {0}
  BY <1>2, <1>4, FlushedHeld
<1>7. Flushed(a) # << >>
  <2> DEFINE F == Flushed(a)
  <2>1. IsSeq(F) /\ Len(F) \in Nat \ {0}
    BY <1>6
  <2> HIDE DEF F
  <2>2. F # << >>
    BY <2>1, SeqLength
  <2> QED BY <2>2 DEF F
<1>8. CASE c.children = << >>
  <2> DEFINE o == [Flushed(a) EXCEPT ![Len(Flushed(a))].children = Append(@, n)]
             b == Filled(a, c)
  <2>1. Building(b, rest)
    <3> HIDE DEF rest, a
    <3> QED BY <1>2, <1>3, <1>4, <1>8, EmptyBuilt
  <2>2. Starts(a, x, b)
    <3>1. b = [open |-> o, back |-> << >>, text |-> << >>]
      BY Zenon DEF Filled
    <3> HIDE DEF x, a, n, b
    <3>2. b.open = o /\ b.back = << >> /\ b.text = << >>
      <4> HIDE DEF o
      <4> QED BY <3>1
    <3>3. Lands(Flushed(a), n, a.back, b)
      BY <1>4, <1>7, <3>2 DEF Lands
    <3>4. x.empty
      BY <1>5, <1>8
    <3> HIDE DEF o
    <3> QED BY <1>5, <3>2, <3>3, <3>4 DEF Starts
  <2> HIDE DEF x, a, n
  <2> HIDE DEF b
  <2>3. Moves(a, x, b)
    BY <1>5, <2>2 DEF Moves
  <2>4. PICK new : Trace(Append(s, x), new) /\ new[Len(Append(s, x))] = b
    BY <1>1, <1>4, <1>5, <2>3, TraceMore DEF a
  <2>5. rest \o Entered(c) = rest
    <3>1. rest \in Seq(Frame)
      BY <1>3 DEF Taken
    <3>2. Entered(c) = << >>
      BY <1>8 DEF Entered
    <3> HIDE DEF rest
    <3> QED BY <3>1, <3>2
  <2> HIDE DEF rest
  <2>6. Writing(Append(s, x), rest \o Entered(c), root)
    BY <1>3, <2>1, <2>4, <2>5 DEF Writing
  <2> QED BY <2>6 DEF rest, x
<1>9. CASE c.children # << >>
  <2> DEFINE o == Append(Flushed(a), n)
             b == Opened(a, c)
             up == Raised(rest, c)
  <2>1. Building(b, up) /\ Nested(up, root)
    <3> HIDE DEF rest, a
    <3>1. Nested(st, root) /\ Building(a, st) /\ Taken(st, rest) /\ Nested(rest, root)
      BY <1>2, <1>3, <1>4
    <3> QED BY <3>1, OpenBuilt
  <2>2. Starts(a, x, b)
    <3>1. b = [open |-> o, back |-> << >>, text |-> << >>]
      BY Zenon DEF Opened
    <3> HIDE DEF x, a, n, b
    <3>2. b.open = o /\ b.back = a.back /\ b.text = << >>
      <4> HIDE DEF o
      <4> QED BY <1>4, <3>1
    <3>3. ~x.empty
      BY <1>5, <1>9
    <3> QED BY <1>5, <3>2, <3>3 DEF Starts
  <2> HIDE DEF x, a, n
  <2> HIDE DEF b
  <2>3. Moves(a, x, b)
    BY <1>5, <2>2 DEF Moves
  <2>4. PICK new : Trace(Append(s, x), new) /\ new[Len(Append(s, x))] = b
    BY <1>1, <1>4, <1>5, <2>3, TraceMore DEF a
  <2>5. rest \o Entered(c) = up
    <3>1. Entered(c) = <<[node |-> c, next |-> 1]>>
      BY <1>9 DEF Entered
    <3> HIDE DEF rest
    <3> QED BY <3>1 DEF Raised
  <2> HIDE DEF rest, up
  <2>6. Writing(Append(s, x), rest \o Entered(c), root)
    BY <2>1, <2>4, <2>5 DEF Writing
  <2> QED BY <2>6 DEF rest, x
<1> QED BY <1>8, <1>9

\* A stack of one is empty once popped.
LEMMA SeqSingle ==
  ASSUME NEW s, IsSeq(s), Len(s) = 1
  PROVE  Popped(s) = << >>
<1>1. s # << >>
  BY SeqLength
<1>2. IsSeq(Popped(s)) /\ Len(Popped(s)) = Len(s) - 1
  BY <1>1, SeqPopped
<1> DEFINE t == Popped(s)
<1>3. IsSeq(t) /\ Len(t) = 0
  BY <1>2
<1> HIDE DEF t
<1>4. t = << >>
  BY <1>3, SeqLength
<1> QED BY <1>4 DEF t

\* The first two symbols of a document.
LEMMA AppendTwo == \A d, x : Append(<<d>>, x) = <<d, x>> /\ <<d, x>> # << >> /\ Append(<< >>, x) = <<x>>
<1> TAKE d, x
<1> DEFINE S == {d, x}
           u == <<d, x>>
           v == Append(<<d>>, x)
<1>1. u \in Seq(S) /\ Len(u) = 2 /\ u[1] = d /\ u[2] = x
  OBVIOUS
<1>2. v \in Seq(S) /\ Len(v) = 2 /\ v[1] = d /\ v[2] = x
  <2>1. <<d>> \in Seq(S) /\ Len(<<d>>) = 1 /\ <<d>>[1] = d
    OBVIOUS
  <2> QED BY <2>1
<1>3. Append(<< >>, x) = <<x>>
  OBVIOUS
<1> HIDE DEF u, v, S
<1>4. u = v /\ u # << >>
  <2>1. IsSeq(u) /\ IsSeq(v)
    BY <1>1, <1>2 DEF IsSeq
  <2>2. \A k \in 1..Len(u) : k = 1 \/ k = 2
    BY <1>1
  <2>3. \A k \in 1..Len(u) : u[k] = v[k]
    BY <1>1, <1>2, <2>2
  <2>4. u = v
    BY <1>1, <1>2, <2>1, <2>3, SeqSame
  <2>5. Len(u) # 0
    BY <1>1
  <2> QED BY <2>1, <2>4, <2>5, SeqLength
<1> QED BY <1>3, <1>4 DEF u, v

\* An end tag more: of an element inside another, and of the root.
LEMMA WritingEnd ==
  ASSUME NEW s \in Seq(Symbol), s # << >>, NEW st, NEW root, Writing(s, st, root),
         st[Len(st)].next > Len(st[Len(st)].node.children)
  PROVE  LET x == EndTag(st[Len(st)].node.name)
         IN  IF Popped(st) = << >> THEN Written(Append(s, x), Returned[root])
             ELSE Writing(Append(s, x), Popped(st), root)
<1> DEFINE n == st[Len(st)].node
           x == EndTag(n.name)
<1>1. PICK tr : Trace(s, tr) /\ Building(tr[Len(s)], st)
  BY DEF Writing
<1>2. Nested(st, root)
  BY DEF Writing
<1> DEFINE a == tr[Len(s)]
           F == Flushed(a)
<1>4. Building(a, st) /\ a.back = << >>
  <2>1. a = [open |-> a.open, back |-> << >>, text |-> a.text]
    BY <1>1 DEF Building
  <2> QED BY <1>1, <2>1
<1>5. Last(F) = Returned[n] /\ Last(F).name = n.name
  BY <1>2, <1>4, TopDone
<1>6. n \in ElementNode /\ Len(st) \in Nat \ {0} /\ st \in Seq(Frame)
  <2>1. Len(st) \in Nat \ {0} /\ st \in Seq(Frame)
    BY <1>2, Frames
  <2>2. Len(st) \in 1..Len(st)
    <3> DEFINE m == Len(st)
    <3>1. m \in Nat \ {0}
      BY <2>1
    <3> HIDE DEF m
    <3>2. m \in 1..m
      BY <3>1
    <3> QED BY <3>2 DEF m
  <2> QED BY <1>2, <2>1, <2>2, Frames
<1>7. x \in EndReadable /\ x \in Symbol /\ x.name = n.name
  <2>1. IsName(n.name)
    BY <1>6, WriterAssumption DEF ElementNode
  <2> HIDE DEF n
  <2> QED BY <2>1, EndReads
<1>8. IsSeq(F) /\ Len(F) = Len(st)
  BY <1>2, <1>4, FlushedHeld
<1>9. ASSUME NEW b, Ends(a, x, b)
      PROVE  \E new : Trace(Append(s, x), new) /\ new[Len(Append(s, x))] = b
  <2>1. Moves(a, x, b)
    <3> HIDE DEF a, x
    <3> QED BY <1>7, <1>9 DEF Moves
  <2> HIDE DEF x
  <2> QED BY <1>1, <1>4, <1>7, <2>1, TraceMore
<1> HIDE DEF x, a, F, n
<1>10. CASE Len(st) = 1
  <2>1. Popped(F) = << >>
    <3>1. IsSeq(F) /\ Len(F) = 1
      BY <1>8, <1>10
    <3> QED BY <3>1, SeqSingle
  <2>2. n = root
    <3>1. st[1].node = root
      BY <1>2 DEF Nested
    <3> QED BY <1>10, <3>1 DEF n
  <2>3. Ends(a, x, Finished(Returned[root]))
    <3> DEFINE b == Finished(Returned[root])
    <3>1. b.open = << >> /\ b.back = <<Returned[root]>> /\ b.text = << >>
      BY DEF Finished
    <3> HIDE DEF b
    <3>2. Lands(Popped(F), Last(F), a.back, b)
      BY <1>5, <2>1, <2>2, <3>1 DEF Lands
    <3>3. x.name = Last(F).name
      BY <1>5, <1>7
    <3> QED BY <3>1, <3>2, <3>3, Zenon DEF Ends, F, b
  <2>4. Written(Append(s, x), Returned[root])
    <3>1. Append(s, x) # << >>
      BY <1>7
    <3> QED BY <1>9, <2>3, <3>1 DEF Written
  <2>5. Popped(st) = << >>
    <3>1. IsSeq(st) /\ Len(st) = 1
      BY <1>2, <1>10 DEF Nested, IsSeq
    <3> QED BY <3>1, SeqSingle
  <2> QED BY <2>4, <2>5 DEF x, n
<1>11. CASE Len(st) # 1
  <2> DEFINE P == Popped(F)
             b == [open |-> [P EXCEPT ![Len(P)].children = Append(@, Last(F))],
                   back |-> << >>, text |-> << >>]
  <2>1. Building(b, Popped(st)) /\ Nested(Popped(st), root) /\ P # << >>
    BY <1>2, <1>4, <1>11, CloseBuilt DEF F
  <2>2. b.open = [P EXCEPT ![Len(P)].children = Append(@, Last(F))] /\ b.back = << >> /\ b.text = << >>
    OBVIOUS
  <2> HIDE DEF b, P
  <2>3. Ends(a, x, b)
    <3>1. x.name = Last(Flushed(a)).name
      BY <1>5, <1>7 DEF F
    <3>2. Lands(P, Last(F), a.back, b)
      BY <1>4, <2>1, <2>2 DEF Lands
    <3> QED BY <2>2, <3>1, <3>2 DEF Ends, F, P
  <2>4. PICK new : Trace(Append(s, x), new) /\ new[Len(Append(s, x))] = b
    BY <1>9, <2>3
  <2>5. Writing(Append(s, x), Popped(st), root)
    BY <2>1, <2>4 DEF Writing
  <2>6. Popped(st) # << >>
    <3>1. IsSeq(st) /\ st # << >>
      BY <1>2 DEF Nested, IsSeq
    <3>2. IsSeq(Popped(st)) /\ Len(Popped(st)) = Len(st) - 1
      BY <3>1, SeqPopped
    <3>3. Len(st) - 1 # 0
      BY <1>6, <1>11
    <3>4. Len(Popped(st)) # 0
      BY <3>2, <3>3
    <3> QED BY <3>2, <3>4, SeqLength
  <2> QED BY <2>5, <2>6 DEF x, n
<1> QED BY <1>10, <1>11

\* The declaration has been read before anything else, and then a first tag.
LEMMA TraceBegun ==
  ASSUME NEW x \in Symbol
  PROVE  Trace(<<x>>, <<Begun>>) /\ <<Begun>>[Len(<<x>>)] = Begun /\ <<x>> \in Seq(Symbol) /\ <<x>> # << >>
<1>1. Len(<<x>>) = 1 /\ <<Begun>>[1] = Begun /\ <<x>> \in Seq(Symbol) /\ <<x>> # << >>
  OBVIOUS
<1>2. \A k \in 2..1 : FALSE
  OBVIOUS
<1>3. \A k \in 1..1 - 1 : FALSE
  OBVIOUS
<1> HIDE DEF Begun
<1> QED BY <1>1, <1>2, <1>3, Zenon DEF Trace

\* The first start tag, of an element with children.
LEMMA Opens ==
  ASSUME NEW d \in Symbol, NEW x \in StartReadable, x \in Symbol,
         NEW b, b.text = << >>, b.back = << >>, ~x.empty,
         b.open = <<Element(x.name, AttrsRead(x.attrs), << >>)>>
  PROVE  \E new : Trace(<<d, x>>, new) /\ new[Len(<<d, x>>)] = b
<1>1. Trace(<<d>>, <<Begun>>) /\ <<Begun>>[Len(<<d>>)] = Begun /\ <<d>> \in Seq(Symbol) /\ <<d>> # << >>
  BY TraceBegun
<1>2. Begun.back = << >> /\ Flushed(Begun) = << >>
  BY DEF Begun, Flushed
<1>3. Append(<<d>>, x) = <<d, x>>
  BY AppendTwo
<1> DEFINE n == Element(x.name, AttrsRead(x.attrs), << >>)
<1>4. Append(<< >>, n) = <<n>>
  <2> HIDE DEF n
  <2> QED OBVIOUS
<1>5. Moves(Begun, x, b)
  <2>1. b.open = Append(Flushed(Begun), n) /\ b.back = Begun.back
    BY <1>2, <1>4
  <2>2. Starts(Begun, x, b)
    BY <2>1 DEF Starts
  <2> QED BY <2>2 DEF Moves
<1>6. \E new : Trace(Append(<<d>>, x), new) /\ new[Len(Append(<<d>>, x))] = b
  <2> DEFINE s == <<d>>
             tr == <<Begun>>
  <2>1. s \in Seq(Symbol) /\ s # << >> /\ Trace(s, tr) /\ tr[Len(s)] = Begun
    BY <1>1
  <2> HIDE DEF s, tr
  <2>2. tr[Len(s)].back = << >> /\ Moves(tr[Len(s)], x, b)
    BY <1>2, <1>5, <2>1
  <2>3. \E new : Trace(Append(s, x), new) /\ new[Len(Append(s, x))] = b
    BY <2>1, <2>2, TraceMore
  <2> QED BY <2>3 DEF s
<1> QED BY <1>3, <1>6

\* A document of one tag, and the start of a longer one.
LEMMA RootWritten ==
  ASSUME NEW d \in Symbol, NEW n \in ElementNode
  PROVE  IF Entered(n) = << >> THEN Written(<<d, Opening(n)>>, Returned[n])
         ELSE Writing(<<d, Opening(n)>>, Entered(n), n)
<1> DEFINE x == Opening(n)
           e == Element(n.name, n.attrs, << >>)
<1>1. /\ x \in StartReadable /\ x \in Symbol /\ x.empty = (n.children = << >>)
      /\ Element(x.name, AttrsRead(x.attrs), << >>) = e
  <2>1. /\ x \in StartReadable /\ x \in Symbol /\ x.name = n.name /\ x.empty = (n.children = << >>)
        /\ AttrsRead(x.attrs) = n.attrs
    BY OpeningReads
  <2> HIDE DEF x
  <2> QED BY <2>1
<1> HIDE DEF x
<1>2. CASE n.children = << >>
  <2>1. Returned[n] = e /\ Entered(n) = << >>
    BY <1>2, EmptyReturned DEF Entered
  <2> DEFINE b == Finished(e)
  <2>2. b.open = << >> /\ b.text = << >> /\ b.back = <<e>>
    BY DEF Finished
  <2> HIDE DEF b, e
  <2>3. Begun.back = << >> /\ Flushed(Begun) = << >>
    BY DEF Begun, Flushed
  <2>4. Moves(Begun, x, b)
    <3>1. Lands(Flushed(Begun), e, Begun.back, b)
      BY <2>2, <2>3 DEF Lands
    <3>2. Starts(Begun, x, b)
      BY <1>1, <1>2, <2>2, <3>1 DEF Starts
    <3> QED BY <1>1, <3>2 DEF Moves
  <2>5. Trace(<<d>>, <<Begun>>) /\ <<Begun>>[Len(<<d>>)] = Begun /\ <<d>> \in Seq(Symbol) /\ <<d>> # << >>
    BY TraceBegun
  <2>6. \E new : Trace(Append(<<d>>, x), new) /\ new[Len(Append(<<d>>, x))] = b
    <3> DEFINE s == <<d>>
               tr == <<Begun>>
    <3>1. s \in Seq(Symbol) /\ s # << >> /\ Trace(s, tr) /\ tr[Len(s)] = Begun
      BY <2>5
    <3> HIDE DEF s, tr
    <3>2. tr[Len(s)].back = << >> /\ Moves(tr[Len(s)], x, b) /\ x \in Symbol
      BY <1>1, <2>3, <2>4, <3>1
    <3>3. \E new : Trace(Append(s, x), new) /\ new[Len(Append(s, x))] = b
      BY <3>1, <3>2, TraceMore
    <3> QED BY <3>3 DEF s
  <2>7. Append(<<d>>, x) = <<d, x>> /\ <<d, x>> # << >>
    BY AppendTwo
  <2> QED BY <2>1, <2>6, <2>7 DEF Written, b, x
<1>3. CASE n.children # << >>
  <2> DEFINE f == [node |-> n, next |-> 1]
             b == [open |-> <<e>>, back |-> << >>, text |-> << >>]
             st == <<f>>
  <2>1. Entered(n) = st /\ st # << >>
    BY <1>3 DEF Entered
  <2>2. f.node = n /\ f.next = 1 /\ f \in Frame
    BY DEF Frame
  <2>3. Nested(st, n)
    <3>1. n.children \in Seq(Node)
      BY NodesTyped
    <3>2. 1 <= Len(n.children) + 1
      <4> DEFINE s == n.children
      <4>1. s \in Seq(Node)
        BY <3>1
      <4> HIDE DEF s
      <4>2. Len(s) \in Nat
        BY <4>1
      <4>3. 1 <= Len(s) + 1
        BY <4>2
      <4> QED BY <4>3 DEF s
    <3> HIDE DEF f
    <3>3. st \in Seq(Frame) /\ st # << >> /\ Len(st) = 1 /\ st[1] = f
      BY <2>2
    <3> HIDE DEF st
    <3>4. \A i \in 1..Len(st) : i = 1
      BY <3>3
    <3>5. \A i \in 1..Len(st) - 1 : FALSE
      BY <3>3
    <3> QED BY <2>2, <3>2, <3>3, <3>4, <3>5 DEF Nested
  <2>4. Building(b, st)
    <3>1. IsSeq(b.open) /\ Len(b.open) = 1 /\ b.open[1] = e /\ b.text = << >>
          /\ b = [open |-> b.open, back |-> << >>, text |-> b.text]
      <4>1. b.open = <<e>> /\ b.text = << >> /\ b = [open |-> b.open, back |-> << >>, text |-> b.text]
        OBVIOUS
      <4> HIDE DEF e, b
      <4>2. <<e>> \in Seq({e}) /\ Len(<<e>>) = 1 /\ <<e>>[1] = e
        OBVIOUS
      <4>3. IsSeq(<<e>>)
        BY <4>2 DEF IsSeq
      <4> QED BY <4>1, <4>2, <4>3
    <3> HIDE DEF b, f
    <3>2. Len(st) = 1 /\ st[1] = f
      OBVIOUS
    <3>3. Fills(e, << >>, f)
      <4>1. Prefix(n, 0) = << >>
        BY PrefixEquation
      <4>2. IsSeq(<< >>)
        <5>1. << >> \in Seq({})
          OBVIOUS
        <5> QED BY <5>1 DEF IsSeq
      <4>3. Flush(<< >>, << >>) = Prefix(f.node, f.next - 1)
        BY <2>2, <4>1 DEF Flush
      <4> QED BY <2>2, <4>2, <4>3 DEF Fills
    <3> HIDE DEF st, e
    <3>4. \A i \in 1..Len(st) - 1 : FALSE
      BY <3>2
    <3>5. b.text \in Seq(CodePoint)
      BY <3>1
    <3> QED BY <3>1, <3>2, <3>3, <3>4, <3>5 DEF Building
  <2>5. b.open = <<e>> /\ b.back = << >> /\ b.text = << >>
    OBVIOUS
  <2> HIDE DEF b, e, st
  <2>6. PICK new : Trace(<<d, x>>, new) /\ new[Len(<<d, x>>)] = b
    <3>1. ~x.empty
      BY <1>1, <1>3
    <3>2. b.open = <<Element(x.name, AttrsRead(x.attrs), << >>)>>
      BY <1>1, <2>5
    <3> QED BY <1>1, <2>5, <3>1, <3>2, Opens
  <2>7. Writing(<<d, x>>, st, n)
    BY <2>3, <2>4, <2>6 DEF Writing
  <2> QED BY <2>1, <2>7 DEF x
<1> QED BY <1>2, <1>3

\* Bytes as text: between two tags, each its character.
TextOf(p) == IF p = << >> THEN << >> ELSE <<Text(p)>>

\* The bytes of a payload, as characters, are text that can be written.
LEMMA BytesString ==
  ASSUME NEW p \in Seq(Byte)
  PROVE  IsString(p)
<1>1. \A c \in Byte : c \in CodePoint /\ IsScalar(c)
  BY Runes DEF Byte, CodePoint, IsScalar
<1>2. \A k \in DOMAIN p : p[k] \in Byte
  BY Member
<1>3. p \in [DOMAIN p -> CodePoint]
  BY <1>1, <1>2
<1>4. p \in Seq(CodePoint)
  BY <1>3, Alike
<1> QED BY <1>1, <1>2, <1>4 DEF IsString

\* A payload between its two tags is read as an element of one text.
LEMMA BinaryWritten ==
  ASSUME NEW d \in Symbol, NEW name, IsName(name), NEW p \in Seq(Byte)
  PROVE  Written(<<d, StartTag(name, <<>>, FALSE)>> \o Escape(p, FALSE) \o <<EndTag(name)>>,
                 Element(name, << >>, TextOf(p)))
<1> DEFINE x == StartTag(name, << >>, FALSE)
           y == EndTag(name)
           t == Escape(p, FALSE)
           e == Element(name, << >>, << >>)
           n == Element(name, << >>, TextOf(p))
           s == <<d, x>>
           b == [open |-> <<e>>, back |-> << >>, text |-> << >>]
<1>1. /\ x \in StartReadable /\ x \in Symbol /\ ~x.empty
      /\ Element(x.name, AttrsRead(x.attrs), << >>) = e
  <2> DEFINE attrs == << >>
             empty == FALSE
  <2>1. attrs \in Seq([name : Seq(CodePoint), value : Seq(CodePoint)])
        /\ (\A k \in DOMAIN attrs : IsName(attrs[k].name) /\ IsString(attrs[k].value)) /\ empty \in BOOLEAN
    OBVIOUS
  <2>2. x = StartTag(name, attrs, empty) /\ e = Element(name, attrs, << >>) /\ ~empty
    OBVIOUS
  <2> HIDE DEF x, attrs, empty
  <2>3. /\ StartTag(name, attrs, empty) \in StartReadable /\ StartTag(name, attrs, empty) \in Symbol
        /\ AttrsRead(StartTag(name, attrs, empty).attrs) = attrs
        /\ StartTag(name, attrs, empty).name = name /\ StartTag(name, attrs, empty).empty = empty
    <3>1. Attributes(attrs) /\ empty \in BOOLEAN
      BY <2>1 DEF Attributes
    <3>2. Reads(StartTag(name, attrs, empty), name, attrs, empty)
      BY <3>1, StartReads
    <3> QED BY <3>2 DEF Reads
  <2> QED BY <2>2, <2>3
<1>2. y \in EndReadable /\ y \in Symbol /\ y.name = name
  BY EndReads
<1>3. IsString(p) /\ p \in Seq(CodePoint)
  <2>1. IsString(p)
    BY BytesString
  <2> QED BY <2>1 DEF IsString
<1>4. t \in Seq(PlainSymbol) /\ t \in Seq(Symbol) /\ Codes(t) = p
  <2>1. t \in Seq(PlainSymbol) /\ Codes(t) = p
    BY <1>3, EscapePlain
  <2>2. t \in Seq(Symbol)
    BY <1>3, EscapeAgreed
  <2> QED BY <2>1, <2>2
<1>5. b.open = <<e>> /\ b.back = << >> /\ b.text = << >>
  OBVIOUS
<1>6. b = [open |-> b.open, back |-> << >>, text |-> b.text] /\ b.text \in Seq(CodePoint)
  OBVIOUS
<1> HIDE DEF x, y, t, e, b
<1>7. s \in Seq(Symbol) /\ s # << >>
  BY <1>1
<1>8. PICK tr : Trace(s, tr) /\ tr[Len(s)] = b
  BY <1>1, <1>5, Opens
<1> HIDE DEF s
<1>9. PICK new : Trace(s \o t, new) /\ new[Len(s \o t)] = Longer(b, p)
  <2>1. tr[Len(s)] = [open |-> tr[Len(s)].open, back |-> << >>, text |-> tr[Len(s)].text]
        /\ tr[Len(s)].text \in Seq(CodePoint)
    BY <1>6, <1>8
  <2>2. \E new : Trace(s \o t, new) /\ new[Len(s \o t)] = Longer(tr[Len(s)], Codes(t))
    BY <1>4, <1>7, <1>8, <2>1, TraceText
  <2> QED BY <1>4, <1>8, <2>2
<1> DEFINE u == s \o t
           a == Longer(b, p)
           F == Flushed(a)
<1>10. u \in Seq(Symbol) /\ u # << >>
  <2>1. u \in Seq(Symbol)
    BY <1>4, <1>7, Joining
  <2>2. Len(u) = Len(s) + Len(t) /\ Len(s) \in Nat \ {0} /\ Len(t) \in Nat
    BY <1>4, <1>7
  <2> HIDE DEF u
  <2>3. Len(u) # 0
    BY <2>2
  <2> QED BY <2>1, <2>3
<1>11. a.open = <<e>> /\ a.back = << >> /\ a.text = p
  <2>1. << >> \o p = p
    BY <1>3
  <2> QED BY <1>5, <2>1 DEF Longer
<1> HIDE DEF a
<1>12. F = <<n>>
  <2>1. CASE p = << >>
    <3>1. F = <<e>>
      BY <1>11, <2>1 DEF Flushed
    <3>2. n = e
      BY <2>1 DEF e, TextOf
    <3> QED BY <3>1, <3>2
  <2>2. CASE p # << >>
    <3> DEFINE o == <<e>>
    <3>0. IsSeq(o) /\ Len(o) = 1 /\ o[1] = e
      <4>1. <<e>> \in Seq({e}) /\ Len(<<e>>) = 1 /\ <<e>>[1] = e
        OBVIOUS
      <4> QED BY <4>1 DEF IsSeq
    <3>1. F = [o EXCEPT ![Len(o)].children = Append(@, Text(p))]
      BY <1>11, <2>2 DEF Flushed
    <3>2. e.children = << >> /\ Append(<< >>, Text(p)) = <<Text(p)>> /\ TextOf(p) = <<Text(p)>>
      <4>1. e.children = << >>
        BY Fields DEF e
      <4>2. Append(<< >>, Text(p)) = <<Text(p)>>
        BY AppendTwo
      <4> QED BY <2>2, <4>1, <4>2 DEF TextOf
    <3>3. [e EXCEPT !.children = TextOf(p)] = n
      BY Fields DEF e
    <3> HIDE DEF n, o
    <3>4. F = [o EXCEPT ![1] = n]
      <4>1. [o EXCEPT ![1].children = Append(@, Text(p))] =
              [o EXCEPT ![1] = [o[1] EXCEPT !.children = Append(o[1].children, Text(p))]]
        OBVIOUS
      <4>2. [o[1] EXCEPT !.children = Append(o[1].children, Text(p))] = n
        BY <3>0, <3>2, <3>3
      <4> QED BY <3>0, <3>1, <4>1, <4>2
    <3>5. [o EXCEPT ![1] = n] = <<n>>
      <4> DEFINE v == [o EXCEPT ![1] = n]
                 w == <<n>>
      <4>1. IsSeq(v) /\ Len(v) = Len(o) /\ \A k \in 1..Len(o) : v[k] = IF k = 1 THEN n ELSE o[k]
        <5>1. IsSeq(o)
          BY <3>0
        <5>2. IsSeq(v) /\ Len(v) = Len(o)
          BY <5>1, SeqChange
        <5>3. \A k \in 1..Len(o) : v[k] = IF k = 1 THEN n ELSE o[k]
          BY <5>1, SeqChange
        <5> QED BY <5>2, <5>3
      <4>2. IsSeq(w) /\ Len(w) = 1 /\ w[1] = n
        <5>1. <<n>> \in Seq({n}) /\ Len(<<n>>) = 1 /\ <<n>>[1] = n
          OBVIOUS
        <5> QED BY <5>1 DEF IsSeq
      <4> HIDE DEF v, w
      <4>3. \A k \in 1..Len(v) : v[k] = w[k]
        <5>1. \A k \in 1..1 : k = 1
          OBVIOUS
        <5> QED BY <3>0, <4>1, <4>2, <5>1
      <4>4. v = w
        BY <3>0, <4>1, <4>2, <4>3, SeqSame
      <4> QED BY <4>4 DEF v, w
    <3> QED BY <3>4, <3>5 DEF n
  <2> QED BY <2>1, <2>2
<1>13. Last(F) = n /\ n.name = name /\ IsSeq(F) /\ Len(F) = 1
  <2>1. n.name = name
    BY Fields
  <2> HIDE DEF n
  <2>2. <<n>> \in Seq({n}) /\ Len(<<n>>) = 1 /\ <<n>>[1] = n
    OBVIOUS
  <2> HIDE DEF F
  <2> QED BY <1>12, <2>1, <2>2 DEF IsSeq, Last
<1> HIDE DEF F, n, u
<1>14. Popped(F) = << >>
  BY <1>13, SeqSingle
<1>15. Ends(a, y, Finished(n))
  <2> DEFINE z == Finished(n)
  <2>1. z.open = << >> /\ z.back = <<n>> /\ z.text = << >>
    BY DEF Finished
  <2> HIDE DEF z
  <2>2. Lands(Popped(F), Last(F), a.back, z)
    BY <1>13, <1>14, <2>1 DEF Lands
  <2>3. y.name = Last(F).name
    BY <1>2, <1>13
  <2> QED BY <2>1, <2>2, <2>3, Zenon DEF Ends, F, z
<1>16. Moves(a, y, Finished(n))
  BY <1>2, <1>15 DEF Moves
<1>17. \E tt : Trace(Append(u, y), tt) /\ tt[Len(Append(u, y))] = Finished(n)
  <2> DEFINE z == Finished(n)
  <2>1. Trace(u, new) /\ new[Len(u)] = a
    BY <1>9 DEF u, a
  <2>2. Moves(a, y, z) /\ a.back = << >> /\ y \in Symbol /\ u \in Seq(Symbol) /\ u # << >>
    BY <1>2, <1>10, <1>11, <1>16
  <2> HIDE DEF z
  <2>3. \E tt : Trace(Append(u, y), tt) /\ tt[Len(Append(u, y))] = z
    BY <2>1, <2>2, TraceMore
  <2> QED BY <2>3 DEF z
<1>18. Append(u, y) = u \o <<y>> /\ Append(u, y) # << >>
  BY <1>2, <1>10
<1>19. Written(u \o <<y>>, n)
  BY <1>17, <1>18 DEF Written
<1> QED BY <1>19 DEF n, u, s, t, x, y

\* What emit makes of a symbol, in the encoding d.
AttrsPiece(p, attrs, d) ==
  /\ DOMAIN p = DOMAIN attrs
  /\ \A k \in DOMAIN attrs : /\ Spells(p[k].name, attrs[k].name, d)
                             /\ Spells(Coded(p[k].value), Numbers(attrs[k].value), d)
StartPiece(x, p, d) ==
  /\ x \in StartReadable /\ Len(p) = 1 /\ p[1].form = "start" /\ p[1].empty = x.empty
  /\ Spells(p[1].name, x.name, d) /\ AttrsPiece(p[1].attrs, x.attrs, d)
EndPiece(x, p, d) ==
  x \in EndReadable /\ Len(p) = 1 /\ p[1].form = "end" /\ Spells(p[1].name, x.name, d)
CharPiece(x, p, d) ==
  /\ x \in PlainSymbol /\ p \in Seq(ByteSymbol) /\ Len(p) \in Nat \ {0} /\ Coded(p) = Unit(Number(x), d)
Piece(x, p, d) == IsSeq(p) /\ (StartPiece(x, p, d) \/ EndPiece(x, p, d) \/ CharPiece(x, p, d))

\* A sequence of one.
LEMMA SingleSeq == \A x : IsSeq(<<x>>) /\ Len(<<x>>) = 1 /\ <<x>>[1] = x
<1> TAKE x
<1>1. <<x>> \in Seq({x}) /\ Len(<<x>>) = 1 /\ <<x>>[1] = x
  OBVIOUS
<1> QED BY <1>1 DEF IsSeq

\* A name as emit puts it out.
LEMMA NameSpells ==
  ASSUME NEW s, IsName(s)
  PROVE  Spells(NameBytes(s), s, Declared)
BY NamePlain, NameSpelled

\* What emit puts out for one symbol is a piece of that symbol.
LEMMA EmittedPiece ==
  ASSUME NEW x, x \in StartReadable \cup EndReadable \cup PlainSymbol
  PROVE  Piece(x, Emitted(x), Declared)
<1>1. CASE x \in StartReadable
  <2>1. /\ x.form = "start" /\ IsName(x.name)
        /\ \A k \in DOMAIN x.attrs : IsName(x.attrs[k].name) /\ x.attrs[k].value \in Seq(PlainSymbol)
    BY <1>1 DEF StartReadable, StartSymbol
  <2> DEFINE as == [k \in DOMAIN x.attrs |-> [name |-> NameBytes(x.attrs[k].name),
                                              value |-> ValueBytes(x.attrs[k].value)]]
             y == [form |-> "start", name |-> NameBytes(x.name), empty |-> x.empty, attrs |-> as]
  <2>2. x = [form |-> x.form, name |-> x.name, empty |-> x.empty, attrs |-> x.attrs]
    BY <1>1 DEF StartReadable, StartSymbol
  <2>3. [x EXCEPT !.name = NameBytes(@), !.attrs = [k \in DOMAIN @ |-> [name |-> NameBytes(@[k].name), value |-> ValueBytes(@[k].value)]]] = y
    <3>1. \A v, w : [x EXCEPT !.name = v, !.attrs = w] = [form |-> x.form, name |-> v, empty |-> x.empty, attrs |-> w]
      <4> TAKE v, w
      <4> DEFINE z == [x EXCEPT !.name = v]
      <4>1. z = [form |-> x.form, name |-> v, empty |-> x.empty, attrs |-> x.attrs]
        BY <2>2
      <4>2. [x EXCEPT !.name = v, !.attrs = w] = [z EXCEPT !.attrs = w]
        OBVIOUS
      <4> HIDE DEF z
      <4>3. [z EXCEPT !.attrs = w] = [form |-> x.form, name |-> v, empty |-> x.empty, attrs |-> w]
        BY <4>1
      <4> QED BY <4>2, <4>3
    <3>2. [x EXCEPT !.name = NameBytes(x.name), !.attrs = as] = y
      <4> DEFINE v == NameBytes(x.name)
                 w == as
      <4> HIDE DEF v, w
      <4>1. [x EXCEPT !.name = v, !.attrs = w] = [form |-> x.form, name |-> v, empty |-> x.empty, attrs |-> w]
        BY <3>1
      <4> QED BY <2>1, <4>1 DEF v, w
    <3> QED BY <3>2
  <2>4. Emitted(x) = <<y>>
    BY <2>1, <2>3 DEF Emitted
  <2>5. AttrsPiece(as, x.attrs, Declared)
    <3>1. DOMAIN as = DOMAIN x.attrs /\ \A k \in DOMAIN x.attrs :
             as[k].name = NameBytes(x.attrs[k].name) /\ as[k].value = ValueBytes(x.attrs[k].value)
      OBVIOUS
    <3> HIDE DEF as
    <3>2. ASSUME NEW k \in DOMAIN x.attrs
          PROVE  /\ Spells(as[k].name, x.attrs[k].name, Declared)
                 /\ Spells(Coded(as[k].value), Numbers(x.attrs[k].value), Declared)
      <4>1. Spells(NameBytes(x.attrs[k].name), x.attrs[k].name, Declared)
        BY <2>1, NameSpells
      <4>2. Spells(Coded(ValueBytes(x.attrs[k].value)), Numbers(x.attrs[k].value), Declared)
        BY <2>1, ValueSpelled
      <4> QED BY <3>1, <4>1, <4>2
    <3> QED BY <3>1, <3>2 DEF AttrsPiece
  <2>6. Spells(NameBytes(x.name), x.name, Declared)
    BY <2>1, NameSpells
  <2>7. y.form = "start" /\ y.name = NameBytes(x.name) /\ y.empty = x.empty /\ y.attrs = as
    OBVIOUS
  <2> HIDE DEF y, as
  <2>8. IsSeq(<<y>>) /\ Len(<<y>>) = 1 /\ <<y>>[1] = y
    BY SingleSeq
  <2>9. StartPiece(x, <<y>>, Declared)
    BY <1>1, <2>5, <2>6, <2>7, <2>8 DEF StartPiece
  <2> QED BY <2>4, <2>8, <2>9 DEF Piece
<1>2. CASE x \in EndReadable
  <2>1. x = [form |-> "end", name |-> x.name] /\ IsName(x.name) /\ x.form = "end"
    BY <1>2 DEF EndReadable, EndSymbol
  <2> DEFINE y == [form |-> "end", name |-> NameBytes(x.name)]
  <2>2. [x EXCEPT !.name = NameBytes(@)] = y
    BY <2>1
  <2>3. Emitted(x) = <<y>>
    BY <2>1, <2>2 DEF Emitted
  <2>4. Spells(NameBytes(x.name), x.name, Declared)
    BY <2>1, NameSpells
  <2>5. y.form = "end" /\ y.name = NameBytes(x.name)
    OBVIOUS
  <2> HIDE DEF y
  <2>6. IsSeq(<<y>>) /\ Len(<<y>>) = 1 /\ <<y>>[1] = y
    BY SingleSeq
  <2>7. EndPiece(x, <<y>>, Declared)
    BY <1>2, <2>4, <2>5, <2>6 DEF EndPiece
  <2> QED BY <2>3, <2>6, <2>7 DEF Piece
<1>3. CASE x \in PlainSymbol
  <2>1. x.form # "start" /\ x.form # "end"
    BY <1>3 DEF PlainSymbol, CharSymbol
  <2>2. Emitted(x) = Spelled(x)
    BY <2>1 DEF Emitted
  <2>3. /\ Spelled(x) \in Seq(ByteSymbol) /\ Len(Spelled(x)) \in Nat \ {0}
        /\ Coded(Spelled(x)) = Unit(Number(x), Declared)
    BY <1>3, Spelling
  <2>4. CharPiece(x, Spelled(x), Declared)
    BY <1>3, <2>3 DEF CharPiece
  <2>5. IsSeq(Spelled(x))
    BY <2>3 DEF IsSeq
  <2> QED BY <2>2, <2>4, <2>5 DEF Piece
<1> QED BY <1>1, <1>2, <1>3

\* The bytes b of the document that the symbols src are, and what is read of
\* it at each: all of it is n.
Document(b, src, tr, q, off, S, n) ==
  /\ Len(src) \in Nat /\ Len(src) >= 2 /\ Trace(src, tr) /\ tr[Len(src)] = Finished(n)
  /\ b \in Seq(S) /\ q \in Seq(Seq(S)) /\ Len(q) = Len(src) /\ Laid(b, q, off)
  /\ Len(q[1]) = 1
  /\ \A i \in 2..Len(src) : Piece(src[i], q[i], b[1].encoding)

\* What emit puts out is a document of the symbols written.
LEMMA EmittedDocument ==
  ASSUME NEW s \in Seq(Symbol), NEW n, Written(s, n), s[1] = Declaration
  PROVE  \E src, tr, q, off, S : Document(FlattenSeq([k \in DOMAIN s |-> Emitted(s[k])]), src, tr, q, off, S, n)
<1> DEFINE q == [k \in DOMAIN s |-> Emitted(s[k])]
           S == UNION {{q[i][j] : j \in DOMAIN q[i]} : i \in DOMAIN q}
           b == FlattenSeq(q)
           m == Len(s)
<1>1. PICK tr : Trace(s, tr) /\ tr[m] = Finished(n)
  BY DEF Written
<1>2. m \in Nat \ {0} /\ DOMAIN s = 1..m
  BY DEF Written
<1>3. m >= 2
  <2>1. CASE m = 1
    <3>1. Begun = Finished(n)
      BY <1>1, <2>1 DEF Trace
    <3>2. Begun.back = << >> /\ Finished(n).back = <<n>>
      BY DEF Begun, Finished
    <3>3. <<n>> # << >>
      OBVIOUS
    <3> QED BY <3>1, <3>2, <3>3
  <2> HIDE DEF m
  <2> QED BY <1>2, <2>1
<1>4. \A i \in 2..m : s[i] \in StartReadable \cup EndReadable \cup PlainSymbol
  <2>1. \A i \in 2..m : Moves(tr[i - 1], s[i], tr[i])
    BY <1>1 DEF Trace
  <2> QED BY <2>1 DEF Moves
<1> HIDE DEF m
<1>5. \A i \in 2..m : Piece(s[i], q[i], Declared)
  <2>1. \A i \in 2..m : q[i] = Emitted(s[i])
    BY <1>2
  <2> HIDE DEF q
  <2> QED BY <1>4, <2>1, EmittedPiece
<1>6. q[1] = <<Declaration>>
  <2>1. q[1] = Emitted(Declaration)
    BY <1>2
  <2>2. Declaration.form = "declaration"
    BY DEF Declaration
  <2> HIDE DEF q
  <2>3. Emitted(Declaration) = <<Declaration>>
    BY <2>2 DEF Emitted, Spelled
  <2> QED BY <2>1, <2>3
<1>7. DOMAIN q = 1..m /\ Len(q) = m
  BY <1>2
<1> HIDE DEF q
<1>8. \A i \in 1..m : IsSeq(q[i])
  <2>1. IsSeq(q[1])
    BY <1>6, SingleSeq
  <2>2. \A i \in 1..m : i = 1 \/ i \in 2..m
    BY <1>2
  <2> QED BY <1>5, <2>1, <2>2 DEF Piece
<1>9. \A i \in 1..m : q[i] \in Seq(S)
  <2> TAKE i \in 1..m
  <2>1. PICK T : q[i] \in Seq(T)
    BY <1>8 DEF IsSeq
  <2>2. \A j \in DOMAIN q[i] : q[i][j] \in S
    BY <1>7
  <2> HIDE DEF S
  <2>3. q[i] \in [DOMAIN q[i] -> S]
    BY <2>1, <2>2
  <2> QED BY <2>1, <2>3, Alike
<1> HIDE DEF S
<1>10. q \in Seq(Seq(S))
  <2>1. q = [k \in 1..m |-> q[k]]
    <3>1. q = [k \in DOMAIN s |-> Emitted(s[k])]
      BY DEF q
    <3> QED BY <1>2, <3>1
  <2>2. q \in [1..m -> Seq(S)]
    BY <1>9, <2>1
  <2> QED BY <1>2, <2>2
<1>11. PICK off : Laid(b, q, off)
  BY <1>10, Flattening
<1>12. b \in Seq(S)
  BY <1>10, Flattening
<1> HIDE DEF b
<1>13. b[1] = Declaration
  <2>1. 1 \in 1..m /\ Len(q[1]) = 1 /\ 1 \in 1..1 /\ q[1][1] = Declaration
    BY <1>2, <1>6, SingleSeq
  <2>2. off[0] = 0 /\ \A i \in 1..m : \A j \in 1..Len(q[i]) : b[off[i - 1] + j] = q[i][j]
    BY <1>7, <1>11 DEF Laid
  <2>3. b[off[1 - 1] + 1] = q[1][1]
    BY <2>1, <2>2
  <2> QED BY <2>1, <2>2, <2>3
<1>14. b[1].encoding = Declared
  BY <1>13 DEF Declaration
<1>15. Len(q[1]) = 1
  BY <1>6, SingleSeq
<1>16. Document(b, s, tr, q, off, S, n)
  BY <1>1, <1>2, <1>3, <1>5, <1>7, <1>10, <1>11, <1>12, <1>14, <1>15 DEF Document, m
<1> QED BY <1>16 DEF b, q

\* The symbol after the k-th, and where its bytes are.
Follows(b, src, tr, q, off, k) ==
  /\ off[k] \in Nat /\ off[k + 1] \in Nat /\ off[k + 1] = off[k] + Len(q[k + 1]) /\ off[k + 1] <= Len(b)
  /\ Len(q[k + 1]) \in Nat \ {0} /\ b[off[k] + 1] = q[k + 1][1]
  /\ Moves(tr[k], src[k + 1], tr[k + 1]) /\ tr[k].back = << >>
  /\ \/ StartPiece(src[k + 1], q[k + 1], b[1].encoding) /\ q[k + 1][1].form = "start"
     \/ EndPiece(src[k + 1], q[k + 1], b[1].encoding) /\ q[k + 1][1].form = "end"
     \/ CharPiece(src[k + 1], q[k + 1], b[1].encoding) /\ ~IsTag(q[k + 1][1])

\* At a boundary the piece of the next symbol follows.
LEMMA Following ==
  ASSUME NEW b, NEW src, NEW tr, NEW q, NEW off, NEW S, NEW n, Document(b, src, tr, q, off, S, n),
         NEW k \in 1..Len(src) - 1
  PROVE  Follows(b, src, tr, q, off, k)
<1> DEFINE i == k + 1
           p == q[i]
<1>1. Len(src) \in Nat /\ Trace(src, tr) /\ q \in Seq(Seq(S)) /\ Laid(b, q, off) /\ Len(q) = Len(src)
      /\ \A j \in 2..Len(src) : Piece(src[j], q[j], b[1].encoding)
  BY DEF Document
<1>2. i \in 2..Len(src) /\ i \in 1..Len(src) /\ i - 1 = k
  BY <1>1
<1>3. /\ off[k] \in Nat /\ off[i] \in Nat /\ off[i] = off[k] + Len(p) /\ off[i] <= Len(b) /\ Len(p) \in Nat
  BY <1>1, <1>2, Pieces
<1>4. Piece(src[i], p, b[1].encoding)
  BY <1>1, <1>2
<1>5. Moves(tr[k], src[i], tr[i]) /\ tr[k].back = << >>
  BY <1>1, <1>2 DEF Trace
<1> HIDE DEF i, p
<1>6. /\ Len(p) \in Nat \ {0}
      /\ \/ StartPiece(src[i], p, b[1].encoding) /\ p[1].form = "start"
         \/ EndPiece(src[i], p, b[1].encoding) /\ p[1].form = "end"
         \/ CharPiece(src[i], p, b[1].encoding) /\ ~IsTag(p[1])
  <2>1. CASE StartPiece(src[i], p, b[1].encoding)
    BY <2>1 DEF StartPiece
  <2>2. CASE EndPiece(src[i], p, b[1].encoding)
    BY <2>2 DEF EndPiece
  <2>3. CASE CharPiece(src[i], p, b[1].encoding)
    <3>1. p \in Seq(ByteSymbol) /\ Len(p) \in Nat \ {0}
      BY <2>3 DEF CharPiece
    <3>2. p[1] \in ByteSymbol
      BY <3>1
    <3>3. ~IsTag(p[1])
      BY <3>2 DEF ByteSymbol, IsTag
    <3> QED BY <2>3, <3>1, <3>3
  <2> QED BY <1>4, <2>1, <2>2, <2>3 DEF Piece
<1>7. b[off[k] + 1] = p[1]
  <2>1. \A j \in 1..Len(p) : b[off[k] + j] = p[j]
    BY <1>1, <1>2 DEF Laid, p
  <2>2. 1 \in 1..Len(p)
    BY <1>6
  <2> QED BY <2>1, <2>2
<1> QED BY <1>3, <1>5, <1>6, <1>7 DEF Follows, i, p

\* Which kind it is, is what its tag or its lack of one says.
LEMMA Kinds ==
  /\ \A x \in StartReadable : x.form = "start" /\ x \notin EndReadable /\ x \notin PlainSymbol
  /\ \A x \in EndReadable : x.form = "end" /\ x \notin StartReadable /\ x \notin PlainSymbol
  /\ \A x \in PlainSymbol : ~IsTag(x) /\ x \notin StartReadable /\ x \notin EndReadable
<1>1. \A x \in StartReadable : x.form = "start"
  BY DEF StartReadable, StartSymbol
<1>2. \A x \in EndReadable : x.form = "end"
  BY DEF EndReadable, EndSymbol
<1>3. \A x \in PlainSymbol : x.form # "start" /\ x.form # "end"
  BY DEF PlainSymbol, CharSymbol
<1> QED BY <1>1, <1>2, <1>3 DEF IsTag

\* The one element of a set of one.
LEMMA OnlyOne == \A x : Only({x}) = x
BY DEF Only

\* The tags' names and values are read back.
LEMMA NameReads ==
  ASSUME NEW s, IsName(s), NEW b, Spells(b, s, out[1].encoding)
  PROVE  Decoded(b) = {s}
BY NamePlain, DecodedBack

\* A start tag put out is legible, and read as the symbol was.
LEMMA StartLegible ==
  ASSUME NEW x, NEW p, StartPiece(x, p, out[1].encoding)
  PROVE  /\ Legible(p[1]) /\ Only(Decoded(p[1].name)) = x.name
         /\ ReadAttrs(p[1].attrs) = AttrsRead(x.attrs) /\ p[1].empty = x.empty
<1> DEFINE y == p[1]
           d == out[1].encoding
           as == y.attrs
<1>1. x \in StartReadable /\ Spells(y.name, x.name, d) /\ y.empty = x.empty /\ AttrsPiece(as, x.attrs, d)
  BY DEF StartPiece
<1>2. IsName(x.name) /\ \A k \in DOMAIN x.attrs : IsName(x.attrs[k].name) /\ x.attrs[k].value \in Seq(PlainSymbol)
  BY <1>1 DEF StartReadable
<1> HIDE DEF y
<1>3. Decoded(y.name) = {x.name}
  BY <1>1, <1>2, NameReads
<1>4. DOMAIN as = DOMAIN x.attrs
      /\ \A k \in DOMAIN x.attrs : /\ Decoded(as[k].name) = {x.attrs[k].name}
                                   /\ ReadString(as[k].value) = {Codes(x.attrs[k].value)}
  <2> HIDE DEF as
  <2>1. DOMAIN as = DOMAIN x.attrs
        /\ \A k \in DOMAIN x.attrs : /\ Spells(as[k].name, x.attrs[k].name, d)
                                     /\ Spells(Coded(as[k].value), Numbers(x.attrs[k].value), d)
    BY <1>1 DEF AttrsPiece
  <2>2. ASSUME NEW k \in DOMAIN x.attrs
        PROVE  Decoded(as[k].name) = {x.attrs[k].name} /\ ReadString(as[k].value) = {Codes(x.attrs[k].value)}
    <3>1. Decoded(as[k].name) = {x.attrs[k].name}
      BY <1>2, <2>1, NameReads
    <3>2. ReadString(as[k].value) = {Codes(x.attrs[k].value)}
      BY <1>2, <2>1, ReadBack
    <3> QED BY <3>1, <3>2
  <2> QED BY <2>1, <2>2
<1>5. Legible(y)
  <2>1. \A a \in Range(as) : \E k \in DOMAIN as : a = as[k]
    BY DEF Range
  <2>2. \A a \in Range(as) : Decoded(a.name) # {} /\ ReadString(a.value) # {}
    BY <1>4, <2>1
  <2> QED BY <1>3, <2>2 DEF Legible
<1>6. ReadAttrs(as) = AttrsRead(x.attrs)
  <2>1. \A k \in DOMAIN x.attrs : /\ Only(Decoded(as[k].name)) = x.attrs[k].name
                                  /\ Only(ReadString(as[k].value)) = Codes(x.attrs[k].value)
    BY <1>4, OnlyOne
  <2> HIDE DEF as
  <2>2. ReadAttrs(as) = [k \in DOMAIN x.attrs |-> [name |-> Only(Decoded(as[k].name)), value |-> Only(ReadString(as[k].value))]]
    BY <1>4 DEF ReadAttrs
  <2>3. AttrsRead(x.attrs) = [k \in DOMAIN x.attrs |-> [name |-> x.attrs[k].name, value |-> Codes(x.attrs[k].value)]]
    BY DEF AttrsRead
  <2> QED BY <2>1, <2>2, <2>3
<1>7. Only(Decoded(y.name)) = x.name
  BY <1>3, OnlyOne
<1> QED BY <1>1, <1>5, <1>6, <1>7 DEF y

Landed(src, tr, k, outer, m, n) ==
  /\ outer = << >> => m = n
  /\ outer # << >> => /\ k + 1 \in 1..Len(src) - 1
                      /\ Flushed(tr[k + 1]) = [outer EXCEPT ![Len(outer)].children = Append(@, m)]
\* An element that is complete is the tree if nothing is open under it, and
\* there is more of the document otherwise.
LEMMA Landing ==
  ASSUME NEW b, NEW src, NEW tr, NEW q, NEW off, NEW S, NEW n, Document(b, src, tr, q, off, S, n),
         NEW k \in 1..Len(src) - 1, NEW outer, NEW m, Lands(outer, m, tr[k].back, tr[k + 1]), tr[k + 1].text = << >>
  PROVE  Landed(src, tr, k, outer, m, n)
<1>1. Len(src) \in Nat /\ tr[Len(src)] = Finished(n) /\ \A j \in 1..Len(src) - 1 : tr[j].back = << >>
  BY DEF Document, Trace
<1>2. k + 1 \in 1..Len(src) - 1 \/ k + 1 = Len(src)
  BY <1>1
<1>3. \A x : <<x>> # << >> /\ <<x>>[1] = x
  OBVIOUS
<1>4. Finished(n).back = <<n>>
  BY DEF Finished
<1>5. CASE outer = << >>
  <2>1. tr[k + 1].back = <<m>>
    BY <1>5 DEF Lands
  <2>2. tr[k + 1] = Finished(n)
    BY <1>1, <1>2, <1>3, <2>1
  <2>3. <<m>> = <<n>>
    BY <1>4, <2>1, <2>2
  <2>4. m = n
    BY <1>3, <2>3
  <2> QED BY <1>5, <2>4 DEF Landed
<1>6. CASE outer # << >>
  <2>1. tr[k + 1].back = << >> /\ tr[k + 1].open = [outer EXCEPT ![Len(outer)].children = Append(@, m)]
    BY <1>1, <1>6 DEF Lands
  <2>2. k + 1 \in 1..Len(src) - 1
    BY <1>1, <1>2, <1>3, <1>4, <2>1
  <2> QED BY <1>6, <2>1, <2>2 DEF Flushed, Landed
<1> QED BY <1>5, <1>6

\* The characters of src from the symbol after the k-th to the tag at z.
Run(src, k, z) ==
  /\ z \in Nat /\ k + 2 <= z /\ z <= Len(src) /\ src[z] \notin PlainSymbol
  /\ \A i \in k + 1..z - 1 : src[i] \in PlainSymbol

\* The characters that begin at a boundary end at a tag.
LEMMA Runs ==
  ASSUME NEW b, NEW src, NEW tr, NEW q, NEW off, NEW S, NEW n, Document(b, src, tr, q, off, S, n),
         NEW k \in 1..Len(src) - 1, src[k + 1] \in PlainSymbol
  PROVE  \E z : Run(src, k, z)
<1> DEFINE m == Len(src)
           K == {i \in Nat : k + 2 <= i /\ i <= m /\ src[i] \notin PlainSymbol}
<1>1. m \in Nat /\ m >= 2 /\ Trace(src, tr) /\ tr[m] = Finished(n)
  BY DEF Document
<1>2. src[m] \notin PlainSymbol
  <2>1. Moves(tr[m - 1], src[m], tr[m])
    BY <1>1 DEF Trace
  <2>2. ASSUME src[m] \in PlainSymbol PROVE FALSE
    <3>1. Continues(tr[m - 1], src[m], tr[m])
      BY <2>1, <2>2, Kinds DEF Moves
    <3>2. tr[m].text = << >>
      BY <1>1 DEF Finished
    <3>3. tr[m].text # << >>
      BY <3>1 DEF Continues
    <3> QED BY <3>2, <3>3
  <2> QED BY <2>2
<1>3. k + 1 # m
  BY <1>2
<1>4. k + 2 <= m
  <2> HIDE DEF m
  <2>1. k \in 1..m - 1
    BY DEF m
  <2> QED BY <1>1, <1>3, <2>1
<1>5. m \in K
  <2> HIDE DEF m
  <2> QED BY <1>1, <1>2, <1>4
<1>6. PICK z \in K : \A i \in K : z <= i
  <2>1. K \in SUBSET Nat /\ K # {}
    BY <1>5
  <2> HIDE DEF K
  <2> QED BY <2>1, LeastNatural
<1>7. ASSUME NEW i \in k + 1..z - 1
      PROVE  src[i] \in PlainSymbol
  <2> HIDE DEF m
  <2>1. z \in Nat /\ k + 2 <= z /\ z <= m /\ k \in Nat
    BY <1>6 DEF m
  <2>2. CASE i = k + 1
    BY <2>2
  <2>3. CASE i # k + 1
    <3>1. i \in Nat /\ k + 2 <= i /\ i <= m /\ ~(z <= i)
      BY <1>1, <2>1, <2>3
    <3>2. i \notin K
      BY <1>6, <3>1
    <3> QED BY <3>1, <3>2
  <2> QED BY <2>2, <2>3
<1>8. Run(src, k, z)
  <2>1. z \in Nat /\ k + 2 <= z /\ z <= m /\ src[z] \notin PlainSymbol
    BY <1>6
  <2> QED BY <1>7, <2>1 DEF Run
<1> QED BY <1>8

\* They are read as one text.
LEMMA RunRead ==
  ASSUME NEW b, NEW src, NEW tr, NEW q, NEW off, NEW S, NEW n, Document(b, src, tr, q, off, S, n),
         NEW k \in 1..Len(src) - 1, NEW z, Run(src, k, z), tr[k].text = << >>,
         NEW t, t \in Seq(PlainSymbol), Len(t) = z - 1 - k, \A i \in 1..Len(t) : t[i] = src[k + i]
  PROVE  tr[z - 1].text = Codes(t) /\ tr[z - 1].open = tr[k].open
<1> DEFINE m == Len(t)
           c == Codes(t)
           T == {j \in Nat : j <= m => /\ tr[k + j].text = SubSeq(c, 1, j) /\ tr[k + j].open = tr[k].open}
<1>1. /\ m \in Nat \ {0} /\ m = z - 1 - k /\ k \in Nat \ {0} /\ z \in Nat /\ k + m <= Len(src) - 1
      /\ Len(src) \in Nat
  <2>1. Len(src) \in Nat /\ m \in Nat /\ m = z - 1 - k /\ z \in Nat /\ k + 2 <= z /\ z <= Len(src) /\ k \in Nat \ {0}
    BY DEF Document, Run
  <2> HIDE DEF m
  <2> QED BY <2>1
<1>2. c \in Seq(CodePoint) /\ Len(c) = m /\ \A j \in 1..m : c[j] = t[j].code /\ t[j] \in PlainSymbol
  <2>1. DOMAIN t = 1..m /\ \A j \in 1..m : t[j] \in PlainSymbol
    OBVIOUS
  <2>2. \A y \in PlainSymbol : y.code \in CodePoint
    BY DEF PlainSymbol, CharSymbol
  <2>3. c = [j \in 1..m |-> t[j].code]
    BY <2>1 DEF Codes
  <2>4. c \in [1..m -> CodePoint]
    BY <2>1, <2>2, <2>3
  <2> HIDE DEF c, m
  <2>5. m \in Nat
    BY <1>1
  <2>6. c \in Seq(CodePoint) /\ Len(c) = m
    BY <2>3, <2>4, <2>5
  <2>7. \A j \in 1..m : c[j] = t[j].code
    BY <2>3
  <2> QED BY <2>1, <2>6, <2>7
<1> HIDE DEF m, c
<1>3. 0 \in T
  <2>1. SubSeq(c, 1, 0) = << >> /\ k + 0 = k
    BY <1>1, <1>2
  <2> QED BY <2>1
<1>4. ASSUME NEW j \in Nat, j \in T
      PROVE  j + 1 \in T
  <2> SUFFICES ASSUME j + 1 <= m
               PROVE  tr[k + (j + 1)].text = SubSeq(c, 1, j + 1) /\ tr[k + (j + 1)].open = tr[k].open
    OBVIOUS
  <2>1. /\ j <= m /\ j + 1 \in 1..m /\ k + j \in 1..Len(src) - 1 /\ k + (j + 1) = (k + j) + 1
    BY <1>1
  <2>2. tr[k + j].text = SubSeq(c, 1, j) /\ tr[k + j].open = tr[k].open
    BY <1>4, <2>1
  <2>3. src[(k + j) + 1] = t[j + 1] /\ t[j + 1] \in PlainSymbol /\ c[j + 1] = t[j + 1].code
    BY <1>2, <2>1 DEF m
  <2>4. Moves(tr[k + j], src[(k + j) + 1], tr[(k + j) + 1])
    BY <2>1, Following DEF Follows
  <2>5. Continues(tr[k + j], t[j + 1], tr[(k + j) + 1])
    BY <2>3, <2>4, Kinds DEF Moves
  <2>6. Append(SubSeq(c, 1, j), c[j + 1]) = SubSeq(c, 1, j + 1)
    BY <1>2, <2>1
  <2> QED BY <2>1, <2>2, <2>3, <2>5, <2>6 DEF Continues
<1>5. m \in T
  <2> HIDE DEF T
  <2>1. Nat \subseteq T
    BY <1>3, <1>4, Upwards
  <2> QED BY <1>1, <2>1
<1>6. SubSeq(c, 1, m) = c
  BY <1>2
<1>7. k + m = z - 1 /\ m <= m
  BY <1>1
<1> QED BY <1>5, <1>6, <1>7 DEF c

\* What lies between two boundaries is laid out by the pieces between.
LEMMA SubLaid ==
  ASSUME NEW S, NEW b \in Seq(S), NEW q \in Seq(Seq(S)), NEW off, Laid(b, q, off),
         NEW k \in Nat, NEW l \in Nat, k <= l, l <= Len(q)
  PROVE  LET c == SubSeq(b, off[k] + 1, off[l])
             w == SubSeq(q, k + 1, l)
         IN  /\ c \in Seq(S) /\ w \in Seq(Seq(S)) /\ Len(w) = l - k
             /\ \A i \in 1..l - k : w[i] = q[k + i]
             /\ Laid(c, w, [i \in 0..l - k |-> off[k + i] - off[k]])
<1> DEFINE c == SubSeq(b, off[k] + 1, off[l])
           w == SubSeq(q, k + 1, l)
           m == l - k
           f == [i \in 0..m |-> off[k + i] - off[k]]
<1>1. /\ Len(q) \in Nat /\ off \in [0..Len(q) -> Nat]
      /\ \A i \in 1..Len(q) : /\ off[i - 1] \in Nat /\ off[i] \in Nat /\ Len(q[i]) \in Nat
                              /\ off[i] = off[i - 1] + Len(q[i]) /\ off[i] <= Len(b)
      /\ \A j \in 0..Len(q) : \A i \in 0..j : off[i] <= off[j]
      /\ Len(b) \in Nat /\ off[Len(q)] = Len(b)
  <2>1. off[Len(q)] = Len(b)
    BY DEF Laid
  <2>2. Len(q) \in Nat /\ off \in [0..Len(q) -> Nat]
    BY Pieces
  <2>3. \A i \in 1..Len(q) : /\ off[i - 1] \in Nat /\ off[i] \in Nat /\ Len(q[i]) \in Nat
                              /\ off[i] = off[i - 1] + Len(q[i]) /\ off[i] <= Len(b)
    BY Pieces
  <2>4. (\A j \in 0..Len(q) : \A i \in 0..j : off[i] <= off[j]) /\ Len(b) \in Nat
    BY Pieces
  <2> QED BY <2>1, <2>2, <2>3, <2>4
<1>2. /\ m \in Nat /\ k + m = l /\ k \in 0..Len(q) /\ l \in 0..Len(q) /\ k \in 0..l
      /\ \A i \in 0..m : k + i \in 0..Len(q) /\ k \in 0..k + i /\ k + i \in 0..l
      /\ \A i \in 1..m : k + i \in 1..Len(q) /\ (k + i) - 1 = k + (i - 1) /\ i - 1 \in 0..m /\ i \in 0..m
  BY <1>1
<1>3. off[k] \in Nat /\ off[l] \in Nat /\ off[k] <= off[l] /\ off[l] <= Len(b)
  <2>1. off[l] <= off[Len(q)]
    <3>1. Len(q) \in 0..Len(q)
      BY <1>1
    <3> QED BY <1>1, <1>2, <3>1
  <2> QED BY <1>1, <1>2, <2>1
<1> HIDE DEF m
<1>4. /\ w \in Seq(Seq(S)) /\ Len(w) = m /\ \A i \in 1..m : w[i] = q[k + i]
  <2>1. k + 1 \in Nat \ {0} /\ l \in Nat /\ l <= Len(q) /\ k + 1 <= l + 1 /\ l + 1 - (k + 1) = m
    BY <1>1 DEF m
  <2> DEFINE p == k + 1
  <2>2. /\ SubSeq(q, p, l) \in Seq(Seq(S)) /\ Len(SubSeq(q, p, l)) = l + 1 - p
        /\ \A j \in 1..l + 1 - p : SubSeq(q, p, l)[j] = q[p + j - 1]
    <3>1. p \in Nat \ {0} /\ l \in Nat /\ l <= Len(q) /\ p <= l + 1
      BY <2>1
    <3> DEFINE Q == Seq(S)
    <3>2. q \in Seq(Q)
      OBVIOUS
    <3> HIDE DEF p, Q
    <3>3. /\ SubSeq(q, p, l) \in Seq(Q) /\ Len(SubSeq(q, p, l)) = l + 1 - p
          /\ \A j \in 1..l + 1 - p : SubSeq(q, p, l)[j] = q[p + j - 1]
      BY <3>1, <3>2, Slice
    <3> QED BY <3>3 DEF Q
  <2>3. \A j \in 1..m : p + j - 1 = k + j
    BY <1>2
  <2> QED BY <2>1, <2>2, <2>3
<1> DEFINE lo == off[k]
           hi == off[l]
<1> HIDE DEF lo, hi
<1>5. c \in Seq(S) /\ Len(c) = hi - lo /\ \A j \in 1..hi - lo : c[j] = b[lo + j]
  <2> DEFINE p == lo + 1
  <2>1. p \in Nat \ {0} /\ hi \in Nat /\ hi <= Len(b) /\ p <= hi + 1 /\ hi + 1 - p = hi - lo
        /\ lo \in Nat
    BY <1>3 DEF lo, hi
  <2>2. /\ SubSeq(b, p, hi) \in Seq(S) /\ Len(SubSeq(b, p, hi)) = hi + 1 - p
        /\ \A j \in 1..hi + 1 - p : SubSeq(b, p, hi)[j] = b[p + j - 1]
    <3> HIDE DEF p
    <3> QED BY <2>1, Slice
  <2>3. \A j \in 1..hi - lo : p + j - 1 = lo + j
    BY <2>1
  <2>4. c = SubSeq(b, p, hi)
    BY DEF lo, hi
  <2> QED BY <2>1, <2>2, <2>3, <2>4
<1> HIDE DEF c, w
<1>6. f \in [0..m -> Nat] /\ f[0] = 0 /\ f[m] = Len(c) /\ \A i \in 0..m : f[i] = off[k + i] - lo
  <2>1. \A i \in 0..m : off[k + i] \in Nat /\ off[k] <= off[k + i]
    BY <1>1, <1>2
  <2>2. \A i \in 0..m : off[k + i] - off[k] \in Nat
    BY <1>3, <2>1
  <2>3. f \in [0..m -> Nat] /\ \A i \in 0..m : f[i] = off[k + i] - lo
    BY <2>2 DEF lo
  <2> HIDE DEF f
  <2>4. 0 \in 0..m /\ m \in 0..m /\ k + 0 = k
    BY <1>2
  <2>5. f[0] = 0
    <3>1. f[0] = off[k] - lo
      BY <2>3, <2>4
    <3> QED BY <1>3, <3>1 DEF lo
  <2>6. f[m] = Len(c)
    BY <1>2, <1>5, <2>3, <2>4 DEF hi
  <2> QED BY <2>3, <2>5, <2>6
<1> HIDE DEF f
<1>7. ASSUME NEW i \in 1..m
      PROVE  f[i] = f[i - 1] + Len(w[i]) /\ \A j \in 1..Len(w[i]) : c[f[i - 1] + j] = w[i][j]
  <2> DEFINE h == k + i
             x == off[h]
             y == off[h - 1]
             n == Len(q[h])
  <2>0. h \in 1..Len(q) /\ h - 1 = k + (i - 1) /\ i - 1 \in 0..m /\ i \in 0..m
    BY <1>2
  <2>7. h = k + i
    OBVIOUS
  <2> HIDE DEF h
  <2>1. x \in Nat /\ y \in Nat /\ n \in Nat /\ x = y + n /\ w[i] = q[h]
    BY <1>1, <1>4, <2>0, <2>7
  <2>2. f[i] = x - lo /\ f[i - 1] = y - lo
    <3>1. f[i] = off[k + i] - lo /\ f[i - 1] = off[k + (i - 1)] - lo
      BY <1>6, <2>0
    <3> QED BY <2>0, <2>7, <3>1
  <2>3. lo \in Nat /\ hi \in Nat /\ lo <= y /\ x <= hi
    <3>1. off[k] <= off[k + (i - 1)]
      BY <1>1, <1>2
    <3>2. off[k + i] <= off[l]
      BY <1>1, <1>2
    <3>3. off[k] <= y /\ x <= off[l]
      BY <2>0, <2>7, <3>1, <3>2
    <3> QED BY <1>3, <3>3 DEF lo, hi
  <2>4. \A j \in 1..n : b[y + j] = q[h][j]
    BY <2>0 DEF Laid
  <2> HIDE DEF x, y, n
  <2>5. f[i] = f[i - 1] + n
    BY <2>1, <2>2, <2>3
  <2>6. ASSUME NEW j \in 1..n
        PROVE  c[f[i - 1] + j] = w[i][j]
    <3>1. f[i - 1] + j \in 1..hi - lo /\ lo + (f[i - 1] + j) = y + j
      BY <2>1, <2>2, <2>3
    <3>2. c[f[i - 1] + j] = b[y + j]
      BY <1>5, <3>1
    <3> QED BY <2>1, <2>4, <3>2
  <2> QED BY <2>1, <2>5, <2>6 DEF n
<1>8. Laid(c, w, f)
  BY <1>4, <1>6, <1>7 DEF Laid
<1> QED BY <1>4, <1>5, <1>8 DEF c, w, f, m

\* The bytes of a run spell its characters.
RunText(src, k, z) == [i \in 1..z - 1 - k |-> src[k + i]]
RunReads(src, off, k, z) ==
  LET t == RunText(src, k, z)
  IN  /\ t \in Seq(PlainSymbol) /\ Len(t) = z - 1 - k
      /\ \A i \in 1..Len(t) : t[i] = src[k + i]
      /\ ReadString(SubSeq(out, off[k] + 1, off[z - 1])) = {Codes(t)}

\* What lies between two tags is decoded as the text that was written there.
LEMMA RunDecoded ==
  ASSUME NEW src, NEW tr, NEW q, NEW off, NEW S, NEW n, Document(out, src, tr, q, off, S, n),
         NEW k \in 1..Len(src) - 1, NEW z, Run(src, k, z)
  PROVE  RunReads(src, off, k, z)
<1> DEFINE t == RunText(src, k, z)
           l == z - 1
           m == l - k
           d == out[1].encoding
           c == SubSeq(out, off[k] + 1, off[l])
           w == SubSeq(q, k + 1, l)
           f == [i \in 0..m |-> off[k + i] - off[k]]
           u == Units(Numbers(t), d)
<1>1. /\ Len(src) \in Nat /\ out \in Seq(S) /\ q \in Seq(Seq(S)) /\ Len(q) = Len(src) /\ Laid(out, q, off)
  BY DEF Document
<1>2. /\ z \in Nat /\ k + 2 <= z /\ z <= Len(src)
      /\ \A i \in k + 1..z - 1 : src[i] \in PlainSymbol
  BY DEF Run
<1>3. /\ k \in Nat /\ l \in Nat /\ k <= l /\ l <= Len(q) /\ m \in Nat /\ m = z - 1 - k
      /\ \A i \in 1..m : k + i \in k + 1..z - 1 /\ (k + i) - 1 \in 1..Len(src) - 1
                         /\ ((k + i) - 1) + 1 = k + i
  BY <1>1, <1>2
<1> HIDE DEF m
<1>4. t \in Seq(PlainSymbol) /\ Len(t) = m /\ \A i \in 1..m : t[i] = src[k + i] /\ t[i] \in PlainSymbol
  <2>1. t = [i \in 1..m |-> src[k + i]]
    BY <1>3 DEF RunText
  <2> HIDE DEF t
  <2>2. t \in [1..m -> PlainSymbol] /\ \A i \in 1..m : t[i] = src[k + i] /\ t[i] \in PlainSymbol
    BY <1>2, <1>3, <2>1
  <2>3. m \in Nat
    BY <1>3
  <2> QED BY <2>2, <2>3
<1> HIDE DEF t
<1>5. /\ c \in Seq(S) /\ w \in Seq(Seq(S)) /\ Len(w) = m
      /\ \A i \in 1..m : w[i] = q[k + i]
      /\ Laid(c, w, f)
  <2> HIDE DEF l
  <2>1. k \in Nat /\ l \in Nat /\ k <= l /\ l <= Len(q)
    BY <1>3
  <2> QED BY <1>1, <2>1, SubLaid DEF m
<1> HIDE DEF c, w, f, l
<1>6. ASSUME NEW i \in 1..m
      PROVE  w[i] \in Seq(ByteSymbol) /\ Coded(w[i]) = Unit(Number(t[i]), d)
  <2> DEFINE j == (k + i) - 1
  <2>1. j \in 1..Len(src) - 1 /\ j + 1 = k + i
    BY <1>3
  <2> HIDE DEF j
  <2>2. Follows(out, src, tr, q, off, j)
    BY <2>1, Following
  <2>3. src[j + 1] = t[i] /\ t[i] \in PlainSymbol /\ w[i] = q[j + 1]
    BY <1>4, <1>5, <2>1
  <2>4. CharPiece(src[j + 1], q[j + 1], d)
    BY <2>2, <2>3, Kinds DEF Follows, StartPiece, EndPiece
  <2> QED BY <2>3, <2>4 DEF CharPiece
<1>7. w \in Seq(Seq(ByteSymbol))
  <2>1. w \in [1..m -> Seq(ByteSymbol)]
    <3>1. w = [i \in 1..m |-> w[i]]
      BY <1>5
    <3> QED BY <1>6, <3>1
  <2>2. m \in Nat
    BY <1>3
  <2> QED BY <2>1, <2>2
<1>8. u \in Seq(Seq(Int)) /\ Len(u) = m /\ \A i \in 1..m : u[i] = Unit(Number(t[i]), d)
  <2>1. DOMAIN Numbers(t) = 1..m /\ \A i \in 1..m : Numbers(t)[i] = Number(t[i])
    <3>1. Numbers(t) \in Seq(Int) /\ Len(Numbers(t)) = m
      BY <1>4, NumbersPlain
    <3>2. \A i \in 1..m : Numbers(t)[i] = Number(t[i])
      BY <1>4, NumbersPlain
    <3> QED BY <3>1, <3>2
  <2>2. \A i \in 1..m : Unit(Number(t[i]), d) \in Seq(Int)
    BY <1>4, NumberPlain, UnitBytes
  <2>3. u = [i \in 1..m |-> Unit(Number(t[i]), d)]
    BY <2>1 DEF Units
  <2> HIDE DEF u, d
  <2>4. u \in [1..m -> Seq(Int)] /\ \A i \in 1..m : u[i] = Unit(Number(t[i]), d)
    BY <2>2, <2>3
  <2>5. m \in Nat
    BY <1>3
  <2> QED BY <2>3, <2>4, <2>5
<1> HIDE DEF u
<1>9. Coded(c) \in Seq(Int) /\ Laid(Coded(c), u, f)
  <2>1. \A i \in 1..Len(w) : Coded(w[i]) = u[i]
    BY <1>5, <1>6, <1>8
  <2>2. Len(u) = Len(w)
    BY <1>5, <1>8
  <2> QED BY <1>5, <1>7, <1>8, <2>1, <2>2, CodedLaid
<1>10. Spells(Coded(c), Numbers(t), d)
  BY <1>9 DEF Spells, u
<1>11. ReadString(c) = {Codes(t)}
  BY <1>4, <1>10, ReadBack
<1>12. \A i \in 1..Len(t) : t[i] = src[k + i]
  BY <1>4
<1> QED BY <1>3, <1>4, <1>11, <1>12 DEF c, t, l, RunReads

\* The next tag is where the run ends.
LEMMA RunEnds ==
  ASSUME NEW src, NEW tr, NEW q, NEW off, NEW S, NEW n, Document(out, src, tr, q, off, S, n),
         NEW k \in 1..Len(src) - 1, NEW z, Run(src, k, z)
  PROVE  LET e == off[z - 1] + 1
         IN  /\ e \in off[k] + 1..Len(out) /\ IsTag(out[e]) /\ off[k] \in Nat /\ e \in Nat
             /\ \A p \in off[k] + 1..e - 1 : ~IsTag(out[p])
<1> DEFINE l == z - 1
           lo == off[k]
           hi == off[l]
<1>1. /\ Len(src) \in Nat /\ q \in Seq(Seq(S)) /\ Len(q) = Len(src) /\ Laid(out, q, off)
  BY DEF Document
<1>2. /\ z \in Nat /\ k + 2 <= z /\ z <= Len(src) /\ src[z] \notin PlainSymbol
      /\ \A i \in k + 1..z - 1 : src[i] \in PlainSymbol
  BY DEF Run
<1>3. /\ k \in Nat \ {0} /\ l \in Nat /\ k <= l /\ l <= Len(q) /\ l \in 1..Len(src) - 1 /\ l + 1 = z
      /\ k \in 0..Len(q) /\ l \in 0..Len(q)
  BY <1>1, <1>2
<1> HIDE DEF l
<1>4. /\ lo \in Nat /\ hi \in Nat /\ hi + 1 <= Len(out) /\ Len(out) \in Nat /\ lo <= hi
      /\ \A j \in 0..Len(q) : \A i \in 0..j : off[i] <= off[j]
  <2>1. /\ \A j \in 0..Len(q) : \A i \in 0..j : off[i] <= off[j]
        /\ Len(out) \in Nat
    BY <1>1, Pieces
  <2>2. Follows(out, src, tr, q, off, l) /\ Follows(out, src, tr, q, off, k)
    BY <1>3, Following
  <2>3. /\ off[l] \in Nat /\ off[k] \in Nat /\ off[l + 1] = off[l] + Len(q[l + 1]) /\ off[l + 1] <= Len(out)
        /\ Len(q[l + 1]) \in Nat \ {0}
    BY <2>2 DEF Follows
  <2>4. off[l] + 1 <= Len(out)
    <3> DEFINE x == Len(q[l + 1])
    <3> HIDE DEF x
    <3>1. x \in Nat \ {0} /\ off[l] + x <= Len(out) /\ off[l] \in Nat
      BY <2>3 DEF x
    <3> QED BY <2>1, <3>1
  <2>5. k \in 0..l
    BY <1>3
  <2> QED BY <1>3, <2>1, <2>3, <2>4, <2>5
<1>5. IsTag(out[hi + 1])
  <2>1. Follows(out, src, tr, q, off, l)
    BY <1>3, Following
  <2>2. src[l + 1] \notin PlainSymbol
    BY <1>2, <1>3
  <2> QED BY <2>1, <2>2 DEF Follows, CharPiece, IsTag
<1>6. ASSUME NEW p \in lo + 1..hi
      PROVE  ~IsTag(out[p])
  <2>1. p \in 1..Len(out)
    BY <1>4
  <2>2. Lies(p, q, off)
    BY <1>1, <2>1, Located
  <2>3. PICK i, j : i \in 1..Len(q) /\ j \in 1..Len(q[i]) /\ p = off[i - 1] + j
    BY <2>2 DEF Lies
  <2>4. /\ off[i - 1] \in Nat /\ off[i] \in Nat /\ off[i] = off[i - 1] + Len(q[i]) /\ Len(q[i]) \in Nat
    BY <1>1, <2>3, Pieces
  <2>5. off[i - 1] + 1 <= p /\ p <= off[i]
    <3> DEFINE x == Len(q[i])
    <3> HIDE DEF x
    <3>1. x \in Nat /\ j \in 1..x
      BY <2>3, <2>4 DEF x
    <3> QED BY <2>3, <2>4, <3>1 DEF x
  <2>6. i >= k + 1
    <3>1. CASE i <= k
      <4>1. i \in 0..k
        BY <1>3, <2>3, <3>1
      <4>2. off[i] <= off[k]
        BY <1>3, <1>4, <4>1
      <4> QED BY <1>4, <2>4, <2>5, <4>2
    <3> QED BY <1>3, <2>3, <3>1
  <2>7. i <= l
    <3>1. CASE i > l
      <4>1. i - 1 \in 0..Len(q) /\ l \in 0..i - 1
        BY <1>1, <1>3, <2>3, <3>1
      <4>2. off[l] <= off[i - 1]
        BY <1>4, <4>1
      <4> QED BY <1>4, <2>4, <2>5, <4>2
    <3> QED BY <1>3, <2>3, <3>1
  <2> DEFINE h == i - 1
  <2>8. i \in k + 1..z - 1 /\ h \in 1..Len(src) - 1 /\ h + 1 = i
    BY <1>1, <1>3, <2>3, <2>6, <2>7
  <2> HIDE DEF h
  <2>9. Follows(out, src, tr, q, off, h) /\ src[h + 1] \in PlainSymbol
    BY <1>2, <2>8, Following
  <2>10. CharPiece(src[h + 1], q[h + 1], out[1].encoding)
    BY <2>9, Kinds DEF Follows, StartPiece, EndPiece
  <2>11. q[i] \in Seq(ByteSymbol)
    BY <2>8, <2>10 DEF CharPiece
  <2>12. q[i][j] \in ByteSymbol
    BY <2>3, <2>11
  <2>13. out[p] = q[i][j]
    BY <1>1, <2>3 DEF Laid
  <2> QED BY <2>12, <2>13 DEF ByteSymbol, IsTag
<1>7. (hi + 1) - 1 = hi /\ hi + 1 \in lo + 1..Len(out) /\ hi + 1 \in Nat
  BY <1>4
<1> QED BY <1>4, <1>5, <1>6, <1>7 DEF l

\* The reader stands after the k-th symbol, and what it holds is what has been
\* read there.
Stands(src, tr, off, k, pos, elements, tree) ==
  /\ k \in 1..Len(src) - 1 /\ pos = off[k] + 1 /\ elements = Flushed(tr[k]) /\ tree = << >>
  /\ src[k + 1] \in PlainSymbol => tr[k].text = << >>
Halfway(b, pos, elements, tree, n) ==
  \E src, tr, q, off, S : /\ Document(b, src, tr, q, off, S, n)
                          /\ \E k : Stands(src, tr, off, k, pos, elements, tree)
\* It is on the way, or done with the tree.
ReadOn(b, ph, pos, elements, tree, n) ==
  \/ ph = "read" /\ Halfway(b, pos, elements, tree, n)
  \/ ph = "done" /\ tree = <<n>>

\* Once the declaration is read, the rest of the document is read on.
LEMMA FirstRead ==
  ASSUME NEW b, NEW src, NEW tr, NEW q, NEW off, NEW S, NEW n, Document(b, src, tr, q, off, S, n)
  PROVE  Halfway(b, 2, << >>, << >>, n)
<1>1. /\ Len(src) \in Nat /\ Len(src) >= 2 /\ tr[1] = Begun /\ Len(q) = Len(src) /\ Laid(b, q, off) /\ Len(q[1]) = 1
  BY DEF Document, Trace
<1>2. 1 \in 1..Len(q) /\ 1 \in 1..Len(src) - 1
  BY <1>1
<1>3. off[0] = 0 /\ off[1] = off[1 - 1] + Len(q[1])
  BY <1>1, <1>2 DEF Laid
<1>4. 2 = off[1] + 1
  BY <1>1, <1>3
<1>5. Flushed(tr[1]) = << >> /\ tr[1].text = << >>
  BY <1>1 DEF Begun, Flushed
<1>6. Stands(src, tr, off, 1, 2, << >>, << >>)
  BY <1>2, <1>4, <1>5 DEF Stands
<1> QED BY <1>6 DEF Halfway

\* Attaching an element that is complete.
LEMMA Attached ==
  ASSUME NEW src, NEW tr, NEW q, NEW off, NEW S, NEW n, Document(out, src, tr, q, off, S, n),
         NEW k, Stands(src, tr, off, k, at, open, back), phase = "read", Len(q[k + 1]) = 1,
         NEW outer, NEW m, Lands(outer, m, tr[k].back, tr[k + 1]), tr[k + 1].text = << >>, Attach(outer, m)
  PROVE  ReadOn(out, phase', at', open', back', n)
<1>1. k \in 1..Len(src) - 1 /\ at = off[k] + 1 /\ back = << >>
  BY DEF Stands
<1>2. off[k] \in Nat /\ off[k + 1] = off[k] + 1
  <2>1. Follows(out, src, tr, q, off, k)
    BY <1>1, Following
  <2>2. off[k] \in Nat /\ off[k + 1] = off[k] + Len(q[k + 1]) /\ Len(q[k + 1]) = 1
    BY <2>1 DEF Follows
  <2> QED BY <2>2
<1>6. /\ outer = << >> => m = n
      /\ outer # << >> => /\ k + 1 \in 1..Len(src) - 1
                          /\ Flushed(tr[k + 1]) = [outer EXCEPT ![Len(outer)].children = Append(@, m)]
  <2>1. Landed(src, tr, k, outer, m, n)
    BY <1>1, Landing
  <2> QED BY <2>1 DEF Landed
<1>3. at' = off[k + 1] + 1
  BY <1>1, <1>2 DEF Attach
<1>4. CASE outer = << >>
  <2>1. m = n
    BY <1>4, <1>6
  <2>2. phase' = "done" /\ back' = <<m>>
    BY <1>4 DEF Attach
  <2> QED BY <2>1, <2>2 DEF ReadOn
<1>5. CASE outer # << >>
  <2>1. /\ k + 1 \in 1..Len(src) - 1
        /\ Flushed(tr[k + 1]) = [outer EXCEPT ![Len(outer)].children = Append(@, m)]
    BY <1>5, <1>6
  <2>2. phase' = "read" /\ back' = << >> /\ open' = [outer EXCEPT ![Len(outer)].children = Append(@, m)]
    BY <1>1, <1>5 DEF Attach
  <2>3. Stands(src, tr, off, k + 1, at', open', back')
    BY <1>3, <2>1, <2>2 DEF Stands
  <2>4. Halfway(out, at', open', back', n)
    BY <2>3 DEF Halfway
  <2> QED BY <2>2, <2>4 DEF ReadOn
<1> QED BY <1>4, <1>5

\* ReadStart of the tag at a boundary.
LEMMA StartRead ==
  ASSUME NEW n, Halfway(out, at, open, back, n), ReadStart
  PROVE  ReadOn(out, phase', at', open', back', n)
<1>1. PICK src, tr, q, off, S : /\ Document(out, src, tr, q, off, S, n)
                                /\ \E k : Stands(src, tr, off, k, at, open, back)
  BY DEF Halfway
<1>2. PICK k : Stands(src, tr, off, k, at, open, back)
  BY <1>1
<1>3. k \in 1..Len(src) - 1 /\ at = off[k] + 1 /\ open = Flushed(tr[k]) /\ back = << >>
  BY <1>2 DEF Stands
<1> DEFINE x == src[k + 1]
           p == q[k + 1]
           y == out[at]
<1>4. Follows(out, src, tr, q, off, k)
  BY <1>1, <1>3, Following
<1>5. phase = "read" /\ y.form = "start"
  BY DEF ReadStart, Reading
<1>6. StartPiece(x, p, out[1].encoding) /\ y = p[1]
  <2>1. y = p[1]
    BY <1>3, <1>4 DEF Follows
  <2>2. p[1].form = "start"
    BY <1>5, <2>1
  <2>3. IsTag(p[1]) /\ p[1].form # "end"
    BY <2>2 DEF IsTag
  <2> QED BY <1>4, <2>1, <2>3 DEF Follows
<1>7. /\ Legible(y) /\ Only(Decoded(y.name)) = x.name
      /\ ReadAttrs(y.attrs) = AttrsRead(x.attrs) /\ y.empty = x.empty
  BY <1>6, StartLegible
<1>8. Starts(tr[k], x, tr[k + 1])
  <2>1. x \in StartReadable
    BY <1>6 DEF StartPiece
  <2> QED BY <1>4, <2>1, Kinds DEF Follows, Moves
<1> DEFINE m == Element(x.name, AttrsRead(x.attrs), << >>)
<1>9. tr[k + 1].text = << >> /\ IF x.empty THEN Lands(open, m, tr[k].back, tr[k + 1])
                                ELSE tr[k + 1].open = Append(open, m) /\ tr[k + 1].back = tr[k].back
  BY <1>3, <1>8 DEF Starts
<1>10. IF y.empty THEN Attach(open, m)
       ELSE at' = at + 1 /\ open' = Append(open, m) /\ UNCHANGED <<back, phase>>
  <2>1. Element(Only(Decoded(y.name)), ReadAttrs(y.attrs), <<>>) = m
    BY <1>7
  <2> HIDE DEF y, m
  <2>2. Legible(y)
    BY <1>7
  <2> QED BY <2>1, <2>2 DEF ReadStart, y
<1>11. Len(p) = 1
  BY <1>6 DEF StartPiece
<1> HIDE DEF x, p, y, m
<1>12. CASE x.empty
  <2>1. Attach(open, m) /\ Lands(open, m, tr[k].back, tr[k + 1])
    BY <1>7, <1>9, <1>10, <1>12
  <2> QED BY <1>1, <1>2, <1>5, <1>9, <1>11, <2>1, Attached DEF p
<1>13. CASE ~x.empty
  <2>1. at' = at + 1 /\ open' = Append(open, m) /\ back' = << >> /\ phase' = "read"
    BY <1>3, <1>5, <1>7, <1>10, <1>13
  <2>2. tr[k + 1].text = << >> /\ tr[k + 1].open = Append(open, m) /\ tr[k + 1].back = tr[k].back
    BY <1>9, <1>13
  <2>3. tr[k].back = << >> /\ off[k + 1] = off[k] + 1 /\ off[k] \in Nat
    BY <1>4, <1>11 DEF Follows, p
  <2>4. k + 1 \in 1..Len(src) - 1
    <3>1. Len(src) \in Nat /\ tr[Len(src)] = Finished(n)
      BY <1>1 DEF Document
    <3>2. Finished(n).back = <<n>> /\ <<n>> # << >>
      BY DEF Finished
    <3>3. k + 1 # Len(src)
      BY <2>2, <2>3, <3>1, <3>2
    <3> QED BY <1>3, <3>1, <3>3
  <2>5. Flushed(tr[k + 1]) = Append(open, m)
    BY <2>2 DEF Flushed
  <2>6. at' = off[k + 1] + 1
    BY <1>3, <2>1, <2>3
  <2>7. Stands(src, tr, off, k + 1, at', open', back')
    BY <2>1, <2>2, <2>4, <2>5, <2>6 DEF Stands
  <2>8. Halfway(out, at', open', back', n)
    BY <1>1, <2>7 DEF Halfway
  <2> QED BY <2>1, <2>8 DEF ReadOn
<1> QED BY <1>12, <1>13

\* ReadEnd of the tag at a boundary.
LEMMA EndRead ==
  ASSUME NEW n, Halfway(out, at, open, back, n), ReadEnd
  PROVE  ReadOn(out, phase', at', open', back', n)
<1>1. PICK src, tr, q, off, S : /\ Document(out, src, tr, q, off, S, n)
                                /\ \E k : Stands(src, tr, off, k, at, open, back)
  BY DEF Halfway
<1>2. PICK k : Stands(src, tr, off, k, at, open, back)
  BY <1>1
<1>3. k \in 1..Len(src) - 1 /\ at = off[k] + 1 /\ open = Flushed(tr[k]) /\ back = << >>
  BY <1>2 DEF Stands
<1> DEFINE x == src[k + 1]
           p == q[k + 1]
           y == out[at]
<1>4. Follows(out, src, tr, q, off, k)
  BY <1>1, <1>3, Following
<1>5. phase = "read" /\ y.form = "end"
  BY DEF ReadEnd, Reading
<1>6. EndPiece(x, p, out[1].encoding) /\ y = p[1]
  <2>1. y = p[1]
    BY <1>3, <1>4 DEF Follows
  <2>2. p[1].form = "end"
    BY <1>5, <2>1
  <2>3. IsTag(p[1]) /\ p[1].form # "start"
    BY <2>2 DEF IsTag
  <2> QED BY <1>4, <2>1, <2>3 DEF Follows
<1>7. Decoded(y.name) = {x.name} /\ x \in EndReadable /\ Len(p) = 1
  <2>1. x \in EndReadable /\ Len(p) = 1 /\ Spells(p[1].name, x.name, out[1].encoding)
    BY <1>6 DEF EndPiece
  <2>2. IsName(x.name)
    BY <2>1 DEF EndReadable
  <2> HIDE DEF x, p, y
  <2> QED BY <1>6, <2>1, <2>2, NameReads
<1>8. Ends(tr[k], x, tr[k + 1])
  BY <1>4, <1>7, Kinds DEF Follows, Moves
<1>9. /\ tr[k + 1].text = << >> /\ x.name = Last(open).name
      /\ Lands(Popped(open), Last(open), tr[k].back, tr[k + 1])
  BY <1>3, <1>8 DEF Ends
<1>10. Attach(Popped(open), Last(open))
  <2>1. Decoded(y.name) = {Last(open).name}
    BY <1>7, <1>9
  <2> QED BY <2>1 DEF ReadEnd
<1> HIDE DEF x, p, y
<1> QED BY <1>1, <1>2, <1>5, <1>7, <1>9, <1>10, Attached DEF p

\* Where the text ends that begins at a boundary.
LEMMA EndFound ==
  ASSUME NEW e, e \in at..Len(out), IsTag(out[e]), at \in Nat, e \in Nat, \A p \in at..e - 1 : ~IsTag(out[p])
  PROVE  TextEnd = e
<1> DEFINE P(k) == IsTag(out[k]) /\ \A j \in at..k - 1 : ~IsTag(out[j])
<1>1. e \in at..Len(out) /\ P(e)
  OBVIOUS
<1>2. ASSUME NEW f \in at..Len(out), P(f)
      PROVE  f = e
  <2>1. f \in Int /\ at <= f
    OBVIOUS
  <2>2. ~(f < e)
    <3>1. f < e => f \in at..e - 1
      BY <2>1
    <3> QED BY <1>2, <3>1
  <2>3. ~(e < f)
    <3>1. e < f => e \in at..f - 1
      BY <2>1
    <3> QED BY <1>2, <3>1
  <2> QED BY <2>1, <2>2, <2>3
<1>3. TextEnd = CHOOSE k \in at..Len(out) : P(k)
  BY Zenon DEF TextEnd
<1> HIDE DEF P
<1> QED BY <1>1, <1>2, <1>3

\* ReadText of the characters at a boundary.
LEMMA TextRead ==
  ASSUME NEW n, Halfway(out, at, open, back, n), ReadText
  PROVE  ReadOn(out, phase', at', open', back', n)
<1>1. PICK src, tr, q, off, S : /\ Document(out, src, tr, q, off, S, n)
                                /\ \E k : Stands(src, tr, off, k, at, open, back)
  BY DEF Halfway
<1>2. PICK k : Stands(src, tr, off, k, at, open, back)
  BY <1>1
<1>3. k \in 1..Len(src) - 1 /\ at = off[k] + 1 /\ open = Flushed(tr[k]) /\ back = << >>
      /\ (src[k + 1] \in PlainSymbol => tr[k].text = << >>)
  BY <1>2 DEF Stands
<1>4. Follows(out, src, tr, q, off, k)
  BY <1>1, <1>3, Following
<1>5. phase = "read" /\ ~IsTag(out[at])
  BY DEF ReadText, Reading
<1>6. src[k + 1] \in PlainSymbol
  <2>1. ~IsTag(q[k + 1][1])
    BY <1>3, <1>4, <1>5 DEF Follows
  <2>2. CharPiece(src[k + 1], q[k + 1], out[1].encoding)
    BY <1>4, <2>1 DEF Follows, IsTag
  <2> QED BY <2>2 DEF CharPiece
<1>7. tr[k].text = << >> /\ open = tr[k].open
  BY <1>3, <1>6 DEF Flushed
<1>8. PICK z : Run(src, k, z)
  BY <1>1, <1>3, <1>6, Runs
<1> DEFINE t == RunText(src, k, z)
           e == off[z - 1] + 1
           c == Codes(t)
<1>9. /\ t \in Seq(PlainSymbol) /\ Len(t) = z - 1 - k /\ \A i \in 1..Len(t) : t[i] = src[k + i]
      /\ ReadString(SubSeq(out, off[k] + 1, off[z - 1])) = {c}
  <2>1. Document(out, src, tr, q, off, S, n) /\ k \in 1..Len(src) - 1 /\ Run(src, k, z)
    BY <1>1, <1>3, <1>8
  <2>2. RunReads(src, off, k, z)
    BY <2>1, RunDecoded
  <2> QED BY <2>2 DEF RunReads
<1>10. tr[z - 1].text = c /\ tr[z - 1].open = tr[k].open
  <2> HIDE DEF t
  <2> QED BY <1>1, <1>3, <1>7, <1>8, <1>9, RunRead
<1>11. /\ e \in off[k] + 1..Len(out) /\ IsTag(out[e]) /\ off[k] \in Nat /\ e \in Nat
       /\ \A p \in off[k] + 1..e - 1 : ~IsTag(out[p])
  BY <1>1, <1>3, <1>8, RunEnds
<1>12. TextEnd = e
  <2> HIDE DEF e
  <2>1. at \in Nat /\ e \in at..Len(out) /\ e \in Nat /\ IsTag(out[e]) /\ \A p \in at..e - 1 : ~IsTag(out[p])
    BY <1>3, <1>11
  <2> QED BY <2>1, EndFound
<1>13. off[z - 1] \in Int /\ e - 1 = off[z - 1]
  <2>1. Laid(out, q, off) /\ q \in Seq(Seq(S)) /\ Len(q) = Len(src) /\ Len(src) \in Nat
    BY <1>1 DEF Document
  <2>2. z - 1 \in 0..Len(q)
    BY <1>3, <1>8, <2>1 DEF Run
  <2>3. off[z - 1] \in Nat
    BY <2>1, <2>2 DEF Laid
  <2> QED BY <2>3
<1>14. ReadString(SubSeq(out, at, TextEnd - 1)) = {c}
  BY <1>3, <1>9, <1>12, <1>13
<1> HIDE DEF t, c, e
<1>15. /\ open' = [open EXCEPT ![Len(open)].children = Append(@, Text(c))]
       /\ at' = e /\ phase' = "read" /\ back' = << >>
  <2>1. Only({c}) = c /\ {c} # {}
    BY OnlyOne
  <2>2. /\ open' = [open EXCEPT ![Len(open)].children = Append(@, Text(Only({c})))]
        /\ at' = TextEnd /\ phase' = phase /\ back' = back
    BY <1>14, <2>1 DEF ReadText
  <2> QED BY <1>3, <1>5, <1>12, <2>1, <2>2
<1>16. c # << >>
  <2>1. Len(t) \in Nat \ {0}
    <3>1. z \in Nat /\ k + 2 <= z /\ k \in Nat
      BY <1>3, <1>8 DEF Run, Document
    <3> QED BY <1>9, <3>1
  <2>2. DOMAIN c = 1..Len(t)
    <3>1. DOMAIN t = 1..Len(t)
      BY <1>9
    <3> QED BY <3>1 DEF Codes, c
  <2>3. 1 \in DOMAIN c
    BY <2>1, <2>2
  <2>4. c = << >> => 1 \notin DOMAIN c
    OBVIOUS
  <2> QED BY <2>3, <2>4
<1>17. Flushed(tr[z - 1]) = open'
  BY <1>7, <1>10, <1>15, <1>16 DEF Flushed
<1> DEFINE l == z - 1
<1>18. l \in 1..Len(src) - 1 /\ src[l + 1] \notin PlainSymbol
  <2>1. Len(src) \in Nat
    BY <1>1 DEF Document
  <2>2. z \in Nat /\ k + 2 <= z /\ z <= Len(src) /\ src[z] \notin PlainSymbol
    BY <1>8 DEF Run
  <2>3. l \in 1..Len(src) - 1 /\ l + 1 = z
    BY <1>3, <2>1, <2>2
  <2> QED BY <2>2, <2>3
<1>19. Stands(src, tr, off, l, at', open', back')
  <2>1. at' = off[l] + 1 /\ open' = Flushed(tr[l]) /\ back' = << >>
    BY <1>15, <1>17 DEF e
  <2> HIDE DEF l
  <2> QED BY <1>18, <2>1 DEF Stands
<1>20. Halfway(out, at', open', back', n)
  BY <1>1, <1>19 DEF Halfway
<1> QED BY <1>15, <1>20 DEF ReadOn

\* What the job's document is to be read as.
Expected ==
  IF job.what = "document" THEN Returned[job.root[1]] ELSE Element(job.element, << >>, TextOf(job.payload))
ReadBackJob == job.what = "document" \/ (job.what = "binary" /\ job.binary = "Text")
\* What is written so far would be read as the part of the tree written; what is
\* read so far is what was read of the symbols whose bytes these are.
ReadInv ==
  /\ phase \in {"start", "write", "emit"} => at = 2 /\ open = << >> /\ back = << >>
  /\ phase \in {"write", "emit"} => out # << >> /\ out[1] = Declaration
  /\ phase = "write" => job.what = "document" /\ Writing(out, stack, job.root[1])
  /\ phase = "emit" => Written(out, Expected)
  /\ phase = "read" => Halfway(out, at, open, back, Expected)
  /\ phase = "done" /\ ReadBackJob => back = <<Expected>>
  /\ phase # "unreadable"

\* Nothing is written at first.
LEMMA ReadInit == Init => ReadInv
BY DEF Init, ReadInv

\* What is declared depends on the job alone, and the job never changes.
LEMMA SameJob ==
  ASSUME job' = job
  PROVE  Expected' = Expected /\ ReadBackJob' = ReadBackJob /\ Declaration' = Declaration
BY DEF Expected, ReadBackJob, Declaration, Declared, Effective

\* The root start tag.
LEMMA RootRead == IInv /\ ReadInv /\ WriteRoot => ReadInv'
<1> SUFFICES ASSUME IInv, ReadInv, WriteRoot PROVE ReadInv'
  OBVIOUS
<1> DEFINE root == job.root[1]
           s == <<Declaration, Opening(root)>>
<1>1. /\ job.what = "document" /\ job.root # << >> /\ phase = "start" /\ job' = job
      /\ out' = s /\ stack' = Entered(root) /\ phase' = PhaseAfter(Entered(root))
      /\ at' = at /\ open' = open /\ back' = back
  BY DEF WriteRoot
<1>2. root \in ElementNode
  BY <1>1, RootTyped
<1>3. IF Entered(root) = << >> THEN Written(s, Returned[root]) ELSE Writing(s, Entered(root), root)
  BY <1>2, DeclarationAgreed, RootWritten
<1>4. s # << >> /\ s[1] = Declaration
  OBVIOUS
<1>5. Expected' = Returned[root] /\ Declaration' = Declaration /\ job'.what = "document" /\ job'.root[1] = root
  BY <1>1, SameJob DEF Expected
<1>6. at' = 2 /\ open' = << >> /\ back' = << >>
  BY <1>1 DEF ReadInv
<1> HIDE DEF s, root
<1>7. CASE Entered(root) = << >>
  <2>1. phase' = "emit"
    BY <1>1, <1>7 DEF PhaseAfter
  <2>2. Written(out', Expected')
    BY <1>1, <1>3, <1>5, <1>7
  <2>3. out' # << >> /\ out'[1] = Declaration'
    BY <1>1, <1>4, <1>5
  <2> QED BY <1>6, <2>1, <2>2, <2>3 DEF ReadInv
<1>8. CASE Entered(root) # << >>
  <2>1. phase' = "write"
    BY <1>1, <1>8 DEF PhaseAfter
  <2>2. Writing(out', stack', job'.root[1])
    BY <1>1, <1>3, <1>5, <1>8
  <2>3. out' # << >> /\ out'[1] = Declaration'
    BY <1>1, <1>4, <1>5
  <2> QED BY <1>5, <1>6, <2>1, <2>2, <2>3 DEF ReadInv
<1> QED BY <1>7, <1>8

\* More symbols: the first one stays.
LEMMA FirstStays ==
  ASSUME NEW s \in Seq(Symbol), s # << >>, NEW t \in Seq(Symbol)
  PROVE  s \o t # << >> /\ (s \o t)[1] = s[1]
<1>1. Len(s) \in Nat \ {0} /\ Len(t) \in Nat /\ Len(s \o t) = Len(s) + Len(t)
  OBVIOUS
<1>2. 1 \in 1..Len(s)
  BY <1>1
<1>3. (s \o t)[1] = s[1]
  BY <1>2
<1>4. Len(s \o t) # 0
  BY <1>1
<1> DEFINE u == s \o t
<1>5. u \in Seq(Symbol)
  BY Joining
<1> HIDE DEF u
<1>6. u # << >>
  BY <1>4, <1>5 DEF u
<1> QED BY <1>3, <1>6 DEF u

\* The declaration stays the first symbol.
LEMMA FirstStaysToo ==
  ASSUME NEW s \in Seq(Symbol), s # << >>, NEW x \in Symbol
  PROVE  Append(s, x) # << >> /\ Append(s, x)[1] = s[1]
<1>1. <<x>> \in Seq(Symbol) /\ Append(s, x) = s \o <<x>>
  OBVIOUS
<1> DEFINE t == <<x>>
<1>2. t \in Seq(Symbol) /\ Append(s, x) = s \o t
  BY <1>1
<1> HIDE DEF t
<1> QED BY <1>2, FirstStays

\* The next child: text, an element without children, or one with.
LEMMA ChildRead == IInv /\ ReadInv /\ WriteChild => ReadInv'
<1> SUFFICES ASSUME IInv, ReadInv, WriteChild PROVE ReadInv'
  OBVIOUS
<1> DEFINE f == Last(stack)
           c == f.node.children[f.next]
           rest == [stack EXCEPT ![Len(stack)].next = @ + 1]
           root == job.root[1]
<1>1. /\ phase = "write" /\ f.next <= Len(f.node.children) /\ job' = job /\ phase' = phase
      /\ at' = at /\ open' = open /\ back' = back
      /\ IF IsText(c) THEN out' = out \o Escape(c.content, FALSE) /\ stack' = rest
         ELSE out' = Append(out, Opening(c)) /\ stack' = rest \o Entered(c)
  BY DEF WriteChild
<1>2. out \in Seq(Symbol) /\ out # << >> /\ out[1] = Declaration /\ Writing(out, stack, root)
      /\ job.what = "document" /\ at = 2 /\ open = << >> /\ back = << >>
  BY <1>1, TopTyped DEF ReadInv
<1>3. stack[Len(stack)] = f /\ c \in Node
  <2>1. f.node \in ElementNode /\ f.next \in Nat \ {0}
    BY <1>1, TopTyped
  <2>2. f.next <= Len(f.node.children)
    BY <1>1
  <2>3. f.node.children \in Seq(Node)
    BY <2>1, NodesTyped
  <2> DEFINE s == f.node.children
             k == f.next
  <2>4. s \in Seq(Node) /\ k \in Nat \ {0} /\ k <= Len(s)
    BY <2>1, <2>2, <2>3
  <2> HIDE DEF s, k
  <2>5. s[k] \in Node
    BY <2>4
  <2> QED BY <2>5 DEF s, k, Last
<1>4. AtChild(stack, c)
  BY <1>1, <1>3 DEF AtChild
<1>5. Declaration' = Declaration /\ job'.what = "document" /\ job'.root[1] = root
  BY <1>1, <1>2, SameJob
<1> HIDE DEF f, c, rest, root
<1>6. ASSUME out' # << >>, out'[1] = out[1], Writing(out', stack', root)
      PROVE  ReadInv'
  BY <1>1, <1>2, <1>5, <1>6 DEF ReadInv
<1>7. CASE IsText(c)
  <2> DEFINE t == Escape(c.content, FALSE)
  <2>1. out' = out \o t /\ stack' = rest
    BY <1>1, <1>7
  <2>2. Writing(out \o t, rest, root)
    BY <1>2, <1>4, <1>7, WritingText DEF rest
  <2>3. t \in Seq(Symbol)
    <3>1. c = Text(c.content) /\ IsString(c.content)
      BY <1>3, <1>7, WriterAssumption, Zenon
    <3>2. c.content \in Seq(CodePoint)
      BY <3>1 DEF IsString
    <3> QED BY <3>2, EscapeAgreed
  <2> HIDE DEF t
  <2> QED BY <1>2, <1>6, <2>1, <2>2, <2>3, FirstStays
<1>8. CASE ~IsText(c)
  <2>1. out' = Append(out, Opening(c)) /\ stack' = rest \o Entered(c)
    BY <1>1, <1>8
  <2>2. c \in ElementNode
    BY <1>3, <1>8 DEF ElementNode
  <2>3. Writing(Append(out, Opening(c)), rest \o Entered(c), root)
    BY <1>2, <1>4, <2>2, WritingElement DEF rest
  <2>4. Opening(c) \in Symbol
    BY <2>2, OpeningAgreed
  <2> QED BY <1>2, <1>6, <2>1, <2>3, <2>4, FirstStaysToo
<1> QED BY <1>7, <1>8

\* The end tag.
LEMMA EndWritten == IInv /\ ReadInv /\ WriteEnd => ReadInv'
<1> SUFFICES ASSUME IInv, ReadInv, WriteEnd PROVE ReadInv'
  OBVIOUS
<1> DEFINE f == Last(stack)
           x == EndTag(f.node.name)
           rest == Popped(stack)
           root == job.root[1]
<1>1. /\ phase = "write" /\ f.next > Len(f.node.children) /\ job' = job /\ phase' = PhaseAfter(rest)
      /\ at' = at /\ open' = open /\ back' = back /\ out' = Append(out, x) /\ stack' = rest
  BY DEF WriteEnd
<1>2. out \in Seq(Symbol) /\ out # << >> /\ out[1] = Declaration /\ Writing(out, stack, root)
      /\ job.what = "document" /\ at = 2 /\ open = << >> /\ back = << >>
  BY <1>1, TopTyped DEF ReadInv
<1>3. stack[Len(stack)] = f /\ x \in Symbol
  <2>1. f.node \in ElementNode
    BY <1>1, TopTyped
  <2>2. f.node.name \in Seq(CodePoint)
    BY <2>1, NodesTyped
  <2>3. x \in Symbol
    BY <2>2, EndTagAgreed
  <2> QED BY <2>3 DEF Last
<1>4. IF rest = << >> THEN Written(Append(out, x), Returned[root]) ELSE Writing(Append(out, x), rest, root)
  <2>1. stack[Len(stack)].next > Len(stack[Len(stack)].node.children)
        /\ x = EndTag(stack[Len(stack)].node.name)
    BY <1>1, <1>3
  <2> HIDE DEF x
  <2> QED BY <1>2, <2>1, WritingEnd
<1>5. Declaration' = Declaration /\ job'.what = "document" /\ job'.root[1] = root /\ Expected' = Returned[root]
  BY <1>1, <1>2, SameJob DEF Expected
<1> HIDE DEF x, rest, root, f
<1>6. out' # << >> /\ out'[1] = Declaration' /\ at' = 2 /\ open' = << >> /\ back' = << >>
  BY <1>1, <1>2, <1>3, <1>5, FirstStaysToo
<1>7. CASE rest = << >>
  <2>1. phase' = "emit" /\ Written(out', Expected')
    BY <1>1, <1>4, <1>5, <1>7 DEF PhaseAfter
  <2> QED BY <1>6, <2>1 DEF ReadInv
<1>8. CASE rest # << >>
  <2>1. phase' = "write" /\ Writing(out', stack', job'.root[1])
    BY <1>1, <1>4, <1>5, <1>8 DEF PhaseAfter
  <2> QED BY <1>5, <1>6, <2>1 DEF ReadInv
<1> QED BY <1>7, <1>8

\* The payload as text.
LEMMA BinaryRead == IInv /\ ReadInv /\ WriteBinaryAsText => ReadInv'
<1> SUFFICES ASSUME IInv, ReadInv, WriteBinaryAsText PROVE ReadInv'
  OBVIOUS
<1> DEFINE s == <<Declaration, StartTag(job.element, <<>>, FALSE)>> \o Escape(job.payload, FALSE)
                  \o <<EndTag(job.element)>>
           h == <<Declaration, StartTag(job.element, <<>>, FALSE)>>
           t == Escape(job.payload, FALSE) \o <<EndTag(job.element)>>
           n == Element(job.element, << >>, TextOf(job.payload))
<1>1. /\ job.what = "binary" /\ phase = "start" /\ job' = job /\ phase' = "emit" /\ out' = s
      /\ at' = at /\ open' = open /\ back' = back
  BY DEF WriteBinaryAsText
<1>2. IsName(job.element) /\ job.payload \in Seq(Byte)
  BY <1>1, WriterAssumption DEF IInv, DocumentJob, BinaryJob
<1>3. Written(s, n)
  BY <1>2, DeclarationAgreed, BinaryWritten
<1>4. s[1] = Declaration /\ s # << >>
  <2> DEFINE u == Escape(job.payload, FALSE)
             v == <<EndTag(job.element)>>
             w == h \o u
  <2>1. job.element \in Seq(CodePoint) /\ job.payload \in Seq(CodePoint)
    BY <1>1, BinaryTyped
  <2>2. StartTag(job.element, <<>>, FALSE) \in Symbol
    <3>1. <<>> \in Seq([name : Seq(CodePoint), value : Seq(CodePoint)])
      OBVIOUS
    <3> QED BY <2>1, <3>1, StartTagAgreed
  <2>3. u \in Seq(Symbol)
    BY <2>1, EscapeAgreed
  <2>4. EndTag(job.element) \in Symbol
    BY <2>1, EndTagAgreed
  <2>5. v \in Seq(Symbol)
    BY <2>4
  <2>6. h \in Seq(Symbol)
    BY <2>2, DeclarationAgreed, Pair
  <2>7. h # << >> /\ h[1] = Declaration
    OBVIOUS
  <2> HIDE DEF h, u, v
  <2>8. w # << >> /\ w[1] = Declaration /\ w \in Seq(Symbol)
    BY <2>3, <2>6, <2>7, FirstStays, Joining
  <2> HIDE DEF w
  <2>9. w \o v # << >> /\ (w \o v)[1] = Declaration
    BY <2>5, <2>8, FirstStays
  <2> QED BY <2>9 DEF w, h, u, v
<1>5. Expected' = n /\ Declaration' = Declaration
  BY <1>1, SameJob DEF Expected
<1> HIDE DEF s, n
<1> QED BY <1>1, <1>3, <1>4, <1>5 DEF ReadInv

\* What is put out is a document of what was written.
LEMMA EmitRead == IInv /\ ReadInv /\ Emit => ReadInv'
<1> SUFFICES ASSUME IInv, ReadInv, Emit PROVE ReadInv'
  OBVIOUS
<1>1. /\ phase = "emit" /\ phase' = "read" /\ job' = job /\ at' = at /\ open' = open /\ back' = back
      /\ out' = FlattenSeq([k \in DOMAIN out |-> Emitted(out[k])])
  BY DEF Emit
<1>2. /\ out \in Seq(Symbol) /\ Written(out, Expected) /\ out[1] = Declaration
      /\ at = 2 /\ open = << >> /\ back = << >>
  BY <1>1 DEF IInv, ReadInv
<1>3. \E src, tr, q, off, S : Document(out', src, tr, q, off, S, Expected)
  <2> DEFINE n == Expected
             s == out
  <2>1. s \in Seq(Symbol) /\ Written(s, n) /\ s[1] = Declaration
    BY <1>2
  <2>2. out' = FlattenSeq([k \in DOMAIN s |-> Emitted(s[k])])
    BY <1>1
  <2> HIDE DEF n, s
  <2>3. \E src, tr, q, off, S : Document(FlattenSeq([k \in DOMAIN s |-> Emitted(s[k])]), src, tr, q, off, S, n)
    BY <2>1, EmittedDocument
  <2> QED BY <2>2, <2>3 DEF n
<1>4. Halfway(out', 2, << >>, << >>, Expected)
  BY <1>3, FirstRead
<1>5. Halfway(out', at', open', back', Expected')
  BY <1>1, <1>2, <1>4, SameJob
<1> QED BY <1>1, <1>5 DEF ReadInv

\* What a step of the reader leads to.
LEMMA StepRead ==
  ASSUME ReadInv, out' = out, job' = job, ReadOn(out, phase', at', open', back', Expected)
  PROVE  ReadInv'
<1>1. Expected' = Expected
  BY SameJob
<1>2. CASE phase' = "read" /\ Halfway(out, at', open', back', Expected)
  <2>1. Halfway(out', at', open', back', Expected')
    BY <1>1, <1>2
  <2> QED BY <1>2, <2>1 DEF ReadInv
<1>3. CASE phase' = "done" /\ back' = <<Expected>>
  <2>1. back' = <<Expected'>>
    BY <1>1, <1>3
  <2> QED BY <1>3, <2>1 DEF ReadInv
<1> QED BY <1>2, <1>3 DEF ReadOn

\* Every step keeps what has been written, or is left to read, readable.
LEMMA ReadNext == IInv /\ ReadInv /\ [Next]_vars => ReadInv'
<1> SUFFICES ASSUME IInv, ReadInv, [Next]_vars PROVE ReadInv'
  OBVIOUS
<1>1. CASE RejectJob  BY <1>1 DEF ReadInv, RejectJob
<1>2. CASE WriteRoot  BY <1>2, RootRead
<1>3. CASE WriteChild  BY <1>3, ChildRead
<1>4. CASE WriteEnd  BY <1>4, EndWritten
<1>5. CASE WriteBinaryAsText  BY <1>5, BinaryRead
<1>6. CASE WriteCoded
  <2>1. phase' = "done" /\ job.what = "binary" /\ job.binary # "Text" /\ job' = job
    BY <1>6 DEF WriteCoded
  <2>2. ~ReadBackJob'
    BY <2>1 DEF ReadBackJob
  <2> QED BY <2>1, <2>2 DEF ReadInv
<1>7. CASE EmitFails  BY <1>7 DEF ReadInv, EmitFails
<1>8. CASE Emit  BY <1>8, EmitRead
<1>9. CASE ReadStart
  <2>1. Halfway(out, at, open, back, Expected) /\ out' = out /\ job' = job
    BY <1>9 DEF ReadInv, ReadStart, Reading
  <2> QED BY <1>9, <2>1, StartRead, StepRead
<1>10. CASE ReadText
  <2>1. Halfway(out, at, open, back, Expected) /\ out' = out /\ job' = job
    BY <1>10 DEF ReadInv, ReadText, Reading
  <2> QED BY <1>10, <2>1, TextRead, StepRead
<1>11. CASE ReadEnd
  <2>1. Halfway(out, at, open, back, Expected) /\ out' = out /\ job' = job
    BY <1>11 DEF ReadInv, ReadEnd, Reading
  <2> QED BY <1>11, <2>1, EndRead, StepRead
<1>12. CASE UNCHANGED vars
  <2>1. job' = job /\ phase' = phase /\ stack' = stack /\ out' = out /\ at' = at /\ open' = open /\ back' = back
    BY <1>12 DEF vars
  <2>2. Expected' = Expected /\ ReadBackJob' = ReadBackJob /\ Declaration' = Declaration
    BY <2>1, SameJob
  <2> QED BY <2>1, <2>2 DEF ReadInv
<1>13. CASE Done  BY <1>12, <1>13 DEF Done
<1> QED
  BY <1>1, <1>2, <1>3, <1>4, <1>5, <1>6, <1>7, <1>8, <1>9, <1>10, <1>11, <1>12, <1>13
  DEF Next

\* Without declarations, nor attributes that look like them, the reader returns
\* an equal tree.
LEMMA SelfReturned ==
  ASSUME NEW n \in Node, ~IsText(n), n.declarations = {},
         \A k \in DOMAIN n.attrs : ~Declares(n.attrs[k]), NEW children
  PROVE  Element(n.name, n.attrs, children) =
           [kind |-> "element", name |-> n.name, declarations |-> n.declarations, attrs |-> n.attrs,
            children |-> children]
<1> DEFINE none == {k \in DOMAIN n.attrs : Declares(n.attrs[k])}
<1>1. none = {}
  OBVIOUS
<1>2. {n.attrs[k] : k \in {j \in none : \A i \in none : i > j => n.attrs[i].name # n.attrs[j].name}} = {}
  BY <1>1
<1> HIDE DEF none
<1>3. (IF none = {} THEN n.attrs ELSE SelectSeq(n.attrs, LAMBDA a : ~Declares(a))) = n.attrs
  BY <1>1
<1> QED BY <1>1, <1>2, Zenon DEF Element, none

LEMMA UndeclaredReturned ==
  \A n \in Node : Undeclared(n) => Returned[n] = Joined[n]
<1> DEFINE S == {n \in Node : Undeclared(n) => Returned[n] = Joined[n]}
<1>1. ASSUME NEW n \in Node, \A c \in Node : Height[c] < Height[n] => c \in S
      PROVE  n \in S
  <2>1. CASE IsText(n)
    <3>1. Returned[n] = n /\ Joined[n] = n
      BY <2>1, ReturnedEquation, JoinedEquation
    <3> QED BY <3>1
  <2>2. CASE ~IsText(n)
    <3> SUFFICES ASSUME Undeclared(n) PROVE Returned[n] = Joined[n]
      OBVIOUS
    <3>1. n \in NodesOf[n] /\ \A c \in Range(n.children) : NodesOf[c] \subseteq NodesOf[n]
      BY <2>2, NodesTree
    <3>2. n.declarations = {} /\ \A k \in DOMAIN n.attrs : ~Declares(n.attrs[k])
      BY <3>1 DEF Undeclared
    <3>3. \A c \in Range(n.children) : Undeclared(c)
      BY <3>1 DEF Undeclared
    <3>4. \A k \in DOMAIN n.children : n.children[k] \in Node /\ n.children[k] \in Range(n.children)
                                     /\ Height[n.children[k]] < Height[n]
      BY <2>2, ChildrenLower DEF Range
    <3>5. \A k \in DOMAIN n.children : Returned[n.children[k]] = Joined[n.children[k]]
      BY <1>1, <3>3, <3>4
    <3>6. [k \in DOMAIN n.children |-> Returned[n.children[k]]]
            = [k \in DOMAIN n.children |-> Joined[n.children[k]]]
      BY <3>5, Zenon
    <3> DEFINE together == Together([k \in DOMAIN n.children |-> Joined[n.children[k]]])
    <3>7. Returned[n] = Element(n.name, n.attrs, together)
      BY <2>2, <3>6, ReturnedEquation
    <3>8. Joined[n] = [kind |-> "element", name |-> n.name, declarations |-> n.declarations,
                       attrs |-> n.attrs, children |-> together]
      BY <2>2, JoinedEquation
    <3> HIDE DEF together
    <3> QED BY <2>2, <3>2, <3>7, <3>8, SelfReturned
  <2> QED BY <2>1, <2>2
<1>2. Node \subseteq S
  <2> HIDE DEF S
  <2> QED BY <1>1, TreeInduction
<1> QED BY <1>2

\* A document is written only if it has a root.
RootInv == job.what = "document" /\ phase \notin {"start", "failed"} => job.root # << >>
LEMMA RootInit == Init => RootInv
BY DEF Init, RootInv
LEMMA RootNext == RootInv /\ [Next]_vars => RootInv'
<1> SUFFICES ASSUME RootInv, [Next]_vars PROVE RootInv'
  OBVIOUS
<1> DEFINE HasRoot == /\ job' = job
                      /\ \/ phase \notin {"start", "failed"}
                         \/ phase' = phase
                         \/ phase' = "failed"
                         \/ job.what = "binary"
                         \/ job.root # << >>
<1>1. CASE RejectJob
  <2>1. HasRoot  BY <1>1 DEF RejectJob
  <2> QED BY <2>1 DEF RootInv
<1>2. CASE WriteRoot
  <2>1. HasRoot  BY <1>2 DEF WriteRoot
  <2> QED BY <2>1 DEF RootInv
<1>3. CASE WriteChild
  <2>1. HasRoot  BY <1>3 DEF WriteChild
  <2> QED BY <2>1 DEF RootInv
<1>4. CASE WriteEnd
  <2>1. HasRoot  BY <1>4 DEF WriteEnd
  <2> QED BY <2>1 DEF RootInv
<1>5. CASE WriteBinaryAsText
  <2>1. HasRoot  BY <1>5 DEF WriteBinaryAsText
  <2> QED BY <2>1 DEF RootInv
<1>6. CASE WriteCoded
  <2>1. HasRoot  BY <1>6 DEF WriteCoded
  <2> QED BY <2>1 DEF RootInv
<1>7. CASE EmitFails
  <2>1. HasRoot  BY <1>7 DEF EmitFails
  <2> QED BY <2>1 DEF RootInv
<1>8. CASE Emit
  <2>1. HasRoot  BY <1>8 DEF Emit
  <2> QED BY <2>1 DEF RootInv
<1>9. CASE ReadStart
  <2>1. HasRoot  BY <1>9 DEF ReadStart, Reading
  <2> QED BY <2>1 DEF RootInv
<1>10. CASE ReadText
  <2>1. HasRoot  BY <1>10 DEF ReadText, Reading
  <2> QED BY <2>1 DEF RootInv
<1>11. CASE ReadEnd
  <2>1. HasRoot  BY <1>11 DEF ReadEnd, Reading
  <2> QED BY <2>1 DEF RootInv
<1>12. CASE UNCHANGED vars
  <2>1. job' = job /\ phase' = phase  BY <1>12 DEF vars
  <2> QED BY <2>1 DEF RootInv
<1>13. CASE Done  BY <1>12, <1>13 DEF Done
<1> QED
  BY <1>1, <1>2, <1>3, <1>4, <1>5, <1>6, <1>7, <1>8, <1>9, <1>10, <1>11, <1>12, <1>13
  DEF Next

\* Once all is read, the tree is what was given.
LEMMA InvariantReadBack == IInv /\ RootInv /\ ReadInv => RoundTrip
<1> SUFFICES ASSUME IInv, RootInv, ReadInv PROVE RoundTrip
  OBVIOUS
<1>1. ASSUME phase = "done", job.what = "document", Undeclared(job.root[1])
      PROVE  back = <<Joined[job.root[1]]>>
  <2>1. back = <<Returned[job.root[1]]>>
    BY <1>1 DEF ReadInv, ReadBackJob, Expected
  <2>2. job.root[1] \in Node
    BY <1>1, RootTyped DEF RootInv, ElementNode
  <2> QED BY <1>1, <2>1, <2>2, UndeclaredReturned
<1>2. ASSUME phase = "done", job.what = "binary", job.binary = "Text"
      PROVE  back = <<Element(job.element, << >>,
                              IF job.payload = << >> THEN << >> ELSE <<Text(job.payload)>>)>>
  BY <1>2 DEF ReadInv, ReadBackJob, Expected, TextOf
<1>3. phase # "unreadable"
  BY DEF ReadInv
<1> QED BY <1>1, <1>2, <1>3 DEF RoundTrip

\* In every state of every job, for any trees and payloads: what has been
\* written, escaped, put out and parsed again is an equal tree, adjacent text
\* joined, if the tree has no namespaces; nothing written is unreadable (escape and emit in
\* writer/writer.go against ParseTree in reader/tree.go).
THEOREM AlwaysReadBack == Spec => []RoundTrip
<1>1. Spec => []IInv  BY InitInvariant, NextInvariant, PTL DEF Spec
<1>2. Spec => []ReadInv  BY <1>1, ReadInit, ReadNext, PTL DEF Spec
<1>3. Spec => []RootInv  BY RootInit, RootNext, PTL DEF Spec
<1> QED BY <1>1, <1>2, <1>3, InvariantReadBack, PTL
=============================================================================
