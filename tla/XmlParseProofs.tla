--------------------------- MODULE XmlParseProofs ---------------------------
(***************************************************************************)
(* Proofs about XmlParse, for every set of documents: the variables keep   *)
(* their types, the scopes of the strict parser stay in step with the      *)
(* elements that are open, a document is accepted exactly when it is       *)
(* well-formed and its names are declared, and the tree built of it is     *)
(* its own.                                                                *)
(*                                                                         *)
(* The argument is that the stack of either parser is the set of the       *)
(* elements that enclose the token it is at, sorted by depth.  Whether a   *)
(* document is well-formed is said by counting tokens, so what happens to  *)
(* depth and enclosing elements from one token to the next is a matter of  *)
(* sets, proved first; the invariant of each parser then moves along.      *)
(***************************************************************************)
EXTENDS XmlParse, FiniteSetTheorems, SequenceTheorems, TLAPS

\* A set of positions has a last one.
LEMMA LastPosition ==
  ASSUME NEW n \in Nat, NEW S \in SUBSET (1..n), S # {}
  PROVE  \E m \in S : \A k \in S : k <= m
<1> DEFINE T == {i..n : i \in S}
<1>1. T \subseteq FiniteSubsetsOf(Nat) /\ T # {}
  <2>1. \A i \in S : i..n \in FiniteSubsetsOf(Nat)
    BY FS_Interval DEF FiniteSubsetsOf
  <2>2. PICK k \in S : TRUE
    OBVIOUS
  <2>3. k..n \in T
    OBVIOUS
  <2> QED BY <2>1, <2>3
<1>2. \E X \in T : \A Y \in T : ~(<<Y, X>> \in StrictSubsetOrdering(Nat))
  <2> HIDE DEF T
  <2> QED BY <1>1, FS_StrictSubsetOrderingWellFounded, WFMin, Zenon
<1>3. PICK m \in S : \A k \in S : ~(<<k..n, m..n>> \in StrictSubsetOrdering(Nat))
  BY <1>2
<1>4. \A k \in S : k <= m
  <2> SUFFICES ASSUME NEW k \in S, k > m PROVE FALSE
    OBVIOUS
  <2>1. k..n \subseteq m..n /\ k..n # m..n
    <3>1. m \in m..n /\ m \notin k..n
      OBVIOUS
    <3> QED BY <3>1
  <2>2. <<k..n, m..n>> \in StrictSubsetOrdering(Nat)
    BY <2>1, <1>1 DEF StrictSubsetOrdering
  <2> QED BY <1>3, <2>2
<1> QED BY <1>4

Maps == UNION {[S -> Value] : S \in SUBSET Local}
Built == [name : QName, namespace : Value, attrs : UNION {[S -> Value] : S \in SUBSET Nat},
          parent : Nat]
Frame == [element : Nat \ {0}, name : QName, scope : Maps]

LEMMA InSeq ==
  ASSUME NEW S, NEW s \in Seq(S), NEW i \in 1..Len(s)
  PROVE  s[i] \in S
OBVIOUS

\* What a tag declares is a map from prefixes to values.
LEMMA ScopeTyped ==
  ASSUME NEW attrs \in Seq(Attribute)
  PROVE  Scope(attrs) \in Maps
<1> DEFINE D == {Declared(attrs[i]) : i \in Declarations(attrs)}
<1>1. D \subseteq Local
  <2> SUFFICES ASSUME NEW i \in 1..Len(attrs) PROVE Declared(attrs[i]) \in Local
    BY DEF Declarations
  <2>1. attrs[i] \in Attribute
    BY InSeq
  <2> QED BY <2>1, XmlParseAssumption DEF Declared, Attribute
<1>2. ASSUME NEW p \in D
      PROVE  attrs[CHOOSE i \in Declaring(attrs, p) : \A j \in Declaring(attrs, p) : j <= i].value
               \in Value
  <2>1. Declaring(attrs, p) \in SUBSET (1..Len(attrs)) /\ Declaring(attrs, p) # {}
    BY <1>2 DEF Declaring, Declarations
  <2>2. \E m \in Declaring(attrs, p) : \A j \in Declaring(attrs, p) : j <= m
    <3> Len(attrs) \in Nat
      OBVIOUS
    <3> QED BY <2>1, LastPosition
  <2> DEFINE last == CHOOSE i \in Declaring(attrs, p) : \A j \in Declaring(attrs, p) : j <= i
  <2>3. last \in 1..Len(attrs)
    BY <2>1, <2>2
  <2> HIDE DEF last
  <2>4. attrs[last] \in Attribute
    BY <2>3, InSeq
  <2>5. attrs[last].value \in Value
    BY <2>4 DEF Attribute
  <2> QED BY <2>5 DEF last
<1>3. Scope(attrs) \in [D -> Value]
  BY <1>2 DEF Scope
<1> QED BY <1>1, <1>3 DEF Maps

\* So is what is in scope below it.
LEMMA InScopeTyped ==
  ASSUME NEW attrs \in Seq(Attribute), NEW outer \in Maps
  PROVE  InScope(attrs, outer) \in Maps
<1>1. PICK S \in SUBSET Local : Scope(attrs) \in [S -> Value]
  BY ScopeTyped DEF Maps
<1>2. PICK T \in SUBSET Local : outer \in [T -> Value]
  BY DEF Maps
<1>3. InScope(attrs, outer) \in [S \cup T -> Value]
  <2> DEFINE scope == Scope(attrs)
  <2>1. scope \in [S -> Value]
    BY <1>1
  <2> HIDE DEF scope
  <2>2. [p \in DOMAIN outer \cup DOMAIN scope |-> IF p \in DOMAIN scope THEN scope[p] ELSE outer[p]]
          \in [S \cup T -> Value]
    BY <1>2, <2>1
  <2> QED BY <2>2 DEF InScope, scope
<1> QED BY <1>3 DEF Maps

LEMMA LookUpTyped ==
  ASSUME NEW p, NEW scope \in Maps
  PROVE  LookUp(p, scope) \in Value
BY XmlParseAssumption DEF Maps, LookUp

\* The token the parsers are at.
LEMMA TokenTyped ==
  ASSUME doc \in Document, at \in Nat \ {0}, IsAt("start")
  PROVE  Current \in StartTag /\ at \in 1..Len(Tokens)
<1>1. Tokens \in Seq(Token)
  BY DEF Document, Tokens
<1>2. at \in 1..Len(Tokens) /\ Current.kind = "start"
  BY <1>1 DEF IsAt
<1>3. Current \in Token
  BY <1>1, <1>2, InSeq DEF Current
<1> QED BY <1>2, <1>3 DEF Token, EndTag
-----------------------------------------------------------------------------
\* The strengthening of TypeOK and ScopesBalanced that every step keeps: the
\* stacks are sequences, and a frame points at an element that is built.
TypeInv ==
  /\ doc \in Document
  /\ phase \in {"strict", "tree", "valid", "invalid"}
  /\ at \in 1..(Len(Tokens) + 1)
  /\ seen \in BOOLEAN
  /\ open \in Seq(QName)
  /\ nsStack \in Seq(Maps)
  /\ Len(nsStack) = Len(open)
  /\ frames \in Seq(Frame)
  /\ elements \in Seq(Built)
  /\ \A i \in 1..Len(frames) : frames[i].element <= Len(elements)

LEMMA TypeInit == Init => TypeInv
<1> SUFFICES ASSUME Init PROVE TypeInv
  OBVIOUS
<1>1. doc \in Document /\ Tokens \in Seq(Token)
  BY XmlParseAssumption DEF Init, Document, Tokens
<1>2. Len(Tokens) \in Nat /\ at = 1
  BY <1>1 DEF Init
<1>3. at \in 1..(Len(Tokens) + 1)
  BY <1>2
<1>4. /\ open = <<>> /\ nsStack = <<>> /\ frames = <<>> /\ elements = <<>>
      /\ seen = FALSE /\ phase \in {"strict", "tree"}
  BY DEF Init
<1>5. /\ open \in Seq(QName) /\ nsStack \in Seq(Maps) /\ Len(nsStack) = Len(open)
      /\ frames \in Seq(Frame) /\ elements \in Seq(Built) /\ Len(frames) = 0
  BY <1>4
<1>6. /\ phase \in {"strict", "tree", "valid", "invalid"} /\ seen \in BOOLEAN
  BY <1>4
<1> QED BY <1>1, <1>3, <1>5, <1>6 DEF TypeInv

LEMMA ElementTyped ==
  ASSUME TypeInv, IsAt("start"), NEW scope \in Maps
  PROVE  Element(Current, scope) \in Built
<1>1. Current \in StartTag
  BY TokenTyped DEF TypeInv
<1>2. Current.name \in QName /\ Current.attrs \in Seq(Attribute)
  BY <1>1 DEF StartTag
<1>3. LookUp(Current.name.prefix, scope) \in Value
  BY LookUpTyped
<1>4. (IF frames = <<>> THEN 0 ELSE Top(frames).element) \in Nat
  <2> CASE frames # <<>>
    <3>1. Len(frames) \in 1..Len(frames)
      BY DEF TypeInv
    <3>2. frames[Len(frames)] \in Frame
      BY <3>1, InSeq DEF TypeInv
    <3> QED BY <3>2 DEF Top, Frame
  <2> QED OBVIOUS
<1>5. [i \in Plain(Current.attrs) |-> IF Current.attrs[i].prefix = "" THEN ""
                                     ELSE LookUp(Current.attrs[i].prefix, scope)]
        \in UNION {[S -> Value] : S \in SUBSET Nat}
  <2>1. Plain(Current.attrs) \in SUBSET Nat
    BY <1>2 DEF Plain
  <2>2. \A p : LookUp(p, scope) \in Value
    BY LookUpTyped
  <2>3. "" \in Value
    BY XmlParseAssumption
  <2> DEFINE P == Plain(Current.attrs)
             F == [i \in P |-> IF Current.attrs[i].prefix = "" THEN ""
                               ELSE LookUp(Current.attrs[i].prefix, scope)]
  <2>4. F \in [P -> Value]
    BY <2>2, <2>3
  <2> HIDE DEF P
  <2>5. [P -> Value] \subseteq UNION {[S -> Value] : S \in SUBSET Nat}
    BY <2>1 DEF P
  <2>6. F \in UNION {[S -> Value] : S \in SUBSET Nat}
    BY <2>4, <2>5, Zenon
  <2> QED BY <2>6 DEF P
<1> QED BY <1>2, <1>3, <1>4, <1>5 DEF Element, Built

LEMMA OuterTyped ==
  ASSUME TypeInv
  PROVE  OuterScope \in Maps
<1>1. CASE frames = <<>>
  <2>1. [p \in {} |-> ""] \in [{} -> Value]
    OBVIOUS
  <2> QED BY <1>1, <2>1 DEF OuterScope, Maps
<1>2. CASE frames # <<>>
  <2>1. Len(frames) \in 1..Len(frames)
    BY <1>2 DEF TypeInv
  <2>2. frames[Len(frames)] \in Frame
    BY <2>1, InSeq DEF TypeInv
  <2> QED BY <1>2, <2>2 DEF OuterScope, Top, Frame
<1> QED BY <1>1, <1>2

\* Popping the last element of a stack.
LEMMA PoppedTyped ==
  ASSUME NEW S, NEW s \in Seq(S), s # <<>>
  PROVE  /\ Popped(s) \in Seq(S)
         /\ Len(Popped(s)) = Len(s) - 1
         /\ \A i \in 1..(Len(s) - 1) : Popped(s)[i] = s[i]
<1> DEFINE n == Len(s) - 1
           t == SubSeq(s, 1, n)
<1>1. n \in Nat /\ n < Len(s)
  OBVIOUS
<1>2. \A i \in 1..n : s[i] \in S
  OBVIOUS
<1> HIDE DEF n
<1>3. /\ t \in Seq(S)
      /\ Len(t) = IF 1 <= n THEN n - 1 + 1 ELSE 0
      /\ \A i \in 1..(n - 1 + 1) : t[i] = s[1 + i - 1]
  BY <1>1, <1>2, SubSeqProperties
<1> HIDE DEF t
<1>4. Len(t) = n
  BY <1>1, <1>3
<1>5. \A i \in 1..n : t[i] = s[i]
  <2> TAKE i \in 1..n
  <2>1. i \in 1..(n - 1 + 1) /\ 1 + i - 1 = i
    BY <1>1
  <2> QED BY <1>3, <2>1
<1> QED BY <1>3, <1>4, <1>5 DEF Popped, n, t

LEMMA TypeStep == TypeInv /\ [Next]_vars => TypeInv'
<1> SUFFICES ASSUME TypeInv, [Next]_vars PROVE TypeInv'
  OBVIOUS
<1> USE DEF TypeInv
<1>0. Tokens \in Seq(Token) /\ at \in Nat \ {0} /\ Len(Tokens) \in Nat
  BY DEF Document, Tokens
<1>1. \A kind : IsAt(kind) => at + 1 \in 1..(Len(Tokens) + 1)
  BY <1>0 DEF IsAt
<1>2. CASE SkipMisc
  <2>1. doc' = doc /\ Tokens' = Tokens /\ at' \in 1..(Len(Tokens) + 1)
    BY <1>1, <1>2 DEF SkipMisc, TreeUnchanged, Tokens
  <2> QED BY <1>2, <2>1 DEF SkipMisc, TreeUnchanged
<1>3. CASE OpenElement
  <2>1. doc' = doc /\ Tokens' = Tokens /\ at' \in 1..(Len(Tokens) + 1)
    BY <1>1, <1>3 DEF OpenElement, MayStart, TreeUnchanged, Tokens
  <2>2. Current \in StartTag
    BY <1>0, <1>3, TokenTyped DEF OpenElement, MayStart
  <2>3. Scope(Current.attrs) \in Maps /\ Current.name \in QName
    BY <2>2, ScopeTyped DEF StartTag
  <2>4. /\ open' \in Seq(QName) /\ nsStack' \in Seq(Maps)
        /\ Len(open') = Len(open) + 1 /\ Len(nsStack') = Len(nsStack) + 1
    BY <1>3, <2>3 DEF OpenElement
  <2> QED BY <1>3, <2>1, <2>4 DEF OpenElement, MayStart, TreeUnchanged
<1>4. CASE EmptyElement
  <2>1. doc' = doc /\ Tokens' = Tokens /\ at' \in 1..(Len(Tokens) + 1)
    BY <1>1, <1>4 DEF EmptyElement, MayStart, TreeUnchanged, Tokens
  <2> QED BY <1>4, <2>1 DEF EmptyElement, MayStart, TreeUnchanged
<1>5. CASE CloseElement
  <2>1. doc' = doc /\ Tokens' = Tokens /\ at' \in 1..(Len(Tokens) + 1)
    BY <1>1, <1>5 DEF CloseElement, TreeUnchanged, Tokens
  <2>2. open # <<>> /\ nsStack # <<>>
    BY <1>5 DEF CloseElement
  <2>3. open' \in Seq(QName) /\ Len(open') = Len(open) - 1
    BY <1>5, <2>2, PoppedTyped DEF CloseElement
  <2>4. nsStack' \in Seq(Maps) /\ Len(nsStack') = Len(nsStack) - 1
    BY <1>5, <2>2, PoppedTyped DEF CloseElement
  <2> QED BY <1>5, <2>1, <2>3, <2>4 DEF CloseElement, TreeUnchanged
<1>6. CASE StrictReject
  BY <1>6 DEF StrictReject, TreeUnchanged, Tokens
<1>7. CASE StrictAccept
  <2>1. doc' = doc /\ Tokens' = Tokens /\ at' = 1 /\ seen' = FALSE
    BY <1>7 DEF StrictAccept, TreeUnchanged, Tokens
  <2>2. at' \in 1..(Len(Tokens') + 1)
    BY <1>0, <2>1
  <2> QED BY <1>7, <2>1, <2>2 DEF StrictAccept, TreeUnchanged
<1>8. CASE TreeSkip
  <2>1. doc' = doc /\ Tokens' = Tokens /\ at' \in 1..(Len(Tokens) + 1)
    BY <1>1, <1>8 DEF TreeSkip, InTree, StrictUnchanged, Tokens
  <2> QED BY <1>8, <2>1 DEF TreeSkip, InTree, StrictUnchanged
<1>9. CASE TreeStart
  <2>1. doc' = doc /\ Tokens' = Tokens /\ at' \in 1..(Len(Tokens) + 1)
    BY <1>1, <1>9 DEF TreeStart, StrictUnchanged, Tokens
  <2>2. Current \in StartTag
    BY <1>0, <1>9, TokenTyped DEF TreeStart
  <2> DEFINE scope == InScope(Current.attrs, OuterScope)
  <2>3. scope \in Maps /\ Current.name \in QName
    BY <2>2, OuterTyped, InScopeTyped DEF StartTag
  <2>4. Element(Current, scope) \in Built
    BY <1>9, <2>3, ElementTyped DEF TreeStart
  <2> DEFINE frame == [element |-> Len(elements) + 1, name |-> Current.name, scope |-> scope]
  <2>5. frame \in Frame
    BY <2>3 DEF Frame
  <2>6. /\ elements' = Append(elements, Element(Current, scope))
        /\ frames' = IF Current.empty THEN frames ELSE Append(frames, frame)
        /\ seen' = (Current.empty /\ frames = <<>>)
    BY <1>9 DEF TreeStart
  <2>7. Current.empty \in BOOLEAN
    BY <2>2 DEF StartTag
  <2> HIDE DEF scope
  <2>8. elements' \in Seq(Built) /\ Len(elements') = Len(elements) + 1
    BY <2>4, <2>6
  <2>9. /\ frames' \in Seq(Frame)
        /\ \A i \in 1..Len(frames') : frames'[i].element <= Len(elements')
    <3>1. \A i \in 1..Len(frames) : frames[i].element <= Len(elements')
      <4> SUFFICES ASSUME NEW i \in 1..Len(frames) PROVE frames[i].element <= Len(elements')
        OBVIOUS
      <4>1. frames[i] \in Frame
        BY InSeq
      <4> QED BY <2>8, <4>1 DEF Frame
    <3>2. CASE Current.empty
      BY <2>6, <3>1, <3>2
    <3>3. CASE ~Current.empty
      <4> HIDE DEF frame
      <4>1. frames' = Append(frames, frame)
        BY <2>6, <3>3
      <4>2. frame.element = Len(elements')
        BY <2>8 DEF frame
      <4>3. \A i \in 1..Len(frames') : i = Len(frames') \/ i \in 1..Len(frames)
        BY <2>5, <4>1
      <4>4. /\ frames'[Len(frames')] = frame
            /\ \A i \in 1..Len(frames) : frames'[i] = frames[i]
        BY <2>5, <4>1
      <4>5. frames' \in Seq(Frame)
        BY <2>5, <4>1
      <4> QED BY <2>8, <3>1, <4>2, <4>3, <4>4, <4>5
    <3> QED BY <3>2, <3>3
  <2>10. seen' \in BOOLEAN
    BY <2>6, <2>7, Zenon
  <2> QED BY <1>9, <2>1, <2>8, <2>9, <2>10 DEF TreeStart, InTree, StrictUnchanged
<1>10. CASE TreeEnd
  <2>1. doc' = doc /\ Tokens' = Tokens /\ at' \in 1..(Len(Tokens) + 1)
    BY <1>1, <1>10 DEF TreeEnd, InTree, StrictUnchanged, Tokens
  <2>2. /\ frames' \in Seq(Frame) /\ Len(frames') = Len(frames) - 1
        /\ \A i \in 1..(Len(frames) - 1) : frames'[i] = frames[i]
    BY <1>10, PoppedTyped DEF TreeEnd
  <2> QED BY <1>10, <2>1, <2>2 DEF TreeEnd, InTree, StrictUnchanged
<1>11. CASE TreeReject
  BY <1>11 DEF TreeReject, StrictUnchanged, Tokens
<1>12. CASE TreeGarbage
  <2>1. doc' = doc /\ Tokens' = Tokens /\ at' \in 1..(Len(Tokens) + 1)
    BY <1>1, <1>12 DEF TreeGarbage, InTree, StrictUnchanged, Tokens
  <2> QED BY <1>12, <2>1 DEF TreeGarbage, InTree, StrictUnchanged
<1>13. CASE TreeAccept
  BY <1>13 DEF TreeAccept, StrictUnchanged, Tokens
<1>14. CASE UNCHANGED vars
  BY <1>14 DEF vars, Tokens
<1> QED
  BY <1>2, <1>3, <1>4, <1>5, <1>6, <1>7, <1>8, <1>9, <1>10, <1>11, <1>12, <1>13, <1>14
     DEF Next, Strict, Tree, Done

LEMMA TypeAlways == Spec => []TypeInv
<1>1. Init => TypeInv
  BY TypeInit
<1>2. TypeInv /\ [Next]_vars => TypeInv'
  BY TypeStep
<1> QED BY <1>1, <1>2, PTL DEF Spec

\* The variables of the two parsers keep their types
\* (parser and treeParser in validator/parser.go and reader/tree.go).
THEOREM TypeCorrect == Spec => []TypeOK
<1>1. TypeInv => TypeOK
  <2> SUFFICES ASSUME TypeInv PROVE TypeOK
    OBVIOUS
  <2>1. ASSUME NEW i \in DOMAIN nsStack
        PROVE  /\ DOMAIN nsStack[i] \subseteq Local
               /\ \A p \in DOMAIN nsStack[i] : nsStack[i][p] \in Value
    <3>1. nsStack[i] \in Maps
      BY InSeq DEF TypeInv
    <3> QED BY <3>1 DEF Maps
  <2>2. ASSUME NEW i \in DOMAIN frames
        PROVE  /\ frames[i].element \in 1..Len(elements)
               /\ frames[i].name \in QName
               /\ DOMAIN frames[i].scope \subseteq Local
    <3>1. frames[i] \in Frame /\ frames[i].element <= Len(elements)
      BY InSeq DEF TypeInv
    <3>2. frames[i].scope \in Maps
      BY <3>1 DEF Frame
    <3>3. DOMAIN frames[i].scope \subseteq Local
      BY <3>2 DEF Maps
    <3> QED BY <3>1, <3>3 DEF Frame, TypeInv
  <2> QED BY <2>1, <2>2 DEF TypeInv, TypeOK
<1> QED BY <1>1, TypeAlways, PTL

\* The strict parser pushes and pops its namespace scopes in step with the
\* elements it opens and closes (pushNSScope and popNSScope in
\* validator/namespace.go), on every path through parseElement.
THEOREM ScopesInStep == Spec => []ScopesBalanced
<1>1. TypeInv => ScopesBalanced
  BY DEF TypeInv, ScopesBalanced
<1> QED BY <1>1, TypeAlways, PTL

-----------------------------------------------------------------------------
\* How the depth and the enclosing elements change from one token to the next,
\* in any document.
LEMMA TokensFinite ==
  ASSUME doc \in Document
  PROVE  Tokens \in Seq(Token) /\ Len(Tokens) \in Nat /\ Positions = 1..Len(Tokens)
BY DEF Document, Tokens, Positions

\* Counting one more token.
LEMMA CountNext ==
  ASSUME NEW n \in Nat, NEW S \in SUBSET (1..n), NEW T, T \in {S, S \cup {n + 1}}
  PROVE  /\ Cardinality(S) \in Nat
         /\ Cardinality(T) = Cardinality(S) + (IF T = S THEN 0 ELSE 1)
<1>1. IsFiniteSet(S)
  <2>1. IsFiniteSet(1..n)
    BY FS_Interval
  <2> QED BY <2>1, FS_Subset
<1>2. n + 1 \notin S
  OBVIOUS
<1>3. Cardinality(S) \in Nat
  BY <1>1, FS_CardinalityType
<1>4. Cardinality(S \cup {n + 1}) = Cardinality(S) + 1
  BY <1>1, <1>2, FS_AddElement
<1> QED BY <1>3, <1>4

LEMMA DepthStep ==
  ASSUME NEW n \in Nat
  PROVE  /\ Depth(0) = 0
         /\ Depth(n) \in Int
         /\ Depth(n + 1) = Depth(n) + (IF Opens(n + 1) THEN 1 ELSE IF Ends(n + 1) THEN 0 - 1 ELSE 0)
<1>1. Depth(0) = 0
  <2>1. {i \in 1..0 : Opens(i)} = {} /\ {i \in 1..0 : Ends(i)} = {}
    OBVIOUS
  <2>2. Cardinality({}) = 0
    BY FS_EmptySet
  <2> QED BY <2>1, <2>2 DEF Depth
<1> DEFINE O == {i \in 1..n : Opens(i)}
           E == {i \in 1..n : Ends(i)}
           OO == {i \in 1..(n + 1) : Opens(i)}
           EE == {i \in 1..(n + 1) : Ends(i)}
<1>2. /\ O \in SUBSET (1..n) /\ E \in SUBSET (1..n)
      /\ OO = IF Opens(n + 1) THEN O \cup {n + 1} ELSE O
      /\ EE = IF Ends(n + 1) THEN E \cup {n + 1} ELSE E
      /\ n + 1 \notin O /\ n + 1 \notin E
  OBVIOUS
<1>3. Depth(n) = Cardinality(O) - Cardinality(E) /\ Depth(n + 1) = Cardinality(OO) - Cardinality(EE)
  BY DEF Depth
<1>4. ~(Opens(n + 1) /\ Ends(n + 1))
  BY DEF Opens, Ends
<1> HIDE DEF O, E, OO, EE
<1>5. Cardinality(O) \in Nat /\ Cardinality(OO) = Cardinality(O) + (IF Opens(n + 1) THEN 1 ELSE 0)
  <2>1. OO \in {O, O \cup {n + 1}} /\ (OO = O <=> ~Opens(n + 1))
    BY <1>2
  <2> QED BY <1>2, <2>1, CountNext
<1>6. Cardinality(E) \in Nat /\ Cardinality(EE) = Cardinality(E) + (IF Ends(n + 1) THEN 1 ELSE 0)
  <2>1. EE \in {E, E \cup {n + 1}} /\ (EE = E <=> ~Ends(n + 1))
    BY <1>2
  <2> QED BY <1>2, <2>1, CountNext
<1> QED BY <1>1, <1>3, <1>4, <1>5, <1>6

\* The token n itself, for the lemmas below.
LEMMA DepthAt ==
  ASSUME NEW n \in Nat \ {0}
  PROVE  /\ Depth(n) \in Int /\ Depth(n - 1) \in Int
         /\ Depth(n) = Depth(n - 1) + (IF Opens(n) THEN 1 ELSE IF Ends(n) THEN 0 - 1 ELSE 0)
<1>1. n - 1 \in Nat /\ (n - 1) + 1 = n
  OBVIOUS
<1>2. Depth((n - 1) + 1) = Depth(n - 1)
        + (IF Opens((n - 1) + 1) THEN 1 ELSE IF Ends((n - 1) + 1) THEN 0 - 1 ELSE 0)
  BY <1>1, DepthStep
<1>3. Depth(n) \in Int /\ Depth(n - 1) \in Int
  BY <1>1, DepthStep
<1> QED BY <1>1, <1>2, <1>3

\* An element that is opened is deeper than those it is in.
LEMMA Deeper ==
  ASSUME NEW n \in Nat \ {0}, NEW j \in Enclosing(n), NEW k \in Enclosing(n), j < k
  PROVE  Depth(j) < Depth(k)
<1>1. j \in Nat \ {0} /\ k \in Nat \ {0} /\ k - 1 \in j..(n - 1) /\ Opens(k)
  BY DEF Enclosing
<1>2. Depth(k - 1) >= Depth(j)
  BY <1>1 DEF Enclosing
<1>3. Depth(k) = Depth(k - 1) + 1 /\ Depth(k - 1) \in Int /\ Depth(j) \in Int
  BY <1>1, DepthAt
<1> QED BY <1>2, <1>3

\* What an element is in is what encloses it.
LEMMA EnclosingOf ==
  ASSUME NEW n \in Nat \ {0}, NEW j \in Enclosing(n)
  PROVE  Enclosing(j) = {k \in Enclosing(n) : k < j}
<1>1. j \in Nat \ {0} /\ j <= n - 1 /\ Opens(j) /\ \A q \in j..(n - 1) : Depth(q) >= Depth(j)
  BY DEF Enclosing
<1>2. Depth(j) = Depth(j - 1) + 1 /\ Depth(j - 1) \in Int
  BY <1>1, DepthAt
<1>3. ASSUME NEW k \in Enclosing(j) PROVE k \in Enclosing(n) /\ k < j
  <2>1. k \in 1..(j - 1) /\ Opens(k) /\ \A q \in k..(j - 1) : Depth(q) >= Depth(k)
    BY <1>3 DEF Enclosing
  <2>2. Depth(j - 1) >= Depth(k) /\ Depth(k) \in Int
    BY <1>1, <2>1, DepthAt
  <2>3. ASSUME NEW q \in k..(n - 1) PROVE Depth(q) >= Depth(k)
    <3>1. CASE q \in k..(j - 1)
      BY <2>1, <3>1
    <3>2. CASE q \in j..(n - 1)
      <4>1. Depth(q) >= Depth(j) /\ Depth(q) \in Int
        BY <1>1, <3>2, DepthAt
      <4> QED BY <1>2, <2>2, <4>1
    <3> QED BY <1>1, <2>1, <3>1, <3>2
  <2> QED BY <1>1, <2>1, <2>3 DEF Enclosing
<1>4. ASSUME NEW k \in Enclosing(n), k < j PROVE k \in Enclosing(j)
  BY <1>1, <1>4 DEF Enclosing
<1> QED BY <1>3, <1>4

\* Every level above the depth is held by an element.
Balanced(n) ==
  /\ Depth(n - 1) \in Nat
  /\ \A j \in Enclosing(n) : Depth(j) \in 1..Depth(n - 1)
  /\ \A m \in 1..Depth(n - 1) : \E j \in Enclosing(n) : Depth(j) = m

LEMMA BalancedFirst == Balanced(1) /\ Enclosing(1) = {}
<1>1. Enclosing(1) = {} /\ 1 - 1 = 0
  BY DEF Enclosing
<1>2. Depth(0) = 0
  BY DepthStep
<1> QED BY <1>1, <1>2 DEF Balanced

\* A token that is no start tag of its own and no end tag.
LEMMA AfterOther ==
  ASSUME NEW n \in Nat \ {0}, Balanced(n), ~Opens(n), ~Ends(n)
  PROVE  /\ Enclosing(n + 1) = Enclosing(n) /\ Depth(n) = Depth(n - 1)
         /\ Balanced(n + 1)
<1>1. Depth(n) = Depth(n - 1) /\ Depth(n) \in Int
  BY DepthAt
<1>2. ASSUME NEW j \in Enclosing(n) PROVE j \in Enclosing(n + 1)
  <2>1. j \in 1..(n - 1) /\ Opens(j) /\ \A k \in j..(n - 1) : Depth(k) >= Depth(j)
    BY DEF Enclosing
  <2>2. \A k \in j..n : k \in j..(n - 1) \/ k = n
    BY <2>1
  <2>3. \A k \in j..n : Depth(k) >= Depth(j)
    BY <1>1, <2>1, <2>2
  <2> QED BY <2>1, <2>3 DEF Enclosing
<1>3. ASSUME NEW j \in Enclosing(n + 1) PROVE j \in Enclosing(n)
  <2>1. j \in 1..n /\ Opens(j) /\ \A k \in j..n : Depth(k) >= Depth(j)
    BY DEF Enclosing
  <2> QED BY <2>1 DEF Enclosing
<1>4. Enclosing(n + 1) = Enclosing(n)
  BY <1>2, <1>3
<1>5. (n + 1) - 1 = n
  OBVIOUS
<1> QED BY <1>1, <1>4, <1>5 DEF Balanced

\* A start tag.
LEMMA AfterOpens ==
  ASSUME NEW n \in Nat \ {0}, Balanced(n), Opens(n)
  PROVE  /\ Enclosing(n + 1) = Enclosing(n) \cup {n} /\ Depth(n) = Depth(n - 1) + 1
         /\ n \notin Enclosing(n)
         /\ Balanced(n + 1)
<1>1. Depth(n) = Depth(n - 1) + 1 /\ Depth(n) \in Nat /\ Depth(n - 1) \in Nat
  BY DepthAt DEF Balanced
<1>2. ASSUME NEW j \in Enclosing(n) PROVE j \in Enclosing(n + 1)
  <2>1. j \in 1..(n - 1) /\ Opens(j) /\ \A k \in j..(n - 1) : Depth(k) >= Depth(j)
    BY DEF Enclosing
  <2>2. \A k \in j..n : k \in j..(n - 1) \/ k = n
    BY <2>1
  <2>3. Depth(j) \in 1..Depth(n - 1)
    BY DEF Balanced
  <2>4. \A k \in j..n : Depth(k) >= Depth(j)
    BY <1>1, <2>1, <2>2, <2>3
  <2> QED BY <2>1, <2>4 DEF Enclosing
<1>3. n \in Enclosing(n + 1)
  <2>1. \A k \in n..n : k = n
    OBVIOUS
  <2> QED BY <1>1, <2>1 DEF Enclosing
<1>4. ASSUME NEW j \in Enclosing(n + 1), j # n PROVE j \in Enclosing(n)
  <2>1. j \in 1..n /\ Opens(j) /\ \A k \in j..n : Depth(k) >= Depth(j)
    BY DEF Enclosing
  <2> QED BY <1>4, <2>1 DEF Enclosing
<1>5. Enclosing(n + 1) = Enclosing(n) \cup {n}
  BY <1>2, <1>3, <1>4
<1>6. n \notin Enclosing(n) /\ (n + 1) - 1 = n
  BY DEF Enclosing
<1>7. \A j \in Enclosing(n) : Depth(j) \in 1..Depth(n)
  BY <1>1 DEF Balanced
<1>8. \A m \in 1..Depth(n) : \E j \in Enclosing(n + 1) : Depth(j) = m
  <2> TAKE m \in 1..Depth(n)
  <2>1. m \in 1..Depth(n - 1) \/ m = Depth(n)
    BY <1>1
  <2> QED BY <1>5, <2>1 DEF Balanced
<1>9. Balanced(n + 1)
  BY <1>1, <1>5, <1>6, <1>7, <1>8 DEF Balanced
<1> QED BY <1>1, <1>5, <1>6, <1>9

\* An end tag where an element is open.
LEMMA AfterEnds ==
  ASSUME NEW n \in Nat \ {0}, Balanced(n), Ends(n), Depth(n - 1) > 0
  PROVE  /\ Enclosing(n + 1) = {j \in Enclosing(n) : Depth(j) < Depth(n - 1)}
         /\ Depth(n) = Depth(n - 1) - 1
         /\ Balanced(n + 1)
<1>0. ~Opens(n)
  BY DEF Opens, Ends
<1>1. Depth(n) = Depth(n - 1) - 1 /\ Depth(n) \in Nat /\ Depth(n - 1) \in Nat
  BY <1>0, DepthAt DEF Balanced
<1>2. ASSUME NEW j \in Enclosing(n), Depth(j) < Depth(n - 1) PROVE j \in Enclosing(n + 1)
  <2>1. j \in 1..(n - 1) /\ Opens(j) /\ \A k \in j..(n - 1) : Depth(k) >= Depth(j)
    BY DEF Enclosing
  <2>2. \A k \in j..n : k \in j..(n - 1) \/ k = n
    BY <2>1
  <2>3. Depth(j) \in 1..Depth(n - 1)
    BY DEF Balanced
  <2>4. \A k \in j..n : Depth(k) >= Depth(j)
    BY <1>1, <1>2, <2>1, <2>2, <2>3
  <2> QED BY <2>1, <2>4 DEF Enclosing
<1>3. ASSUME NEW j \in Enclosing(n + 1) PROVE j \in Enclosing(n) /\ Depth(j) < Depth(n - 1)
  <2>1. j \in 1..n /\ Opens(j) /\ \A k \in j..n : Depth(k) >= Depth(j)
    BY DEF Enclosing
  <2>2. j # n /\ j \in Nat \ {0}
    BY <1>0, <2>1
  <2>3. Depth(n) >= Depth(j) /\ Depth(j) \in Int
    BY <2>1, <2>2, DepthAt
  <2> QED BY <1>1, <2>1, <2>2, <2>3 DEF Enclosing
<1>4. Enclosing(n + 1) = {j \in Enclosing(n) : Depth(j) < Depth(n - 1)}
  BY <1>2, <1>3
<1>5. (n + 1) - 1 = n
  OBVIOUS
<1>6. \A j \in Enclosing(n + 1) : Depth(j) \in 1..Depth(n)
  BY <1>1, <1>4 DEF Balanced
<1>7. \A m \in 1..Depth(n) : \E j \in Enclosing(n + 1) : Depth(j) = m
  <2> TAKE m \in 1..Depth(n)
  <2>1. m \in 1..Depth(n - 1) /\ m < Depth(n - 1)
    BY <1>1
  <2> QED BY <1>4, <2>1 DEF Balanced
<1>8. Balanced(n + 1)
  BY <1>1, <1>5, <1>6, <1>7 DEF Balanced
<1> QED BY <1>1, <1>4, <1>8

\* The innermost element is at the depth itself.
LEMMA InnermostDepth ==
  ASSUME NEW n \in Nat \ {0}, Balanced(n)
  PROVE  /\ Enclosing(n) = {} <=> Depth(n - 1) = 0
         /\ Depth(n - 1) # 0 => /\ Innermost(n) \in Enclosing(n)
                                /\ Depth(Innermost(n)) = Depth(n - 1)
                                /\ \A j \in Enclosing(n) : j <= Innermost(n)
<1>1. Enclosing(n) = {} <=> Depth(n - 1) = 0
  BY DEF Balanced
<1>2. ASSUME Depth(n - 1) # 0
      PROVE  /\ Innermost(n) \in Enclosing(n)
             /\ Depth(Innermost(n)) = Depth(n - 1)
             /\ \A j \in Enclosing(n) : j <= Innermost(n)
  <2>1. Depth(n - 1) \in 1..Depth(n - 1)
    BY <1>2 DEF Balanced
  <2>2. PICK m \in Enclosing(n) : Depth(m) = Depth(n - 1)
    BY <2>1 DEF Balanced
  <2>3. ASSUME NEW j \in Enclosing(n) PROVE j <= m
    <3>1. Depth(j) <= Depth(m) /\ j \in Nat /\ m \in Nat /\ Depth(j) \in Int /\ Depth(m) \in Int
      BY <2>2 DEF Balanced, Enclosing
    <3>2. m < j => Depth(m) < Depth(j)
      BY Deeper
    <3> QED BY <3>1, <3>2
  <2>4. ASSUME NEW i \in Enclosing(n), \A k \in Enclosing(n) : k <= i PROVE i = m
    BY <2>3, <2>4 DEF Enclosing
  <2>5. Innermost(n) = m
    BY <2>3, <2>4 DEF Innermost
  <2> QED BY <2>2, <2>3, <2>5
<1> QED BY <1>1, <1>2

-----------------------------------------------------------------------------
\* The last of a set of positions is one element.
LEMMA LastIs ==
  ASSUME NEW S \in SUBSET Nat, NEW m \in S, \A k \in S : k <= m
  PROVE  (CHOOSE i \in S : \A k \in S : k <= i) = m
<1>1. ASSUME NEW i \in S, \A k \in S : k <= i PROVE i = m
  BY <1>1
<1> QED BY <1>1

\* The nearest declaration of a prefix is there when any is.
LEMMA NearestIs ==
  ASSUME NEW i \in Nat \ {0}, NEW p, DeclaringTags(i, p) # {}
  PROVE  \E j \in DeclaringTags(i, p) :
           /\ \A k \in DeclaringTags(i, p) : k <= j
           /\ Nearest(i, p) = Scope(Tokens[j].attrs)[p]
<1>1. DeclaringTags(i, p) \in SUBSET (1..i)
  BY DEF DeclaringTags, Enclosing
<1>2. PICK j \in DeclaringTags(i, p) : \A k \in DeclaringTags(i, p) : k <= j
  BY <1>1, LastPosition
<1>3. (CHOOSE m \in DeclaringTags(i, p) : \A k \in DeclaringTags(i, p) : k <= m) = j
  BY <1>1, <1>2, LastIs
<1> QED BY <1>2, <1>3 DEF Nearest

\* What the stacks of the strict parser hold of the elements around token n.
Stacked(n, names, scopes) ==
  /\ Len(names) = Depth(n - 1) /\ Len(scopes) = Depth(n - 1)
  /\ \A j \in Enclosing(n) : /\ names[Depth(j)] = Tokens[j].name
                             /\ scopes[Depth(j)] = Scope(Tokens[j].attrs)

\* Looking up the stack from the top finds the nearest declaration.
LEMMA ResolveIsNearest ==
  ASSUME NEW n \in Nat \ {0}, Balanced(n), NEW names, NEW scopes \in Seq(Maps), NEW p,
         Stacked(n, names, scopes)
  PROVE  Resolve(p, Append(scopes, Scope(Tokens[n].attrs))) =
           IF NameSpace(n, p) = "" /\ p # "" THEN {} ELSE {NameSpace(n, p)}
<1> DEFINE stack == Append(scopes, Scope(Tokens[n].attrs))
           D == DeclaringTags(n, p)
           W == {i \in DOMAIN stack : p \in DOMAIN stack[i]}
           level(j) == IF j = n THEN Len(scopes) + 1 ELSE Depth(j)
<1>0. Len(scopes) \in Nat /\ Len(scopes) = Depth(n - 1)
  BY DEF Stacked
<1>1. /\ DOMAIN stack = 1..(Len(scopes) + 1) /\ stack[Len(scopes) + 1] = Scope(Tokens[n].attrs)
      /\ \A i \in 1..Len(scopes) : stack[i] = scopes[i]
  OBVIOUS
<1> HIDE DEF stack
<1>2. ASSUME NEW j \in Enclosing(n) \cup {n}
      PROVE  level(j) \in DOMAIN stack /\ stack[level(j)] = Scope(Tokens[j].attrs)
  <2>1. CASE j = n
    BY <1>0, <1>1, <2>1
  <2>2. CASE j # n
    <3>1. j \in Enclosing(n) /\ Depth(j) \in 1..Len(scopes)
      BY <1>0, <2>2 DEF Balanced
    <3> QED BY <1>0, <1>1, <2>2, <3>1 DEF Stacked
  <2> QED BY <2>1, <2>2
<1>3. ASSUME NEW i \in DOMAIN stack PROVE \E j \in Enclosing(n) \cup {n} : level(j) = i
  <2>1. CASE i = Len(scopes) + 1
    BY <2>1
  <2>2. CASE i # Len(scopes) + 1
    <3>1. i \in 1..Depth(n - 1)
      BY <1>0, <1>1, <2>2
    <3>2. PICK j \in Enclosing(n) : Depth(j) = i
      BY <3>1 DEF Balanced
    <3>3. j # n
      BY DEF Enclosing
    <3> QED BY <3>2, <3>3
  <2> QED BY <2>1, <2>2
<1>4. ASSUME NEW j \in Enclosing(n) \cup {n}, NEW k \in Enclosing(n) \cup {n}, j <= k
      PROVE  level(j) <= level(k)
  <2>1. \A q \in Enclosing(n) : Depth(q) \in 1..Len(scopes) /\ q < n /\ q \in Nat
    BY <1>0 DEF Balanced, Enclosing
  <2>2. CASE k = n
    BY <1>0, <2>1, <2>2
  <2>3. CASE k # n
    <3>1. j \in Enclosing(n) /\ k \in Enclosing(n) /\ j # n
      BY <1>4, <2>1, <2>3
    <3>2. j < k => Depth(j) < Depth(k)
      BY <3>1, Deeper
    <3> QED BY <1>4, <2>1, <2>3, <3>1, <3>2
  <2> QED BY <2>2, <2>3
<1>5. \A j \in Enclosing(n) \cup {n} : j \in D <=> level(j) \in W
  BY <1>2 DEF DeclaringTags
<1>6. D \subseteq Enclosing(n) \cup {n} /\ W \subseteq DOMAIN stack /\ W \in SUBSET Nat
  BY <1>1 DEF DeclaringTags
<1>7. W = {} <=> D = {}
  <2> HIDE DEF D, W, level
  <2> QED BY <1>3, <1>5, <1>6
<1>8. CASE D # {}
  <2>1. PICK j \in D : /\ \A k \in D : k <= j
                       /\ Nearest(n, p) = Scope(Tokens[j].attrs)[p]
    BY <1>8, NearestIs
  <2>2. j \in Enclosing(n) \cup {n} /\ level(j) \in W /\ stack[level(j)] = Scope(Tokens[j].attrs)
    BY <1>2, <1>5, <1>6
  <2>3. \A i \in W : i <= level(j)
    <3> SUFFICES ASSUME NEW i \in W PROVE i <= level(j)
      OBVIOUS
    <3> HIDE DEF D, W, level
    <3>1. PICK k \in Enclosing(n) \cup {n} : level(k) = i
      BY <1>3, <1>6
    <3>2. k \in D
      BY <1>5, <3>1
    <3> QED BY <1>4, <2>1, <2>2, <3>1, <3>2
  <2> DEFINE top == CHOOSE i \in W : \A k \in W : k <= i
  <2>4. top = level(j)
    <3> HIDE DEF W, level
    <3> QED BY <1>6, <2>2, <2>3, LastIs
  <2>5. stack[top][p] = Nearest(n, p)
    BY <2>1, <2>2, <2>4
  <2>6. Resolve(p, stack) = CASE p = "xml" -> {XmlNS}
        [] p = "xmlns" -> {XmlnsNS}
        [] p \notin {"xml", "xmlns"} /\ W = {} -> IF p = "" THEN {""} ELSE {}
        [] OTHER -> IF stack[top][p] = "" /\ p # "" THEN {} ELSE {stack[top][p]}
    BY DEF Resolve
  <2> HIDE DEF W, top, D
  <2>7. NameSpace(n, p) = IF p = "xml" THEN XmlNS ELSE IF p = "xmlns" THEN XmlnsNS ELSE Nearest(n, p)
    BY <1>8 DEF NameSpace, D
  <2> QED BY <1>7, <1>8, <2>5, <2>6, <2>7 DEF XmlNS, XmlnsNS, stack
<1>9. CASE D = {}
  <2>1. W = {}
    BY <1>7, <1>9
  <2> DEFINE top == CHOOSE i \in W : \A k \in W : k <= i
  <2>2. Resolve(p, stack) = CASE p = "xml" -> {XmlNS}
        [] p = "xmlns" -> {XmlnsNS}
        [] p \notin {"xml", "xmlns"} /\ W = {} -> IF p = "" THEN {""} ELSE {}
        [] OTHER -> IF stack[top][p] = "" /\ p # "" THEN {} ELSE {stack[top][p]}
    BY DEF Resolve
  <2>3. NameSpace(n, p) = IF p = "xml" THEN XmlNS ELSE IF p = "xmlns" THEN XmlnsNS ELSE ""
    BY <1>9 DEF NameSpace
  <2> HIDE DEF W, top, D
  <2> QED BY <2>1, <2>2, <2>3 DEF XmlNS, XmlnsNS, stack
<1> QED BY <1>8, <1>9

\* What the strict parser checks of a tag: what is reserved is not among it.
TagChecked(i) ==
  LET attrs == Tokens[i].attrs
  IN  /\ ~Repeated(attrs)
      /\ \A k \in DOMAIN attrs : ~BadDeclaration(attrs[k])
      /\ Tokens[i].name.prefix # "" => NameSpace(i, Tokens[i].name.prefix) # ""
      /\ \A k \in Plain(attrs) : attrs[k].prefix # "" => NameSpace(i, attrs[k].prefix) # ""
      /\ \A k, m \in Plain(attrs) :
           k # m => \/ attrs[k].local # attrs[m].local
                    \/ AttrNameSpace(i, attrs[k]) # AttrNameSpace(i, attrs[m])
NamespacesChecked == \A i \in Starts : TagChecked(i)

LEMMA DeclarationsChecked ==
  ASSUME doc \in Document, NEW i \in Starts,
         NEW k \in DOMAIN Tokens[i].attrs
  PROVE  LET a == Tokens[i].attrs[k]
         IN  /\ IsDeclaration(a) /\ DeclarationRight(a) => ~BadDeclaration(a)
             /\ ~IsDeclaration(a) => ~BadDeclaration(a)
             /\ /\ ~BadDeclaration(a) /\ IsDeclaration(a)
                /\ Declared(a) = "xml" \/ a.value \notin {XmlNS, XmlnsNS}
                => DeclarationRight(a)
<1>1. doc.version \in {"1.0", "1.1"}
  BY DEF Document
<1> QED
  BY <1>1 DEF IsDeclaration, BadDeclaration, DeclarationRight, Declared, XmlNS, XmlnsNS

LEMMA TagsChecked ==
  ASSUME doc \in Document
  PROVE  /\ NamespacesRight => NamespacesChecked
         /\ Unreserved /\ NamespacesChecked => NamespacesRight
<1>1. ASSUME NamespacesRight, NEW i \in Starts PROVE TagChecked(i)
  <2> DEFINE attrs == Tokens[i].attrs
  <2>1. TagRight(i)
    BY <1>1 DEF NamespacesRight
  <2>2. \A k \in DOMAIN attrs : IsDeclaration(attrs[k]) => DeclarationRight(attrs[k])
    BY <2>1 DEF TagRight, Declarations
  <2>3. \A k \in DOMAIN attrs : ~BadDeclaration(attrs[k])
    BY <2>2, DeclarationsChecked
  <2> QED BY <2>1, <2>3, Zenon DEF TagRight, TagChecked
<1>2. ASSUME Unreserved, NamespacesChecked, NEW i \in Starts PROVE TagRight(i)
  <2> DEFINE attrs == Tokens[i].attrs
  <2>1. TagChecked(i)
    BY <1>2 DEF NamespacesChecked
  <2>2. \A k \in DOMAIN attrs : ~BadDeclaration(attrs[k])
    BY <2>1 DEF TagChecked
  <2>3. /\ Tokens[i].name.prefix # "xmlns"
        /\ \A k \in Declarations(attrs) :
             Declared(attrs[k]) = "xml" \/ attrs[k].value \notin {XmlNS, XmlnsNS}
    BY <1>2 DEF Unreserved
  <2>4. \A k \in Declarations(attrs) : k \in DOMAIN attrs /\ IsDeclaration(attrs[k])
    BY DEF Declarations
  <2>5. \A k \in Declarations(attrs) : DeclarationRight(attrs[k])
    BY <2>2, <2>3, <2>4, DeclarationsChecked
  <2> QED BY <2>1, <2>3, <2>5, Zenon DEF TagRight, TagChecked
<1> QED BY <1>1, <1>2 DEF NamespacesRight, NamespacesChecked

\* So a start tag is refused exactly when its names are wrong.
LEMMA RefusedTags ==
  ASSUME NEW n \in Nat \ {0}, Balanced(n), NEW names, NEW scopes \in Seq(Maps),
         Stacked(n, names, scopes)
  PROVE  TagChecked(n) <=> ~(\/ BadAttributes(Tokens[n].attrs)
                           \/ BadNames(Tokens[n], Append(scopes, Scope(Tokens[n].attrs))))
<1> DEFINE tag == Tokens[n]
           attrs == tag.attrs
           stack == Append(scopes, Scope(tag.attrs))
<1>1. \A p : Resolve(p, stack) = IF NameSpace(n, p) = "" /\ p # "" THEN {} ELSE {NameSpace(n, p)}
  BY ResolveIsNearest
<1> HIDE DEF stack
<1>2. \A q : Undeclared(q, stack) <=> (q.prefix # "" /\ NameSpace(n, q.prefix) = "")
  BY <1>1 DEF Undeclared
<1>3. ASSUME NEW a, NEW b, ~Undeclared(a, stack), ~Undeclared(b, stack)
      PROVE  Expanded(a, stack) = Expanded(b, stack) <=>
               (a.local = b.local /\ AttrNameSpace(n, a) = AttrNameSpace(n, b))
  <2>1. \A q : ~Undeclared(q, stack) => Expanded(q, stack) = <<{AttrNameSpace(n, q)}, q.local>>
    BY <1>1, <1>2 DEF Expanded, AttrNameSpace
  <2>2. \A x, y, l, m : <<{x}, l>> = <<{y}, m>> <=> (l = m /\ x = y)
    OBVIOUS
  <2>3. /\ Expanded(a, stack) = <<{AttrNameSpace(n, a)}, a.local>>
        /\ Expanded(b, stack) = <<{AttrNameSpace(n, b)}, b.local>>
    BY <1>3, <2>1
  <2> QED BY <2>2, <2>3
<1>4. BadAttributes(attrs) <=> (Repeated(attrs) \/ \E i \in DOMAIN attrs : BadDeclaration(attrs[i]))
  BY DEF BadAttributes
<1>5. BadNames(tag, stack) <=>
        (\/ Undeclared(tag.name, stack)
         \/ \E i \in Plain(attrs) : Undeclared(attrs[i], stack)
         \/ \E i, j \in Plain(attrs) :
              i # j /\ Expanded(attrs[i], stack) = Expanded(attrs[j], stack))
  BY DEF BadNames
<1>6. TagChecked(n) <=>
        (/\ ~Repeated(attrs)
         /\ \A k \in DOMAIN attrs : ~BadDeclaration(attrs[k])
         /\ ~Undeclared(tag.name, stack)
         /\ \A k \in Plain(attrs) : ~Undeclared(attrs[k], stack)
         /\ \A k, m \in Plain(attrs) :
              k # m => \/ attrs[k].local # attrs[m].local
                       \/ AttrNameSpace(n, attrs[k]) # AttrNameSpace(n, attrs[m]))
  <2>1. ~Undeclared(tag.name, stack) <=> (tag.name.prefix # "" => NameSpace(n, tag.name.prefix) # "")
    BY <1>2
  <2>2. \A k : ~Undeclared(attrs[k], stack)
                 <=> (attrs[k].prefix # "" => NameSpace(n, attrs[k].prefix) # "")
    BY <1>2
  <2> QED BY <2>1, <2>2, Zenon DEF TagChecked
<1> HIDE DEF attrs, tag
<1>7. CASE \A i \in Plain(attrs) : ~Undeclared(attrs[i], stack)
  <2>1. \A i, j \in Plain(attrs) : Expanded(attrs[i], stack) = Expanded(attrs[j], stack) <=>
               (attrs[i].local = attrs[j].local
                  /\ AttrNameSpace(n, attrs[i]) = AttrNameSpace(n, attrs[j]))
    BY <1>3, <1>7
  <2>2. TagChecked(n) <=> ~(BadAttributes(attrs) \/ BadNames(tag, stack))
    BY <1>4, <1>5, <1>6, <1>7, <2>1
  <2> QED BY <2>2 DEF attrs, tag, stack
<1>8. CASE ~(\A i \in Plain(attrs) : ~Undeclared(attrs[i], stack))
  <2>1. TagChecked(n) <=> ~(BadAttributes(attrs) \/ BadNames(tag, stack))
    BY <1>5, <1>6, <1>8
  <2> QED BY <2>1 DEF attrs, tag, stack
<1> QED BY <1>7, <1>8

-----------------------------------------------------------------------------
\* What both parsers have checked of the tokens before n.
EndsClose(n) == \A i \in 1..(n - 1) : Ends(i) => Closes(i)
Checked(n) ==
  /\ EndsClose(n)
  /\ \A i \in 1..(n - 1) : /\ Tokens[i].kind \notin {"doctype", "garbage"}
                           /\ Tokens[i].kind = "text" => Enclosing(i) # {}
                           /\ Tokens[i].kind = "start" => TagChecked(i)
RootsBefore(n) == {i \in Roots : i < n}
OneRoot(n) == \E r \in Nat : RootsBefore(n) = {r}

\* The strict parser's stacks are the elements around the token it is at.
StrictInv ==
  phase = "strict" =>
    /\ Balanced(at) /\ Stacked(at, open, nsStack) /\ Checked(at)
    /\ IF seen \/ open # <<>> THEN OneRoot(at) ELSE RootsBefore(at) = {}
    /\ seen => open = <<>>

\* What a document that the strict parser lets pass has been found to be.
Judged ==
  /\ phase \in {"tree", "valid"} /\ doc.role = "instance" => WellFormed /\ NamespacesChecked
  /\ phase = "invalid" /\ doc.role = "instance" => ~(WellFormed /\ NamespacesChecked)

LEMMA SameDocument ==
  ASSUME doc' = doc
  PROVE  /\ Tokens' = Tokens /\ Positions' = Positions
         /\ \A n : Depth(n)' = Depth(n) /\ Enclosing(n)' = Enclosing(n)
         /\ \A n : (Opens(n)' <=> Opens(n)) /\ (Ends(n)' <=> Ends(n)) /\ (Closes(n)' <=> Closes(n))
         /\ \A n : (Balanced(n)' <=> Balanced(n)) /\ (Checked(n)' <=> Checked(n))
         /\ \A n : (EndsClose(n)' <=> EndsClose(n))
         /\ \A n : (TagChecked(n)' <=> TagChecked(n))
         /\ Starts' = Starts /\ Roots' = Roots
         /\ (WellFormed' <=> WellFormed) /\ (NamespacesChecked' <=> NamespacesChecked)
<1>1. Tokens' = Tokens /\ Positions' = Positions
  BY DEF Tokens, Positions
<1>2. \A n : (Opens(n)' <=> Opens(n)) /\ (Ends(n)' <=> Ends(n))
  BY <1>1 DEF Opens, Ends
<1>3. \A n : Depth(n)' = Depth(n)
  BY <1>2 DEF Depth
<1>4. \A n : Enclosing(n)' = Enclosing(n)
  BY <1>2, <1>3 DEF Enclosing
<1>5. \A n : Closes(n)' <=> Closes(n)
  BY <1>1, <1>4 DEF Closes, Innermost
<1>6. \A n : Balanced(n)' <=> Balanced(n)
  BY <1>3, <1>4 DEF Balanced
<1>7. \A n, p : DeclaringTags(n, p)' = DeclaringTags(n, p)
  BY <1>1, <1>4 DEF DeclaringTags
<1>8. \A n, p : NameSpace(n, p)' = NameSpace(n, p)
  <2> TAKE n, p
  <2>1. DeclaringTags(n, p)' = DeclaringTags(n, p)
    BY <1>7
  <2>2. Nearest(n, p)' = Nearest(n, p)
    BY <1>1, <2>1, Zenon DEF Nearest
  <2> QED BY <2>1, <2>2, Zenon DEF NameSpace
<1>9. \A a : BadDeclaration(a)' <=> BadDeclaration(a)
  BY DEF BadDeclaration
<1>10. \A n : TagChecked(n)' <=> TagChecked(n)
  <2>1. \A n, a : AttrNameSpace(n, a)' = AttrNameSpace(n, a)
    BY <1>8 DEF AttrNameSpace
  <2> QED BY <1>1, <1>8, <1>9, <2>1 DEF TagChecked
<1>11. Starts' = Starts
  BY <1>1 DEF Starts
<1>12. Roots' = Roots
  BY <1>4, <1>11 DEF Roots
<1>13. \A n : EndsClose(n)' <=> EndsClose(n)
  BY <1>2, <1>5 DEF EndsClose
<1>14. \A n : Checked(n)' <=> Checked(n)
  BY <1>1, <1>4, <1>10, <1>13 DEF Checked
<1>15. \A n : Nested(n)' <=> Nested(n)
  BY <1>2, <1>3, <1>5 DEF Nested
<1>16. (WellFormed' <=> WellFormed) /\ (NamespacesChecked' <=> NamespacesChecked)
  BY <1>1, <1>4, <1>10, <1>11, <1>12, <1>15 DEF WellFormed, NamespacesChecked
<1> QED BY <1>1, <1>2, <1>3, <1>4, <1>5, <1>6, <1>10, <1>11, <1>12, <1>13, <1>14, <1>16

\* One more token is checked.
LEMMA CheckedNext ==
  ASSUME NEW n \in Nat \ {0}
  PROVE  Checked(n + 1) <=>
           /\ Checked(n)
           /\ Ends(n) => Closes(n)
           /\ Tokens[n].kind \notin {"doctype", "garbage"}
           /\ Tokens[n].kind = "text" => Enclosing(n) # {}
           /\ Tokens[n].kind = "start" => TagChecked(n)
<1>1. \A i : i \in 1..((n + 1) - 1) <=> i \in 1..(n - 1) \/ i = n
  OBVIOUS
<1> QED BY <1>1 DEF Checked, EndsClose

\* A root is a start tag that nothing encloses.
LEMMA RootsNext ==
  ASSUME doc \in Document, NEW n \in 1..Len(Tokens)
  PROVE  RootsBefore(n + 1) = IF Tokens[n].kind = "start" /\ Enclosing(n) = {}
                              THEN RootsBefore(n) \cup {n} ELSE RootsBefore(n)
<1>1. \A i \in Roots : i \in 1..Len(Tokens)
  BY DEF Roots, Starts, Positions, Tokens, Document
<1>2. \A i \in Roots : i < n + 1 <=> i < n \/ i = n
  BY <1>1
<1>3. n \in Roots <=> Tokens[n].kind = "start" /\ Enclosing(n) = {}
  BY DEF Roots, Starts, Positions, Tokens, Document
<1> QED BY <1>2, <1>3 DEF RootsBefore

\* A well-formed document has passed every check.
LEMMA AllChecked ==
  ASSUME doc \in Document, WellFormed, NamespacesChecked, NEW i \in 1..Len(Tokens)
  PROVE  /\ Ends(i) => Closes(i)
         /\ Tokens[i].kind \notin {"doctype", "garbage"}
         /\ Tokens[i].kind = "text" => Enclosing(i) # {}
         /\ Tokens[i].kind = "start" => TagChecked(i)
<1>1. i \in Positions
  BY TokensFinite
<1> QED BY <1>1 DEF WellFormed, Nested, NamespacesChecked, Starts

LEMMA StrictInit == TypeInv /\ Init => StrictInv /\ Judged
<1> SUFFICES ASSUME TypeInv, Init PROVE StrictInv /\ Judged
  OBVIOUS
<1>1. /\ at = 1 /\ open = <<>> /\ nsStack = <<>> /\ seen = FALSE
      /\ phase = IF doc.role = "schema" THEN "tree" ELSE "strict"
  BY DEF Init
<1>2. Balanced(at) /\ Enclosing(at) = {} /\ Depth(at - 1) = 0
  BY <1>1, BalancedFirst, DepthStep
<1>3. Checked(at)
  BY <1>1 DEF Checked, EndsClose
<1>4. Stacked(at, open, nsStack)
  BY <1>1, <1>2 DEF Stacked
<1>5. RootsBefore(at) = {}
  <2>1. \A i \in Roots : i \in Nat \ {0}
    BY TokensFinite DEF Roots, Starts, TypeInv
  <2> QED BY <1>1, <2>1 DEF RootsBefore
<1> QED BY <1>1, <1>2, <1>3, <1>4, <1>5 DEF StrictInv, Judged

\* The token the strict parser is at, and what its stacks say of it.
LEMMA StrictFacts ==
  ASSUME TypeInv, StrictInv, phase = "strict"
  PROVE  /\ doc \in Document /\ at \in Nat \ {0}
         /\ Balanced(at) /\ Stacked(at, open, nsStack) /\ Checked(at)
         /\ open = <<>> <=> Enclosing(at) = {}
         /\ open = <<>> <=> Depth(at - 1) = 0
         /\ open # <<>> => /\ Top(open) = Tokens[Innermost(at)].name
                           /\ Depth(at - 1) > 0
         /\ \A kind : IsAt(kind) <=> at \in 1..Len(Tokens) /\ Tokens[at].kind = kind
         /\ at \notin 1..Len(Tokens) => at = Len(Tokens) + 1
<1>1. /\ doc \in Document /\ at \in Nat \ {0} /\ Len(Tokens) \in Nat
      /\ at \in 1..(Len(Tokens) + 1)
  BY TokensFinite DEF TypeInv
<1>2. Balanced(at) /\ Stacked(at, open, nsStack) /\ Checked(at)
  BY DEF StrictInv
<1>3. Len(open) = Depth(at - 1) /\ Depth(at - 1) \in Nat /\ (open = <<>> <=> Len(open) = 0)
  BY <1>2 DEF Stacked, Balanced, TypeInv
<1>4. open # <<>> => Top(open) = Tokens[Innermost(at)].name
  <2> SUFFICES ASSUME open # <<>> PROVE Top(open) = Tokens[Innermost(at)].name
    OBVIOUS
  <2>1. /\ Innermost(at) \in Enclosing(at)
        /\ Depth(Innermost(at)) = Depth(at - 1)
    BY <1>1, <1>2, <1>3, InnermostDepth
  <2>2. open[Depth(Innermost(at))] = Tokens[Innermost(at)].name
    BY <1>2, <2>1 DEF Stacked
  <2> QED BY <1>3, <2>1, <2>2 DEF Top
<1>5. Enclosing(at) = {} <=> Depth(at - 1) = 0
  BY <1>1, <1>2, InnermostDepth
<1>6. \A kind : IsAt(kind) <=> at \in 1..Len(Tokens) /\ Tokens[at].kind = kind
  BY <1>1 DEF IsAt, Current
<1> QED BY <1>1, <1>2, <1>3, <1>4, <1>5, <1>6

\* The end tag of the element that is open closes it.
LEMMA EndCloses ==
  ASSUME TypeInv, StrictInv, phase = "strict", IsAt("end")
  PROVE  /\ open # <<>> /\ Current.name = Top(open) <=> Closes(at)
         /\ Ends(at) /\ ~Opens(at) /\ Tokens[at].kind = "end"
BY StrictFacts DEF Closes, Ends, Opens, Current, TypeInv

\* A start tag is refused when its names are wrong.
LEMMA StartJudged ==
  ASSUME TypeInv, StrictInv, phase = "strict", IsAt("start")
  PROVE  BadStartTag(Current) <=> ~TagChecked(at)
<1>1. /\ at \in Nat \ {0} /\ Balanced(at) /\ Stacked(at, open, nsStack) /\ nsStack \in Seq(Maps)
  BY StrictFacts DEF TypeInv
<1>2. TagChecked(at) <=> ~(\/ BadAttributes(Tokens[at].attrs)
                         \/ BadNames(Tokens[at], Append(nsStack, Scope(Tokens[at].attrs))))
  BY <1>1, RefusedTags
<1> QED BY <1>2 DEF BadStartTag, Current

\* The invariant of the next token, said of this state.
LEMMA StrictNext ==
  ASSUME TypeInv, doc' = doc, at' = at + 1,
         Balanced(at + 1), Checked(at + 1), Stacked(at + 1, open', nsStack'),
         IF seen' \/ open' # <<>> THEN OneRoot(at + 1) ELSE RootsBefore(at + 1) = {},
         seen' => open' = <<>>
  PROVE  StrictInv'
<1>1. Stacked(at, open, nsStack)'
  BY SameDocument DEF Stacked
<1>2. Balanced(at)' /\ Checked(at)'
  BY SameDocument
<1>3. RootsBefore(at)' = RootsBefore(at + 1)
  BY SameDocument DEF RootsBefore
<1>4. IF seen' \/ open' # <<>> THEN OneRoot(at)' ELSE RootsBefore(at)' = {}
  BY <1>3 DEF OneRoot
<1> QED BY <1>1, <1>2, <1>4 DEF StrictInv

LEMMA SkipMiscKeeps ==
  ASSUME TypeInv, StrictInv, SkipMisc
  PROVE  StrictInv'
<1>1. phase = "strict" /\ doc' = doc /\ at' = at + 1
  BY DEF SkipMisc, TreeUnchanged
<1>2. /\ open' = open /\ nsStack' = nsStack /\ seen' = seen
      /\ (IsAt("misc") \/ (IsAt("text") /\ open # <<>>))
  BY DEF SkipMisc, TreeUnchanged
<1>3. /\ at \in Nat \ {0} /\ at \in 1..Len(Tokens) /\ doc \in Document
      /\ Balanced(at) /\ Stacked(at, open, nsStack) /\ Checked(at)
      /\ Tokens[at].kind \in {"misc", "text"}
      /\ Tokens[at].kind = "text" => Enclosing(at) # {}
  BY <1>1, <1>2, StrictFacts
<1>4. /\ ~Opens(at) /\ ~Ends(at) /\ Tokens[at].kind # "start"
  BY <1>3 DEF Opens, Ends
<1>5. Enclosing(at + 1) = Enclosing(at) /\ Depth(at) = Depth(at - 1) /\ Balanced(at + 1)
  BY <1>3, <1>4, AfterOther
<1>6. Checked(at + 1) /\ RootsBefore(at + 1) = RootsBefore(at)
  BY <1>3, <1>4, CheckedNext, RootsNext
<1>7. Stacked(at + 1, open, nsStack)
  <2>1. (at + 1) - 1 = at
    BY <1>3
  <2> QED BY <1>3, <1>5, <2>1 DEF Stacked
<1>8. /\ IF seen \/ open # <<>> THEN OneRoot(at + 1) ELSE RootsBefore(at + 1) = {}
      /\ seen => open = <<>>
  BY <1>1, <1>6 DEF StrictInv, OneRoot
<1> QED BY <1>1, <1>2, <1>5, <1>6, <1>7, <1>8, StrictNext

\* A start tag as the root or inside an element.
LEMMA StartRoots ==
  ASSUME TypeInv, StrictInv, MayStart
  PROVE  /\ OneRoot(at + 1) /\ at \in 1..Len(Tokens)
         /\ Tokens[at].kind = "start" /\ ~Ends(at)
         /\ open = <<>> => seen = FALSE
<1>1. /\ phase = "strict" /\ IsAt("start") /\ (open # <<>> \/ ~seen)
  BY DEF MayStart
<1>2. /\ at \in 1..Len(Tokens) /\ at \in Nat /\ doc \in Document /\ Tokens[at].kind = "start"
      /\ open = <<>> <=> Enclosing(at) = {}
  BY <1>1, StrictFacts
<1>3. IF seen \/ open # <<>> THEN OneRoot(at) ELSE RootsBefore(at) = {}
  BY <1>1 DEF StrictInv
<1>4. CASE open = <<>>
  <2>1. RootsBefore(at) = {}
    BY <1>1, <1>3, <1>4
  <2>2. RootsBefore(at + 1) = {at}
    BY <1>2, <1>4, <2>1, RootsNext
  <2> QED BY <1>1, <1>2, <1>4, <2>2 DEF OneRoot, Ends, TypeInv
<1>5. CASE open # <<>>
  <2>1. RootsBefore(at + 1) = RootsBefore(at)
    BY <1>2, <1>5, RootsNext
  <2> QED BY <1>1, <1>2, <1>3, <1>5, <2>1 DEF OneRoot, Ends
<1> QED BY <1>4, <1>5

LEMMA OpenElementKeeps ==
  ASSUME TypeInv, StrictInv, OpenElement
  PROVE  StrictInv'
<1>1. /\ MayStart /\ phase = "strict" /\ IsAt("start") /\ doc' = doc /\ at' = at + 1
  BY DEF OpenElement, MayStart, TreeUnchanged
<1>2. /\ ~Tokens[at].empty /\ ~BadStartTag(Current)
      /\ open' = Append(open, Tokens[at].name) /\ nsStack' = Append(nsStack, Scope(Tokens[at].attrs))
      /\ seen' = seen
  BY DEF OpenElement, Current
<1>3. /\ OneRoot(at + 1) /\ at \in 1..Len(Tokens)
      /\ Tokens[at].kind = "start" /\ ~Ends(at)
      /\ open = <<>> => seen = FALSE
  BY <1>1, StartRoots
<1>4. /\ at \in Nat \ {0} /\ Balanced(at) /\ Stacked(at, open, nsStack) /\ Checked(at)
  BY <1>1, StrictFacts
<1>5. Opens(at) /\ TagChecked(at)
  BY <1>1, <1>2, <1>3, StartJudged DEF Opens
<1>6. /\ Enclosing(at + 1) = Enclosing(at) \cup {at} /\ Depth(at) = Depth(at - 1) + 1
      /\ at \notin Enclosing(at) /\ Balanced(at + 1)
  BY <1>4, <1>5, AfterOpens
<1>7. Checked(at + 1)
  BY <1>3, <1>4, <1>5, CheckedNext
<1>8. Stacked(at + 1, open', nsStack')
  <2>1. (at + 1) - 1 = at
    BY <1>4
  <2>2. /\ Len(open) = Depth(at - 1) /\ Len(nsStack) = Depth(at - 1)
        /\ open \in Seq(QName) /\ nsStack \in Seq(Maps)
        /\ \A j \in Enclosing(at) : /\ open[Depth(j)] = Tokens[j].name
                                    /\ nsStack[Depth(j)] = Scope(Tokens[j].attrs)
                                    /\ Depth(j) \in 1..Depth(at - 1)
    BY <1>4 DEF Stacked, TypeInv, Balanced
  <2> DEFINE name == Tokens[at].name
             scope == Scope(Tokens[at].attrs)
  <2>3. /\ open' = Append(open, name) /\ nsStack' = Append(nsStack, scope)
    BY <1>2
  <2> HIDE DEF name, scope
  <2>4. /\ Len(open') = Len(open) + 1 /\ Len(nsStack') = Len(nsStack) + 1
        /\ open'[Len(open) + 1] = name /\ nsStack'[Len(nsStack) + 1] = scope
        /\ \A i \in 1..Len(open) : open'[i] = open[i] /\ nsStack'[i] = nsStack[i]
    BY <2>2, <2>3
  <2>5. Len(open') = Depth(at) /\ Len(nsStack') = Depth(at)
    BY <1>6, <2>2, <2>4
  <2>6. ASSUME NEW j \in Enclosing(at + 1)
        PROVE  open'[Depth(j)] = Tokens[j].name /\ nsStack'[Depth(j)] = Scope(Tokens[j].attrs)
    <3>1. CASE j = at
      BY <1>6, <2>2, <2>4, <3>1 DEF name, scope
    <3>2. CASE j # at
      BY <1>6, <2>2, <2>4, <3>2
    <3> QED BY <3>1, <3>2
  <2> QED BY <2>1, <2>5, <2>6 DEF Stacked
<1>9. open' # <<>> /\ ~seen'
  <2>1. seen => open = <<>>
    BY <1>1 DEF StrictInv
  <2>2. open' # <<>>
    BY <1>2 DEF TypeInv
  <2> QED BY <1>2, <1>3, <2>1, <2>2
<1> QED BY <1>1, <1>3, <1>6, <1>7, <1>8, <1>9, StrictNext

LEMMA EmptyElementKeeps ==
  ASSUME TypeInv, StrictInv, EmptyElement
  PROVE  StrictInv'
<1>1. /\ MayStart /\ phase = "strict" /\ IsAt("start") /\ doc' = doc /\ at' = at + 1
  BY DEF EmptyElement, MayStart, TreeUnchanged
<1>2. /\ Tokens[at].empty /\ ~BadStartTag(Current)
      /\ open' = open /\ nsStack' = nsStack
      /\ seen' = (open = <<>>)
  BY DEF EmptyElement, Current
<1>3. /\ OneRoot(at + 1) /\ at \in 1..Len(Tokens)
      /\ Tokens[at].kind = "start" /\ ~Ends(at)
  BY <1>1, StartRoots
<1>4. /\ at \in Nat \ {0} /\ Balanced(at) /\ Stacked(at, open, nsStack) /\ Checked(at)
  BY <1>1, StrictFacts
<1>5. ~Opens(at) /\ TagChecked(at)
  BY <1>1, <1>2, <1>3, StartJudged DEF Opens
<1>6. Enclosing(at + 1) = Enclosing(at) /\ Depth(at) = Depth(at - 1) /\ Balanced(at + 1)
  BY <1>3, <1>4, <1>5, AfterOther
<1>7. Checked(at + 1)
  BY <1>3, <1>4, <1>5, CheckedNext
<1>8. Stacked(at + 1, open', nsStack')
  <2>1. (at + 1) - 1 = at
    BY <1>4
  <2> QED BY <1>2, <1>4, <1>6, <2>1 DEF Stacked
<1> QED BY <1>1, <1>2, <1>3, <1>6, <1>7, <1>8, StrictNext

LEMMA CloseElementKeeps ==
  ASSUME TypeInv, StrictInv, CloseElement
  PROVE  StrictInv'
<1>1. /\ phase = "strict" /\ IsAt("end") /\ doc' = doc /\ at' = at + 1
      /\ open # <<>> /\ Current.name = Top(open)
      /\ open' = Popped(open) /\ nsStack' = Popped(nsStack) /\ seen' = (Len(open) = 1)
  BY DEF CloseElement, TreeUnchanged
<1>2. Closes(at) /\ Ends(at) /\ Tokens[at].kind = "end"
  BY <1>1, EndCloses
<1>3. /\ at \in Nat \ {0} /\ Balanced(at) /\ Stacked(at, open, nsStack) /\ Checked(at)
      /\ at \in 1..Len(Tokens) /\ doc \in Document /\ Depth(at - 1) > 0
  BY <1>1, StrictFacts
<1>4. /\ Enclosing(at + 1) = {j \in Enclosing(at) : Depth(j) < Depth(at - 1)}
      /\ Depth(at) = Depth(at - 1) - 1 /\ Balanced(at + 1)
  BY <1>2, <1>3, AfterEnds
<1>5. Checked(at + 1) /\ RootsBefore(at + 1) = RootsBefore(at)
  BY <1>2, <1>3, CheckedNext, RootsNext
<1>6. OneRoot(at + 1)
  BY <1>1, <1>5 DEF OneRoot, StrictInv
<1>7. /\ Len(open) = Depth(at - 1) /\ Len(nsStack) = Depth(at - 1) /\ Depth(at - 1) \in Nat
      /\ Len(Popped(open)) = Len(open) - 1 /\ Len(Popped(nsStack)) = Len(nsStack) - 1
      /\ \A i \in 1..(Len(open) - 1) : Popped(open)[i] = open[i] /\ Popped(nsStack)[i] = nsStack[i]
  <2>1. /\ Len(open) = Depth(at - 1) /\ Len(nsStack) = Depth(at - 1) /\ Depth(at - 1) \in Nat
        /\ open \in Seq(QName) /\ nsStack \in Seq(Maps) /\ open # <<>> /\ nsStack # <<>>
    BY <1>1, <1>3 DEF Stacked, TypeInv, Balanced
  <2>2. /\ Len(Popped(open)) = Len(open) - 1
        /\ \A i \in 1..(Len(open) - 1) : Popped(open)[i] = open[i]
    BY <2>1, PoppedTyped
  <2>3. /\ Len(Popped(nsStack)) = Len(nsStack) - 1
        /\ \A i \in 1..(Len(nsStack) - 1) : Popped(nsStack)[i] = nsStack[i]
    BY <2>1, PoppedTyped
  <2> QED BY <2>1, <2>2, <2>3
<1>8. Stacked(at + 1, open', nsStack')
  <2>1. (at + 1) - 1 = at
    BY <1>3
  <2>2. ASSUME NEW j \in Enclosing(at + 1)
        PROVE  open'[Depth(j)] = Tokens[j].name /\ nsStack'[Depth(j)] = Scope(Tokens[j].attrs)
    <3>1. j \in Enclosing(at) /\ Depth(j) \in 1..(Len(open) - 1)
      BY <1>3, <1>4, <1>7 DEF Balanced
    <3> QED BY <1>1, <1>3, <1>7, <3>1 DEF Stacked
  <2> QED BY <1>1, <1>4, <1>7, <2>1, <2>2 DEF Stacked
<1>9. seen' <=> open' = <<>>
  <2>1. open' \in Seq(QName) /\ Len(open') = Len(open) - 1
    BY <1>1, PoppedTyped DEF TypeInv
  <2>2. open' = <<>> <=> Len(open') = 0
    BY <2>1, EmptySeq
  <2>3. Len(open') = 0 <=> Len(open) = 1
    BY <1>7, <2>1
  <2> QED BY <1>1, <2>2, <2>3
<1> QED BY <1>1, <1>4, <1>5, <1>6, <1>8, <1>9, StrictNext

\* The strict parser's error is one of the document.
LEMMA StrictRejectJudges ==
  ASSUME TypeInv, StrictInv, StrictReject
  PROVE  ~(WellFormed /\ NamespacesChecked)
<1> SUFFICES ASSUME WellFormed, NamespacesChecked PROVE FALSE
  OBVIOUS
<1>1. phase = "strict"
  BY DEF StrictReject
<1>2. /\ doc \in Document /\ at \in Nat \ {0} /\ Balanced(at)
      /\ open = <<>> <=> Enclosing(at) = {}
      /\ open = <<>> <=> Depth(at - 1) = 0
      /\ \A kind : IsAt(kind) <=> at \in 1..Len(Tokens) /\ Tokens[at].kind = kind
      /\ at \notin 1..Len(Tokens) => at = Len(Tokens) + 1
      /\ Len(Tokens) \in Nat /\ Positions = 1..Len(Tokens)
  BY <1>1, StrictFacts, TokensFinite
<1>3. /\ IF seen \/ open # <<>> THEN OneRoot(at) ELSE RootsBefore(at) = {}
      /\ seen => open = <<>>
  BY <1>1 DEF StrictInv
<1>4. CASE at > Len(Tokens) /\ ~seen
  <2>1. at = Len(Tokens) + 1 /\ at - 1 = Len(Tokens)
    BY <1>2, <1>4
  <2>2. Depth(Len(Tokens)) = 0
    BY DEF WellFormed, Nested
  <2>3. RootsBefore(at) = {}
    BY <1>2, <1>3, <1>4, <2>1, <2>2
  <2>4. PICK i \in Positions : Roots = {i}
    BY DEF WellFormed
  <2> QED BY <1>2, <2>1, <2>3, <2>4 DEF RootsBefore
<1>5. CASE IsAt("doctype") \/ IsAt("garbage") \/ (IsAt("text") /\ open = <<>>)
  BY <1>2, <1>5, AllChecked
<1>6. CASE IsAt("start") /\ open = <<>> /\ seen
  <2>1. at \in Roots
    BY <1>2, <1>6 DEF Roots, Starts
  <2>2. PICK r \in Nat : RootsBefore(at) = {r}
    BY <1>3, <1>6 DEF OneRoot
  <2>3. r \in Roots /\ r < at
    BY <2>2 DEF RootsBefore
  <2>4. PICK i \in Positions : Roots = {i}
    BY DEF WellFormed
  <2> QED BY <1>2, <2>1, <2>3, <2>4
<1>7. CASE MayStart /\ BadStartTag(Current)
  <2>1. IsAt("start") /\ ~TagChecked(at)
    BY <1>1, <1>7, StartJudged DEF MayStart
  <2> QED BY <1>2, <2>1, AllChecked
<1>8. CASE IsAt("end") /\ ~(open # <<>> /\ Current.name = Top(open))
  <2>1. ~Closes(at) /\ Ends(at)
    BY <1>1, <1>8, EndCloses
  <2> QED BY <1>2, <1>8, <2>1, AllChecked
<1> QED BY <1>4, <1>5, <1>6, <1>7, <1>8 DEF StrictReject

\* What it accepts is well-formed.
LEMMA StrictAcceptJudges ==
  ASSUME TypeInv, StrictInv, StrictAccept
  PROVE  WellFormed /\ NamespacesChecked
<1>1. phase = "strict" /\ at > Len(Tokens) /\ seen
  BY DEF StrictAccept
<1>2. /\ doc \in Document /\ at \in Nat \ {0} /\ Checked(at)
      /\ open = <<>> <=> Depth(at - 1) = 0
      /\ at \notin 1..Len(Tokens) => at = Len(Tokens) + 1
      /\ Len(Tokens) \in Nat /\ Positions = 1..Len(Tokens)
  BY <1>1, StrictFacts, TokensFinite
<1>3. at = Len(Tokens) + 1 /\ at - 1 = Len(Tokens) /\ OneRoot(at) /\ open = <<>>
  BY <1>1, <1>2 DEF StrictInv
<1>4. Nested(Len(Tokens))
  BY <1>2, <1>3 DEF Nested, Checked, EndsClose
<1>5. \E i \in Positions : Roots = {i}
  <2>1. PICK r \in Nat : RootsBefore(at) = {r}
    BY <1>3 DEF OneRoot
  <2>2. RootsBefore(at) = Roots
    BY <1>2, <1>3 DEF RootsBefore, Roots, Starts
  <2> QED BY <2>1, <2>2 DEF Roots, Starts
<1>6. WellFormed
  BY <1>2, <1>3, <1>4, <1>5 DEF WellFormed, Checked
<1>7. NamespacesChecked
  BY <1>2, <1>3 DEF NamespacesChecked, Starts, Checked
<1> QED BY <1>6, <1>7

-----------------------------------------------------------------------------
\* Start tags are counted one by one.
LEMMA RankNext ==
  ASSUME doc \in Document, NEW n \in 1..Len(Tokens)
  PROVE  /\ Rank(n - 1) \in Nat
         /\ Rank(n) = Rank(n - 1) + (IF n \in Starts THEN 1 ELSE 0)
<1> DEFINE S == {j \in Starts : j <= n - 1}
           T == {j \in Starts : j <= n}
<1>1. Starts \subseteq 1..Len(Tokens) /\ Len(Tokens) \in Nat
  BY TokensFinite DEF Starts
<1>2. n - 1 \in Nat /\ (n - 1) + 1 = n
  BY <1>1
<1>3. S \in SUBSET (1..(n - 1)) /\ T = (IF n \in Starts THEN S \cup {n} ELSE S) /\ n \notin S
  <2>1. \A j \in Starts : j \in Nat \ {0} /\ (j <= n <=> j <= n - 1 \/ j = n)
    BY <1>1
  <2>2. n \in Nat
    BY <1>1
  <2> QED BY <2>1, <2>2
<1> HIDE DEF S, T
<1>4. T \in {S, S \cup {(n - 1) + 1}} /\ (T = S <=> n \notin Starts)
  BY <1>2, <1>3
<1>5. Cardinality(S) \in Nat /\ Cardinality(T) = Cardinality(S) + (IF T = S THEN 0 ELSE 1)
  BY <1>2, <1>3, <1>4, CountNext
<1>6. Rank(n) = Cardinality(T) /\ Rank(n - 1) = Cardinality(S)
  BY DEF Rank, S, T
<1> QED BY <1>4, <1>5, <1>6

\* No two have the same place.
LEMMA RankRises ==
  ASSUME doc \in Document, NEW i \in Starts, NEW j \in Starts, i < j
  PROVE  Rank(i) < Rank(j)
<1> DEFINE S == {k \in Starts : k <= i}
           T == {k \in Starts : k <= j}
<1>1. Starts \subseteq 1..Len(Tokens) /\ Len(Tokens) \in Nat
  BY TokensFinite DEF Starts
<1>2. IsFiniteSet(T) /\ IsFiniteSet(1..Len(Tokens))
  <2>1. IsFiniteSet(1..Len(Tokens))
    BY <1>1, FS_Interval
  <2>2. T \subseteq 1..Len(Tokens)
    BY <1>1
  <2> QED BY <2>1, <2>2, FS_Subset
<1>3. S \subseteq T /\ j \in T /\ j \notin S
  <2>1. \A k \in Starts : k \in Int
    BY <1>1
  <2>2. \A k \in Starts : k <= i => k <= j
    BY <2>1
  <2>3. ~(j <= i) /\ j <= j
    BY <2>1
  <2> QED BY <2>2, <2>3
<1> HIDE DEF S, T
<1>4. /\ IsFiniteSet(S) /\ Cardinality(S) \in Nat /\ Cardinality(T) \in Nat
      /\ Cardinality(S) <= Cardinality(T) /\ Cardinality(S) # Cardinality(T)
  <2>1. S \in SUBSET T /\ S # T
    BY <1>3
  <2>2. /\ IsFiniteSet(S) /\ Cardinality(S) <= Cardinality(T)
        /\ Cardinality(T) = Cardinality(S) => T = S
    BY <1>2, <2>1, FS_Subset
  <2> QED BY <1>2, <2>1, <2>2, FS_CardinalityType
<1>5. Rank(i) = Cardinality(S) /\ Rank(j) = Cardinality(T)
  BY DEF Rank, S, T
<1> QED BY <1>4, <1>5

LEMMA RankInNat ==
  ASSUME doc \in Document, NEW i \in Starts
  PROVE  Rank(i) \in Nat \ {0}
<1>1. i \in 1..Len(Tokens) /\ i \in Starts
  BY TokensFinite DEF Starts
<1> QED BY <1>1, RankNext

LEMMA ElementAtRank ==
  ASSUME doc \in Document, NEW i \in Starts
  PROVE  ElementAt(Rank(i)) = i
<1>1. ASSUME NEW j \in Starts, Rank(j) = Rank(i) PROVE j = i
  <2>1. i \in Int /\ j \in Int
    BY TokensFinite DEF Starts
  <2>2. ~(i < j) /\ ~(j < i)
    <3>1. i < j => Rank(i) < Rank(j)
      BY RankRises
    <3>2. j < i => Rank(j) < Rank(i)
      BY RankRises
    <3>3. Rank(i) \in Nat
      BY RankInNat
    <3> QED BY <1>1, <3>1, <3>2, <3>3
  <2> QED BY <2>1, <2>2
<1> QED BY <1>1 DEF ElementAt

\* What the namespace map of a frame says of the prefixes in scope at token i.
Describes(scope, i) ==
  \A p : /\ p \in DOMAIN scope <=> DeclaringTags(i, p) # {}
         /\ p \in DOMAIN scope => scope[p] = Nearest(i, p)

LEMMA NearestHere ==
  ASSUME NEW i \in Nat \ {0}, NEW p, p \in DOMAIN Scope(Tokens[i].attrs)
  PROVE  DeclaringTags(i, p) # {} /\ Nearest(i, p) = Scope(Tokens[i].attrs)[p]
<1>1. i \in DeclaringTags(i, p) /\ \A k \in DeclaringTags(i, p) : k <= i
  BY DEF DeclaringTags, Enclosing
<1>2. DeclaringTags(i, p) \in SUBSET Nat
  BY DEF DeclaringTags, Enclosing
<1>3. (CHOOSE m \in DeclaringTags(i, p) : \A k \in DeclaringTags(i, p) : k <= m) = i
  BY <1>1, <1>2, LastIs
<1> QED BY <1>1, <1>3 DEF Nearest

\* The map that the tree parser makes for a start tag.
LEMMA InScopeDescribes ==
  ASSUME NEW i \in Nat \ {0}, NEW outer,
         IF Enclosing(i) = {} THEN outer = [p \in {} |-> ""]
         ELSE Innermost(i) \in Enclosing(i) /\ Describes(outer, Innermost(i))
                /\ \A j \in Enclosing(i) : j <= Innermost(i)
  PROVE  Describes(InScope(Tokens[i].attrs, outer), i)
<1> DEFINE own == Scope(Tokens[i].attrs)
           scope == InScope(Tokens[i].attrs, outer)
<1> SUFFICES ASSUME NEW p
             PROVE  /\ p \in DOMAIN scope <=> DeclaringTags(i, p) # {}
                    /\ p \in DOMAIN scope => scope[p] = Nearest(i, p)
  BY DEF Describes
<1>1. /\ DOMAIN scope = DOMAIN outer \cup DOMAIN own
      /\ p \in DOMAIN scope => scope[p] = IF p \in DOMAIN own THEN own[p] ELSE outer[p]
  BY DEF InScope
<1>2. CASE p \in DOMAIN own
  BY <1>1, <1>2, NearestHere
<1>3. CASE p \notin DOMAIN own /\ Enclosing(i) = {}
  <2>1. DeclaringTags(i, p) = {}
    BY <1>3 DEF DeclaringTags
  <2> QED BY <1>1, <1>3, <2>1
<1>4. CASE p \notin DOMAIN own /\ Enclosing(i) # {}
  <2> DEFINE j == Innermost(i)
  <2>1. j \in Enclosing(i) /\ Describes(outer, j) /\ \A k \in Enclosing(i) : k <= j
    BY <1>4
  <2> HIDE DEF j
  <2>2. Enclosing(j) = {k \in Enclosing(i) : k < j}
    BY <2>1, EnclosingOf
  <2>3. Enclosing(i) = Enclosing(j) \cup {j}
    BY <2>1, <2>2 DEF Enclosing
  <2>4. DeclaringTags(i, p) = DeclaringTags(j, p)
    BY <1>4, <2>3 DEF DeclaringTags
  <2>5. Nearest(i, p) = Nearest(j, p)
    BY <2>4, Zenon DEF Nearest
  <2>6. /\ p \in DOMAIN outer <=> DeclaringTags(j, p) # {}
        /\ p \in DOMAIN outer => outer[p] = Nearest(j, p)
    BY <2>1 DEF Describes
  <2> QED BY <1>1, <1>4, <2>4, <2>5, <2>6
<1> QED BY <1>2, <1>3, <1>4

LEMMA LookUpIs ==
  ASSUME NEW i \in Nat \ {0}, NEW scope, Describes(scope, i), NEW p, p \notin {"xml", "xmlns"}
  PROVE  LookUp(p, scope) = NameSpace(i, p)
BY DEF Describes, LookUp, NameSpace

\* What the frames of the tree parser hold of the elements around token n.
Framed(n, fs) ==
  /\ Len(fs) = Depth(n - 1)
  /\ \A j \in Enclosing(n) : /\ fs[Depth(j)].name = Tokens[j].name
                             /\ fs[Depth(j)].element = Rank(j)
                             /\ Describes(fs[Depth(j)].scope, j)
\* The elements built of the start tags before token n.
StartsBefore(n) == {i \in Starts : i < n}
BuiltBefore(n, es) ==
  /\ Len(es) = Rank(n - 1)
  /\ \A i \in StartsBefore(n) : Rank(i) \in 1..Len(es) /\ Represents(es[Rank(i)], i)
  /\ \A k \in 1..Len(es) : \E i \in StartsBefore(n) : Rank(i) = k

TreeInv ==
  phase \in {"tree", "valid"} =>
    /\ Balanced(at) /\ Framed(at, frames) /\ EndsClose(at)
    /\ IF seen \/ frames # <<>> THEN OneRoot(at) ELSE RootsBefore(at) = {}
    /\ seen => frames = <<>>
    /\ phase = "valid" => seen
    /\ BuiltBefore(at, elements)

LEMMA SameTree ==
  ASSUME doc' = doc
  PROVE  /\ \A n : Rank(n)' = Rank(n)
         /\ \A n : StartsBefore(n)' = StartsBefore(n)
         /\ \A n : ElementAt(n)' = ElementAt(n)
         /\ \A s, n : Describes(s, n)' <=> Describes(s, n)
         /\ \A e, n : Represents(e, n)' <=> Represents(e, n)
<1>1. Starts' = Starts /\ Tokens' = Tokens /\ \A n : Enclosing(n)' = Enclosing(n)
  BY SameDocument
<1>2. \A n : Rank(n)' = Rank(n) /\ StartsBefore(n)' = StartsBefore(n)
  BY <1>1 DEF Rank, StartsBefore
<1>3. \A n : ElementAt(n)' = ElementAt(n)
  BY <1>1, <1>2 DEF ElementAt
<1>4. \A n, p : DeclaringTags(n, p)' = DeclaringTags(n, p)
  BY <1>1 DEF DeclaringTags
<1>5. \A n, p : Nearest(n, p)' = Nearest(n, p)
  <2> TAKE n, p
  <2>1. DeclaringTags(n, p)' = DeclaringTags(n, p)
    BY <1>4
  <2> QED BY <1>1, <2>1, Zenon DEF Nearest
<1>6. \A s, n : Describes(s, n)' <=> Describes(s, n)
  BY <1>4, <1>5 DEF Describes
<1>7. \A n, a : AttrNameSpace(n, a)' = AttrNameSpace(n, a)
  BY <1>4, <1>5 DEF AttrNameSpace, NameSpace
<1>8. \A n, p : NameSpace(n, p)' = NameSpace(n, p)
  BY <1>4, <1>5 DEF NameSpace
<1>9. \A n : Innermost(n)' = Innermost(n)
  BY <1>1 DEF Innermost
<1>10. \A e, n : Represents(e, n)' <=> Represents(e, n)
  BY <1>1, <1>3, <1>7, <1>8, <1>9 DEF Represents
<1> QED BY <1>2, <1>3, <1>6, <1>10

\* The token the tree parser is at, and what its frames say of it.
LEMMA TreeFacts ==
  ASSUME TypeInv, TreeInv, phase = "tree"
  PROVE  /\ doc \in Document /\ at \in Nat \ {0}
         /\ Balanced(at) /\ Framed(at, frames) /\ EndsClose(at) /\ BuiltBefore(at, elements)
         /\ frames = <<>> <=> Enclosing(at) = {}
         /\ frames = <<>> <=> Depth(at - 1) = 0
         /\ Len(frames) = Depth(at - 1) /\ Depth(at - 1) \in Nat
         /\ frames # <<>> => /\ Top(frames).name = Tokens[Innermost(at)].name
                             /\ Top(frames).element = Rank(Innermost(at))
                             /\ Describes(Top(frames).scope, Innermost(at))
                             /\ Innermost(at) \in Enclosing(at)
                             /\ Depth(at - 1) > 0
         /\ \A kind : IsAt(kind) <=> at \in 1..Len(Tokens) /\ Tokens[at].kind = kind
         /\ at \notin 1..Len(Tokens) => at = Len(Tokens) + 1
<1>1. /\ doc \in Document /\ at \in Nat \ {0} /\ Len(Tokens) \in Nat
      /\ at \in 1..(Len(Tokens) + 1) /\ frames \in Seq(Frame)
  BY TokensFinite DEF TypeInv
<1>2. Balanced(at) /\ Framed(at, frames) /\ EndsClose(at) /\ BuiltBefore(at, elements)
  BY DEF TreeInv
<1>3. Len(frames) = Depth(at - 1) /\ Depth(at - 1) \in Nat /\ (frames = <<>> <=> Len(frames) = 0)
  BY <1>1, <1>2, EmptySeq DEF Framed, Balanced
<1>4. frames # <<>> => /\ Top(frames).name = Tokens[Innermost(at)].name
                       /\ Top(frames).element = Rank(Innermost(at))
                       /\ Describes(Top(frames).scope, Innermost(at))
                       /\ Innermost(at) \in Enclosing(at)
  <2> SUFFICES ASSUME frames # <<>>
               PROVE  /\ Top(frames).name = Tokens[Innermost(at)].name
                      /\ Top(frames).element = Rank(Innermost(at))
                      /\ Describes(Top(frames).scope, Innermost(at))
                      /\ Innermost(at) \in Enclosing(at)
    OBVIOUS
  <2>1. /\ Innermost(at) \in Enclosing(at)
        /\ Depth(Innermost(at)) = Depth(at - 1)
    BY <1>1, <1>2, <1>3, InnermostDepth
  <2>2. Top(frames) = frames[Depth(Innermost(at))]
    BY <1>3, <2>1 DEF Top
  <2> QED BY <1>2, <2>1, <2>2 DEF Framed
<1>5. Enclosing(at) = {} <=> Depth(at - 1) = 0
  BY <1>1, <1>2, InnermostDepth
<1>6. \A kind : IsAt(kind) <=> at \in 1..Len(Tokens) /\ Tokens[at].kind = kind
  BY <1>1 DEF IsAt, Current
<1> QED BY <1>1, <1>2, <1>3, <1>4, <1>5, <1>6

LEMMA TreeNext ==
  ASSUME TypeInv, doc' = doc, at' = at + 1, phase' # "valid",
         Balanced(at + 1), EndsClose(at + 1), Framed(at + 1, frames'),
         BuiltBefore(at + 1, elements'),
         IF seen' \/ frames' # <<>> THEN OneRoot(at + 1) ELSE RootsBefore(at + 1) = {},
         seen' => frames' = <<>>
  PROVE  TreeInv'
<1>0. Tokens' = Tokens /\ \A n : Depth(n)' = Depth(n) /\ Enclosing(n)' = Enclosing(n)
  BY SameDocument
<1>1. Framed(at, frames)'
  BY <1>0, SameTree DEF Framed
<1>2. Balanced(at)' /\ EndsClose(at)'
  BY SameDocument
<1>3. RootsBefore(at)' = RootsBefore(at + 1)
  BY SameDocument DEF RootsBefore
<1>4. IF seen' \/ frames' # <<>> THEN OneRoot(at)' ELSE RootsBefore(at)' = {}
  BY <1>3 DEF OneRoot
<1>5. BuiltBefore(at, elements)'
  BY SameTree DEF BuiltBefore
<1> QED BY <1>1, <1>2, <1>4, <1>5 DEF TreeInv

\* A token that is no start tag adds no element.
LEMMA NoStart ==
  ASSUME doc \in Document, NEW n \in 1..Len(Tokens), Tokens[n].kind # "start",
         NEW es, BuiltBefore(n, es)
  PROVE  BuiltBefore(n + 1, es)
<1>1. n \notin Starts /\ \A i \in Starts : i \in Int
  BY TokensFinite DEF Starts
<1>2. StartsBefore(n + 1) = StartsBefore(n)
  BY <1>1 DEF StartsBefore
<1>3. Rank(n) = Rank(n - 1) /\ (n + 1) - 1 = n
  BY <1>1, RankNext
<1> QED BY <1>2, <1>3 DEF BuiltBefore

LEMMA EndsCloseNext ==
  ASSUME NEW n \in Nat \ {0}, EndsClose(n), Ends(n) => Closes(n)
  PROVE  EndsClose(n + 1)
<1>1. \A i : i \in 1..((n + 1) - 1) <=> i \in 1..(n - 1) \/ i = n
  OBVIOUS
<1> QED BY <1>1 DEF EndsClose

LEMMA TreePassKeeps ==
  ASSUME TypeInv, TreeInv, TreeSkip \/ TreeGarbage
  PROVE  TreeInv'
<1>1. /\ phase = "tree" /\ doc' = doc /\ at' = at + 1 /\ phase' = "tree"
      /\ frames' = frames /\ elements' = elements /\ seen' = seen
      /\ IsAt("misc") \/ IsAt("text") \/ IsAt("doctype") \/ IsAt("garbage")
  BY DEF TreeSkip, TreeGarbage, InTree, StrictUnchanged
<1>2. /\ at \in Nat \ {0} /\ at \in 1..Len(Tokens) /\ doc \in Document
      /\ Balanced(at) /\ Framed(at, frames) /\ EndsClose(at) /\ BuiltBefore(at, elements)
      /\ Tokens[at].kind \in {"misc", "text", "doctype", "garbage"}
  BY <1>1, TreeFacts
<1>3. /\ ~Opens(at) /\ ~Ends(at) /\ Tokens[at].kind # "start"
  BY <1>2 DEF Opens, Ends
<1>4. Enclosing(at + 1) = Enclosing(at) /\ Depth(at) = Depth(at - 1) /\ Balanced(at + 1)
  BY <1>2, <1>3, AfterOther
<1>5. RootsBefore(at + 1) = RootsBefore(at)
  BY <1>2, <1>3, RootsNext
<1>6. EndsClose(at + 1) /\ BuiltBefore(at + 1, elements)
  BY <1>2, <1>3, EndsCloseNext, NoStart
<1>7. Framed(at + 1, frames)
  <2>1. (at + 1) - 1 = at
    BY <1>2
  <2> QED BY <1>2, <1>4, <2>1 DEF Framed
<1>8. /\ IF seen \/ frames # <<>> THEN OneRoot(at + 1) ELSE RootsBefore(at + 1) = {}
      /\ seen => frames = <<>>
  BY <1>1, <1>5 DEF TreeInv, OneRoot
<1> QED BY <1>1, <1>4, <1>5, <1>6, <1>7, <1>8, TreeNext

LEMMA TreeEndKeeps ==
  ASSUME TypeInv, TreeInv, TreeEnd
  PROVE  TreeInv'
<1>1. /\ phase = "tree" /\ IsAt("end") /\ doc' = doc /\ at' = at + 1 /\ phase' = "tree"
      /\ frames # <<>> /\ Tokens[at].name = Top(frames).name
      /\ frames' = Popped(frames) /\ seen' = (Len(frames) = 1) /\ elements' = elements
  BY DEF TreeEnd, InTree, StrictUnchanged, Current
<1>2. /\ at \in Nat \ {0} /\ Balanced(at) /\ Framed(at, frames) /\ EndsClose(at)
      /\ BuiltBefore(at, elements)
      /\ at \in 1..Len(Tokens) /\ doc \in Document /\ Depth(at - 1) > 0
      /\ Tokens[at].kind = "end" /\ Enclosing(at) # {}
      /\ Top(frames).name = Tokens[Innermost(at)].name
      /\ Len(frames) = Depth(at - 1) /\ Depth(at - 1) \in Nat
  BY <1>1, TreeFacts
<1>3. Closes(at) /\ Ends(at)
  BY <1>1, <1>2 DEF Closes, Ends
<1>4. /\ Enclosing(at + 1) = {j \in Enclosing(at) : Depth(j) < Depth(at - 1)}
      /\ Depth(at) = Depth(at - 1) - 1 /\ Balanced(at + 1)
  BY <1>2, <1>3, AfterEnds
<1>5. EndsClose(at + 1) /\ RootsBefore(at + 1) = RootsBefore(at) /\ BuiltBefore(at + 1, elements)
  BY <1>2, <1>3, EndsCloseNext, RootsNext, NoStart
<1>6. OneRoot(at + 1)
  BY <1>1, <1>5 DEF OneRoot, TreeInv
<1>7. /\ Len(Popped(frames)) = Len(frames) - 1 /\ Popped(frames) \in Seq(Frame)
      /\ \A i \in 1..(Len(frames) - 1) : Popped(frames)[i] = frames[i]
  BY <1>1, PoppedTyped DEF TypeInv
<1>8. Framed(at + 1, frames')
  <2>1. (at + 1) - 1 = at
    BY <1>2
  <2>2. ASSUME NEW j \in Enclosing(at + 1)
        PROVE  /\ frames'[Depth(j)].name = Tokens[j].name
               /\ frames'[Depth(j)].element = Rank(j)
               /\ Describes(frames'[Depth(j)].scope, j)
    <3>1. j \in Enclosing(at) /\ Depth(j) \in 1..(Len(frames) - 1)
      BY <1>2, <1>4 DEF Balanced
    <3>2. frames'[Depth(j)] = frames[Depth(j)]
      BY <1>1, <1>7, <3>1
    <3> QED BY <1>2, <3>1, <3>2 DEF Framed
  <2> QED BY <1>1, <1>2, <1>4, <1>7, <2>1, <2>2 DEF Framed
<1>9. seen' <=> frames' = <<>>
  <2>1. frames' = <<>> <=> Len(frames') = 0
    BY <1>1, <1>7, EmptySeq
  <2>2. Len(frames') = 0 <=> Len(frames) = 1
    BY <1>1, <1>2, <1>7
  <2> QED BY <1>1, <2>1, <2>2
<1> QED BY <1>1, <1>4, <1>5, <1>6, <1>8, <1>9, TreeNext

\* The namespaces and the parent that the tree parser gives an element.
LEMMA StartRepresents ==
  ASSUME TypeInv, TreeInv, phase = "tree", IsAt("start")
  PROVE  /\ Describes(InScope(Tokens[at].attrs, OuterScope), at)
         /\ Represents(Element(Tokens[at], InScope(Tokens[at].attrs, OuterScope)), at)
<1> DEFINE tag == Tokens[at]
           scope == InScope(tag.attrs, OuterScope)
           e == Element(tag, scope)
<1>1. /\ at \in Nat \ {0} /\ at \in 1..Len(Tokens) /\ doc \in Document
      /\ frames = <<>> <=> Enclosing(at) = {}
      /\ frames # <<>> => /\ Top(frames).element = Rank(Innermost(at))
                          /\ Describes(Top(frames).scope, Innermost(at))
                          /\ Innermost(at) \in Enclosing(at)
      /\ Balanced(at) /\ (frames = <<>> <=> Depth(at - 1) = 0)
  BY TreeFacts
<1>2. Describes(scope, at)
  <2>1. frames # <<>> => \A j \in Enclosing(at) : j <= Innermost(at)
    BY <1>1, InnermostDepth
  <2>2. IF Enclosing(at) = {} THEN OuterScope = [p \in {} |-> ""]
        ELSE Innermost(at) \in Enclosing(at) /\ Describes(OuterScope, Innermost(at))
                /\ \A j \in Enclosing(at) : j <= Innermost(at)
    BY <1>1, <2>1 DEF OuterScope
  <2> QED BY <1>1, <2>2, InScopeDescribes
<1>3. \A p : p \notin {"xml", "xmlns"} => LookUp(p, scope) = NameSpace(at, p)
  <2> HIDE DEF scope
  <2> QED BY <1>1, <1>2, LookUpIs
<1> HIDE DEF scope
<1>4. /\ e.name = tag.name
      /\ e.namespace = LookUp(tag.name.prefix, scope)
      /\ e.attrs = [i \in Plain(tag.attrs) |-> IF tag.attrs[i].prefix = "" THEN ""
                                               ELSE LookUp(tag.attrs[i].prefix, scope)]
      /\ e.parent = IF frames = <<>> THEN 0 ELSE Top(frames).element
  BY DEF Element
<1> HIDE DEF e
<1>5. DOMAIN e.attrs = Plain(tag.attrs)
  BY <1>4
<1>6. ASSUME NEW m \in DOMAIN e.attrs, tag.attrs[m].prefix # "xml"
      PROVE  e.attrs[m] = AttrNameSpace(at, tag.attrs[m])
  <2>1. m \in Plain(tag.attrs) /\ ~IsDeclaration(tag.attrs[m])
    BY <1>5 DEF Plain
  <2>2. tag.attrs[m].prefix # "xmlns"
    BY <2>1 DEF IsDeclaration
  <2>3. e.attrs[m] = IF tag.attrs[m].prefix = "" THEN "" ELSE LookUp(tag.attrs[m].prefix, scope)
    BY <1>4, <2>1
  <2>4. tag.attrs[m].prefix # "" =>
          LookUp(tag.attrs[m].prefix, scope) = NameSpace(at, tag.attrs[m].prefix)
    BY <1>3, <1>6, <2>2
  <2> QED BY <2>3, <2>4 DEF AttrNameSpace
<1>7. IF Enclosing(at) = {} THEN e.parent = 0 ELSE ElementAt(e.parent) = Innermost(at)
  <2>1. Enclosing(at) # {} => Innermost(at) \in Starts
    BY <1>1, TokensFinite DEF Enclosing, Opens, Starts
  <2>2. Enclosing(at) # {} => ElementAt(Rank(Innermost(at))) = Innermost(at)
    BY <1>1, <2>1, ElementAtRank
  <2> QED BY <1>1, <1>4, <2>2
<1>8. Represents(e, at)
  BY <1>3, <1>4, <1>5, <1>6, <1>7 DEF Represents
<1> QED BY <1>2, <1>8 DEF e, scope

LEMMA TreeStartKeeps ==
  ASSUME TypeInv, TreeInv, TreeStart
  PROVE  TreeInv'
<1> DEFINE tag == Tokens[at]
           scope == InScope(tag.attrs, OuterScope)
           e == Element(tag, scope)
           frame == [element |-> Len(elements) + 1, name |-> tag.name, scope |-> scope]
<1>1. /\ phase = "tree" /\ IsAt("start") /\ doc' = doc /\ at' = at + 1 /\ phase' = "tree" /\ ~seen
      /\ elements' = Append(elements, e)
      /\ frames' = IF tag.empty THEN frames ELSE Append(frames, frame)
      /\ seen' = (tag.empty /\ frames = <<>>)
  BY DEF TreeStart, InTree, StrictUnchanged, Current
<1>2. Describes(scope, at) /\ Represents(e, at)
  BY <1>1, StartRepresents
<1>3. /\ frame.element = Len(elements) + 1 /\ frame.name = tag.name /\ frame.scope = scope
  OBVIOUS
<1>4. scope \in Maps /\ e \in Built /\ tag.empty \in BOOLEAN /\ tag.name \in QName
  <2>1. Tokens[at] \in StartTag
    BY <1>1, TokenTyped DEF TypeInv, Current
  <2>2. scope \in Maps
    BY <2>1, OuterTyped, InScopeTyped DEF StartTag
  <2> HIDE DEF scope
  <2>3. e \in Built
    BY <1>1, <2>2, ElementTyped DEF Current
  <2> QED BY <2>1, <2>2, <2>3 DEF StartTag
<1> HIDE DEF scope, e
<1>5. frame \in Frame
  <2>1. Len(elements) + 1 \in Nat \ {0}
    BY DEF TypeInv
  <2> QED BY <1>4, <2>1 DEF Frame
<1> HIDE DEF frame
<1>6. /\ at \in Nat \ {0} /\ at \in 1..Len(Tokens) /\ doc \in Document
      /\ Balanced(at) /\ Framed(at, frames) /\ EndsClose(at) /\ BuiltBefore(at, elements)
      /\ tag.kind = "start"
      /\ frames = <<>> <=> Enclosing(at) = {}
      /\ Len(frames) = Depth(at - 1) /\ Depth(at - 1) \in Nat
  BY <1>1, TreeFacts
<1>7. ~Ends(at) /\ at \in Starts /\ (Opens(at) <=> ~tag.empty)
  BY <1>6, TokensFinite DEF Ends, Starts, Opens
<1>8. EndsClose(at + 1)
  BY <1>6, <1>7, EndsCloseNext
<1>9. OneRoot(at + 1)
  <2>1. CASE frames = <<>>
    <3>1. RootsBefore(at) = {}
      BY <1>1, <2>1 DEF TreeInv
    <3>2. RootsBefore(at + 1) = {at} /\ at \in Nat
      BY <1>6, <2>1, <3>1, RootsNext
    <3> QED BY <3>2 DEF OneRoot
  <2>2. CASE frames # <<>>
    <3>1. RootsBefore(at + 1) = RootsBefore(at)
      BY <1>6, <2>2, RootsNext
    <3> QED BY <1>1, <2>2, <3>1 DEF OneRoot, TreeInv
  <2> QED BY <2>1, <2>2
<1>10. BuiltBefore(at + 1, elements')
  <2>1. /\ elements \in Seq(Built) /\ Len(elements') = Len(elements) + 1
        /\ elements'[Len(elements) + 1] = e /\ Len(elements) \in Nat
        /\ \A k \in 1..Len(elements) : elements'[k] = elements[k]
    BY <1>1, <1>4 DEF TypeInv
  <2>2. (at + 1) - 1 = at /\ Rank(at) = Rank(at - 1) + 1
    BY <1>6, <1>7, RankNext
  <2>3. /\ Len(elements) = Rank(at - 1)
        /\ \A i \in StartsBefore(at) : Rank(i) \in 1..Len(elements) /\ Represents(elements[Rank(i)], i)
        /\ \A k \in 1..Len(elements) : \E i \in StartsBefore(at) : Rank(i) = k
    BY <1>6 DEF BuiltBefore
  <2>4. \A i : i \in StartsBefore(at + 1) <=> i \in StartsBefore(at) \/ i = at
    <3>1. \A i \in Starts : i \in Int
      BY <1>6, TokensFinite DEF Starts
    <3>2. \A i \in Starts : i < at + 1 <=> i < at \/ i = at
      BY <1>6, <3>1
    <3> QED BY <1>7, <3>2 DEF StartsBefore
  <2>5. ASSUME NEW i \in StartsBefore(at + 1)
        PROVE  Rank(i) \in 1..Len(elements') /\ Represents(elements'[Rank(i)], i)
    <3>1. CASE i = at
      BY <1>2, <2>1, <2>2, <2>3, <3>1
    <3>2. CASE i \in StartsBefore(at)
      BY <2>1, <2>3, <3>2
    <3> QED BY <2>4, <3>1, <3>2
  <2>6. ASSUME NEW k \in 1..Len(elements')
        PROVE  \E i \in StartsBefore(at + 1) : Rank(i) = k
    <3>1. k \in 1..Len(elements) \/ k = Rank(at)
      BY <2>1, <2>2, <2>3
    <3> QED BY <2>3, <2>4, <3>1
  <2> QED BY <2>1, <2>2, <2>3, <2>5, <2>6 DEF BuiltBefore
<1>11. CASE tag.empty
  <2>1. Enclosing(at + 1) = Enclosing(at) /\ Depth(at) = Depth(at - 1) /\ Balanced(at + 1)
    BY <1>6, <1>7, <1>11, AfterOther
  <2>2. (at + 1) - 1 = at /\ frames' = frames
    BY <1>1, <1>6, <1>11
  <2>3. Framed(at + 1, frames')
    BY <1>6, <2>1, <2>2 DEF Framed
  <2>4. seen' => frames' = <<>>
    BY <1>1, <2>2
  <2>5. seen' \/ frames' # <<>>
    BY <1>1, <1>11, <2>2, Zenon
  <2> QED BY <1>1, <1>8, <1>9, <1>10, <2>1, <2>3, <2>4, <2>5, TreeNext
<1>12. CASE ~tag.empty
  <2>1. /\ Enclosing(at + 1) = Enclosing(at) \cup {at} /\ Depth(at) = Depth(at - 1) + 1
        /\ at \notin Enclosing(at) /\ Balanced(at + 1)
    BY <1>6, <1>7, <1>12, AfterOpens
  <2>2. frames' = Append(frames, frame) /\ ~seen'
    BY <1>1, <1>12
  <2>3. /\ Len(frames') = Len(frames) + 1 /\ frames'[Len(frames) + 1] = frame
        /\ \A k \in 1..Len(frames) : frames'[k] = frames[k]
    BY <1>5, <2>2 DEF TypeInv
  <2>4. Len(elements) + 1 = Rank(at)
    BY <1>6, <1>7, RankNext DEF BuiltBefore
  <2>5. ASSUME NEW j \in Enclosing(at + 1)
        PROVE  /\ frames'[Depth(j)].name = Tokens[j].name
               /\ frames'[Depth(j)].element = Rank(j)
               /\ Describes(frames'[Depth(j)].scope, j)
    <3>1. CASE j = at
      <4>1. frames'[Depth(j)] = frame
        BY <1>6, <2>1, <2>3, <3>1
      <4> QED BY <1>2, <1>3, <2>4, <3>1, <4>1
    <3>2. CASE j # at
      <4>1. j \in Enclosing(at) /\ Depth(j) \in 1..Len(frames)
        BY <1>6, <2>1, <3>2 DEF Balanced
      <4>2. frames'[Depth(j)] = frames[Depth(j)]
        BY <2>3, <4>1
      <4> QED BY <1>6, <4>1, <4>2 DEF Framed
    <3> QED BY <3>1, <3>2
  <2>6. (at + 1) - 1 = at /\ Len(frames') = Depth(at)
    BY <1>6, <2>1, <2>3
  <2>7. Framed(at + 1, frames')
    BY <2>5, <2>6 DEF Framed
  <2> QED BY <1>1, <1>8, <1>9, <1>10, <2>1, <2>2, <2>7, TreeNext
<1> QED BY <1>4, <1>11, <1>12

\* The tree parser refuses no well-formed document.
LEMMA TreeRejectJudges ==
  ASSUME TypeInv, TreeInv, TreeReject
  PROVE  ~(WellFormed /\ NamespacesChecked)
<1> SUFFICES ASSUME WellFormed, NamespacesChecked PROVE FALSE
  OBVIOUS
<1>1. phase = "tree" /\ ~seen
  BY DEF TreeReject, InTree
<1>2. /\ doc \in Document /\ at \in Nat \ {0} /\ Balanced(at)
      /\ frames = <<>> <=> Enclosing(at) = {}
      /\ frames = <<>> <=> Depth(at - 1) = 0
      /\ frames # <<>> => Top(frames).name = Tokens[Innermost(at)].name
      /\ \A kind : IsAt(kind) <=> at \in 1..Len(Tokens) /\ Tokens[at].kind = kind
      /\ at \notin 1..Len(Tokens) => at = Len(Tokens) + 1
      /\ Len(Tokens) \in Nat /\ Positions = 1..Len(Tokens)
  BY <1>1, TreeFacts, TokensFinite
<1>3. IF frames # <<>> THEN OneRoot(at) ELSE RootsBefore(at) = {}
  BY <1>1 DEF TreeInv
<1>4. CASE at > Len(Tokens)
  <2>1. at = Len(Tokens) + 1 /\ at - 1 = Len(Tokens)
    BY <1>2, <1>4
  <2>2. Depth(Len(Tokens)) = 0
    BY DEF WellFormed, Nested
  <2>3. RootsBefore(at) = {}
    BY <1>2, <1>3, <2>1, <2>2
  <2>4. PICK i \in Positions : Roots = {i}
    BY DEF WellFormed
  <2> QED BY <1>2, <2>1, <2>3, <2>4 DEF RootsBefore
<1>5. CASE IsAt("doctype") \/ IsAt("garbage") \/ (IsAt("text") /\ frames = <<>>)
  BY <1>2, <1>5, AllChecked
<1>6. CASE IsAt("end") /\ ~(frames # <<>> /\ Top(frames).name = Current.name)
  <2>1. ~Closes(at) /\ Ends(at)
    BY <1>2, <1>6 DEF Closes, Ends, Current
  <2> QED BY <1>2, <1>6, <2>1, AllChecked
<1> QED BY <1>4, <1>5, <1>6 DEF TreeReject

\* Both parsers begin with nothing before the first token.
LEMMA TreeFirst ==
  ASSUME doc \in Document
  PROVE  /\ Balanced(1) /\ Framed(1, <<>>) /\ EndsClose(1) /\ BuiltBefore(1, <<>>)
         /\ RootsBefore(1) = {}
<1>1. Balanced(1) /\ Enclosing(1) = {} /\ 1 - 1 = 0 /\ Depth(0) = 0
  BY BalancedFirst, DepthStep
<1>2. EndsClose(1)
  BY DEF EndsClose
<1>3. Framed(1, <<>>)
  BY <1>1 DEF Framed
<1>4. \A i \in Starts : i \in Nat \ {0}
  BY TokensFinite DEF Starts
<1>5. StartsBefore(1) = {} /\ RootsBefore(1) = {} /\ {j \in Starts : j <= 0} = {}
  BY <1>4 DEF StartsBefore, RootsBefore, Roots
<1>6. Rank(0) = 0
  BY <1>5, FS_EmptySet DEF Rank
<1>7. BuiltBefore(1, <<>>)
  BY <1>1, <1>5, <1>6 DEF BuiltBefore
<1> QED BY <1>1, <1>2, <1>3, <1>5, <1>7

-----------------------------------------------------------------------------
\* The tree parser's variables wait for it.
TreeFresh == phase = "strict" => frames = <<>> /\ elements = <<>>

\* The inductive invariant of the two parsers.
ParseInv == TypeInv /\ StrictInv /\ TreeInv /\ Judged /\ TreeFresh

LEMMA ParseInit == Init => ParseInv
<1> SUFFICES ASSUME Init PROVE ParseInv
  OBVIOUS
<1>1. TypeInv
  BY TypeInit
<1>2. StrictInv /\ Judged
  BY <1>1, StrictInit
<1>3. at = 1 /\ frames = <<>> /\ elements = <<>> /\ seen = FALSE /\ phase \in {"strict", "tree"}
  BY DEF Init
<1>4. TreeInv
  BY <1>1, <1>3, TreeFirst DEF TreeInv, TypeInv
<1> QED BY <1>1, <1>2, <1>3, <1>4 DEF ParseInv, TreeFresh

LEMMA ParseStep == ParseInv /\ [Next]_vars => ParseInv'
<1> SUFFICES ASSUME ParseInv, [Next]_vars PROVE ParseInv'
  OBVIOUS
<1>0. TypeInv /\ StrictInv /\ TreeInv /\ Judged /\ TreeFresh /\ TypeInv'
  BY TypeStep DEF ParseInv
<1>1. CASE SkipMisc \/ OpenElement \/ EmptyElement \/ CloseElement
  <2>1. StrictInv'
    BY <1>0, <1>1, SkipMiscKeeps, OpenElementKeeps, EmptyElementKeeps, CloseElementKeeps
  <2>2. phase = "strict" /\ phase' = "strict" /\ frames' = frames /\ elements' = elements
    BY <1>1 DEF SkipMisc, OpenElement, EmptyElement, CloseElement, MayStart, TreeUnchanged
  <2> QED BY <1>0, <2>1, <2>2 DEF ParseInv, TreeInv, Judged, TreeFresh
<1>2. CASE StrictReject
  <2>1. ~(WellFormed /\ NamespacesChecked)
    BY <1>0, <1>2, StrictRejectJudges
  <2>2. phase' = "invalid" /\ doc' = doc
    BY <1>2 DEF StrictReject, TreeUnchanged
  <2>3. ~(WellFormed /\ NamespacesChecked)'
    BY <2>1, <2>2, SameDocument
  <2> QED BY <1>0, <2>2, <2>3 DEF ParseInv, TreeInv, Judged, TreeFresh, StrictInv
<1>3. CASE StrictAccept
  <2>1. WellFormed /\ NamespacesChecked
    BY <1>0, <1>3, StrictAcceptJudges
  <2>2. /\ phase' = "tree" /\ doc' = doc /\ at' = 1 /\ seen' = FALSE
        /\ frames' = <<>> /\ elements' = <<>>
    BY <1>0, <1>3 DEF StrictAccept, TreeUnchanged, TreeFresh
  <2>3. (WellFormed /\ NamespacesChecked)'
    BY <2>1, <2>2, SameDocument
  <2>4. /\ Balanced(1) /\ Framed(1, <<>>) /\ EndsClose(1) /\ BuiltBefore(1, <<>>)
        /\ RootsBefore(1) = {}
    BY <1>0, TreeFirst DEF TypeInv
  <2>5. Balanced(at)' /\ EndsClose(at)'
    BY <2>2, <2>4, SameDocument
  <2>6. Framed(at, frames)'
    BY <2>2, <2>4, SameDocument, SameTree DEF Framed
  <2>7. BuiltBefore(at, elements)'
    BY <2>2, <2>4, SameTree DEF BuiltBefore
  <2>8. RootsBefore(at)' = {}
    BY <2>2, <2>4, SameDocument DEF RootsBefore
  <2>9. TreeInv'
    BY <2>2, <2>5, <2>6, <2>7, <2>8 DEF TreeInv
  <2> QED BY <1>0, <2>2, <2>3, <2>9 DEF ParseInv, Judged, TreeFresh, StrictInv
<1>4. CASE TreeSkip \/ TreeStart \/ TreeEnd \/ TreeGarbage
  <2>1. TreeInv'
    BY <1>0, <1>4, TreePassKeeps, TreeStartKeeps, TreeEndKeeps
  <2>2. phase = "tree" /\ phase' = "tree" /\ doc' = doc
    BY <1>4 DEF TreeSkip, TreeStart, TreeEnd, TreeGarbage, InTree, StrictUnchanged
  <2>3. (WellFormed' <=> WellFormed) /\ (NamespacesChecked' <=> NamespacesChecked)
    BY <2>2, SameDocument
  <2> QED BY <1>0, <2>1, <2>2, <2>3 DEF ParseInv, StrictInv, Judged, TreeFresh
<1>5. CASE TreeReject
  <2>1. ~(WellFormed /\ NamespacesChecked)
    BY <1>0, <1>5, TreeRejectJudges
  <2>2. phase' = "invalid" /\ doc' = doc
    BY <1>5 DEF TreeReject, StrictUnchanged
  <2>3. ~(WellFormed /\ NamespacesChecked)'
    BY <2>1, <2>2, SameDocument
  <2> QED BY <1>0, <2>2, <2>3 DEF ParseInv, TreeInv, Judged, TreeFresh, StrictInv
<1>6. CASE TreeAccept
  <2>1. /\ phase = "tree" /\ seen /\ phase' = "valid" /\ doc' = doc /\ at' = at /\ seen' = seen
        /\ frames' = frames /\ elements' = elements
    BY <1>6 DEF TreeAccept, StrictUnchanged
  <2>2. /\ Balanced(at) /\ Framed(at, frames) /\ EndsClose(at) /\ OneRoot(at)
        /\ frames = <<>> /\ BuiltBefore(at, elements)
    BY <1>0, <2>1 DEF TreeInv
  <2>3. Balanced(at)' /\ EndsClose(at)'
    BY <2>1, <2>2, SameDocument
  <2>4. Framed(at, frames)'
    BY <2>1, <2>2, SameDocument, SameTree DEF Framed
  <2>5. BuiltBefore(at, elements)'
    BY <2>1, <2>2, SameTree DEF BuiltBefore
  <2>6. OneRoot(at)'
    BY <2>1, <2>2, SameDocument DEF RootsBefore, OneRoot
  <2>7. TreeInv'
    BY <2>1, <2>2, <2>3, <2>4, <2>5, <2>6 DEF TreeInv
  <2>8. (WellFormed' <=> WellFormed) /\ (NamespacesChecked' <=> NamespacesChecked)
    BY <2>1, SameDocument
  <2> QED BY <1>0, <2>1, <2>7, <2>8 DEF ParseInv, StrictInv, Judged, TreeFresh
<1>7. CASE UNCHANGED vars
  <2>1. /\ doc' = doc /\ phase' = phase /\ at' = at /\ seen' = seen /\ open' = open
        /\ nsStack' = nsStack /\ frames' = frames /\ elements' = elements
    BY <1>7 DEF vars
  <2>2. /\ (Balanced(at)' <=> Balanced(at)) /\ (EndsClose(at)' <=> EndsClose(at))
        /\ (Checked(at)' <=> Checked(at))
        /\ (WellFormed' <=> WellFormed) /\ (NamespacesChecked' <=> NamespacesChecked)
        /\ Tokens' = Tokens /\ RootsBefore(at)' = RootsBefore(at)
    BY <2>1, SameDocument DEF RootsBefore
  <2>3. OneRoot(at)' <=> OneRoot(at)
    BY <2>2 DEF OneRoot
  <2>4. Framed(at, frames)' <=> Framed(at, frames)
    BY <2>1, SameDocument, SameTree DEF Framed
  <2>5. BuiltBefore(at, elements)' <=> BuiltBefore(at, elements)
    BY <2>1, SameTree DEF BuiltBefore
  <2>6. Stacked(at, open, nsStack)' <=> Stacked(at, open, nsStack)
    BY <2>1, <2>2, SameDocument DEF Stacked
  <2>7. StrictInv'
    BY <1>0, <2>1, <2>2, <2>3, <2>6 DEF StrictInv
  <2>8. TreeInv'
    BY <1>0, <2>1, <2>2, <2>3, <2>4, <2>5 DEF TreeInv
  <2> QED BY <1>0, <2>1, <2>2, <2>7, <2>8 DEF ParseInv, Judged, TreeFresh
<1> QED BY <1>1, <1>2, <1>3, <1>4, <1>5, <1>6, <1>7 DEF Next, Strict, Tree, Done

LEMMA ParseAlways == Spec => []ParseInv
<1>1. Init => ParseInv
  BY ParseInit
<1>2. ParseInv /\ [Next]_vars => ParseInv'
  BY ParseStep
<1> QED BY <1>1, <1>2, PTL DEF Spec

\* An instance document passes exactly when it is well-formed and its names
\* are declared, whatever its tokens; the tree parser never overrules the
\* strict one; and no document passes whose elements are not nested and closed
\* (ValidateWithSchemaResolver in validator/validator.go).
THEOREM DocumentsRightlyJudged == Spec => []DocumentsJudged
<1>1. ParseInv => DocumentsJudged
  <2> SUFFICES ASSUME ParseInv, phase = "valid"
               PROVE  \E n \in Positions : Nested(n) /\ \E i \in 1..n : Roots \cap (1..n) = {i}
    <3>1. ParseInv => doc \in Document
      BY DEF ParseInv, TypeInv
    <3> QED BY <3>1, TagsChecked DEF DocumentsJudged, ParseInv, Judged
  <2>1. /\ Balanced(at) /\ Framed(at, frames) /\ EndsClose(at) /\ OneRoot(at) /\ frames = <<>>
        /\ doc \in Document /\ at \in 1..(Len(Tokens) + 1) /\ Len(Tokens) \in Nat
        /\ Positions = 1..Len(Tokens)
    BY TokensFinite DEF ParseInv, TreeInv, TypeInv
  <2>2. PICK r \in Nat : RootsBefore(at) = {r}
    BY <2>1 DEF OneRoot
  <2>3. \A i \in Roots : i \in Nat \ {0} /\ (i < at <=> i \in 1..(at - 1))
    BY <2>1 DEF Roots, Starts
  <2>4. Roots \cap (1..(at - 1)) = {r} /\ r \in 1..(at - 1)
    BY <2>2, <2>3 DEF RootsBefore
  <2>5. at - 1 \in Positions
    BY <2>1, <2>4
  <2>6. Nested(at - 1)
    BY <2>1 DEF Nested, EndsClose, Framed
  <2> QED BY <2>4, <2>5, <2>6
<1> QED BY <1>1, ParseAlways, PTL

\* The first of a set of positions.
LEMMA FirstPosition ==
  ASSUME NEW n \in Nat, NEW S \in SUBSET (1..n), S # {}
  PROVE  \E m \in S : \A k \in S : m <= k
<1> DEFINE T == {n + 1 - i : i \in S}
<1>1. T \in SUBSET (1..n) /\ T # {}
  <2>1. \A i \in S : n + 1 - i \in 1..n /\ n + 1 - i \in T
    OBVIOUS
  <2>2. T \subseteq 1..n
    BY <2>1
  <2>3. PICK i \in S : TRUE
    OBVIOUS
  <2> QED BY <2>1, <2>2, <2>3
<1>2. PICK t \in T : \A k \in T : k <= t
  <2> HIDE DEF T
  <2> QED BY <1>1, LastPosition
<1>3. PICK m \in S : t = n + 1 - m
  OBVIOUS
<1>4. \A k \in S : m <= k
  <2> SUFFICES ASSUME NEW k \in S PROVE m <= k
    OBVIOUS
  <2>1. n + 1 - k \in T
    OBVIOUS
  <2>2. n + 1 - k <= n + 1 - m
    BY <1>2, <1>3, <2>1
  <2> QED BY <2>2
<1> QED BY <1>4

\* Past the end of the root of a well-formed document no element starts.
LEMMA NothingAfterRoot ==
  ASSUME doc \in Document, WellFormed, NEW n \in Nat \ {0}, Enclosing(n) = {}, OneRoot(n)
  PROVE  StartsBefore(n) = Starts
<1>1. Starts \subseteq 1..Len(Tokens) /\ Len(Tokens) \in Nat
  BY TokensFinite DEF Starts
<1>2. PICK r \in Nat : RootsBefore(n) = {r}
  BY DEF OneRoot
<1>3. Roots = {r} /\ r < n
  BY <1>2 DEF WellFormed, RootsBefore
<1>4. ASSUME NEW j \in Starts, ~(j < n) PROVE FALSE
  <2>1. j \in 1..Len(Tokens) /\ j \notin Roots
    BY <1>1, <1>3, <1>4
  <2>2. Enclosing(j) # {} /\ Enclosing(j) \in SUBSET (1..j) /\ j \in Nat \ {0}
    BY <2>1 DEF Roots, Enclosing
  <2>3. PICK f \in Enclosing(j) : \A k \in Enclosing(j) : f <= k
    BY <2>2, FirstPosition
  <2>4. Enclosing(f) = {}
    <3>1. Enclosing(f) = {k \in Enclosing(j) : k < f}
      BY <2>2, EnclosingOf
    <3>2. \A k \in Enclosing(j) : k \in Nat
      BY <2>2
    <3> QED BY <2>3, <3>1, <3>2
  <2>5. f \in Starts
    BY <2>1, <1>1, TokensFinite DEF Enclosing, Opens, Starts
  <2>6. f = r
    BY <1>3, <2>4, <2>5 DEF Roots
  <2>7. f \in 1..(j - 1) /\ Opens(f) /\ \A k \in f..(j - 1) : Depth(k) >= Depth(f)
    BY DEF Enclosing
  <2>8. f \in 1..(n - 1) /\ \A k \in f..(n - 1) : k \in f..(j - 1)
    BY <1>1, <1>3, <1>4, <2>1, <2>6, <2>7
  <2>9. f \in Enclosing(n)
    BY <2>7, <2>8 DEF Enclosing
  <2> QED BY <2>9
<1> QED BY <1>4 DEF StartsBefore

\* The elements of a valid document are those of its text, each with its name,
\* its namespaces and its parent (parseElement in reader/tree.go).
THEOREM TreeAlwaysFaithful == Spec => []TreeFaithful
<1>1. ParseInv => TreeFaithful
  <2> SUFFICES ASSUME ParseInv, phase = "valid", WellFormed
               PROVE  /\ Len(elements) = Cardinality(Starts)
                      /\ \A k \in DOMAIN elements : Represents(elements[k], ElementAt(k))
    BY DEF TreeFaithful
  <2>1. /\ Balanced(at) /\ Framed(at, frames) /\ OneRoot(at) /\ frames = <<>>
        /\ BuiltBefore(at, elements)
        /\ doc \in Document /\ at \in Nat \ {0} /\ elements \in Seq(Built)
    BY TokensFinite DEF ParseInv, TreeInv, TypeInv
  <2>2. Enclosing(at) = {}
    BY <2>1, InnermostDepth DEF Framed
  <2>3. StartsBefore(at) = Starts
    BY <2>1, <2>2, NothingAfterRoot
  <2>4. {j \in Starts : j <= at - 1} = Starts
    <3>1. \A j \in Starts : j \in Int
      BY <2>1, TokensFinite DEF Starts
    <3>2. \A j \in Starts : j < at
      BY <2>3 DEF StartsBefore
    <3>3. \A j \in Starts : j <= at - 1
      BY <2>1, <3>1, <3>2
    <3> QED BY <3>3
  <2>5. Len(elements) = Cardinality(Starts)
    BY <2>1, <2>4 DEF BuiltBefore, Rank
  <2>6. ASSUME NEW k \in DOMAIN elements
        PROVE  Represents(elements[k], ElementAt(k))
    <3>1. k \in 1..Len(elements)
      BY <2>1
    <3>2. PICK i \in StartsBefore(at) : Rank(i) = k
      BY <2>1, <3>1 DEF BuiltBefore
    <3>3. Represents(elements[k], i)
      BY <2>1, <3>2 DEF BuiltBefore
    <3>4. ElementAt(k) = i
      BY <2>1, <3>2, ElementAtRank DEF StartsBefore
    <3> QED BY <3>3, <3>4
  <2> QED BY <2>5, <2>6
<1> QED BY <1>1, ParseAlways, PTL
=============================================================================
