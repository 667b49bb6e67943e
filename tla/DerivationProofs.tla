--------------------------- MODULE DerivationProofs ---------------------------
(***************************************************************************)
(* Proofs about Derivation, for every set of schemas.                      *)
(***************************************************************************)
EXTENDS Derivation, FiniteSetTheorems, NaturalsInduction, SequenceTheorems, TLAPS

\* The calls use resolving sets that exist, an inner call none that an outer
\* one dropped; a type that waits to be folded knows its base.
Levels ==
  /\ Len(seen) >= 1
  /\ \A i \in 1..Len(stack) : stack[i].level \in 1..Len(seen)
  /\ \A i, j \in 1..Len(stack) : i < j => stack[i].level <= stack[j].level
BasesKnown ==
  \A i \in 1..Len(stack) : stack[i].phase = "fold" => parent[stack[i].of] \in Type

AttrsTyped == attrs \in [Type -> Seq(AttrDecl)]

TypeInv == schema \in Schemas /\ TypeOK /\ Levels /\ BasesKnown /\ AttrsTyped
-----------------------------------------------------------------------------
\* A set of naturals has a least element.
LEMMA LeastNatural ==
  ASSUME NEW S \in SUBSET Nat, S # {}
  PROVE  \E j \in S : \A k \in S : j <= k
<1> DEFINE R == {ss \in Nat \X Nat : ss[1] < ss[2]}
<1>1. IsWellFoundedOn(R, Nat)
  BY NatLessThanWellFounded, Zenon DEF OpToRel
<1>2. PICK x \in S : \A y \in S : ~(<<y, x>> \in R)
  <2> HIDE DEF R
  <2> QED BY <1>1, WFMin
<1>3. \A y \in S : ~(y < x)
  BY <1>2
<1> QED BY <1>3

(* Sequences put one after the other.                                      *)

LEMMA Upwards ==
  ASSUME NEW S, 0 \in S, \A m \in Nat : m \in S => m + 1 \in S
  PROVE  Nat \subseteq S
<1> SUFFICES ASSUME NEW k \in Nat, k \notin S PROVE FALSE
  OBVIOUS
<1> DEFINE T == {m \in Nat : m \notin S}
<1>1. PICK m \in T : \A i \in T : m <= i
  <2>1. T \in SUBSET Nat /\ T # {}
    OBVIOUS
  <2> HIDE DEF T
  <2> QED BY <2>1, LeastNatural
<1>2. m # 0 /\ m - 1 \in Nat /\ ~(m <= m - 1)
  BY <1>1
<1>3. m - 1 \in S
  BY <1>1, <1>2
<1>4. (m - 1) + 1 = m /\ m \notin S
  BY <1>1
<1> QED BY <1>2, <1>3, <1>4

Flattens(q, f, m) == f = [i \in 1..m |-> IF i = 1 THEN q[i] ELSE f[i - 1] \o q[i]]

\* The partial concatenations of any sequence of sequences exist.
LEMMA FlattenedUpto == ASSUME NEW q PROVE \A m \in Nat : \E f : Flattens(q, f, m)
<1> DEFINE S == {m \in Nat : \E f : Flattens(q, f, m)}
<1>1. 0 \in S
  <2>1. Flattens(q, [i \in 1..0 |-> 0], 0)
    BY DEF Flattens
  <2> QED BY <2>1
<1>2. ASSUME NEW m \in Nat, m \in S
      PROVE  m + 1 \in S
  <2>1. PICK f : Flattens(q, f, m)
    BY <1>2
  <2> DEFINE v(i, h) == IF i = 1 THEN q[i] ELSE h[i - 1] \o q[i]
             g == [i \in 1..m + 1 |-> v(i, f)]
  <2>2. ASSUME NEW i \in 1..m + 1
        PROVE  v(i, f) = v(i, g)
    <3>1. CASE i = 1
      BY <3>1
    <3>2. CASE i # 1
      <4>1. i - 1 \in 1..m /\ i - 1 \in 1..m + 1
        BY <3>2
      <4>2. f[i - 1] = v(i - 1, f)
        BY <2>1, <4>1, Zenon DEF Flattens
      <4>3. g[i - 1] = v(i - 1, f)
        BY <4>1
      <4> HIDE DEF g
      <4> QED BY <3>2, <4>2, <4>3
    <3> QED BY <3>1, <3>2
  <2>3. g = [i \in 1..m + 1 |-> v(i, g)]
    <3> HIDE DEF v
    <3> QED BY <2>2, Zenon
  <2>4. Flattens(q, g, m + 1)
    BY <2>3, Zenon DEF Flattens
  <2> QED BY <2>4
<1>3. Nat \subseteq S
  <2> HIDE DEF S
  <2> QED BY <1>1, <1>2, Upwards
<1> QED BY <1>3

\* h[i] is what the first i sequences of q are together.
Sums(q, h) == h[0] = <<>> /\ \A i \in 1..Len(q) : h[i] = h[i - 1] \o q[i]

LEMMA FlattenSums ==
  ASSUME NEW S, NEW q \in Seq(Seq(S))
  PROVE  \E h : Sums(q, h) /\ FlattenSeq(q) = h[Len(q)]
<1> DEFINE n == Len(q)
<1>1. n \in Nat /\ \A i \in 1..n : q[i] \in Seq(S)
  OBVIOUS
<1>2. CASE n = 0
  <2>1. FlattenSeq(q) = <<>>
    BY <1>2 DEF FlattenSeq
  <2> DEFINE h == [i \in 0..0 |-> <<>>]
  <2>2. h[0] = <<>> /\ \A i \in 1..n : FALSE
    BY <1>2
  <2> HIDE DEF h
  <2>3. Sums(q, h)
    BY <2>2 DEF Sums
  <2> QED BY <1>2, <2>1, <2>2, <2>3
<1>3. CASE n # 0
  <2> DEFINE f == CHOOSE f : Flattens(q, f, n)
             h == [i \in 0..n |-> IF i = 0 THEN <<>> ELSE f[i]]
  <2>1. FlattenSeq(q) = f[n]
    BY <1>3, Zenon DEF FlattenSeq, Flattens
  <2>2. Flattens(q, f, n)
    BY <1>1, FlattenedUpto
  <2> HIDE DEF f
  <2>3. \A i \in 1..n : f[i] = IF i = 1 THEN q[i] ELSE f[i - 1] \o q[i]
    BY <2>2, Zenon DEF Flattens
  <2>4. \A i \in 1..n : h[i] = h[i - 1] \o q[i]
    <3> TAKE i \in 1..n
    <3>1. CASE i = 1
      <4>1. h[i - 1] = <<>> /\ h[i] = q[i]
        BY <2>3, <3>1
      <4>2. q[i] \in Seq(S) /\ <<>> \o q[i] = q[i]
        BY <1>1
      <4> HIDE DEF h
      <4> QED BY <4>1, <4>2
    <3>2. CASE i # 1
      <4>1. i - 1 \in 1..n /\ i - 1 \in 0..n /\ i - 1 # 0 /\ i \in 0..n /\ i # 0
        BY <1>1, <3>2
      <4>2. h[i - 1] = f[i - 1] /\ h[i] = f[i]
        BY <4>1
      <4> QED BY <2>3, <3>2, <4>2
    <3> QED BY <3>1, <3>2
  <2>5. h[0] = <<>> /\ h[n] = f[n]
    BY <1>1, <1>3
  <2> HIDE DEF h
  <2>6. Sums(q, h)
    BY <2>4, <2>5 DEF Sums
  <2> QED BY <2>1, <2>5, <2>6
<1> QED BY <1>2, <1>3

\* There is but one such function, and it holds sequences.
LEMMA SumsAlike ==
  ASSUME NEW q, Len(q) \in Nat, NEW h, NEW k, Sums(q, h), Sums(q, k)
  PROVE  h[Len(q)] = k[Len(q)]
<1> DEFINE T == {m \in Nat : m <= Len(q) => h[m] = k[m]}
<1>1. 0 \in T
  BY DEF Sums
<1>2. ASSUME NEW m \in Nat, m \in T
      PROVE  m + 1 \in T
  <2> SUFFICES ASSUME m + 1 <= Len(q) PROVE h[m + 1] = k[m + 1]
    OBVIOUS
  <2>1. m + 1 \in 1..Len(q) /\ (m + 1) - 1 = m /\ h[m] = k[m]
    BY <1>2
  <2> QED BY <2>1 DEF Sums
<1>3. Nat \subseteq T
  <2> HIDE DEF T
  <2> QED BY <1>1, <1>2, Upwards
<1> QED BY <1>3

LEMMA SumsTyped ==
  ASSUME NEW S, NEW q \in Seq(Seq(S)), NEW h, Sums(q, h)
  PROVE  \A i \in 0..Len(q) : h[i] \in Seq(S)
<1> DEFINE T == {m \in Nat : m <= Len(q) => h[m] \in Seq(S)}
<1>1. 0 \in T
  <2>1. h[0] = <<>> /\ <<>> \in Seq(S)
    BY DEF Sums
  <2> QED BY <2>1
<1>2. ASSUME NEW m \in Nat, m \in T
      PROVE  m + 1 \in T
  <2> SUFFICES ASSUME m + 1 <= Len(q) PROVE h[m + 1] \in Seq(S)
    OBVIOUS
  <2>1. m + 1 \in 1..Len(q) /\ (m + 1) - 1 = m /\ h[m] \in Seq(S) /\ q[m + 1] \in Seq(S)
    BY <1>2
  <2>2. h[m + 1] = h[m] \o q[m + 1]
    BY <2>1 DEF Sums
  <2> QED BY <2>1, <2>2
<1>3. Nat \subseteq T
  <2> HIDE DEF T
  <2> QED BY <1>1, <1>2, Upwards
<1> QED BY <1>3

LEMMA FlattenIs ==
  ASSUME NEW S, NEW q \in Seq(Seq(S)), NEW h, Sums(q, h)
  PROVE  FlattenSeq(q) = h[Len(q)] /\ FlattenSeq(q) \in Seq(S)
<1>1. PICK k : Sums(q, k) /\ FlattenSeq(q) = k[Len(q)]
  BY FlattenSums
<1>2. Len(q) \in Nat /\ Len(q) \in 0..Len(q)
  OBVIOUS
<1>3. h[Len(q)] = k[Len(q)]
  BY <1>1, <1>2, SumsAlike
<1>4. h[Len(q)] \in Seq(S)
  BY <1>2, SumsTyped
<1> QED BY <1>1, <1>3, <1>4

LEMMA FlattenTyped ==
  ASSUME NEW S, NEW q \in Seq(Seq(S))
  PROVE  FlattenSeq(q) \in Seq(S)
BY FlattenSums, FlattenIs

LEMMA FlattenConcat ==
  ASSUME NEW S, NEW q \in Seq(Seq(S)), NEW r \in Seq(Seq(S))
  PROVE  FlattenSeq(q \o r) = FlattenSeq(q) \o FlattenSeq(r)
<1>1. PICK h : Sums(q, h) /\ FlattenSeq(q) = h[Len(q)]
  BY FlattenSums
<1>2. PICK k : Sums(r, k) /\ FlattenSeq(r) = k[Len(r)]
  BY FlattenSums
<1> DEFINE n == Len(q)
           m == Len(r)
           g == [i \in 0..(n + m) |-> IF i <= n THEN h[i] ELSE h[n] \o k[i - n]]
           z == q \o r
<1>3. n \in Nat /\ m \in Nat /\ z \in Seq(Seq(S)) /\ Len(z) = n + m
  OBVIOUS
<1>4. \A i \in 0..n : h[i] \in Seq(S)
  BY <1>1, SumsTyped
<1>5. \A i \in 0..m : k[i] \in Seq(S)
  BY <1>2, SumsTyped
<1>6. ASSUME NEW i \in 1..(n + m)
      PROVE  g[i] = g[i - 1] \o z[i]
  <2>1. CASE i <= n
    <3>1. i \in 1..n /\ i - 1 \in 0..(n + m) /\ i - 1 <= n /\ i \in 0..(n + m)
      BY <1>3, <2>1
    <3>2. g[i] = h[i] /\ g[i - 1] = h[i - 1] /\ z[i] = q[i]
      BY <3>1
    <3> QED BY <1>1, <3>1, <3>2 DEF Sums
  <2>2. CASE ~(i <= n)
    <3> DEFINE j == i - n
    <3>1. /\ j \in 1..m /\ j - 1 \in 0..m /\ j \in 0..m /\ i - 1 \in 0..(n + m) /\ i \in 0..(n + m)
          /\ z[i] = r[j] /\ (i - 1) - n = j - 1
      BY <1>3, <2>2
    <3>2. g[i] = h[n] \o k[j]
      BY <2>2, <3>1
    <3>3. g[i - 1] = h[n] \o k[j - 1]
      <4>1. CASE i - 1 <= n
        <5>1. i - 1 = n /\ j - 1 = 0
          BY <1>3, <2>2, <4>1
        <5>2. g[i - 1] = h[n]
          BY <3>1, <5>1
        <5>3. k[j - 1] = <<>>
          BY <1>2, <5>1 DEF Sums
        <5>4. h[n] \in Seq(S)
          BY <1>3, <1>4
        <5> HIDE DEF g, j
        <5>5. h[n] \o <<>> = h[n]
          BY <5>4
        <5> QED BY <5>2, <5>3, <5>5
      <4>2. CASE ~(i - 1 <= n)
        BY <3>1, <4>2
      <4> QED BY <4>1, <4>2
    <3>4. k[j] = k[j - 1] \o r[j]
      BY <1>2, <3>1 DEF Sums
    <3>5. h[n] \in Seq(S) /\ k[j - 1] \in Seq(S) /\ r[j] \in Seq(S)
      <4>1. n \in 0..n
        BY <1>3
      <4> HIDE DEF j, n
      <4> QED BY <1>4, <1>5, <3>1, <4>1, ElementOfSeq DEF m
    <3> HIDE DEF g, j, z
    <3>6. h[n] \o (k[j - 1] \o r[j]) = (h[n] \o k[j - 1]) \o r[j]
      <4>1. ASSUME NEW a \in Seq(S), NEW b \in Seq(S), NEW c \in Seq(S)
            PROVE  a \o (b \o c) = (a \o b) \o c
        BY ConcatAssociative, SMTT(60)
      <4> QED BY <3>5, <4>1, Zenon
    <3> QED BY <3>1, <3>2, <3>3, <3>4, <3>6
  <2> QED BY <2>1, <2>2
<1>7. Sums(z, g)
  <2>1. g[0] = h[0] /\ h[0] = <<>>
    BY <1>1, <1>3 DEF Sums
  <2> HIDE DEF g, z
  <2> QED BY <1>3, <1>6, <2>1 DEF Sums
<1>8. g[n + m] = h[n] \o k[m]
  <2>1. CASE m = 0
    <3>1. k[m] = <<>> /\ h[n] \in Seq(S) /\ g[n + m] = h[n]
      BY <1>2, <1>3, <1>4, <2>1 DEF Sums
    <3> QED BY <3>1
  <2>2. CASE m # 0
    <3>1. n + m \in 0..(n + m) /\ ~(n + m <= n) /\ (n + m) - n = m
      BY <1>3, <2>2
    <3> QED BY <3>1
  <2> QED BY <2>1, <2>2
<1> HIDE DEF g, z
<1>9. FlattenSeq(z) = g[Len(z)]
  BY <1>3, <1>7, FlattenIs
<1> QED BY <1>1, <1>2, <1>3, <1>8, <1>9 DEF z

LEMMA FlattenSingles ==
  ASSUME NEW S, NEW c \in Seq(S), NEW q, q = [i \in 1..Len(c) |-> <<c[i]>>]
  PROVE  q \in Seq(Seq(S)) /\ FlattenSeq(q) = c
<1> DEFINE n == Len(c)
           h == [i \in 0..n |-> SubSeq(c, 1, i)]
<1>1. n \in Nat /\ q \in Seq(Seq(S)) /\ Len(q) = n
  OBVIOUS
<1>2. \A i \in 1..n : h[i] = h[i - 1] \o q[i]
  <2> TAKE i \in 1..n
  <2>1. i - 1 \in 0..n /\ i \in 0..n
    OBVIOUS
  <2>2. SubSeq(c, 1, i) = SubSeq(c, 1, i - 1) \o <<c[i]>>
    OBVIOUS
  <2> QED BY <2>1, <2>2
<1>3. h[0] = <<>> /\ h[n] = c
  BY <1>1
<1> HIDE DEF h
<1>4. Sums(q, h)
  BY <1>1, <1>2, <1>3 DEF Sums
<1> QED BY <1>1, <1>3, <1>4, FlattenIs

LEMMA FlattenOne ==
  ASSUME NEW S, NEW x \in Seq(S)
  PROVE  <<x>> \in Seq(Seq(S)) /\ FlattenSeq(<<x>>) = x
<1> DEFINE h == [i \in 0..1 |-> IF i = 0 THEN <<>> ELSE x]
<1>1. <<x>> \in Seq(Seq(S)) /\ Len(<<x>>) = 1 /\ <<x>>[1] = x /\ <<>> \o x = x
  OBVIOUS
<1>2. h[0] = <<>> /\ h[1] = x
  OBVIOUS
<1> HIDE DEF h
<1>3. \A i \in 1..1 : i = 1 /\ i - 1 = 0
  OBVIOUS
<1>4. Sums(<<x>>, h)
  BY <1>1, <1>2, <1>3 DEF Sums
<1> QED BY <1>1, <1>2, <1>4, FlattenIs
-----------------------------------------------------------------------------
\* What the schema is made of.
LEMMA SchemaTyped ==
  ASSUME schema \in Schemas
  PROVE  /\ schema.global \subseteq Element /\ schema.named \subseteq Type
         /\ schema.content \in [Type -> Content]
         /\ schema.traits \in [Type -> SUBSET Trait]
         /\ schema.attrGroupRefs \in [Type -> Seq(AttrGroup)]
         /\ schema.base \in [Type -> Type \cup {NoType, Simple, Missing}]
         /\ schema.alternatives \in [Element -> Seq(Type \cup {Simple, Missing})]
         /\ schema.groups \in [Group -> Content]
         /\ schema.groupNames \subseteq Group
BY DerivationAssumption DEF Schema

\* NextToken returns 0 or the place of such a token.
LEMMA NextTokenIsToken ==
  ASSUME NEW t, NEW n \in Nat \ {0}, NEW kinds, Len(content[t]) \in Nat
  PROVE  \/ NextToken(t, n, kinds) = 0
         \/ /\ NextToken(t, n, kinds) \in 1..Len(content[t])
            /\ content[t][NextToken(t, n, kinds)].kind \in kinds
<1> DEFINE is == {j \in n..Len(content[t]) : content[t][j].kind \in kinds}
<1>0. NextToken(t, n, kinds) = IF is = {} THEN 0 ELSE CHOOSE j \in is : \A k \in is : j <= k
  BY DEF NextToken
<1>1. CASE is = {}
  BY <1>0, <1>1
<1>2. CASE is # {}
  <2>1. is \in SUBSET Nat
    OBVIOUS
  <2> HIDE DEF is
  <2>2. \E j \in is : \A k \in is : j <= k
    BY <1>2, <2>1, LeastNatural
  <2>3. NextToken(t, n, kinds) \in is
    BY <1>0, <1>2, <2>2
  <2> QED BY <2>3 DEF is
<1> QED BY <1>1, <1>2

\* The call at the top of the stack.
LEMMA TopTyped ==
  ASSUME TypeOK, stack # <<>>
  PROVE  /\ Len(stack) \in Nat \ {0} /\ Top \in Frame
         /\ Top.kind = "type" => Top \in TypeFrames /\ Top.of \in Type
         /\ Top.kind = "element" => Top \in ElementFrames /\ Top.of \in Element
<1>1. Len(stack) \in Nat \ {0} /\ Top \in Frame
  BY DEF TypeOK, Top
<1> QED BY <1>1 DEF Frame, TypeFrames, ElementFrames
-----------------------------------------------------------------------------
(* How an action moves the stack.                                          *)

LEMMA MovedTyped ==
  ASSUME TypeOK, stack # <<>>, Top.kind = "type",
         NEW phase \in {"derive", "fold", "expand", "groups", "walk"}, NEW at \in Nat \ {0}
  PROVE  /\ Moved(stack, phase, at) \in Seq(Frame)
         /\ Len(Moved(stack, phase, at)) = Len(stack)
         /\ \A i \in 1..Len(stack) : i # Len(stack) => Moved(stack, phase, at)[i] = stack[i]
         /\ Moved(stack, phase, at)[Len(stack)].of = Top.of
         /\ Moved(stack, phase, at)[Len(stack)].kind = "type"
         /\ Moved(stack, phase, at)[Len(stack)].level = Top.level
         /\ Moved(stack, phase, at)[Len(stack)].phase = phase
<1>1. Top \in TypeFrames /\ Len(stack) \in Nat \ {0} /\ stack \in Seq(Frame)
  BY TopTyped DEF TypeOK
<1>2. [Top EXCEPT !.phase = phase, !.at = at] \in TypeFrames
  BY <1>1 DEF TypeFrames
<1>3. Moved(stack, phase, at) = [stack EXCEPT ![Len(stack)] = [Top EXCEPT !.phase = phase, !.at = at]]
  BY DEF Moved, Top
<1> QED BY <1>1, <1>2, <1>3 DEF Frame, TypeFrames

LEMMA BelowTyped ==
  ASSUME TypeOK, stack # <<>>
  PROVE  /\ SubSeq(stack, 1, Len(stack) - 1) \in Seq(Frame)
         /\ Len(SubSeq(stack, 1, Len(stack) - 1)) = Len(stack) - 1
         /\ \A i \in 1..(Len(stack) - 1) : SubSeq(stack, 1, Len(stack) - 1)[i] = stack[i]
<1> DEFINE n == Len(stack) - 1
<1>1. /\ stack \in Seq(Frame) /\ Len(stack) \in Nat \ {0} /\ n \in Int
      /\ \A i \in 1..n : stack[i] \in Frame
  BY DEF TypeOK
<1> HIDE DEF n
<1>2. /\ SubSeq(stack, 1, n) \in Seq(Frame)
      /\ Len(SubSeq(stack, 1, n)) = IF 1 <= n THEN n - 1 + 1 ELSE 0
      /\ \A i \in 1..(n - 1 + 1) : SubSeq(stack, 1, n)[i] = stack[1 + i - 1]
  BY <1>1, SubSeqProperties
<1>3. n >= 0
  BY <1>1 DEF n
<1>4. Len(SubSeq(stack, 1, n)) = n /\ \A i \in 1..n : SubSeq(stack, 1, n)[i] = stack[i]
  BY <1>1, <1>2, <1>3
<1> QED BY <1>2, <1>4 DEF n

\* After an element the caller goes on with the next token.
LEMMA ReturnedTyped ==
  ASSUME TypeOK, stack # <<>>
  PROVE  /\ Returned \in Seq(Frame)
         /\ Len(Returned) = Len(stack) - 1
         /\ \A i \in 1..Len(Returned) : /\ Returned[i].of = stack[i].of
                                        /\ Returned[i].kind = stack[i].kind
                                        /\ Returned[i].phase = stack[i].phase
                                        /\ Returned[i].level = stack[i].level
                                        /\ Returned[i].calls = stack[i].calls
<1> DEFINE below == SubSeq(stack, 1, Len(stack) - 1)
<1>1. /\ below \in Seq(Frame) /\ Len(below) = Len(stack) - 1 /\ Len(stack) \in Nat \ {0}
      /\ \A i \in 1..Len(below) : below[i] = stack[i] /\ below[i] \in Frame
  BY BelowTyped, TopTyped
<1> HIDE DEF below
<1>2. CASE below = <<>>
  BY <1>1, <1>2 DEF Returned, below
<1>3. CASE below # <<>>
  <2> DEFINE f == below[Len(below)]
             g == [f EXCEPT !.at = @ + 1]
  <2>1. f \in Frame
    BY <1>1, <1>3
  <2>2. /\ g \in Frame /\ g.of = f.of /\ g.kind = f.kind /\ g.phase = f.phase
        /\ g.level = f.level /\ g.calls = f.calls
    BY <2>1 DEF Frame, TypeFrames, ElementFrames
  <2>3. Returned = [below EXCEPT ![Len(below)] = g]
    BY <1>3 DEF Returned, Advanced, below
  <2>4. Len(below) \in 1..Len(below)
    BY <1>1, <1>3
  <2> HIDE DEF f, g
  <2>5. /\ Returned \in Seq(Frame) /\ Len(Returned) = Len(below)
        /\ Returned[Len(below)] = g
        /\ \A i \in 1..Len(below) : i # Len(below) => Returned[i] = below[i]
    BY <1>1, <2>2, <2>3, <2>4
  <2>6. f = stack[Len(below)]
    BY <1>1, <2>4 DEF f
  <2> QED BY <1>1, <2>2, <2>5, <2>6
<1> QED BY <1>2, <1>3

\* Entering a type pushes its frame and marks it, or does nothing.
LEMMA EnterStep ==
  ASSUME TypeOK, NEW frames \in Seq(Frame), NEW t,
         NEW level \in 1..Len(seen), Enter(frames, t, level)
  PROVE  /\ stack' \in Seq(Frame)
         /\ seen' \in Seq(SUBSET Type) /\ Len(seen') = Len(seen)
         /\ \/ stack' = frames /\ seen' = seen
            \/ /\ t \in Type /\ t \notin seen[level]
               /\ stack' = Append(frames, TypeFrame(t, level))
               /\ Len(stack') = Len(frames) + 1
               /\ \A i \in 1..Len(frames) : stack'[i] = frames[i]
               /\ stack'[Len(frames) + 1] = TypeFrame(t, level)
               /\ seen' = [seen EXCEPT ![level] = @ \cup {t}]
<1>1. CASE t \in Type /\ t \notin seen[level]
  <2>1. TypeFrame(t, level) \in Frame
    BY <1>1 DEF TypeFrame, TypeFrames, Frame
  <2>2. seen' \in Seq(SUBSET Type) /\ Len(seen') = Len(seen)
    <3>1. seen \in Seq(SUBSET Type) /\ seen[level] \cup {t} \in SUBSET Type
      BY <1>1 DEF TypeOK
    <3>2. seen' = [seen EXCEPT ![level] = seen[level] \cup {t}]
      BY <1>1 DEF Enter
    <3> QED BY <3>1, <3>2, ExceptSeq
  <2>3. stack' = Append(frames, TypeFrame(t, level)) /\ seen' = [seen EXCEPT ![level] = @ \cup {t}]
    BY <1>1 DEF Enter
  <2>4. /\ stack' \in Seq(Frame) /\ Len(stack') = Len(frames) + 1
        /\ \A i \in 1..Len(frames) : stack'[i] = frames[i]
        /\ stack'[Len(frames) + 1] = TypeFrame(t, level)
    BY <2>1, <2>3
  <2> QED BY <1>1, <2>2, <2>3, <2>4
<1>2. CASE ~(t \in Type /\ t \notin seen[level])
  BY <1>2 DEF Enter, TypeOK
<1> QED BY <1>1, <1>2

\* The type returns: its frame goes, and the resolving sets its caller does
\* not use.
LEMMA ReturnStep ==
  ASSUME TypeInv, Return
  PROVE  /\ stack' \in Seq(Frame) /\ Len(stack') = Len(stack) - 1
         /\ \A i \in 1..Len(stack') : stack'[i] = stack[i]
         /\ seen' \in Seq(SUBSET Type) /\ Len(seen') >= 1
         /\ \A i \in 1..Len(stack') : stack[i].level \in 1..Len(seen')
         /\ Len(seen') <= Len(seen)
         /\ \A i \in 1..Len(seen') : seen'[i] = seen[i]
<1> DEFINE n == IF Len(stack) = 1 THEN 1 ELSE Caller.level
<1>1. stack # <<>> /\ Len(stack) \in Nat \ {0} /\ stack \in Seq(Frame) /\ seen \in Seq(SUBSET Type)
  BY TopTyped DEF Return, AtType, TypeInv, TypeOK
<1>2. /\ stack' \in Seq(Frame) /\ Len(stack') = Len(stack) - 1
      /\ \A i \in 1..Len(stack') : stack'[i] = stack[i]
  BY <1>1, BelowTyped DEF Return, TypeInv
<1>3. n \in 1..Len(seen)
  <2>1. CASE Len(stack) = 1
    BY <1>1, <2>1 DEF TypeInv, Levels
  <2>2. CASE Len(stack) # 1
    <3>0. Len(stack) \in Nat /\ Len(stack) # 0
      BY <1>1
    <3>1. Len(stack) - 1 \in 1..Len(stack)
      BY <2>2, <3>0
    <3>2. n = stack[Len(stack) - 1].level
      BY <2>2 DEF Caller
    <3> HIDE DEF n
    <3> QED BY <3>1, <3>2 DEF TypeInv, Levels
  <2> QED BY <2>1, <2>2
<1>4. seen' = SubSeq(seen, 1, n)
  BY DEF Return
<1>5. \A i \in 1..Len(stack') : stack[i].level \in 1..n
  <2> SUFFICES ASSUME NEW i \in 1..Len(stack') PROVE stack[i].level \in 1..n
    OBVIOUS
  <2>1. i \in 1..Len(stack) /\ Len(stack) - 1 \in 1..Len(stack) /\ Len(stack) # 1
    BY <1>1, <1>2
  <2>2. i < Len(stack) - 1 => stack[i].level <= stack[Len(stack) - 1].level
    BY <2>1 DEF TypeInv, Levels
  <2>3. stack[i].level \in 1..Len(seen) /\ n = stack[Len(stack) - 1].level
    BY <2>1 DEF TypeInv, Levels, Caller
  <2> QED BY <1>1, <1>2, <1>3, <2>1, <2>2, <2>3
<1> HIDE DEF n
<1>6. /\ SubSeq(seen, 1, n) \in Seq(SUBSET Type) /\ Len(SubSeq(seen, 1, n)) = n
      /\ \A i \in 1..n : SubSeq(seen, 1, n)[i] = seen[i]
  BY <1>1, <1>3
<1> QED BY <1>1, <1>2, <1>3, <1>4, <1>5, <1>6
-----------------------------------------------------------------------------
(* What the models become.                                                 *)

LEMMA ConcatTyped ==
  ASSUME NEW b \in Content, NEW own \in Content
  PROVE  ConcatContent(b, own) \in Content
<1>1. Open("sequence", 1) \in Bracket /\ Close \in Bracket
  BY DEF Open, Close, Bracket, Compositor
<1> DEFINE T == Bracket \cup Particles \cup GroupRef
<1>2. Open("sequence", 1) \in T /\ Close \in T
  BY <1>1
<1> HIDE DEF T
<1>3. ASSUME NEW o \in T, NEW c \in T, NEW x \in Seq(T), NEW y \in Seq(T)
      PROVE  <<o>> \o x \o y \o <<c>> \in Seq(T)
  BY <1>3
<1>4. <<Open("sequence", 1)>> \o b \o own \o <<Close>> \in Seq(T)
  BY <1>2, <1>3 DEF Content, T
<1> QED BY <1>4 DEF ConcatContent, Content, T

LEMMA FoldTyped ==
  ASSUME TypeInv, Fold
  PROVE  content' \in [Type -> Content] /\ traits' \in [Type -> SUBSET Trait]
         /\ folds' \in [Type -> Nat]
<1>1. Top.of \in Type /\ Top.phase = "fold" /\ Len(stack) \in 1..Len(stack)
  BY TopTyped DEF Fold, AtType, TypeInv
<1>2. parent[Top.of] \in Type
  BY <1>1 DEF TypeInv, BasesKnown, Top
<1>3. ConcatContent(content[parent[Top.of]], content[Top.of]) \in Content
  BY <1>1, <1>2, ConcatTyped DEF TypeInv, TypeOK
<1>4. content' \in [Type -> Content]
  BY <1>1, <1>3 DEF Fold, TypeInv, TypeOK
<1>5. traits' \in [Type -> SUBSET Trait]
  BY <1>1, <1>2 DEF Fold, TypeInv, TypeOK, Trait
<1>6. folds' \in [Type -> Nat]
  BY <1>1 DEF Fold, TypeInv, TypeOK
<1> QED BY <1>4, <1>5, <1>6

\* The token an expansion replaces is one that names a group.
LEMMA GroupAtTyped ==
  ASSUME TypeInv, ExpandGroup
  PROVE  /\ Top.of \in Type /\ GroupAt \in 1..Len(content[Top.of])
         /\ content[Top.of] \in Content /\ Here \in GroupRef /\ Here.of \in Group
<1>1. Top.of \in Type /\ content[Top.of] \in Content
  BY TopTyped DEF ExpandGroup, AtType, TypeInv, TypeOK
<1>2. Len(content[Top.of]) \in Nat
  BY <1>1 DEF Content
<1>3. GroupAt \in 1..Len(content[Top.of]) /\ Here.kind \in {"group"}
  <2> DEFINE t == Top.of
             kinds == {"group"}
  <2>1. GroupAt = NextToken(t, 1, kinds) /\ GroupAt # 0 /\ Here = content[t][GroupAt]
    BY DEF GroupAt, Here, ExpandGroup
  <2>2. Len(content[t]) \in Nat
    BY <1>2
  <2> HIDE DEF t, kinds
  <2>3. \/ NextToken(t, 1, kinds) = 0
        \/ /\ NextToken(t, 1, kinds) \in 1..Len(content[t])
           /\ content[t][NextToken(t, 1, kinds)].kind \in kinds
    BY <2>2, NextTokenIsToken
  <2> QED BY <2>1, <2>3 DEF t, kinds
<1>4. Here \in Bracket \cup Particles \cup GroupRef
  BY <1>1, <1>3, ElementOfSeq DEF Content, Here
<1> QED BY <1>1, <1>3, <1>4 DEF Bracket, Particles, GroupRef

LEMMA ExpandTyped ==
  ASSUME TypeInv, ExpandGroup
  PROVE  content' \in [Type -> Content]
<1> DEFINE T == Bracket \cup Particles \cup GroupRef
           c == content[Top.of]
           g == schema.groups[Here.of]
<1>1. c \in Seq(T) /\ GroupAt \in 1..Len(c) /\ Here.occurs \in Nat /\ g \in Seq(T) /\ g # <<>>
  BY GroupAtTyped, SchemaTyped DEF TypeInv, Content, ExpandGroup, Expandable, GroupRef
<1>2. [g[1] EXCEPT !.occurs = Here.occurs] \in T
  <2>1. g[1] \in T
    BY <1>1
  <2> QED BY <1>1, <2>1 DEF Bracket, Particles, GroupRef
<1>3. Copy(Here.of, Here.occurs) \in Seq(T)
  <2>1. Copy(Here.of, Here.occurs) = [g EXCEPT ![1] = [g[1] EXCEPT !.occurs = Here.occurs]]
    BY DEF Copy
  <2> HIDE DEF T, g
  <2>2. 1 \in 1..Len(g)
    BY <1>1
  <2> QED BY <1>1, <1>2, <2>1, <2>2, ExceptSeq
<1> HIDE DEF T, c, g
<1>4. SubSeq(c, 1, GroupAt - 1) \in Seq(T) /\ SubSeq(c, GroupAt + 1, Len(c)) \in Seq(T)
  BY <1>1
<1>5. SubSeq(c, 1, GroupAt - 1) \o Copy(Here.of, Here.occurs) \o SubSeq(c, GroupAt + 1, Len(c)) \in Seq(T)
  BY <1>3, <1>4
<1>6. content' = [content EXCEPT ![Top.of] = SubSeq(c, 1, GroupAt - 1) \o Copy(Here.of, Here.occurs)
                                               \o SubSeq(c, GroupAt + 1, Len(c))]
  BY DEF ExpandGroup, c
<1> QED BY <1>5, <1>6 DEF TypeInv, TypeOK, Content, T

LEMMA OwnTypeTyped ==
  ASSUME TypeInv, OwnType
  PROVE  content' \in [Type -> Content]
<1> DEFINE T == Bracket \cup Particles \cup GroupRef
           p == Caller.of
           i == Caller.at
           c == [content[p] EXCEPT ![i].linked = TRUE]
<1>1. content' = content \/ content' = [content EXCEPT ![p] = c]
  BY DEF OwnType
<1>2. p \in Type => c \in Content
  <2> HAVE p \in Type
  <2>1. content[p] \in Seq(T)
    BY DEF TypeInv, TypeOK, Content
  <2>2. CASE i \in 1..Len(content[p])
    <3>1. content[p][i] \in T
      BY <2>1, <2>2
    <3>2. [content[p][i] EXCEPT !.linked = TRUE] \in T
      BY <3>1 DEF Bracket, Particles, GroupRef
    <3> HIDE DEF T
    <3>3. c = [content[p] EXCEPT ![i] = [content[p][i] EXCEPT !.linked = TRUE]]
      OBVIOUS
    <3>4. c \in Seq(T)
      BY <2>1, <2>2, <3>2, <3>3, ExceptSeq
    <3> QED BY <3>4 DEF Content, T
  <2>3. CASE i \notin 1..Len(content[p])
    <3> HIDE DEF T, p, i
    <3>1. DOMAIN content[p] = 1..Len(content[p])
      BY <2>1
    <3>2. c = content[p]
      BY <2>1, <2>3, <3>1
    <3> QED BY <2>1, <3>2 DEF Content, T
  <2> QED BY <2>2, <2>3
<1> HIDE DEF c, p, i, T
<1> QED BY <1>1, <1>2 DEF TypeInv, TypeOK
-----------------------------------------------------------------------------
(* Type correctness.                                                       *)

LEMMA ElementFrameTyped ==
  ASSUME schema \in Schemas, NEW e \in Element, NEW level \in Nat
  PROVE  ElementFrame(e, level) \in Frame
<1>1. schema.alternatives[e] \in Seq(Type \cup {Simple, Missing})
  BY SchemaTyped
<1> QED BY <1>1 DEF ElementFrame, ElementFrames, Frame

\* The walk goes down into an element.
LEMMA WalkedElement ==
  ASSUME TypeInv, WalkElement
  PROVE  /\ ElementAt \in Nat /\ content[Top.of][ElementAt].of \in Element
         /\ Top.level \in 1..Len(seen)
<1> DEFINE t == Top.of
           kinds == {"element", "ref"}
           T == Bracket \cup Particles \cup GroupRef
<1>1. /\ t \in Type /\ Top \in TypeFrames /\ content[t] \in Seq(T) /\ Len(content[t]) \in Nat
      /\ Top.level \in 1..Len(seen) /\ Top.at \in Nat \ {0}
  <2>1. Top \in TypeFrames /\ t \in Type /\ Len(stack) \in Nat \ {0}
    BY TopTyped DEF WalkElement, AtType, TypeInv
  <2>2. Top.at \in Nat \ {0}
    BY <2>1 DEF TypeFrames
  <2>3. content[t] \in Seq(T)
    BY <2>1 DEF TypeInv, TypeOK, Content
  <2>4. Len(content[t]) \in Nat
    BY <2>3
  <2>5. Top.level \in 1..Len(seen)
    BY <2>1 DEF TypeInv, Levels, Top
  <2> QED BY <2>1, <2>2, <2>3, <2>4, <2>5
<1>2. ElementAt = NextToken(t, Top.at, kinds) /\ ElementAt # 0
  BY DEF ElementAt, WalkElement
<1> HIDE DEF t, kinds
<1>3. ElementAt \in 1..Len(content[t]) /\ content[t][ElementAt].kind \in kinds
  BY <1>1, <1>2, NextTokenIsToken
<1>4. content[t][ElementAt] \in T
  BY <1>1, <1>3, ElementOfSeq
<1>5. content[t][ElementAt].of \in Element
  <2> DEFINE x == content[t][ElementAt]
  <2>1. x \in Bracket \cup Particles \cup GroupRef /\ x.kind \in {"element", "ref"}
    BY <1>3, <1>4 DEF kinds
  <2> HIDE DEF x
  <2>2. x.of \in Element
    BY <2>1 DEF Bracket, Particles, GroupRef
  <2> QED BY <2>2 DEF x
<1> QED BY <1>1, <1>3, <1>5 DEF t

\* An alternative is taken from the list of calls.
LEMMA CallTaken ==
  ASSUME TypeInv, Alternative
  PROVE  /\ [Top EXCEPT !.calls = Tail(@)] \in ElementFrames
         /\ Top.level + 1 \in Nat
<1> DEFINE X == Type \cup {Simple, Missing}
           f == [Top EXCEPT !.calls = Tail(@)]
<1>1. Top \in ElementFrames /\ Top.calls # <<>>
  BY TopTyped DEF Alternative, AtElement, TypeInv
<1>2. Top.calls \in Seq(X)
  BY <1>1 DEF ElementFrames
<1> HIDE DEF X
<1>3. Tail(Top.calls) \in Seq(X)
  BY <1>1, <1>2
<1>4. Top.level + 1 \in Nat
  BY <1>1 DEF ElementFrames
<1>5. f \in ElementFrames
  BY <1>1, <1>3 DEF ElementFrames, X
<1> QED BY <1>4, <1>5

\* The types of calls, apart from those a single action changes.
LEMMA TypeOKStep ==
  ASSUME TypeInv, [Next]_vars
  PROVE  TypeOK' /\ schema' \in Schemas
<1> USE DEF TypeInv
<1>0. /\ schema \in Schemas /\ stack \in Seq(Frame) /\ seen \in Seq(SUBSET Type)
      /\ Len(stack) \in Nat /\ MaxDepth \in Nat
  BY DerivationAssumption DEF TypeOK
<1>1. ASSUME Reject PROVE TypeOK' /\ schema' \in Schemas
  BY <1>1 DEF Reject, TypeOK, heap, loops
<1>2. CASE RejectAlternative \/ RejectBase \/ RejectFold \/ RejectGroup \/ RejectRef \/ RejectAttribute
  BY <1>1, <1>2 DEF RejectAlternative, RejectBase, RejectFold, RejectGroup, RejectRef, RejectAttribute
<1>3. ASSUME NEW e \in Element, BeginElement(e) PROVE TypeOK' /\ schema' \in Schemas
  <2>1. stack' \in Seq(Frame) /\ Len(stack') = 1 /\ Len(stack) < MaxDepth /\ stack = <<>>
    BY <1>3, ElementFrameTyped DEF BeginElement, Running
  <2>2. Len(stack') <= MaxDepth
    BY <1>0, <2>1
  <2> QED BY <1>3, <2>1, <2>2 DEF BeginElement, TypeOK, heap
<1>4. ASSUME NEW t \in Type, BeginType(t) PROVE TypeOK' /\ schema' \in Schemas
  <2>1. /\ Len(stack) < MaxDepth /\ stack = <<>> /\ Enter(<<>>, t, 1) /\ 1 \in 1..Len(seen)
        /\ <<>> \in Seq(Frame)
    BY <1>0, <1>4 DEF BeginType, Running, Levels
  <2>2. /\ stack' \in Seq(Frame) /\ seen' \in Seq(SUBSET Type)
        /\ Len(stack') = Len(<<>>) \/ Len(stack') = Len(<<>>) + 1
    BY <2>1, EnterStep
  <2>3. Len(stack') <= MaxDepth
    <3>1. Len(<<>>) = 0
      OBVIOUS
    <3>2. 0 < MaxDepth
      BY <2>1, <3>1
    <3>3. Len(stack') \in 0..1
      BY <2>2, <3>1
    <3>4. MaxDepth \in Nat
      BY <1>0
    <3> QED BY <3>2, <3>3, <3>4
  <2> QED BY <1>4, <2>2, <2>3 DEF BeginType, TypeOK, heap
<1>5. CASE EndPass
  <2>1. schema.global \subseteq Element /\ schema.named \subseteq Type
    BY SchemaTyped
  <2>2. <<{}>> \in Seq(SUBSET Type)
    OBVIOUS
  <2>3. CASE pass = 1
    <3>1. /\ pass' = 2 /\ elements' = schema.global /\ types' = schema.named /\ seen' = <<{}>>
          /\ UNCHANGED <<outcome, schema, stack, heap>>
      BY <1>5, <2>3 DEF EndPass
    <3>2. seen' \in Seq(SUBSET Type)
      BY <2>2, <3>1
    <3> QED BY <2>1, <3>1, <3>2 DEF TypeOK, heap
  <2>4. CASE pass # 1
    BY <1>5, <2>4 DEF EndPass, TypeOK, heap, loops
  <2> QED BY <2>3, <2>4
<1>6. CASE Alternative
  <2> DEFINE f == [Top EXCEPT !.calls = Tail(@)]
             rest == [stack EXCEPT ![Len(stack)].calls = Tail(@)]
             t == Head(Top.calls)
  <2>1. /\ Top \in ElementFrames /\ Len(stack) \in 1..Len(stack) /\ Len(stack) < MaxDepth
        /\ Top.calls # <<>>
    BY <1>6, TopTyped DEF Alternative, AtElement, Running
  <2>2. f \in Frame /\ Top.level + 1 \in Nat
    BY <1>6, CallTaken DEF Frame
  <2>3. rest = [stack EXCEPT ![Len(stack)] = f]
    BY DEF Top
  <2> HIDE DEF f, rest
  <2>4. rest \in Seq(Frame) /\ Len(rest) = Len(stack)
    BY <1>0, <2>1, <2>2, <2>3, ExceptSeq
  <2>5. IF t \in Type THEN stack' = Append(rest, TypeFrame(t, Top.level + 1)) /\ seen' = Append(seen, {t})
                       ELSE stack' = rest /\ seen' = seen
    BY <1>6 DEF Alternative, rest
  <2> HIDE DEF t
  <2>6. t \in Type => TypeFrame(t, Top.level + 1) \in Frame
    BY <2>2 DEF TypeFrame, TypeFrames, Frame
  <2> DEFINE g == TypeFrame(t, Top.level + 1)
             u == {t}
  <2>7. t \in Type => u \in SUBSET Type
    OBVIOUS
  <2> HIDE DEF g, u
  <2>8. ASSUME t \in Type
        PROVE  stack' \in Seq(Frame) /\ Len(stack') <= MaxDepth /\ seen' \in Seq(SUBSET Type)
    <3>1. stack' = Append(rest, g) /\ seen' = Append(seen, u) /\ g \in Frame
      BY <2>5, <2>6, <2>8 DEF g, u
    <3> QED BY <1>0, <2>1, <2>4, <2>7, <2>8, <3>1
  <2>9. ASSUME t \notin Type
        PROVE  stack' \in Seq(Frame) /\ Len(stack') <= MaxDepth /\ seen' \in Seq(SUBSET Type)
    BY <1>0, <2>1, <2>4, <2>5, <2>9
  <2>10. stack' \in Seq(Frame) /\ Len(stack') <= MaxDepth /\ seen' \in Seq(SUBSET Type)
    BY <2>8, <2>9
  <2> QED BY <1>6, <2>10 DEF Alternative, TypeOK, heap, loops
<1>7. CASE OwnType
  <2>1. /\ Top.of \in Element /\ Top.level \in 1..Len(seen) /\ stack # <<>> /\ Len(stack) < MaxDepth
    BY <1>7, TopTyped DEF OwnType, AtElement, Running, Levels, Top
  <2>2. Returned \in Seq(Frame) /\ Len(Returned) = Len(stack) - 1
    BY <2>1, ReturnedTyped
  <2>3. /\ stack' \in Seq(Frame) /\ seen' \in Seq(SUBSET Type)
        /\ Len(stack') = Len(Returned) \/ Len(stack') = Len(Returned) + 1
    <3>1. CASE HasType
      BY <1>7, <2>1, <2>2, <3>1, EnterStep DEF OwnType
    <3>2. CASE ~HasType
      BY <1>0, <1>7, <2>2, <3>2 DEF OwnType
    <3> QED BY <3>1, <3>2
  <2>4. Len(stack') <= MaxDepth
    BY <1>0, <2>1, <2>2, <2>3
  <2>5. linked' \subseteq Element
    BY <1>7, <2>1 DEF OwnType, TypeOK
  <2> QED BY <1>7, <2>3, <2>4, <2>5, OwnTypeTyped DEF OwnType, TypeOK, loops
<1>8. ASSUME AtType(Top.phase), NEW phase \in {"derive", "fold", "expand", "groups", "walk"}, NEW at \in Nat \ {0},
             stack' = Moved(stack, phase, at)
      PROVE  stack' \in Seq(Frame) /\ Len(stack') <= MaxDepth
  BY <1>8, MovedTyped DEF AtType, TypeOK
<1>9. CASE NoDerivation
  BY <1>8, <1>9 DEF NoDerivation, AtType, TypeOK, heap, loops
<1>10. CASE SimpleBase
  <2>1. stack' \in Seq(Frame) /\ Len(stack') <= MaxDepth
    BY <1>8, <1>10 DEF SimpleBase, AtType
  <2>2. base' \in [Type -> Type \cup {NoType, Simple, Missing}]
    BY <1>10 DEF SimpleBase, TypeOK
  <2> QED BY <1>10, <2>1, <2>2 DEF SimpleBase, TypeOK, loops
<1>11. CASE ResolveBase
  <2>1. /\ Top.level \in 1..Len(seen) /\ Top.kind = "type" /\ stack # <<>> /\ Len(stack) < MaxDepth
        /\ Top.of \in Type
    BY <1>11, TopTyped DEF ResolveBase, AtType, Running, Levels, Top
  <2>2. Moved(stack, "fold", 1) \in Seq(Frame) /\ Len(Moved(stack, "fold", 1)) = Len(stack)
    BY <2>1, MovedTyped
  <2>3. /\ stack' \in Seq(Frame) /\ seen' \in Seq(SUBSET Type)
        /\ Len(stack') = Len(stack) \/ Len(stack') = Len(stack) + 1
    BY <1>11, <2>1, <2>2, EnterStep DEF ResolveBase
  <2>4. Len(stack') <= MaxDepth
    BY <1>0, <2>1, <2>3
  <2> QED BY <1>11, <2>1, <2>3, <2>4 DEF ResolveBase, TypeOK, loops
<1>12. CASE Fold
  BY <1>8, <1>12, FoldTyped DEF Fold, AtType, TypeOK, loops
<1>13. CASE ExpandGroup
  <2> DEFINE f == [Top EXCEPT !.path = Within \cup {[group |-> Here.of, rest |-> Behind]}]
  <2>1. /\ Top \in TypeFrames /\ Len(stack) \in 1..Len(stack)
    BY <1>13, TopTyped DEF ExpandGroup, AtType
  <2>2. Here.of \in Group /\ Behind \in Nat
    BY <1>13, GroupAtTyped DEF Behind, Content
  <2>3. f \in Frame
    <3> DEFINE X == [group : Group, rest : Nat]
               x == [group |-> Here.of, rest |-> Behind]
    <3>1. Top.path \in SUBSET X /\ x \in X
      BY <2>1, <2>2 DEF TypeFrames
    <3> HIDE DEF X, x
    <3>2. Within \cup {x} \in SUBSET X
      BY <3>1 DEF Within
    <3> QED BY <2>1, <3>2 DEF TypeFrames, Frame, X, x
  <2>4. stack' = [stack EXCEPT ![Len(stack)] = f]
    BY <1>13 DEF ExpandGroup, Top
  <2> HIDE DEF f
  <2>5. stack' \in Seq(Frame) /\ Len(stack') = Len(stack)
    BY <1>0, <2>1, <2>3, <2>4, ExceptSeq
  <2> QED BY <1>13, <2>5, ExpandTyped DEF ExpandGroup, TypeOK, loops
<1>14. CASE EndExpand
  BY <1>8, <1>14 DEF EndExpand, AtType, TypeOK, heap, loops
<1>15. CASE ApplyAttrGroup
  <2>1. Top.of \in Type /\ attrGroupRefs[Top.of] \in Seq(AttrGroup) /\ attrGroupRefs[Top.of] # <<>>
    BY <1>15, TopTyped DEF ApplyAttrGroup, AtType, TypeOK
  <2>2. attrGroupRefs' \in [Type -> Seq(AttrGroup)]
    BY <1>15, <2>1 DEF ApplyAttrGroup, TypeOK
  <2>3. traits' \in [Type -> SUBSET Trait]
    <3>1. traits \in [Type -> SUBSET Trait] /\ traits[Top.of] \cup {"anyAttribute"} \in SUBSET Trait
      BY <2>1 DEF TypeOK, Trait
    <3>2. \/ traits' = traits
          \/ traits' = [traits EXCEPT ![Top.of] = traits[Top.of] \cup {"anyAttribute"}]
          \/ traits' = [traits EXCEPT ![Top.of] = traits[Top.of] \cup {}]
      BY <1>15 DEF ApplyAttrGroup
    <3> QED BY <2>1, <3>1, <3>2
  <2> QED BY <1>15, <2>2, <2>3 DEF ApplyAttrGroup, TypeOK, loops
<1>16. CASE EndGroups
  BY <1>8, <1>16 DEF EndGroups, AtType, TypeOK, heap, loops
<1>17. CASE WalkElement
  <2> DEFINE moved == Moved(stack, "walk", ElementAt)
             f == ElementFrame(content[Top.of][ElementAt].of, Top.level)
  <2>1. stack # <<>> /\ Top.kind = "type" /\ Len(stack) < MaxDepth /\ ElementAt # 0
    BY <1>17 DEF WalkElement, AtType, Running
  <2>2. moved \in Seq(Frame) /\ Len(moved) = Len(stack)
    BY <1>17, <2>1, MovedTyped, WalkedElement
  <2>3. f \in Frame
    BY <1>17, WalkedElement, ElementFrameTyped
  <2>4. stack' = Append(moved, f)
    BY <1>17 DEF WalkElement
  <2> HIDE DEF moved, f
  <2>5. stack' \in Seq(Frame) /\ Len(stack') <= MaxDepth
    BY <1>0, <2>1, <2>2, <2>3, <2>4
  <2> QED BY <1>17, <2>5 DEF WalkElement, TypeOK, heap, loops
<1>18. CASE Return
  <2>1. Len(stack') <= MaxDepth
    BY <1>0, <1>18, ReturnStep DEF TypeOK
  <2>2. filled' \subseteq AttrDecl
    BY <1>18 DEF Return, TypeOK, References
  <2> QED BY <1>18, <2>1, <2>2, ReturnStep DEF Return, TypeOK, loops
<1>19. CASE Overflow
  BY <1>19 DEF Overflow, TypeOK, heap, loops
<1>20. CASE UNCHANGED vars
  BY <1>20 DEF vars, TypeOK, heap, loops
<1> QED BY <1>2, <1>3, <1>4, <1>5, <1>6, <1>7, <1>9, <1>10, <1>11, <1>12, <1>13, <1>14,
           <1>15, <1>16, <1>17, <1>18, <1>19, <1>20 DEF Next, Step, Done
-----------------------------------------------------------------------------
(* The shape of the stack after each kind of step.                         *)

\* A frame that went on with the same call.
SameCall(f, g) == f.of = g.of /\ f.kind = g.kind /\ f.level = g.level

\* A type goes from one phase to the next.
Proceeds ==
  /\ Len(stack') = Len(stack)
  /\ \A i \in 1..Len(stack) : i # Len(stack) => stack'[i] = stack[i]
  /\ SameCall(stack'[Len(stack)], Top)
  /\ stack'[Len(stack)].phase # "fold"

LEMMA ProceedStep ==
  ASSUME TypeInv, NoDerivation \/ SimpleBase \/ Fold \/ ExpandGroup \/ EndExpand \/ EndGroups
  PROVE  Proceeds /\ seen' = seen
<1>1. CASE ~ExpandGroup
  <2>1. /\ stack # <<>> /\ Top.kind = "type" /\ seen' = seen
        /\ \E phase \in {"expand", "groups", "walk"} : stack' = Moved(stack, phase, 1)
    BY <1>1 DEF NoDerivation, SimpleBase, Fold, EndExpand, EndGroups, AtType
  <2> QED BY <2>1, MovedTyped DEF TypeInv, Proceeds, SameCall
<1>2. CASE ExpandGroup
  <2> DEFINE x == [group |-> Here.of, rest |-> Behind]
  <2>1. /\ stack' = [stack EXCEPT ![Len(stack)] = [Top EXCEPT !.path = Within \cup {x}]]
        /\ Top \in TypeFrames /\ Top.phase = "expand" /\ Len(stack) \in Nat \ {0}
        /\ stack \in Seq(Frame) /\ seen' = seen
    BY <1>2, TopTyped DEF ExpandGroup, AtType, TypeInv, TypeOK, Top
  <2> HIDE DEF x
  <2> DEFINE f == [Top EXCEPT !.path = Within \cup {x}]
  <2>2. f.of = Top.of /\ f.kind = Top.kind /\ f.level = Top.level /\ f.phase = "expand"
    BY <2>1 DEF TypeFrames
  <2>3. stack' = [stack EXCEPT ![Len(stack)] = f]
    BY <2>1
  <2> HIDE DEF f
  <2>4. Len(stack') = Len(stack) /\ stack'[Len(stack)] = f
    BY <2>1, <2>3
  <2>5. \A i \in 1..Len(stack) : i # Len(stack) => stack'[i] = stack[i]
    BY <2>1, <2>3
  <2> QED BY <2>1, <2>2, <2>4, <2>5 DEF Proceeds, SameCall
<1> QED BY <1>1, <1>2

LEMMA ResolveBaseStep ==
  ASSUME TypeInv, ResolveBase
  PROVE  /\ \A i \in 1..Len(stack) : i # Len(stack) => stack'[i] = stack[i]
         /\ SameCall(stack'[Len(stack)], Top) /\ stack'[Len(stack)].phase = "fold"
         /\ Len(seen') = Len(seen)
         /\ \/ Len(stack') = Len(stack) /\ seen' = seen
            \/ /\ Len(stack') = Len(stack) + 1
               /\ base[Top.of] \notin seen[Top.level]
               /\ stack'[Len(stack) + 1] = TypeFrame(base[Top.of], Top.level)
               /\ seen' = [seen EXCEPT ![Top.level] = @ \cup {base[Top.of]}]
<1>1. /\ Top.level \in 1..Len(seen) /\ Top.kind = "type" /\ stack # <<>> /\ Len(stack) \in Nat \ {0}
      /\ Enter(Moved(stack, "fold", 1), base[Top.of], Top.level)
  BY TopTyped DEF ResolveBase, AtType, TypeInv, Levels, Top
<1> DEFINE moved == Moved(stack, "fold", 1)
           t == base[Top.of]
<1>2. /\ moved \in Seq(Frame) /\ Len(moved) = Len(stack)
      /\ \A i \in 1..Len(stack) : i # Len(stack) => moved[i] = stack[i]
      /\ SameCall(moved[Len(stack)], Top) /\ moved[Len(stack)].phase = "fold"
  BY <1>1, MovedTyped DEF TypeInv, SameCall
<1> HIDE DEF moved, t
<1>3. /\ Len(seen') = Len(seen)
      /\ \/ stack' = moved /\ seen' = seen
         \/ /\ t \notin seen[Top.level]
            /\ Len(stack') = Len(moved) + 1
            /\ \A i \in 1..Len(moved) : stack'[i] = moved[i]
            /\ stack'[Len(moved) + 1] = TypeFrame(t, Top.level)
            /\ seen' = [seen EXCEPT ![Top.level] = @ \cup {t}]
  BY <1>1, <1>2, EnterStep DEF TypeInv, moved, t
<1> QED BY <1>1, <1>2, <1>3 DEF t

LEMMA OwnTypeStep ==
  ASSUME TypeInv, OwnType
  PROVE  /\ \A i \in 1..(Len(stack) - 1) :
              SameCall(stack'[i], stack[i]) /\ stack'[i].phase = stack[i].phase /\ stack'[i].calls = stack[i].calls
         /\ Len(seen') = Len(seen)
         /\ \/ Len(stack') = Len(stack) - 1 /\ seen' = seen
            \/ LET t == schema.type[Top.of]
               IN  /\ Len(stack') = Len(stack)
                   /\ t \in Type /\ t \notin seen[Top.level]
                   /\ stack'[Len(stack)] = TypeFrame(t, Top.level)
                   /\ seen' = [seen EXCEPT ![Top.level] = @ \cup {t}]
<1> DEFINE t == schema.type[Top.of]
<1>1. stack # <<>> /\ Top.level \in 1..Len(seen) /\ Len(stack) \in Nat \ {0}
  BY TopTyped DEF OwnType, AtElement, TypeInv, Levels, Top
<1>2. /\ Returned \in Seq(Frame) /\ Len(Returned) = Len(stack) - 1
      /\ \A i \in 1..Len(Returned) :
            SameCall(Returned[i], stack[i]) /\ Returned[i].phase = stack[i].phase /\ Returned[i].calls = stack[i].calls
  BY <1>1, ReturnedTyped DEF TypeInv, SameCall
<1>3. \/ stack' = Returned /\ seen' = seen
      \/ Enter(Returned, t, Top.level)
  BY DEF OwnType
<1> HIDE DEF t
<1>4. CASE stack' = Returned /\ seen' = seen
  BY <1>2, <1>4
<1>5. CASE Enter(Returned, t, Top.level)
  <2>1. /\ Len(seen') = Len(seen)
        /\ \/ stack' = Returned /\ seen' = seen
           \/ /\ t \in Type /\ t \notin seen[Top.level]
              /\ Len(stack') = Len(Returned) + 1
              /\ \A i \in 1..Len(Returned) : stack'[i] = Returned[i]
              /\ stack'[Len(Returned) + 1] = TypeFrame(t, Top.level)
              /\ seen' = [seen EXCEPT ![Top.level] = @ \cup {t}]
    BY <1>1, <1>2, <1>5, EnterStep DEF TypeInv
  <2>2. Len(Returned) + 1 = Len(stack)
    BY <1>1, <1>2
  <2> QED BY <1>2, <2>1, <2>2 DEF t
<1> QED BY <1>3, <1>4, <1>5

LEMMA WalkElementStep ==
  ASSUME TypeInv, WalkElement
  PROVE  /\ Len(stack') = Len(stack) + 1 /\ seen' = seen
         /\ \A i \in 1..Len(stack) : i # Len(stack) => stack'[i] = stack[i]
         /\ SameCall(stack'[Len(stack)], Top) /\ stack'[Len(stack)].phase = "walk"
         /\ \E e \in Element : stack'[Len(stack) + 1] = ElementFrame(e, Top.level)
         /\ Top.level \in 1..Len(seen)
<1> DEFINE moved == Moved(stack, "walk", ElementAt)
           f == ElementFrame(content[Top.of][ElementAt].of, Top.level)
<1>1. stack # <<>> /\ Top.kind = "type" /\ ElementAt \in Nat \ {0} /\ Len(stack) \in Nat \ {0}
  BY WalkedElement, TopTyped DEF WalkElement, AtType, TypeInv
<1>2. /\ moved \in Seq(Frame) /\ Len(moved) = Len(stack)
      /\ \A i \in 1..Len(stack) : i # Len(stack) => moved[i] = stack[i]
      /\ SameCall(moved[Len(stack)], Top) /\ moved[Len(stack)].phase = "walk"
  BY <1>1, MovedTyped DEF TypeInv, SameCall
<1>3. stack' = Append(moved, f) /\ seen' = seen
  BY DEF WalkElement
<1>4. \E e \in Element : f = ElementFrame(e, Top.level)
  BY WalkedElement
<1> HIDE DEF moved, f
<1>5. /\ Len(stack') = Len(stack) + 1 /\ stack'[Len(stack) + 1] = f
      /\ \A i \in 1..Len(stack) : stack'[i] = moved[i]
  BY <1>1, <1>2, <1>3
<1> QED BY <1>1, <1>2, <1>3, <1>4, <1>5, WalkedElement

LEMMA AlternativeStep ==
  ASSUME TypeInv, Alternative
  PROVE  LET t == Head(Top.calls)
         IN  /\ \A i \in 1..Len(stack) : i # Len(stack) => stack'[i] = stack[i]
             /\ SameCall(stack'[Len(stack)], Top) /\ stack'[Len(stack)].phase = "choose"
             /\ stack'[Len(stack)].calls = Tail(Top.calls)
             /\ Top.calls # <<>> /\ Top.level \in 1..Len(seen)
             /\ \/ Len(stack') = Len(stack) /\ seen' = seen
                \/ /\ Len(stack') = Len(stack) + 1 /\ t \in Type
                   /\ stack'[Len(stack) + 1] = TypeFrame(t, Top.level + 1)
                   /\ seen' = Append(seen, {t})
<1> DEFINE f == [Top EXCEPT !.calls = Tail(@)]
           rest == [stack EXCEPT ![Len(stack)].calls = Tail(@)]
           t == Head(Top.calls)
<1>1. /\ Top \in ElementFrames /\ Len(stack) \in Nat \ {0} /\ stack \in Seq(Frame)
      /\ Top.calls # <<>> /\ Top.level \in 1..Len(seen)
  <2>1. /\ Top \in ElementFrames /\ Len(stack) \in Nat \ {0} /\ Top.calls # <<>>
    BY TopTyped DEF Alternative, AtElement, TypeInv
  <2>2. stack \in Seq(Frame)
    BY DEF TypeInv, TypeOK
  <2>3. Top.level \in 1..Len(seen)
    BY <2>1 DEF TypeInv, Levels, Top
  <2> QED BY <2>1, <2>2, <2>3
<1>2. SameCall(f, Top) /\ f.phase = "choose" /\ f.calls = Tail(Top.calls)
  BY <1>1 DEF ElementFrames, SameCall
<1>3. rest = [stack EXCEPT ![Len(stack)] = f]
  BY DEF Top
<1>4. IF t \in Type THEN stack' = Append(rest, TypeFrame(t, Top.level + 1)) /\ seen' = Append(seen, {t})
                     ELSE stack' = rest /\ seen' = seen
  BY DEF Alternative
<1> HIDE DEF f, rest, t
<1>5. /\ Len(rest) = Len(stack) /\ rest[Len(stack)] = f
      /\ \A i \in 1..Len(stack) : i # Len(stack) => rest[i] = stack[i]
  BY <1>1, <1>3
<1>6. rest \in Seq(Frame)
  <2>1. f \in Frame
    BY CallTaken DEF Frame, f
  <2>2. Len(stack) \in 1..Len(stack)
    BY <1>1
  <2> QED BY <1>1, <1>3, <2>1, <2>2, ExceptSeq
<1> DEFINE g == TypeFrame(t, Top.level + 1)
<1> DEFINE Shape ==
             /\ \A i \in 1..Len(stack) : i # Len(stack) => stack'[i] = stack[i]
             /\ SameCall(stack'[Len(stack)], Top) /\ stack'[Len(stack)].phase = "choose"
             /\ stack'[Len(stack)].calls = Tail(Top.calls)
             /\ \/ Len(stack') = Len(stack) /\ seen' = seen
                \/ /\ Len(stack') = Len(stack) + 1 /\ t \in Type
                   /\ stack'[Len(stack) + 1] = TypeFrame(t, Top.level + 1)
                   /\ seen' = Append(seen, {t})
<1>7. ASSUME t \in Type PROVE Shape
  <2>1. stack' = Append(rest, g) /\ seen' = Append(seen, {t})
    BY <1>4, <1>7
  <2> HIDE DEF g
  <2>2. /\ Len(stack') = Len(rest) + 1 /\ stack'[Len(rest) + 1] = g
        /\ \A i \in 1..Len(rest) : stack'[i] = rest[i]
    BY <1>6, <2>1
  <2> QED BY <1>1, <1>2, <1>5, <1>7, <2>1, <2>2 DEF g
<1>8. ASSUME t \notin Type PROVE Shape
  BY <1>1, <1>2, <1>4, <1>5, <1>8
<1> QED BY <1>1, <1>7, <1>8 DEF t
-----------------------------------------------------------------------------
(* The resolving sets in use and the bases that are waited for.            *)

LEMMA LevelsKept ==
  ASSUME Levels, Len(stack) \in Nat, Len(stack') \in 0..Len(stack), Len(seen') >= 1,
         \A i \in 1..Len(stack') : /\ stack'[i].level = stack[i].level
                                   /\ stack[i].level \in 1..Len(seen')
  PROVE  Levels'
<1>1. \A i \in 1..Len(stack') : i \in 1..Len(stack) /\ stack'[i].level \in 1..Len(seen')
  OBVIOUS
<1>2. \A i, j \in 1..Len(stack') : i < j => stack'[i].level <= stack'[j].level
  BY <1>1 DEF Levels
<1> QED BY <1>1, <1>2 DEF Levels

LEMMA LevelsPushed ==
  ASSUME Levels, NEW n \in Nat, n <= Len(stack), Len(stack) \in Nat, Len(stack') = n + 1,
         NEW l \in 1..Len(seen'), Len(seen') \in Nat, Len(seen) \in Nat, Len(seen') >= Len(seen),
         \A i \in 1..n : stack'[i].level = stack[i].level /\ stack[i].level <= l,
         stack'[n + 1].level = l
  PROVE  Levels'
<1>1. \A i \in 1..(n + 1) : i \in 1..n \/ i = n + 1
  OBVIOUS
<1>2. \A i \in 1..n : i \in 1..Len(stack) /\ stack[i].level \in 1..Len(seen)
  BY DEF Levels
<1>3. \A i \in 1..(n + 1) : stack'[i].level \in 1..Len(seen')
  BY <1>1, <1>2
<1>4. ASSUME NEW i \in 1..(n + 1), NEW j \in 1..(n + 1), i < j
      PROVE  stack'[i].level <= stack'[j].level
  <2>1. i \in 1..n
    BY <1>4
  <2>2. CASE j = n + 1
    BY <2>1, <2>2
  <2>3. CASE j \in 1..n
    BY <1>2, <1>4, <2>1, <2>3 DEF Levels
  <2> QED BY <1>1, <2>2, <2>3
<1> QED BY <1>3, <1>4 DEF Levels

\* The innermost call has the highest level.
LEMMA TopLevel ==
  ASSUME TypeInv, stack # <<>>
  PROVE  /\ Top.level \in 1..Len(seen) /\ Len(stack) \in Nat \ {0} /\ Len(seen) \in Nat
         /\ \A i \in 1..Len(stack) : stack[i].level <= Top.level
<1>1. /\ Len(stack) \in Nat \ {0} /\ Len(seen) \in Nat
  BY TopTyped DEF TypeInv, TypeOK
<1>2. Len(stack) \in 1..Len(stack)
  BY <1>1
<1>3. \A i \in 1..Len(stack) : i = Len(stack) \/ i < Len(stack)
  BY <1>1
<1> QED BY <1>1, <1>2, <1>3 DEF TypeInv, Levels, Top

LEMMA LevelsStep ==
  ASSUME TypeInv, [Next]_vars
  PROVE  Levels'
<1>0. Len(stack) \in Nat /\ Len(seen) \in Nat /\ Levels
  BY DEF TypeInv, TypeOK
<1>1. CASE UNCHANGED <<stack, seen>>
  BY <1>1 DEF TypeInv, Levels
<1>2. CASE \/ RejectAlternative \/ RejectBase \/ RejectFold \/ RejectGroup \/ RejectRef
           \/ RejectAttribute \/ ApplyAttrGroup \/ Overflow \/ UNCHANGED vars
  BY <1>1, <1>2 DEF RejectAlternative, RejectBase, RejectFold, RejectGroup, RejectRef,
     RejectAttribute, ApplyAttrGroup, Overflow, Reject, vars
<1>3. ASSUME NEW e \in Element, BeginElement(e) PROVE Levels'
  <2>1. stack' = <<ElementFrame(e, 1)>> /\ seen' = seen
    BY <1>3 DEF BeginElement
  <2>2. Len(stack') = 1 /\ stack'[1].level = 1
    BY <2>1 DEF ElementFrame
  <2> QED BY <1>0, <2>1, <2>2 DEF Levels
<1>4. ASSUME NEW t \in Type, BeginType(t) PROVE Levels'
  <2> DEFINE none == <<>>
  <2>1. stack = none /\ Enter(none, t, 1) /\ 1 \in 1..Len(seen) /\ none \in Seq(Frame) /\ Len(none) = 0
    BY <1>0, <1>4 DEF BeginType, Levels
  <2> HIDE DEF none
  <2>2. /\ Len(seen') = Len(seen)
        /\ \/ stack' = none
           \/ Len(stack') = Len(none) + 1 /\ stack'[Len(none) + 1] = TypeFrame(t, 1)
    <3>1. TypeOK
      BY DEF TypeInv
    <3>2. /\ Len(seen') = Len(seen)
          /\ \/ stack' = none /\ seen' = seen
             \/ /\ t \in Type /\ t \notin seen[1]
                /\ stack' = Append(none, TypeFrame(t, 1))
                /\ Len(stack') = Len(none) + 1
                /\ \A i \in 1..Len(none) : stack'[i] = none[i]
                /\ stack'[Len(none) + 1] = TypeFrame(t, 1)
                /\ seen' = [seen EXCEPT ![1] = @ \cup {t}]
      BY <2>1, <3>1, EnterStep, Zenon
    <3> QED BY <3>2
  <2>3. TypeFrame(t, 1).level = 1
    BY DEF TypeFrame
  <2> QED BY <1>0, <2>1, <2>2, <2>3 DEF Levels
<1>5. CASE EndPass
  <2>1. Len(stack') = 0 /\ (seen' = seen \/ seen' = <<{}>>)
    BY <1>5 DEF EndPass
  <2>2. Len(seen') >= 1
    <3>1. CASE seen' = seen
      BY <1>0, <3>1 DEF Levels
    <3>2. CASE seen' = <<{}>>
      BY <3>2
    <3> QED BY <2>1, <3>1, <3>2
  <2>3. \A i \in 1..Len(stack') : FALSE
    BY <2>1
  <2> QED BY <2>2, <2>3 DEF Levels
<1>6. CASE Alternative
  <2>1. stack # <<>>
    BY <1>6 DEF Alternative, AtElement
  <2>2. \A i \in 1..Len(stack) : stack'[i].level = stack[i].level
    BY <1>6, AlternativeStep DEF SameCall, Top
  <2>3. CASE Len(stack') = Len(stack) /\ seen' = seen
    BY <1>0, <2>2, <2>3, LevelsKept DEF Levels
  <2>4. CASE Len(stack') # Len(stack)
    <3> DEFINE t == Head(Top.calls)
               u == {t}
               l == Top.level + 1
    <3>1. /\ Len(stack') = Len(stack) + 1
          /\ stack'[Len(stack) + 1] = TypeFrame(t, l) /\ seen' = Append(seen, u)
      BY <1>6, <2>4, AlternativeStep
    <3>2. stack'[Len(stack) + 1].level = l
      BY <3>1 DEF TypeFrame
    <3> HIDE DEF u
    <3>3. Len(seen') = Len(seen) + 1
      BY <3>1 DEF TypeInv, TypeOK
    <3>4. /\ Len(stack) \in Nat /\ Len(seen) \in Nat /\ Top.level \in 1..Len(seen)
          /\ \A i \in 1..Len(stack) : stack[i].level \in 1..Len(seen) /\ stack[i].level <= Top.level
      BY <2>1, TopLevel DEF TypeInv, TypeOK, Levels
    <3> DEFINE n == Len(stack)
    <3>5. /\ n \in Nat /\ n <= Len(stack) /\ Len(stack') = n + 1
          /\ l \in 1..Len(seen') /\ Len(seen') \in Nat /\ Len(seen') >= Len(seen)
      <4>1. n \in Nat /\ n <= Len(stack) /\ Len(stack') = n + 1
        BY <3>1, <3>4
      <4>2. \A k, m \in Nat : m \in 1..k => m + 1 \in 1..(k + 1) /\ k + 1 \in Nat /\ k + 1 >= k
        OBVIOUS
      <4>3. Top.level \in Nat
        BY <3>4
      <4> QED BY <3>3, <3>4, <4>1, <4>2, <4>3, Zenon
    <3>6. \A i \in 1..n : stack'[i].level = stack[i].level /\ stack[i].level <= l
      <4> TAKE i \in 1..n
      <4>1. stack[i].level \in 1..Len(seen) /\ stack[i].level <= Top.level
        BY <3>4
      <4>2. stack[i].level <= l
        BY <3>4, <4>1
      <4> QED BY <2>2, <4>2
    <3>7. stack'[n + 1].level = l
      BY <3>2
    <3> HIDE DEF n, l
    <3> QED BY <1>0, <3>4, <3>5, <3>6, <3>7, LevelsPushed, Zenon
  <2> QED BY <1>6, <2>3, <2>4, AlternativeStep
<1>7. CASE OwnType
  <2>1. stack # <<>>
    BY <1>7 DEF OwnType, AtElement
  <2>2. \A i \in 1..(Len(stack) - 1) : stack'[i].level = stack[i].level
    BY <1>7, OwnTypeStep DEF SameCall
  <2>3. CASE Len(stack') = Len(stack) - 1 /\ seen' = seen
    <3>1. Len(stack') \in 0..Len(stack)
      BY <2>1, <2>3, TopLevel
    <3>2. \A i \in 1..Len(stack') : stack[i].level \in 1..Len(seen')
      BY <1>0, <2>3 DEF Levels
    <3> QED BY <1>0, <2>2, <2>3, <3>1, <3>2, LevelsKept DEF Levels
  <2>4. CASE Len(stack') = Len(stack)
    <3> DEFINE n == Len(stack) - 1
    <3>1. /\ n \in Nat /\ n <= Len(stack) /\ Len(stack') = n + 1 /\ n + 1 = Len(stack)
      BY <2>1, <2>4, TopLevel
    <3>2. Len(seen') = Len(seen) /\ stack'[Len(stack)].level = Top.level
      BY <1>7, <2>1, <2>4, OwnTypeStep, TopLevel DEF TypeFrame
    <3>3. \A i \in 1..n : stack[i].level <= Top.level
      BY <2>1, <3>1, TopLevel
    <3> HIDE DEF n
    <3>4. \A i \in 1..n : stack'[i].level = stack[i].level
      BY <2>2 DEF n
    <3> DEFINE l == Top.level
    <3>5. /\ Len(stack) \in Nat /\ l \in 1..Len(seen') /\ Len(seen') \in Nat /\ Len(seen) \in Nat
          /\ Len(seen') >= Len(seen) /\ stack'[n + 1].level = l
      BY <1>0, <2>1, <3>1, <3>2, TopLevel
    <3>6. \A i \in 1..n : stack'[i].level = stack[i].level /\ stack[i].level <= l
      BY <3>3, <3>4
    <3> HIDE DEF l
    <3> QED BY <1>0, <3>1, <3>5, <3>6, LevelsPushed, Zenon
  <2> QED BY <1>7, <2>3, <2>4, OwnTypeStep
<1>8. CASE NoDerivation \/ SimpleBase \/ Fold \/ ExpandGroup \/ EndExpand \/ EndGroups
  <2>1. Len(stack') = Len(stack) /\ seen' = seen
    BY <1>8, ProceedStep DEF Proceeds
  <2>2. \A i \in 1..Len(stack) : stack'[i].level = stack[i].level
    BY <1>8, ProceedStep DEF Proceeds, SameCall, Top
  <2> QED BY <1>0, <2>1, <2>2, LevelsKept DEF Levels
<1>9. CASE ResolveBase
  <2>1. stack # <<>>
    BY <1>9 DEF ResolveBase, AtType
  <2>2. Len(seen') = Len(seen) /\ \A i \in 1..Len(stack) : stack'[i].level = stack[i].level
    BY <1>9, ResolveBaseStep DEF SameCall, Top
  <2>3. CASE Len(stack') = Len(stack)
    BY <1>0, <2>2, <2>3, LevelsKept DEF Levels
  <2>4. CASE Len(stack') = Len(stack) + 1
    <3>1. stack'[Len(stack) + 1].level = Top.level
      BY <1>0, <1>9, <2>4, ResolveBaseStep DEF TypeFrame
    <3> DEFINE n == Len(stack)
               l == Top.level
    <3>2. /\ n \in Nat /\ n <= Len(stack) /\ Len(stack) \in Nat /\ Len(stack') = n + 1
          /\ l \in 1..Len(seen') /\ Len(seen') \in Nat /\ Len(seen) \in Nat /\ Len(seen') >= Len(seen)
      BY <1>0, <2>1, <2>2, <2>4, TopLevel
    <3>3. \A i \in 1..n : stack'[i].level = stack[i].level /\ stack[i].level <= l
      BY <2>1, <2>2, TopLevel
    <3>4. stack'[n + 1].level = l
      BY <3>1
    <3> HIDE DEF n, l
    <3> QED BY <1>0, <3>2, <3>3, <3>4, LevelsPushed, Zenon
  <2> QED BY <1>9, <2>3, <2>4, ResolveBaseStep
<1>10. CASE WalkElement
  <2>1. stack # <<>>
    BY <1>10 DEF WalkElement, AtType
  <2>2. seen' = seen /\ \A i \in 1..Len(stack) : stack'[i].level = stack[i].level
    <3>1. \A i \in 1..Len(stack) : i # Len(stack) => stack'[i] = stack[i]
      BY <1>10, WalkElementStep
    <3>2. seen' = seen /\ stack'[Len(stack)].level = stack[Len(stack)].level
      BY <1>10, WalkElementStep DEF SameCall, Top
    <3> QED BY <3>1, <3>2
  <2>3. stack'[Len(stack) + 1].level = Top.level /\ Len(stack') = Len(stack) + 1
    <3>1. PICK e \in Element : stack'[Len(stack) + 1] = ElementFrame(e, Top.level)
      BY <1>10, WalkElementStep
    <3>2. ElementFrame(e, Top.level).level = Top.level
      BY DEF ElementFrame
    <3>3. Len(stack') = Len(stack) + 1
      BY <1>10, WalkElementStep
    <3> QED BY <3>1, <3>2, <3>3
  <2>4. QED
    <3> DEFINE n == Len(stack)
               l == Top.level
    <3>1. /\ n \in Nat /\ n <= Len(stack) /\ Len(stack) \in Nat /\ Len(stack') = n + 1
          /\ l \in 1..Len(seen') /\ Len(seen') \in Nat /\ Len(seen) \in Nat /\ Len(seen') >= Len(seen)
      BY <1>0, <2>1, <2>2, <2>3, TopLevel
    <3>2. \A i \in 1..n : stack'[i].level = stack[i].level /\ stack[i].level <= l
      BY <2>1, <2>2, TopLevel
    <3>3. stack'[n + 1].level = l
      BY <2>3
    <3> HIDE DEF n, l
    <3> QED BY <1>0, <3>1, <3>2, <3>3, LevelsPushed, Zenon
<1>11. CASE Return
  <2>1. stack # <<>>
    BY <1>11 DEF Return, AtType
  <2>2. Len(stack') \in 0..Len(stack)
    BY <1>11, <2>1, ReturnStep, TopLevel
  <2> QED BY <1>0, <1>11, <2>2, ReturnStep, LevelsKept
<1> QED BY <1>2, <1>3, <1>4, <1>5, <1>6, <1>7, <1>8, <1>9, <1>10, <1>11 DEF Next, Step, Done

\* Only ResolveBase makes a type wait for its base.
WaitingKept ==
  \A i \in 1..Len(stack') :
     stack'[i].phase = "fold" => /\ i \in 1..Len(stack) /\ stack[i].phase = "fold"
                                 /\ stack'[i].of = stack[i].of

LEMMA WaitingStep ==
  ASSUME TypeInv, [Next]_vars, ~ResolveBase
  PROVE  WaitingKept
<1>0. Len(stack) \in Nat /\ Len(seen) \in Nat /\ Len(seen) >= 1
  BY DEF TypeInv, TypeOK, Levels
<1>1. CASE stack' = stack
  BY <1>1 DEF WaitingKept
<1>2. CASE \/ RejectAlternative \/ RejectBase \/ RejectFold \/ RejectGroup \/ RejectRef
           \/ RejectAttribute \/ ApplyAttrGroup \/ Overflow \/ UNCHANGED vars
  BY <1>1, <1>2 DEF RejectAlternative, RejectBase, RejectFold, RejectGroup, RejectRef,
     RejectAttribute, ApplyAttrGroup, Overflow, Reject, vars
<1>3. ASSUME NEW e \in Element, BeginElement(e) PROVE WaitingKept
  BY <1>3 DEF BeginElement, ElementFrame, WaitingKept
<1>4. ASSUME NEW t \in Type, BeginType(t) PROVE WaitingKept
  <2>1. stack' = <<>> \/ stack' = <<TypeFrame(t, 1)>>
    BY <1>4 DEF BeginType, Enter
  <2> QED BY <2>1 DEF TypeFrame, WaitingKept
<1>5. CASE EndPass
  BY <1>5 DEF EndPass, WaitingKept
<1>6. CASE Alternative
  <2> DEFINE l == Top.level + 1
  <2>1. /\ \A i \in 1..Len(stack) : i # Len(stack) => stack'[i] = stack[i]
        /\ stack'[Len(stack)].phase = "choose"
        /\ \/ Len(stack') = Len(stack)
           \/ Len(stack') = Len(stack) + 1 /\ stack'[Len(stack) + 1] = TypeFrame(Head(Top.calls), l)
    BY <1>6, AlternativeStep
  <2>2. Len(stack') = Len(stack) + 1 => stack'[Len(stack) + 1].phase = "derive"
    BY <1>0, <2>1 DEF TypeFrame
  <2>3. \A i \in 1..(Len(stack) + 1) : i \in 1..Len(stack) \/ i = Len(stack) + 1
    BY <1>0
  <2> QED BY <1>0, <2>1, <2>2, <2>3 DEF WaitingKept
<1>7. CASE OwnType
  <2>1. /\ \A i \in 1..(Len(stack) - 1) : stack'[i].of = stack[i].of /\ stack'[i].phase = stack[i].phase
        /\ \/ Len(stack') = Len(stack) - 1
           \/ Len(stack') = Len(stack) /\ stack'[Len(stack)].phase = "derive"
    BY <1>7, OwnTypeStep DEF SameCall, TypeFrame
  <2>2. \A i \in 1..Len(stack) : i \in 1..(Len(stack) - 1) \/ i = Len(stack)
    BY <1>0
  <2>3. \A i \in 1..(Len(stack) - 1) : i \in 1..Len(stack)
    BY <1>0
  <2> QED BY <1>0, <2>1, <2>2, <2>3 DEF WaitingKept
<1>8. CASE NoDerivation \/ SimpleBase \/ Fold \/ ExpandGroup \/ EndExpand \/ EndGroups
  BY <1>8, ProceedStep DEF Proceeds, WaitingKept
<1>10. CASE WalkElement
  <2>1. /\ \A i \in 1..Len(stack) : i # Len(stack) => stack'[i] = stack[i]
        /\ stack'[Len(stack)].phase = "walk" /\ Len(stack') = Len(stack) + 1
    BY <1>10, WalkElementStep
  <2>2. stack'[Len(stack) + 1].phase = "choose"
    <3>1. PICK e \in Element : stack'[Len(stack) + 1] = ElementFrame(e, Top.level)
      BY <1>10, WalkElementStep
    <3> QED BY <3>1 DEF ElementFrame
  <2>3. \A i \in 1..(Len(stack) + 1) : i \in 1..Len(stack) \/ i = Len(stack) + 1
    BY <1>0
  <2> QED BY <2>1, <2>2, <2>3 DEF WaitingKept
<1>11. CASE Return
  <2>1. Len(stack') = Len(stack) - 1 /\ \A i \in 1..Len(stack') : stack'[i] = stack[i]
    BY <1>11, ReturnStep
  <2> QED BY <1>0, <2>1 DEF WaitingKept
<1> QED BY <1>2, <1>3, <1>4, <1>5, <1>6, <1>7, <1>8, <1>10, <1>11 DEF Next, Step, Done

\* A type waits for the base whose name was just taken from it.
LEMMA WaitsForBase ==
  ASSUME TypeInv, ResolveBase
  PROVE  /\ Len(stack) \in Nat \ {0} /\ Top.of \in Type /\ base[Top.of] \in Type
         /\ base' = [base EXCEPT ![Top.of] = NoType]
         /\ parent' = [parent EXCEPT ![Top.of] = base[Top.of]]
         /\ folds' = folds
         /\ \A i \in 1..Len(stack') :
               stack'[i].phase = "fold" =>
                 \/ i = Len(stack) /\ stack'[i].of = Top.of
                 \/ /\ i \in 1..Len(stack) /\ i # Len(stack) /\ stack[i].phase = "fold"
                    /\ stack'[i].of = stack[i].of
<1>1. Len(stack) \in Nat \ {0} /\ Top.of \in Type
  BY TopTyped DEF ResolveBase, AtType, TypeInv
<1>2. stack'[Len(stack)].of = Top.of /\ \A i \in 1..Len(stack) : i # Len(stack) => stack'[i] = stack[i]
  BY ResolveBaseStep DEF SameCall
<1>3. Len(stack') = Len(stack) \/ (Len(stack') = Len(stack) + 1 /\ stack'[Len(stack) + 1].phase = "derive")
  <2>1. CASE Len(stack') # Len(stack)
    <3>1. Len(stack') = Len(stack) + 1 /\ stack'[Len(stack) + 1] = TypeFrame(base[Top.of], Top.level)
      BY <2>1, ResolveBaseStep
    <3> QED BY <3>1 DEF TypeFrame
  <2> QED BY <2>1
<1>4. \A i \in 1..(Len(stack) + 1) : i \in 1..Len(stack) \/ i = Len(stack) + 1
  BY <1>1
<1>5. /\ base[Top.of] \in Type /\ base' = [base EXCEPT ![Top.of] = NoType]
      /\ parent' = [parent EXCEPT ![Top.of] = base[Top.of]] /\ folds' = folds
  BY DEF ResolveBase
<1> QED BY <1>1, <1>2, <1>3, <1>4, <1>5

\* Only calls for types wait for a base.
LEMMA WaitingTyped ==
  ASSUME TypeOK
  PROVE  \A i \in 1..Len(stack) : stack[i].phase = "fold" => stack[i].kind = "type" /\ stack[i].of \in Type
<1> SUFFICES ASSUME NEW i \in 1..Len(stack), stack[i].phase = "fold"
             PROVE  stack[i].kind = "type" /\ stack[i].of \in Type
  OBVIOUS
<1>1. stack[i] \in Frame
  BY ElementOfSeq DEF TypeOK
<1> QED BY <1>1 DEF Frame, TypeFrames, ElementFrames

LEMMA BasesStep ==
  ASSUME TypeInv, [Next]_vars
  PROVE  BasesKnown'
<1>1. CASE ResolveBase
  <2> DEFINE b == base[Top.of]
  <2>1. \A t \in Type : parent[t] \in Type => parent'[t] \in Type
    BY <1>1, WaitsForBase DEF TypeInv, TypeOK
  <2>2. parent'[Top.of] \in Type
    BY <1>1, WaitsForBase DEF TypeInv, TypeOK
  <2>3. \A i \in 1..Len(stack) : stack[i].phase = "fold" => stack[i].of \in Type
    BY WaitingTyped DEF TypeInv
  <2> QED BY <1>1, <2>1, <2>2, <2>3, WaitsForBase DEF TypeInv, BasesKnown
<1>2. CASE ~ResolveBase
  <2>1. parent' = parent
    BY <1>2 DEF Next, Step, Done, vars, heap, loops, Reject, BeginElement, BeginType, EndPass, Alternative,
       RejectAlternative, OwnType, NoDerivation, RejectBase, SimpleBase, RejectFold, Fold, RejectGroup,
       ExpandGroup, EndExpand, ApplyAttrGroup, EndGroups, RejectRef, WalkElement, RejectAttribute,
       Return, Overflow
  <2> QED BY <1>2, <2>1, WaitingStep DEF WaitingKept, TypeInv, BasesKnown
<1> QED BY <1>1, <1>2
-----------------------------------------------------------------------------
(* The attribute lists.                                                    *)

LEMMA AttrsOfSchema ==
  ASSUME schema \in Schemas
  PROVE  /\ schema.attrs \in [Type -> Seq(AttrDecl)]
         /\ \A g \in AttrGroup : schema.attrGroups[g].attrs \in Seq(AttrDecl)
         /\ schema.attrGroupRefs \in [Type -> Seq(AttrGroup)]
BY DerivationAssumption DEF Schema

\* Inheriting leaves out what is restated and adds nothing.
LEMMA InheritTyped ==
  ASSUME NEW S, NEW b \in Seq(S), NEW own \in Seq(S)
  PROVE  InheritAttrs(b, own) \in Seq(S)
<1> DEFINE Restated(d) == \E i \in 1..Len(own) : KeyOf(own[i]) = KeyOf(d)
           x(i) == IF Restated(b[i]) THEN <<>> ELSE <<b[i]>>
           q == [i \in 1..Len(b) |-> x(i)]
<1>1. Len(b) \in Nat /\ \A i \in 1..Len(b) : x(i) \in Seq(S)
  <2>1. \A i \in 1..Len(b) : b[i] \in S /\ <<b[i]>> \in Seq(S) /\ <<>> \in Seq(S)
    OBVIOUS
  <2> HIDE DEF Restated
  <2> QED BY <2>1
<1>2. InheritAttrs(b, own) = FlattenSeq(q) \o own
  BY DEF InheritAttrs
<1>3. q \in Seq(Seq(S))
  <2> HIDE DEF x
  <2> QED BY <1>1
<1>4. FlattenSeq(q) \in Seq(S)
  <2> HIDE DEF q
  <2> QED BY <1>3, FlattenTyped
<1> HIDE DEF q
<1> QED BY <1>2, <1>4

LEMMA AttrsKept ==
  ASSUME [Next]_vars
  PROVE  ~Fold /\ ~ApplyAttrGroup => attrs' = attrs
<1>1. CASE \/ RejectAlternative \/ RejectBase \/ RejectFold \/ RejectGroup \/ RejectRef
           \/ RejectAttribute \/ Overflow \/ UNCHANGED vars
  BY <1>1 DEF RejectAlternative, RejectBase, RejectFold, RejectGroup, RejectRef,
     RejectAttribute, Overflow, Reject, vars, heap
<1>2. ASSUME NEW e \in Element, BeginElement(e) PROVE attrs' = attrs
  BY <1>2 DEF BeginElement, heap
<1>3. ASSUME NEW t \in Type, BeginType(t) PROVE attrs' = attrs
  BY <1>3 DEF BeginType, heap
<1>4. CASE EndPass \/ NoDerivation \/ EndExpand \/ EndGroups \/ WalkElement
  BY <1>4 DEF EndPass, NoDerivation, EndExpand, EndGroups, WalkElement, heap
<1>5. CASE Alternative \/ ExpandGroup
  BY <1>5 DEF Alternative, ExpandGroup, heap
<1>6. CASE ResolveBase \/ SimpleBase
  BY <1>6 DEF ResolveBase, SimpleBase
<1>7. CASE OwnType \/ Return
  BY <1>7 DEF OwnType, Return
<1> QED BY <1>1, <1>2, <1>3, <1>4, <1>5, <1>6, <1>7 DEF Next, Step, Done

LEMMA FoldBase ==
  ASSUME TypeInv, Fold
  PROVE  Top.of \in Type /\ parent[Top.of] \in Type
<1>1. stack # <<>> /\ Top.kind = "type" /\ Top.phase = "fold" /\ TypeOK
  BY DEF Fold, AtType, TypeInv
<1>2. Len(stack) \in Nat \ {0} /\ Top.of \in Type
  BY <1>1, TopTyped
<1>3. Len(stack) \in 1..Len(stack)
  BY <1>2
<1> QED BY <1>1, <1>2, <1>3 DEF TypeInv, BasesKnown, Top

LEMMA AppliedGroup ==
  ASSUME TypeInv, ApplyAttrGroup
  PROVE  Head(attrGroupRefs[Top.of]) \in AttrGroup /\ Top.of \in Type
<1>1. stack # <<>> /\ Top.kind = "type" /\ attrGroupRefs[Top.of] # <<>> /\ TypeOK
  BY DEF ApplyAttrGroup, AtType, TypeInv
<1>2. Top.of \in Type
  BY <1>1, TopTyped
<1>3. attrGroupRefs[Top.of] \in Seq(AttrGroup)
  BY <1>1, <1>2 DEF TypeOK
<1> QED BY <1>1, <1>2, <1>3

LEMMA AttrsTypedStep ==
  ASSUME TypeInv, [Next]_vars
  PROVE  AttrsTyped'
<1>0. attrs \in [Type -> Seq(AttrDecl)] /\ schema \in Schemas
  BY DEF TypeInv, AttrsTyped
<1>1. CASE ~Fold /\ ~ApplyAttrGroup
  BY <1>0, <1>1, AttrsKept DEF AttrsTyped
<1>2. CASE Fold
  <2>1. Top.of \in Type /\ parent[Top.of] \in Type
    BY <1>2, FoldBase
  <2>2. InheritAttrs(attrs[parent[Top.of]], attrs[Top.of]) \in Seq(AttrDecl)
    BY <1>0, <2>1, InheritTyped
  <2>3. attrs' = [attrs EXCEPT ![Top.of] = InheritAttrs(attrs[parent[Top.of]], attrs[Top.of])]
    BY <1>2 DEF Fold
  <2> QED BY <1>0, <2>1, <2>2, <2>3 DEF AttrsTyped
<1>3. CASE ApplyAttrGroup
  <2> DEFINE g == Head(attrGroupRefs[Top.of])
  <2>1. g \in AttrGroup /\ Top.of \in Type
    BY <1>3, AppliedGroup
  <2>2. attrs[Top.of] \o schema.attrGroups[g].attrs \in Seq(AttrDecl)
    BY <1>0, <2>1, AttrsOfSchema
  <2>3. \/ attrs' = [attrs EXCEPT ![Top.of] = attrs[Top.of] \o schema.attrGroups[g].attrs]
        \/ attrs' = attrs
    BY <1>3 DEF ApplyAttrGroup
  <2> QED BY <1>0, <2>1, <2>2, <2>3 DEF AttrsTyped
<1> QED BY <1>1, <1>2, <1>3

LEMMA TypeInit == Init => TypeInv
<1> SUFFICES ASSUME Init PROVE TypeInv
  OBVIOUS
<1>1. schema \in Schemas /\ stack = <<>> /\ seen = <<{}>>
  BY DEF Init
<1>2. /\ schema.global \subseteq Element /\ schema.named \subseteq Type
      /\ content \in [Type -> Content] /\ traits \in [Type -> SUBSET Trait]
      /\ attrGroupRefs \in [Type -> Seq(AttrGroup)]
      /\ base \in [Type -> Type \cup {NoType, Simple, Missing}]
  BY <1>1, SchemaTyped DEF Init
<1>3. stack \in Seq(Frame) /\ Len(stack) = 0 /\ seen \in Seq(SUBSET Type) /\ Len(seen) = 1
  BY <1>1
<1>4. TypeOK
  <2>1. /\ pass \in 1..2 /\ elements \subseteq Element /\ types \subseteq Type
        /\ filled = {} /\ linked \subseteq Element /\ outcome = "running"
    BY <1>2 DEF Init, Anonymous
  <2>2. parent \in [Type -> Type \cup {NoType}] /\ folds \in [Type -> Nat]
    BY DEF Init
  <2>3. Len(stack) <= MaxDepth
    BY <1>3, DerivationAssumption
  <2> QED BY <1>2, <1>3, <2>1, <2>2, <2>3 DEF TypeOK
<1>5. Levels /\ BasesKnown
  BY <1>3 DEF Levels, BasesKnown
<1>6. AttrsTyped
  BY <1>1, AttrsOfSchema DEF Init, AttrsTyped
<1> QED BY <1>1, <1>4, <1>5, <1>6 DEF TypeInv

\* No step changes the schema, and few the bookkeeping of derivations.
LEMMA StepKeeps ==
  ASSUME [Next]_vars
  PROVE  /\ schema' = schema
         /\ ~ResolveBase /\ ~Fold /\ ~SimpleBase => folds' = folds /\ base' = base
<1>1. CASE \/ RejectAlternative \/ RejectBase \/ RejectFold \/ RejectGroup \/ RejectRef
           \/ RejectAttribute \/ Overflow \/ UNCHANGED vars
  BY <1>1 DEF RejectAlternative, RejectBase, RejectFold, RejectGroup, RejectRef,
     RejectAttribute, Overflow, Reject, vars, heap
<1>2. ASSUME NEW e \in Element, BeginElement(e) PROVE schema' = schema /\ folds' = folds /\ base' = base
  BY <1>2 DEF BeginElement, heap
<1>3. ASSUME NEW t \in Type, BeginType(t) PROVE schema' = schema /\ folds' = folds /\ base' = base
  BY <1>3 DEF BeginType, heap
<1>4. CASE EndPass \/ NoDerivation \/ EndExpand \/ EndGroups \/ WalkElement
  BY <1>4 DEF EndPass, NoDerivation, EndExpand, EndGroups, WalkElement, heap
<1>5. CASE Alternative \/ ExpandGroup
  BY <1>5 DEF Alternative, ExpandGroup, heap
<1>7. CASE OwnType
  BY <1>7 DEF OwnType
<1>8. CASE ApplyAttrGroup
  BY <1>8 DEF ApplyAttrGroup
<1>9. CASE Return
  BY <1>9 DEF Return
<1>6. CASE ResolveBase \/ Fold \/ SimpleBase
  BY <1>6 DEF ResolveBase, Fold, SimpleBase
<1> QED BY <1>1, <1>2, <1>3, <1>4, <1>5, <1>6, <1>7, <1>8, <1>9 DEF Next, Step, Done

LEMMA TypeStep ==
  ASSUME TypeInv, [Next]_vars
  PROVE  TypeInv'
<1>1. schema' = schema
  BY StepKeeps
<1>2. TypeOK' /\ Levels' /\ BasesKnown'
  BY TypeOKStep, LevelsStep, BasesStep
<1> QED BY <1>1, <1>2, AttrsTypedStep DEF TypeInv

\* Every variable stays in its domain, whatever refers to what.
THEOREM TypeCorrect == Spec => []TypeOK
<1>1. TypeInv => TypeOK
  BY DEF TypeInv
<1>2. TypeInv /\ [Next]_vars => TypeInv'
  BY TypeStep
<1> QED BY <1>1, <1>2, TypeInit, PTL DEF Spec

LEMMA TypeAlways == Spec => []TypeInv
<1>1. TypeInv /\ [Next]_vars => TypeInv'
  BY TypeStep
<1> QED BY <1>1, TypeInit, PTL DEF Spec
-----------------------------------------------------------------------------
(***************************************************************************)
(* A base is folded once.  The name of the base is taken from the type     *)
(* before the type waits for it; so at most one call waits to fold a base  *)
(* into a given type, and none after that was done.                        *)
(***************************************************************************)
Waits(i) == stack[i].phase = "fold"
FoldInv ==
  /\ \A t \in Type : folds[t] = 0 \/ (folds[t] = 1 /\ base[t] \notin Type)
  /\ \A i \in 1..Len(stack) : Waits(i) => folds[stack[i].of] = 0 /\ base[stack[i].of] \notin Type
  /\ \A i, j \in 1..Len(stack) : Waits(i) /\ Waits(j) /\ stack[i].of = stack[j].of => i = j

\* A step that folds nothing and takes no name.
LEMMA FoldKept ==
  ASSUME FoldInv, TypeOK, WaitingKept, folds' = folds,
         \A t \in Type : base'[t] \in Type => base[t] \in Type
  PROVE  FoldInv'
<1>1. \A i \in 1..Len(stack') : Waits(i)' => i \in 1..Len(stack) /\ Waits(i)
                                            /\ stack'[i].of = stack[i].of /\ stack[i].of \in Type
  BY WaitingTyped DEF WaitingKept, Waits
<1>2. \A t \in Type : folds'[t] = 0 \/ (folds'[t] = 1 /\ base'[t] \notin Type)
  BY DEF FoldInv
<1>3. \A i \in 1..Len(stack') : Waits(i)' => folds'[stack'[i].of] = 0 /\ base'[stack'[i].of] \notin Type
  BY <1>1 DEF FoldInv
<1>4. \A i, j \in 1..Len(stack') : Waits(i)' /\ Waits(j)' /\ stack'[i].of = stack'[j].of => i = j
  BY <1>1 DEF FoldInv
<1> QED BY <1>2, <1>3, <1>4 DEF FoldInv, Waits

LEMMA FoldStep ==
  ASSUME TypeInv, FoldInv, [Next]_vars
  PROVE  FoldInv'
<1>0. base \in [Type -> Type \cup {NoType, Simple, Missing}] /\ folds \in [Type -> Nat] /\ NoType \notin Type
  BY DerivationAssumption DEF TypeInv, TypeOK
<1>1. CASE ResolveBase
  <2> DEFINE t == Top.of
  <2>1. /\ Len(stack) \in Nat \ {0} /\ t \in Type /\ base[t] \in Type
        /\ base' = [base EXCEPT ![t] = NoType] /\ folds' = folds
    BY <1>1, WaitsForBase
  <2>2. \A i \in 1..Len(stack') :
          Waits(i)' => \/ i = Len(stack) /\ stack'[i].of = t
                       \/ i \in 1..Len(stack) /\ i # Len(stack) /\ Waits(i) /\ stack'[i].of = stack[i].of
    BY <1>1, WaitsForBase DEF Waits
  <2> HIDE DEF t
  <2>3. folds[t] = 0 /\ base'[t] = NoType /\ \A u \in Type : u # t => base'[u] = base[u]
    BY <1>0, <2>1 DEF FoldInv
  <2>4. \A i \in 1..Len(stack) : Waits(i) => stack[i].of \in Type /\ stack[i].of # t
    BY <2>1, WaitingTyped DEF FoldInv, TypeInv, Waits
  <2>5. \A u \in Type : folds'[u] = 0 \/ (folds'[u] = 1 /\ base'[u] \notin Type)
    BY <1>0, <2>1, <2>3 DEF FoldInv
  <2>6. \A i \in 1..Len(stack') : Waits(i)' => folds'[stack'[i].of] = 0 /\ base'[stack'[i].of] \notin Type
    BY <1>0, <2>1, <2>2, <2>3, <2>4 DEF FoldInv
  <2>7. \A i, j \in 1..Len(stack') : Waits(i)' /\ Waits(j)' /\ stack'[i].of = stack'[j].of => i = j
    BY <2>2, <2>4 DEF FoldInv
  <2> QED BY <2>5, <2>6, <2>7 DEF FoldInv, Waits
<1>2. CASE Fold
  <2> DEFINE t == Top.of
             n == Len(stack)
  <2>0. \A i \in 1..n : Waits(i) => stack[i].of \in Type
    BY WaitingTyped DEF TypeInv, Waits
  <2>1. /\ n \in 1..n /\ t \in Type /\ t = stack[n].of /\ Waits(n)
        /\ folds' = [folds EXCEPT ![t] = @ + 1] /\ base' = base
    BY <1>2, TopTyped DEF Fold, AtType, TypeInv, Waits, Top
  <2>2. stack'[n].phase # "fold"
    BY <1>2, ProceedStep DEF Proceeds
  <2>3. ~ResolveBase
    BY <1>2 DEF Fold, ResolveBase, AtType
  <2>4. \A i \in 1..Len(stack') : Waits(i)' => i \in 1..n /\ i # n /\ Waits(i)
                                              /\ stack'[i].of = stack[i].of /\ stack[i].of \in Type
    <3>1. \A i \in 1..Len(stack') : Waits(i)' => i \in 1..n /\ Waits(i) /\ stack'[i].of = stack[i].of
      BY <2>3, WaitingStep DEF WaitingKept, Waits
    <3>3. \A i \in 1..Len(stack') : Waits(i)' => i # n
      BY <2>2 DEF Waits
    <3> QED BY <2>0, <3>1, <3>3
  <2>5. folds[t] = 0 /\ base[t] \notin Type
    BY <2>1 DEF FoldInv
  <2> HIDE DEF t
  <2>6. folds'[t] = 1 /\ \A u \in Type : u # t => folds'[u] = folds[u]
    BY <1>0, <2>1, <2>5
  <2>7. \A u \in Type : folds'[u] = 0 \/ (folds'[u] = 1 /\ base'[u] \notin Type)
    BY <2>1, <2>5, <2>6 DEF FoldInv
  <2>8. \A i \in 1..Len(stack') : Waits(i)' => stack[i].of # t
    BY <2>1, <2>4 DEF FoldInv
  <2>9. \A i \in 1..Len(stack') : Waits(i)' => folds'[stack'[i].of] = 0 /\ base'[stack'[i].of] \notin Type
    BY <2>1, <2>4, <2>6, <2>8 DEF FoldInv
  <2>10. \A i, j \in 1..Len(stack') : Waits(i)' /\ Waits(j)' /\ stack'[i].of = stack'[j].of => i = j
    BY <2>4 DEF FoldInv
  <2> QED BY <2>7, <2>9, <2>10 DEF FoldInv, Waits
<1>3. CASE SimpleBase
  <2>1. folds' = folds /\ base' = [base EXCEPT ![Top.of] = NoType] /\ ~ResolveBase
    BY <1>3, DerivationAssumption DEF SimpleBase, ResolveBase
  <2>2. \A t \in Type : base'[t] \in Type => base[t] \in Type
    BY <1>0, <2>1
  <2> QED BY <2>1, <2>2, WaitingStep, FoldKept DEF TypeInv
<1>4. CASE ~ResolveBase /\ ~Fold /\ ~SimpleBase
  <2>1. folds' = folds /\ base' = base
    BY <1>4, StepKeeps
  <2> QED BY <1>4, <2>1, WaitingStep, FoldKept DEF TypeInv
<1> QED BY <1>1, <1>2, <1>3, <1>4

\* In every order of the maps, for every schema and in both passes a base is
\* folded into a type at most once.
THEOREM BaseFoldedOnce == Spec => []FoldedOnce
<1>1. Init => FoldInv
  <2> SUFFICES ASSUME Init PROVE FoldInv
    OBVIOUS
  <2>1. stack = <<>> /\ Len(<<>>) = 0
    BY DEF Init
  <2>2. \A t \in Type : folds[t] = 0
    BY DEF Init
  <2>3. 1..Len(stack) = {}
    BY <2>1
  <2>4. \A i \in 1..Len(stack) : FALSE
    BY <2>3
  <2> QED BY <2>2, <2>4 DEF FoldInv
<1>2. TypeInv /\ FoldInv /\ [Next]_vars => FoldInv'
  BY FoldStep
<1>3. FoldInv => FoldedOnce
  BY DEF FoldInv, FoldedOnce
<1> QED BY <1>1, <1>2, <1>3, TypeAlways, PTL DEF Spec
-----------------------------------------------------------------------------
(***************************************************************************)
(* Without conditional types the recursion is bounded.  Then every call    *)
(* uses the first resolving set, so the types being resolved are pairwise  *)
(* different, and above the last of them there is at most one element.     *)
(***************************************************************************)
Unconditional(calls) == \A i \in 1..Len(calls) : calls[i] \notin Type
PlainShape ==
  /\ \A i \in 1..Len(stack) : stack[i].level = 1
  /\ \A i \in 1..(Len(stack) - 1) : stack[i].kind = "type"
  /\ \A i \in 1..Len(stack) : stack[i].kind = "type" => stack[i].of \in seen[1]
  /\ \A i, j \in 1..Len(stack) :
        stack[i].kind = "type" /\ stack[j].kind = "type" /\ stack[i].of = stack[j].of => i = j
  /\ \A i \in 1..Len(stack) : stack[i].kind = "element" => Unconditional(stack[i].calls)

LEMMA NothingConditional ==
  ASSUME schema \in Schemas, ~ConditionalTypes, NEW e \in Element
  PROVE  Unconditional(schema.alternatives[e])
BY DEF ConditionalTypes, Contains, Unconditional

\* No call is added.
LEMMA PlainKept ==
  ASSUME PlainShape, Len(stack) \in Nat, Len(stack') \in 0..Len(stack), seen[1] \subseteq seen'[1],
         \A i \in 1..Len(stack') : SameCall(stack'[i], stack[i]),
         \A i \in 1..Len(stack') : stack'[i].kind = "element" => Unconditional(stack'[i].calls)
  PROVE  PlainShape'
<1>1. /\ \A i \in 1..Len(stack') : i \in 1..Len(stack)
      /\ \A i \in 1..(Len(stack') - 1) : i \in 1..Len(stack') /\ i \in 1..(Len(stack) - 1)
  OBVIOUS
<1>2. \A i \in 1..Len(stack') : stack'[i].level = 1
  BY <1>1 DEF PlainShape, SameCall
<1>3. \A i \in 1..(Len(stack') - 1) : stack'[i].kind = "type"
  BY <1>1 DEF PlainShape, SameCall
<1>4. \A i \in 1..Len(stack') : stack'[i].kind = "type" => stack'[i].of \in seen'[1]
  BY <1>1 DEF PlainShape, SameCall
<1>5. \A i, j \in 1..Len(stack') :
        stack'[i].kind = "type" /\ stack'[j].kind = "type" /\ stack'[i].of = stack'[j].of => i = j
  BY <1>1 DEF PlainShape, SameCall
<1> QED BY <1>2, <1>3, <1>4, <1>5 DEF PlainShape, Unconditional

\* One call is added, for an element or for a type not visited yet.
LEMMA PlainPushed ==
  ASSUME PlainShape, Len(stack) \in Nat, NEW n \in 0..Len(stack), Len(stack') = n + 1,
         \A i \in 1..n : SameCall(stack'[i], stack[i]) /\ stack[i].kind = "type",
         seen[1] \subseteq seen'[1], stack'[n + 1].level = 1,
         stack'[n + 1].kind = "type" => /\ stack'[n + 1].of \notin seen[1]
                                        /\ stack'[n + 1].of \in seen'[1],
         stack'[n + 1].kind = "element" => Unconditional(stack'[n + 1].calls)
  PROVE  PlainShape'
<1>1. /\ \A i \in 1..(n + 1) : i \in 1..n \/ i = n + 1
      /\ \A i \in 1..n : i \in 1..Len(stack)
  OBVIOUS
<1>2. \A i \in 1..n : /\ stack'[i].level = 1 /\ stack'[i].kind = "type"
                      /\ stack'[i].of = stack[i].of /\ stack'[i].of \in seen[1]
  BY <1>1 DEF PlainShape, SameCall
<1>3. \A i \in 1..(n + 1) : stack'[i].level = 1
  BY <1>1, <1>2
<1>4. \A i \in 1..(n + 1 - 1) : stack'[i].kind = "type"
  BY <1>2
<1>5. \A i \in 1..(n + 1) : stack'[i].kind = "type" => stack'[i].of \in seen'[1]
  BY <1>1, <1>2
<1>6. \A i, j \in 1..(n + 1) :
        stack'[i].kind = "type" /\ stack'[j].kind = "type" /\ stack'[i].of = stack'[j].of => i = j
  BY <1>1, <1>2 DEF PlainShape
<1>7. \A i \in 1..(n + 1) : stack'[i].kind = "element" => Unconditional(stack'[i].calls)
  BY <1>1, <1>2
<1> QED BY <1>3, <1>4, <1>5, <1>6, <1>7 DEF PlainShape, Unconditional

\* The types being resolved are pairwise different.
LEMMA PlainDepth ==
  ASSUME TypeInv, PlainShape
  PROVE  Len(stack) < MaxDepth
<1> DEFINE n == Len(stack) - 1
           f == [i \in 1..n |-> stack[i].of]
<1>1. Len(stack) \in Nat /\ n \in Int
  BY DEF TypeInv, TypeOK
<1>2. \A i \in 1..n : i \in 1..Len(stack) /\ stack[i].of \in Type /\ stack[i].kind = "type"
  <2> SUFFICES ASSUME NEW i \in 1..n
               PROVE  i \in 1..Len(stack) /\ stack[i].of \in Type /\ stack[i].kind = "type"
    OBVIOUS
  <2>1. i \in 1..Len(stack) /\ stack[i].kind = "type"
    BY <1>1 DEF PlainShape
  <2>2. stack[i] \in Frame
    BY <2>1, ElementOfSeq DEF TypeInv, TypeOK
  <2> QED BY <2>1, <2>2 DEF Frame, TypeFrames, ElementFrames
<1>3. f \in Injection(1..n, Type)
  <2>1. f \in [1..n -> Type]
    BY <1>2
  <2>2. \A i, j \in 1..n : f[i] = f[j] => i = j
    BY <1>2 DEF PlainShape
  <2> QED BY <2>1, <2>2 DEF Injection, IsInjective
<1>4. Cardinality(1..n) <= Cardinality(Type)
  <2> HIDE DEF f, n
  <2> QED BY <1>3, DerivationAssumption, FS_Injection
<1>5. Cardinality(1..n) = IF 1 > n THEN 0 ELSE n - 1 + 1
  BY <1>1, FS_Interval
<1>6. Cardinality(Type) \in Nat
  BY DerivationAssumption, FS_CardinalityType
<1> QED BY <1>1, <1>4, <1>5, <1>6, DerivationAssumption

LEMMA PlainStep ==
  ASSUME TypeInv, ~ConditionalTypes, PlainShape, [Next]_vars
  PROVE  PlainShape'
<1>0. /\ Len(stack) \in Nat /\ Len(seen) \in Nat /\ Len(seen) >= 1 /\ seen \in Seq(SUBSET Type)
      /\ \A i \in 1..Len(stack) : stack[i].kind = "element" => Unconditional(stack[i].calls)
      /\ \A i \in 1..Len(stack) : SameCall(stack[i], stack[i])
      /\ seen[1] \subseteq seen[1]
  BY DEF TypeInv, TypeOK, Levels, PlainShape, SameCall
<1>1. ASSUME stack' = stack, seen' = seen PROVE PlainShape'
  BY <1>0, <1>1, PlainKept
<1>2. CASE \/ RejectAlternative \/ RejectBase \/ RejectFold \/ RejectGroup \/ RejectRef
           \/ RejectAttribute \/ Overflow \/ ApplyAttrGroup \/ UNCHANGED vars
  <2>1. CASE Reject \/ Overflow \/ UNCHANGED vars
    BY <1>1, <2>1 DEF Overflow, Reject, vars
  <2>2. CASE ApplyAttrGroup
    BY <1>1, <2>2 DEF ApplyAttrGroup
  <2> QED BY <1>2, <2>1, <2>2 DEF RejectAlternative, RejectBase, RejectFold, RejectGroup, RejectRef,
             RejectAttribute
<1>3. ASSUME NEW e \in Element, BeginElement(e) PROVE PlainShape'
  <2>1. /\ Len(stack') = 0 + 1 /\ stack'[0 + 1] = ElementFrame(e, 1) /\ seen' = seen
    BY <1>3 DEF BeginElement
  <2>2. /\ stack'[0 + 1].level = 1 /\ stack'[0 + 1].kind = "element"
        /\ Unconditional(stack'[0 + 1].calls)
    BY <2>1, NothingConditional DEF TypeInv, ElementFrame
  <2> QED BY <1>0, <2>1, <2>2, PlainPushed
<1>4. ASSUME NEW t \in Type, BeginType(t) PROVE PlainShape'
  <2>1. Enter(<<>>, t, 1) /\ 1 \in 1..Len(seen) /\ <<>> \in Seq(Frame) /\ Len(<<>>) = 0
    BY <1>0, <1>4 DEF BeginType
  <2> DEFINE frames == <<>>
  <2> HIDE DEF frames
  <2>5. /\ frames \in Seq(Frame) /\ Enter(frames, t, 1) /\ Len(frames) = 0 /\ 1 \in 1..Len(seen)
    BY <2>1 DEF frames
  <2>7. TypeOK
    BY DEF TypeInv
  <2>6. \/ stack' = frames /\ seen' = seen
        \/ /\ t \in Type /\ t \notin seen[1]
           /\ stack' = Append(frames, TypeFrame(t, 1))
           /\ Len(stack') = Len(frames) + 1
           /\ \A i \in 1..Len(frames) : stack'[i] = frames[i]
           /\ stack'[Len(frames) + 1] = TypeFrame(t, 1)
           /\ seen' = [seen EXCEPT ![1] = @ \cup {t}]
    BY <2>5, <2>7, EnterStep, Zenon
  <2>2. \/ stack' = <<>> /\ seen' = seen
        \/ /\ t \notin seen[1] /\ Len(stack') = 0 + 1 /\ stack'[0 + 1] = TypeFrame(t, 1)
           /\ seen' = [seen EXCEPT ![1] = @ \cup {t}]
    BY <2>5, <2>6 DEF frames
  <2>3. CASE stack' = <<>> /\ seen' = seen
    BY <1>0, <1>1, <1>4, <2>3 DEF BeginType
  <2>4. CASE /\ t \notin seen[1] /\ Len(stack') = 0 + 1 /\ stack'[0 + 1] = TypeFrame(t, 1)
             /\ seen' = [seen EXCEPT ![1] = @ \cup {t}]
    <3>1. stack'[0 + 1].level = 1 /\ stack'[0 + 1].kind = "type" /\ stack'[0 + 1].of = t
      BY <2>4 DEF TypeFrame
    <3>2. seen'[1] = seen[1] \cup {t}
      BY <1>0, <2>4
    <3> QED BY <1>0, <2>4, <3>1, <3>2, PlainPushed
  <2> QED BY <2>2, <2>3, <2>4
<1>5. CASE EndPass
  <2>1. stack' = <<>> /\ Len(<<>>) = 0
    BY <1>5 DEF EndPass
  <2>2. \A i \in 1..Len(stack') : FALSE
    BY <2>1
  <2>3. \A i \in 1..(Len(stack') - 1) : FALSE
    BY <2>1
  <2> QED BY <2>2, <2>3 DEF PlainShape
<1>6. CASE Alternative
  <2>1. Top.kind = "element" /\ Top = stack[Len(stack)] /\ Top.calls # <<>> /\ Len(stack) \in 1..Len(stack)
    BY <1>6, TopTyped DEF Alternative, AtElement, TypeInv, Top
  <2>2. Unconditional(Top.calls) /\ Top.calls \in Seq(Type \cup {Simple, Missing})
    BY <1>0, <2>1, TopTyped DEF ElementFrames, TypeInv
  <2>3. Head(Top.calls) \notin Type /\ Unconditional(Tail(Top.calls))
    <3>1. Len(Top.calls) \in Nat \ {0} /\ Head(Top.calls) = Top.calls[1]
      BY <2>1, <2>2
    <3>2. Len(Tail(Top.calls)) = Len(Top.calls) - 1
      BY <2>1, <2>2, HeadTailProperties
    <3>3. \A i \in 1..Len(Tail(Top.calls)) : Tail(Top.calls)[i] = Top.calls[i + 1]
      BY <2>1, <2>2, HeadTailProperties
    <3> QED BY <2>2, <3>1, <3>2, <3>3 DEF Unconditional
  <2>4. /\ \A i \in 1..Len(stack) : i # Len(stack) => stack'[i] = stack[i]
        /\ SameCall(stack'[Len(stack)], Top) /\ stack'[Len(stack)].calls = Tail(Top.calls)
        /\ Len(stack') = Len(stack) /\ seen' = seen
    BY <1>6, <2>3, AlternativeStep
  <2>5. \A i \in 1..Len(stack) : /\ SameCall(stack'[i], stack[i])
                                 /\ stack'[i].kind = "element" => Unconditional(stack'[i].calls)
    BY <1>0, <2>1, <2>3, <2>4 DEF SameCall
  <2> QED BY <1>0, <2>4, <2>5, PlainKept
<1>7. CASE OwnType
  <2>1. stack # <<>> /\ Top = stack[Len(stack)] /\ Len(stack) \in Nat \ {0}
    BY <1>7, TopTyped DEF OwnType, AtElement, TypeInv, Top
  <2> DEFINE n == Len(stack) - 1
             t == schema.type[Top.of]
  <2>2. /\ n \in 0..Len(stack) /\ n + 1 = Len(stack) /\ \A i \in 1..n : i \in 1..Len(stack)
        /\ \A i \in 1..n : stack[i].kind = "type"
    BY <2>1 DEF PlainShape
  <2>3. \A i \in 1..n : SameCall(stack'[i], stack[i]) /\ stack'[i].kind = "type"
    <3>1. \A i \in 1..n : SameCall(stack'[i], stack[i])
      BY <1>7, OwnTypeStep
    <3> QED BY <2>2, <3>1 DEF SameCall
  <2>4. Top.level = 1
    BY <2>1 DEF PlainShape
  <2>5. CASE Len(stack') = n /\ seen' = seen
    BY <1>0, <2>2, <2>3, <2>5, PlainKept
  <2>6. CASE /\ Len(stack') = n + 1 /\ t \notin seen[1]
             /\ stack'[n + 1] = TypeFrame(t, 1) /\ seen' = [seen EXCEPT ![1] = @ \cup {t}]
    <3>1. stack'[n + 1].level = 1 /\ stack'[n + 1].kind = "type" /\ stack'[n + 1].of = t
      BY <2>6 DEF TypeFrame
    <3>2. seen'[1] = seen[1] \cup {t}
      BY <1>0, <2>6
    <3> HIDE DEF n, t
    <3> QED BY <1>0, <2>2, <2>3, <2>6, <3>1, <3>2, PlainPushed
  <2>7. \/ Len(stack') = n /\ seen' = seen
        \/ /\ Len(stack') = Len(stack) /\ t \notin seen[Top.level]
           /\ stack'[Len(stack)] = TypeFrame(t, Top.level)
           /\ seen' = [seen EXCEPT ![Top.level] = @ \cup {t}]
    BY <1>7, OwnTypeStep
  <2> HIDE DEF n, t
  <2> QED BY <2>2, <2>4, <2>5, <2>6, <2>7
<1>8. CASE NoDerivation \/ SimpleBase \/ Fold \/ ExpandGroup \/ EndExpand \/ EndGroups
  <2>1. Top.kind = "type" /\ Top = stack[Len(stack)]
    <3>1. \E phase \in {"derive", "fold", "expand", "groups"} : AtType(phase)
      BY <1>8 DEF NoDerivation, SimpleBase, Fold, ExpandGroup, EndExpand, EndGroups
    <3> QED BY <3>1 DEF AtType, Top
  <2>2. Proceeds /\ seen' = seen
    BY <1>8, ProceedStep
  <2>3. \A i \in 1..Len(stack) : /\ SameCall(stack'[i], stack[i])
                                 /\ stack'[i].kind = "element" => Unconditional(stack'[i].calls)
    BY <1>0, <2>1, <2>2 DEF Proceeds, SameCall
  <2> QED BY <1>0, <2>2, <2>3, PlainKept DEF Proceeds
<1>9. CASE ResolveBase
  <2>1. Top.kind = "type" /\ Top = stack[Len(stack)] /\ Len(stack) \in Nat \ {0} /\ Top.level = 1
    <3>1. Top.kind = "type" /\ Top = stack[Len(stack)] /\ Len(stack) \in Nat \ {0}
      BY <1>9, TopTyped DEF ResolveBase, AtType, TypeInv, Top
    <3> QED BY <3>1 DEF PlainShape
  <2> DEFINE n == Len(stack)
             t == base[Top.of]
  <2>2. \A i \in 1..n : SameCall(stack'[i], stack[i])
    BY <1>0, <1>9, <2>1, ResolveBaseStep
  <2>3. \A i \in 1..n : stack[i].kind = "type" /\ stack'[i].kind = "type"
    <3>1. \A i \in 1..n : i = n \/ i \in 1..(n - 1)
      BY <2>1
    <3>2. \A i \in 1..n : stack[i].kind = "type"
      BY <2>1, <3>1 DEF PlainShape
    <3> QED BY <2>2, <3>2 DEF SameCall
  <2>4. CASE Len(stack') = n /\ seen' = seen
    BY <1>0, <2>2, <2>3, <2>4, PlainKept
  <2>5. CASE /\ Len(stack') = n + 1 /\ t \notin seen[1]
             /\ stack'[n + 1] = TypeFrame(t, 1) /\ seen' = [seen EXCEPT ![1] = @ \cup {t}]
    <3>1. stack'[n + 1].level = 1 /\ stack'[n + 1].kind = "type" /\ stack'[n + 1].of = t
      BY <2>5 DEF TypeFrame
    <3>2. seen'[1] = seen[1] \cup {t} /\ n \in 0..Len(stack)
      BY <1>0, <2>5
    <3> HIDE DEF n, t
    <3> QED BY <1>0, <2>2, <2>3, <2>5, <3>1, <3>2, PlainPushed
  <2> QED BY <1>9, <2>1, <2>4, <2>5, ResolveBaseStep
<1>10. CASE WalkElement
  <2>1. Top.kind = "type" /\ Top = stack[Len(stack)] /\ Len(stack) \in Nat \ {0} /\ Top.level = 1
    <3>1. Top.kind = "type" /\ Top = stack[Len(stack)] /\ Len(stack) \in Nat \ {0}
      BY <1>10, TopTyped DEF WalkElement, AtType, TypeInv, Top
    <3> QED BY <3>1 DEF PlainShape
  <2> DEFINE n == Len(stack)
  <2>2. /\ Len(stack') = n + 1 /\ seen' = seen /\ SameCall(stack'[n], stack[n])
        /\ \A i \in 1..n : i # n => stack'[i] = stack[i]
    BY <1>10, <2>1, WalkElementStep
  <2>3. PICK e \in Element : stack'[n + 1] = ElementFrame(e, 1)
    BY <1>10, <2>1, WalkElementStep
  <2>4. \A i \in 1..n : SameCall(stack'[i], stack[i]) /\ stack[i].kind = "type"
    <3>1. \A i \in 1..n : i = n \/ i \in 1..(n - 1)
      BY <2>1
    <3> QED BY <1>0, <2>1, <2>2, <3>1 DEF PlainShape
  <2>5. stack'[n + 1].level = 1 /\ stack'[n + 1].kind = "element" /\ Unconditional(stack'[n + 1].calls)
    BY <2>3, NothingConditional DEF TypeInv, ElementFrame
  <2>6. n \in 0..Len(stack)
    BY <2>1
  <2> HIDE DEF n
  <2> QED BY <1>0, <2>2, <2>4, <2>5, <2>6, PlainPushed
<1>11. CASE Return
  <2>1. stack # <<>>
    BY <1>11 DEF Return, AtType
  <2>2. Len(stack') \in 0..Len(stack)
    BY <1>11, <2>1, ReturnStep, TopTyped DEF TypeInv
  <2>3. \A i \in 1..Len(stack') : stack'[i] = stack[i] /\ i \in 1..Len(stack)
    BY <1>0, <1>11, <2>2, ReturnStep
  <2>4. seen[1] \subseteq seen'[1]
    BY <1>11, ReturnStep
  <2> QED BY <1>0, <2>2, <2>3, <2>4, PlainKept
<1> QED BY <1>2, <1>3, <1>4, <1>5, <1>6, <1>7, <1>8, <1>9, <1>10, <1>11 DEF Next, Step, Done

\* Only Overflow ends in an overflow.
LEMMA OverflowOnly ==
  ASSUME [Next]_vars, ~Overflow, outcome # "overflow"
  PROVE  outcome' # "overflow"
<1>1. CASE \/ RejectAlternative \/ RejectBase \/ RejectFold \/ RejectGroup \/ RejectRef
           \/ RejectAttribute
  BY <1>1 DEF RejectAlternative, RejectBase, RejectFold, RejectGroup, RejectRef,
     RejectAttribute, Reject
<1>2. ASSUME NEW e \in Element, BeginElement(e) PROVE outcome' = outcome
  BY <1>2 DEF BeginElement
<1>3. ASSUME NEW t \in Type, BeginType(t) PROVE outcome' = outcome
  BY <1>3 DEF BeginType
<1>4. CASE EndPass
  BY <1>4 DEF EndPass
<1>5. CASE NoDerivation \/ SimpleBase \/ ResolveBase \/ EndExpand \/ EndGroups \/ WalkElement
  BY <1>5 DEF NoDerivation, SimpleBase, ResolveBase, EndExpand, EndGroups, WalkElement
<1>6. CASE Alternative \/ ExpandGroup
  BY <1>6 DEF Alternative, ExpandGroup
<1>7. CASE OwnType
  BY <1>7 DEF OwnType
<1>8. CASE ApplyAttrGroup
  BY <1>8 DEF ApplyAttrGroup
<1>9. CASE Return
  BY <1>9 DEF Return
<1>10. CASE Fold
  BY <1>10 DEF Fold
<1>11. CASE UNCHANGED vars
  BY <1>11 DEF vars
<1> QED BY <1>1, <1>2, <1>3, <1>4, <1>5, <1>6, <1>7, <1>8, <1>9, <1>10, <1>11 DEF Next, Step, Done

PlainInv == ConditionalTypes \/ (PlainShape /\ outcome # "overflow")

\* However types, elements and groups lead back to each other: when no element
\* has a conditional type, the recursion ends before the stack is exhausted.
THEOREM PlainResolutionTerminates == Spec => []PlainRecursionEnds
<1>1. Init => PlainInv
  <2> SUFFICES ASSUME Init PROVE PlainShape /\ outcome # "overflow"
    BY DEF PlainInv
  <2>1. stack = <<>> /\ Len(<<>>) = 0 /\ outcome = "running"
    BY DEF Init
  <2>2. \A i \in 1..Len(stack) : FALSE
    BY <2>1
  <2>3. \A i \in 1..(Len(stack) - 1) : FALSE
    BY <2>1
  <2> QED BY <2>1, <2>2, <2>3 DEF PlainShape
<1>2. TypeInv /\ PlainInv /\ [Next]_vars => PlainInv'
  <2> SUFFICES ASSUME TypeInv, PlainInv, [Next]_vars PROVE PlainInv'
    OBVIOUS
  <2>1. ConditionalTypes' = ConditionalTypes
    BY StepKeeps DEF ConditionalTypes
  <2>2. CASE ConditionalTypes
    BY <2>1, <2>2 DEF PlainInv
  <2>3. CASE ~ConditionalTypes
    <3>1. PlainShape /\ outcome # "overflow"
      BY <2>3 DEF PlainInv
    <3>2. PlainShape'
      BY <2>3, <3>1, PlainStep
    <3>3. ~Overflow
      BY <3>1, PlainDepth DEF Overflow, TypeInv, TypeOK
    <3>4. outcome' # "overflow"
      BY <3>1, <3>3, OverflowOnly
    <3> QED BY <3>2, <3>4 DEF PlainInv
  <2> QED BY <2>2, <2>3
<1>3. PlainInv => PlainRecursionEnds
  BY DEF PlainInv, PlainRecursionEnds
<1> QED BY <1>1, <1>2, <1>3, TypeAlways, PTL DEF Spec
-----------------------------------------------------------------------------
(***************************************************************************)
(* The second pass.  When the first one ends, every type that was visited  *)
(* has no base, group or attribute group left, and all that its elements   *)
(* lead to was visited too, in particular every named type; so the second  *)
(* pass meets only such types.  While the first pass runs, a type that was *)
(* visited is so far or is still on the stack, and there the call knows    *)
(* which of its phases lie behind it.                                      *)
(***************************************************************************)
Groupless(t) == \A j \in 1..Len(content[t]) : content[t][j].kind # "group"
IsElement(token) == token.kind \in {"element", "ref"}

\* What an element leads to was visited, or is a named type.
Settled(e, V) ==
  /\ \A k \in 1..Len(schema.alternatives[e]) :
        schema.alternatives[e][k] \in Type \cup {Missing} => schema.alternatives[e][k] \in V
  /\ schema.type[e] \in Type => schema.type[e] \in V \cup schema.named
RefKnown(token) == token.kind = "ref" => token.of \in schema.global
WalkedTo(t, i, V) ==
  \A j \in 1..Len(content[t]) :
     j < i /\ IsElement(content[t][j]) => Settled(content[t][j].of, V) /\ RefKnown(content[t][j])
Finished(t, V) ==
  /\ base[t] = NoType /\ attrGroupRefs[t] = <<>> /\ Groupless(t)
  /\ WalkedTo(t, Len(content[t]) + 1, V) /\ ~UnknownRef(t)

\* A call for a type did the phases that lie behind it, and only a base or an
\* element is called from it.
TypeCall(i, V) ==
  stack[i].kind = "type" =>
    /\ stack[i].of \in V
    /\ stack[i].phase # "derive" => base[stack[i].of] = NoType
    /\ stack[i].phase \in {"groups", "walk"} => Groupless(stack[i].of)
    /\ stack[i].phase = "walk" => /\ attrGroupRefs[stack[i].of] = <<>>
                                  /\ WalkedTo(stack[i].of, stack[i].at, V)
    /\ i < Len(stack) => stack[i].phase \in {"fold", "walk"}

\* The call i of a type is at the token of element e.
CalledFrom(i, e) ==
  /\ stack[i].kind = "type" /\ stack[i].phase = "walk"
  /\ stack[i].at \in 1..Len(content[stack[i].of])
  /\ content[stack[i].of][stack[i].at].of = e
  /\ \/ content[stack[i].of][stack[i].at].kind = "element"
     \/ content[stack[i].of][stack[i].at].kind = "ref" /\ e \in schema.global

\* A call for an element visited the alternatives it has no more to call.
ElementCall(i, V) ==
  stack[i].kind = "element" =>
    LET alts == schema.alternatives[stack[i].of]
        calls == stack[i].calls
    IN  /\ \A k \in 1..Len(alts) : alts[k] \in Type \cup {Missing} =>
              alts[k] \in V \/ \E m \in 1..Len(calls) : calls[m] = alts[k]
        /\ \A m \in 1..Len(calls) : \E k \in 1..Len(alts) : calls[m] = alts[k]
        /\ i = 1 => stack[i].of \in schema.global
        /\ i > 1 => CalledFrom(i - 1, stack[i].of)
Calls(V) == \A i \in 1..Len(stack) : TypeCall(i, V) /\ ElementCall(i, V)

\* Of several calls for a type only the outermost folds a base into it.
FoldsOutermost ==
  \A i, j \in 1..Len(stack) :
     i < j /\ stack[i].kind = "type" /\ stack[i].of = stack[j].of => stack[j].phase # "fold"

OnStack(t) == \E i \in 1..Len(stack) : stack[i].kind = "type" /\ stack[i].of = t
InProgress(e) == stack # <<>> /\ stack[1].kind = "element" /\ stack[1].of = e

PassOne(V) ==
  pass = 1 => /\ \A t \in V : OnStack(t) \/ Finished(t, V)
              /\ schema.named \ types \subseteq V
              /\ \A e \in schema.global \ elements : InProgress(e) \/ Settled(e, V)
PassTwo(V) ==
  pass = 2 => /\ \A t \in V : Finished(t, V)
              /\ schema.named \subseteq V
              /\ \A e \in schema.global : Settled(e, V)
              /\ \A i \in 1..Len(stack) : stack[i].phase # "fold"

\* V holds the types visited so far.
Visited(V) ==
  /\ \A l \in 1..Len(seen) : seen[l] \subseteq V
  /\ elements \subseteq schema.global /\ types \subseteq schema.named
  /\ Calls(V) /\ FoldsOutermost /\ PassOne(V) /\ PassTwo(V)

\* An element whose type was written in place has it set wherever it stands.
InPlaceLinked ==
  /\ Anonymous(schema) \cap schema.global \subseteq linked
  /\ \A t \in Type : InPlace(schema, content[t])
ResolveInv == InPlaceLinked /\ \E V \in SUBSET Type : Visited(V)
-----------------------------------------------------------------------------
(* Elements with a type written in place are linked to it everywhere.      *)

\* Changing one field of a token leaves the others.
Linked(x) == [x EXCEPT !.linked = TRUE]
Bare(x) == [x EXCEPT !.linked = FALSE]
Counted(x, n) == [x EXCEPT !.occurs = n]
FieldsApart(x, n) ==
  /\ Counted(x, n).kind = x.kind /\ Counted(x, n).of = x.of /\ Counted(x, n).linked = x.linked
  /\ Linked(x).kind = x.kind /\ Linked(x).of = x.of /\ Linked(x).linked
  /\ Bare(Linked(x)) = Bare(x)

LEMMA TokenFields ==
  ASSUME NEW x \in Bracket \cup Particles \cup GroupRef, NEW n
  PROVE  FieldsApart(x, n)
<1>1. ASSUME NEW K, NEW O, x \in [kind : K, of : O, occurs : Nat, linked : BOOLEAN]
      PROVE  FieldsApart(x, n)
  BY <1>1 DEF FieldsApart, Counted, Linked, Bare
<1>2. CASE x \in Bracket
  BY <1>1, <1>2, Zenon DEF Bracket
<1>3. CASE x \in Particles
  BY <1>1, <1>3, Zenon DEF Particles
<1>4. CASE x \in GroupRef
  BY <1>1, <1>4, Zenon DEF GroupRef
<1> QED BY <1>2, <1>3, <1>4

LEMMA InPlaceConcat ==
  ASSUME NEW s, NEW X, NEW x \in Seq(X), NEW y \in Seq(X), InPlace(s, x), InPlace(s, y)
  PROVE  x \o y \in Seq(X) /\ InPlace(s, x \o y)
<1>1. x \o y \in Seq(X) /\ Len(x \o y) = Len(x) + Len(y) /\ Len(x) \in Nat /\ Len(y) \in Nat
  OBVIOUS
<1>2. ASSUME NEW i \in 1..(Len(x) + Len(y))
      PROVE  \/ i \in 1..Len(x) /\ (x \o y)[i] = x[i]
             \/ i - Len(x) \in 1..Len(y) /\ (x \o y)[i] = y[i - Len(x)]
  BY <1>1
<1>3. DOMAIN (x \o y) = 1..(Len(x) + Len(y)) /\ DOMAIN x = 1..Len(x) /\ DOMAIN y = 1..Len(y)
  BY <1>1
<1> QED BY <1>1, <1>2, <1>3 DEF InPlace

LEMMA InPlaceSub ==
  ASSUME NEW s, NEW X, NEW x \in Seq(X), InPlace(s, x), NEW a \in 1..(Len(x) + 1), NEW b \in 0..Len(x)
  PROVE  SubSeq(x, a, b) \in Seq(X) /\ InPlace(s, SubSeq(x, a, b))
<1>1. /\ SubSeq(x, a, b) \in Seq(X)
      /\ Len(SubSeq(x, a, b)) = IF a <= b THEN b - a + 1 ELSE 0
      /\ \A i \in 1..(b - a + 1) : SubSeq(x, a, b)[i] = x[a + i - 1]
  <2>1. \A i \in a..b : x[i] \in X
    OBVIOUS
  <2> QED BY <2>1, SubSeqProperties
<1>2. \A i \in DOMAIN SubSeq(x, a, b) : /\ a + i - 1 \in DOMAIN x
                                         /\ SubSeq(x, a, b)[i] = x[a + i - 1]
  BY <1>1
<1> DEFINE y == SubSeq(x, a, b)
<1> HIDE DEF y
<1>3. \A i \in DOMAIN y : a + i - 1 \in DOMAIN x /\ y[i] = x[a + i - 1]
  BY <1>2 DEF y
<1>4. InPlace(s, y)
  BY <1>3 DEF InPlace
<1> QED BY <1>1, <1>4 DEF y

\* One token with neither kind nor element of its own.
LEMMA InPlaceOne ==
  ASSUME NEW s, NEW o, o.kind # "element"
  PROVE  InPlace(s, <<o>>)
BY DEF InPlace

LEMMA InPlaceFold ==
  ASSUME NEW s, NEW b \in Content, NEW own \in Content, InPlace(s, b), InPlace(s, own)
  PROVE  InPlace(s, ConcatContent(b, own))
<1> DEFINE T == Bracket \cup Particles \cup GroupRef
           o == Open("sequence", 1)
<1>1. /\ o \in T /\ Close \in T /\ b \in Seq(T) /\ own \in Seq(T)
      /\ InPlace(s, <<o>>) /\ InPlace(s, <<Close>>)
  <2>1. o \in Bracket /\ Close \in Bracket /\ o.kind # "element" /\ Close.kind # "element"
    BY DEF Open, Close, Bracket, Compositor
  <2> QED BY <2>1, InPlaceOne DEF Content
<1> HIDE DEF T, o
<1>2. <<o>> \in Seq(T) /\ <<Close>> \in Seq(T)
  BY <1>1
<1>3. <<o>> \o b \in Seq(T) /\ InPlace(s, <<o>> \o b)
  BY <1>1, <1>2, InPlaceConcat
<1>4. (<<o>> \o b) \o own \in Seq(T) /\ InPlace(s, (<<o>> \o b) \o own)
  BY <1>1, <1>3, InPlaceConcat
<1>5. InPlace(s, ((<<o>> \o b) \o own) \o <<Close>>)
  BY <1>1, <1>2, <1>4, InPlaceConcat
<1> QED BY <1>5 DEF ConcatContent, o

LEMMA InPlaceExpand ==
  ASSUME TypeInv, InPlaceLinked, ExpandGroup
  PROVE  \A t \in Type : InPlace(schema, content'[t])
<1> DEFINE T == Bracket \cup Particles \cup GroupRef
           c == content[Top.of]
           g == schema.groups[Here.of]
           copy == Copy(Here.of, Here.occurs)
<1>1. c \in Seq(T) /\ GroupAt \in 1..Len(c) /\ Here.occurs \in Nat /\ g \in Seq(T) /\ g # <<>>
  BY GroupAtTyped, SchemaTyped DEF TypeInv, Content, ExpandGroup, Expandable, GroupRef
<1>2. InPlace(schema, c) /\ InPlace(schema, g)
  BY GroupAtTyped, DerivationAssumption DEF TypeInv, InPlaceLinked
<1>3. copy \in Seq(T) /\ InPlace(schema, copy)
  <2> DEFINE first == [g[1] EXCEPT !.occurs = Here.occurs]
  <2>1. /\ first \in T /\ first.kind = g[1].kind /\ first.of = g[1].of /\ first.linked = g[1].linked
    <3>1. g[1] \in T
      BY <1>1
    <3>2. first \in T
      BY <1>1, <3>1, Zenon DEF Bracket, Particles, GroupRef
    <3> HIDE DEF T, g, first
    <3>3. FieldsApart(g[1], Here.occurs)
      BY <3>1, TokenFields DEF T
    <3>4. first = Counted(g[1], Here.occurs)
      BY DEF first, Counted
    <3> QED BY <3>2, <3>3, <3>4 DEF FieldsApart
  <2>2. copy = [g EXCEPT ![1] = first]
    BY DEF Copy
  <2> HIDE DEF T, g, first, copy
  <2>3. 1 \in 1..Len(g)
    BY <1>1
  <2>4. copy \in Seq(T)
    BY <1>1, <2>1, <2>2, <2>3, ExceptSeq
  <2>5. /\ DOMAIN copy = DOMAIN g /\ copy[1] = first
        /\ \A i \in DOMAIN g : i # 1 => copy[i] = g[i]
    BY <1>1, <2>2, <2>3
  <2>6. InPlace(schema, copy)
    BY <1>2, <2>1, <2>5 DEF InPlace
  <2> QED BY <2>4, <2>6
<1> HIDE DEF T, c, g, copy
<1> DEFINE before == SubSeq(c, 1, GroupAt - 1)
           after == SubSeq(c, GroupAt + 1, Len(c))
<1>4. before \in Seq(T) /\ InPlace(schema, before) /\ after \in Seq(T) /\ InPlace(schema, after)
  <2>1. /\ 1 \in 1..(Len(c) + 1) /\ GroupAt - 1 \in 0..Len(c)
        /\ GroupAt + 1 \in 1..(Len(c) + 1) /\ Len(c) \in 0..Len(c)
    BY <1>1
  <2> QED BY <1>1, <1>2, <2>1, InPlaceSub
<1>5. content' = [content EXCEPT ![Top.of] = (before \o copy) \o after]
  BY DEF ExpandGroup, c, copy
<1> HIDE DEF before, after
<1>6. before \o copy \in Seq(T) /\ InPlace(schema, before \o copy)
  BY <1>3, <1>4, InPlaceConcat
<1>7. InPlace(schema, (before \o copy) \o after)
  BY <1>4, <1>6, InPlaceConcat
<1> QED BY <1>5, <1>7 DEF InPlaceLinked, TypeInv, TypeOK

\* A step links elements, and leaves the tokens of every model as they are.
Relinks ==
  \A t \in Type :
    /\ Len(content'[t]) = Len(content[t]) /\ DOMAIN content'[t] = DOMAIN content[t]
    /\ Unlinked(content'[t]) = Unlinked(content[t])
    /\ \A j \in 1..Len(content[t]) : /\ content'[t][j].kind = content[t][j].kind
                                     /\ content'[t][j].of = content[t][j].of
                                     /\ content[t][j].linked => content'[t][j].linked

LEMMA OwnTypeRelinks ==
  ASSUME TypeInv, OwnType
  PROVE  Relinks
<1> DEFINE T == Bracket \cup Particles \cup GroupRef
           p == Caller.of
           a == Caller.at
<1>1. \/ content' = content
      \/ content' = [content EXCEPT ![p] = [content[p] EXCEPT ![a] = Linked(content[p][a])]]
  BY DEF OwnType, Linked
<1>2. content \in [Type -> Seq(T)]
  BY DEF TypeInv, TypeOK, Content
<1>3. \A x \in T : /\ Linked(x).kind = x.kind /\ Linked(x).of = x.of /\ Linked(x).linked
                   /\ Bare(Linked(x)) = Bare(x)
  <2>1. \A x \in T : FieldsApart(x, TRUE)
    BY TokenFields
  <2> QED BY <2>1 DEF FieldsApart
<1> HIDE DEF T, p, a
<1>4. CASE content' = content
  BY <1>4 DEF Relinks
<1>5. CASE content' = [content EXCEPT ![p] = [content[p] EXCEPT ![a] = Linked(content[p][a])]]
  <2> SUFFICES ASSUME NEW t \in Type
               PROVE  /\ Len(content'[t]) = Len(content[t]) /\ DOMAIN content'[t] = DOMAIN content[t]
                      /\ Unlinked(content'[t]) = Unlinked(content[t])
                      /\ \A j \in 1..Len(content[t]) : /\ content'[t][j].kind = content[t][j].kind
                                                       /\ content'[t][j].of = content[t][j].of
                                                       /\ content[t][j].linked => content'[t][j].linked
    BY DEF Relinks
  <2> DEFINE c == content[t]
             d == content'[t]
  <2>1. c \in Seq(T)
    BY <1>2
  <2>2. d = c \/ d = [c EXCEPT ![a] = Linked(c[a])]
    BY <1>2, <1>5
  <2> HIDE DEF c, d
  <2>3. DOMAIN d = DOMAIN c /\ DOMAIN c = 1..Len(c) /\ Len(c) \in Nat
    BY <2>1, <2>2
  <2>4. \A j \in DOMAIN c : c[j] \in T /\ (d[j] = c[j] \/ d[j] = Linked(c[j]))
    BY <2>1, <2>2
  <2>5. \A j \in DOMAIN c : /\ d[j].kind = c[j].kind /\ d[j].of = c[j].of
                            /\ c[j].linked => d[j].linked
                            /\ Bare(d[j]) = Bare(c[j])
    BY <1>3, <2>4
  <2>6. Unlinked(d) = Unlinked(c)
    <3>1. /\ Unlinked(d) = [i \in DOMAIN d |-> Bare(d[i])]
          /\ Unlinked(c) = [i \in DOMAIN c |-> Bare(c[i])]
      BY DEF Unlinked, Bare
    <3> QED BY <2>3, <2>5, <3>1
  <2>7. Len(d) = Len(c)
    BY <2>1, <2>2
  <2> QED BY <2>3, <2>5, <2>6, <2>7 DEF c, d
<1> QED BY <1>1, <1>4, <1>5

\* Only a fold, an expansion and the return from an element change a model.
LEMMA ContentKept ==
  ASSUME [Next]_vars
  PROVE  /\ ~Fold /\ ~ExpandGroup /\ ~OwnType => content' = content
         /\ ~ApplyAttrGroup => attrGroupRefs' = attrGroupRefs
         /\ ~OwnType => linked' = linked
         /\ linked \subseteq linked'
<1>1. CASE \/ RejectAlternative \/ RejectBase \/ RejectFold \/ RejectGroup \/ RejectRef
           \/ RejectAttribute \/ Overflow \/ UNCHANGED vars
  BY <1>1 DEF RejectAlternative, RejectBase, RejectFold, RejectGroup, RejectRef,
     RejectAttribute, Overflow, Reject, vars, heap
<1>2. CASE \/ \E e \in Element : BeginElement(e)
           \/ \E t \in Type : BeginType(t)
           \/ EndPass \/ NoDerivation \/ EndExpand \/ EndGroups \/ WalkElement \/ Alternative
  <2>1. UNCHANGED heap
    BY <1>2 DEF BeginElement, BeginType, EndPass, NoDerivation, EndExpand, EndGroups, WalkElement, Alternative
  <2> QED BY <2>1 DEF heap
<1>3. CASE ExpandGroup
  BY <1>3 DEF ExpandGroup
<1>4. CASE OwnType
  <2>1. attrGroupRefs' = attrGroupRefs /\ (linked' = linked \/ linked' = linked \cup {Top.of})
    BY <1>4, SMTT(30) DEF OwnType
  <2> QED BY <1>4, <2>1
<1>5. CASE ApplyAttrGroup
  BY <1>5 DEF ApplyAttrGroup
<1>6. CASE Return
  BY <1>6 DEF Return
<1>7. CASE ResolveBase \/ SimpleBase
  BY <1>7 DEF ResolveBase, SimpleBase
<1>8. CASE Fold
  BY <1>8 DEF Fold
<1> QED BY <1>1, <1>2, <1>3, <1>4, <1>5, <1>6, <1>7, <1>8 DEF Next, Step, Done

LEMMA InPlaceStep ==
  ASSUME TypeInv, InPlaceLinked, [Next]_vars
  PROVE  InPlaceLinked'
<1>1. schema' = schema /\ linked \subseteq linked'
  BY StepKeeps, ContentKept
<1>2. \A t \in Type : InPlace(schema, content'[t])
  <2>1. CASE Fold
    <3>1. Top.of \in Type /\ parent[Top.of] \in Type
      <4>1. Top.of \in Type /\ Top.phase = "fold" /\ Len(stack) \in 1..Len(stack)
        BY <2>1, TopTyped DEF Fold, AtType, TypeInv
      <4> QED BY <4>1 DEF TypeInv, BasesKnown, Top
    <3> DEFINE b == content[parent[Top.of]]
               c == content[Top.of]
    <3>2. b \in Content /\ c \in Content /\ InPlace(schema, b) /\ InPlace(schema, c)
      BY <3>1 DEF TypeInv, TypeOK, InPlaceLinked
    <3>3. content' = content \/ content' = [content EXCEPT ![Top.of] = ConcatContent(b, c)]
      BY <2>1 DEF Fold
    <3> HIDE DEF b, c
    <3>4. InPlace(schema, ConcatContent(b, c))
      BY <3>2, InPlaceFold
    <3> QED BY <3>3, <3>4 DEF TypeInv, TypeOK, InPlaceLinked
  <2>2. CASE ExpandGroup
    BY <2>2, InPlaceExpand
  <2>3. CASE OwnType
    <3>1. Relinks
      BY <2>3, OwnTypeRelinks
    <3>2. \A t \in Type : DOMAIN content[t] = 1..Len(content[t])
      BY DEF TypeInv, TypeOK, Content
    <3> QED BY <3>1, <3>2 DEF Relinks, InPlace, InPlaceLinked
  <2>4. CASE ~Fold /\ ~ExpandGroup /\ ~OwnType
    BY <2>4, ContentKept DEF InPlaceLinked
  <2> QED BY <2>1, <2>2, <2>3, <2>4
<1> QED BY <1>1, <1>2 DEF InPlaceLinked
-----------------------------------------------------------------------------
(* What a step leaves of the types visited so far.                         *)

LEMMA FrameTyped ==
  ASSUME TypeOK, NEW i \in 1..Len(stack)
  PROVE  /\ stack[i].kind \in {"type", "element"}
         /\ stack[i].kind = "type" => stack[i].of \in Type /\ stack[i].at \in Nat \ {0}
         /\ stack[i].kind = "element" => /\ stack[i].of \in Element /\ stack[i].phase = "choose"
                                         /\ stack[i].calls \in Seq(Type \cup {Simple, Missing})
<1>1. stack[i] \in Frame
  BY ElementOfSeq DEF TypeOK
<1> QED BY <1>1 DEF Frame, TypeFrames, ElementFrames

\* The step leaves type t alone, but may link the elements of its model.
Quiet(t) ==
  /\ Len(content'[t]) = Len(content[t])
  /\ \A j \in 1..Len(content[t]) : /\ content'[t][j].kind = content[t][j].kind
                                   /\ content'[t][j].of = content[t][j].of
  /\ UNCHANGED <<base[t], attrGroupRefs[t], attrs[t]>>

LEMMA SettledKept ==
  ASSUME NEW V, NEW W, V \subseteq W, schema' = schema, NEW e, Settled(e, V)
  PROVE  Settled(e, W)'
BY DEF Settled

LEMMA WalkedKept ==
  ASSUME NEW V, NEW W, V \subseteq W, schema' = schema, NEW t, Quiet(t), NEW i, WalkedTo(t, i, V)
  PROVE  WalkedTo(t, i, W)'
BY SettledKept DEF WalkedTo, Quiet, IsElement, RefKnown

LEMMA FinishedKept ==
  ASSUME NEW V, NEW W, V \subseteq W, schema' = schema, NEW t, Quiet(t), Finished(t, V)
  PROVE  Finished(t, W)'
<1>1. WalkedTo(t, Len(content[t]) + 1, W)'
  <2>1. WalkedTo(t, Len(content[t]) + 1, V) /\ Len(content'[t]) = Len(content[t])
    BY DEF Finished, Quiet
  <2> QED BY <2>1, SettledKept DEF WalkedTo, Quiet, IsElement, RefKnown
<1>2. Groupless(t)'
  BY DEF Groupless, Finished, Quiet
<1>3. ~UnknownRef(t)'
  BY DEF Finished, Quiet, UnknownRef, References
<1> QED BY <1>1, <1>2, <1>3 DEF Finished, Quiet

\* A call below the top of the stack that the step leaves alone.
LEMMA TypeCallKept ==
  ASSUME TypeOK, NEW V, NEW W, V \subseteq W, schema' = schema,
         NEW i \in 1..Len(stack), i < Len(stack), TypeCall(i, V),
         stack'[i] = stack[i],
         stack[i].kind = "type" => /\ base'[stack[i].of] = NoType
                                   /\ stack[i].phase = "walk" => Quiet(stack[i].of)
  PROVE  TypeCall(i, W)'
<1> SUFFICES ASSUME stack[i].kind = "type" PROVE TypeCall(i, W)'
  BY DEF TypeCall
<1>1. stack[i].phase \in {"fold", "walk"} /\ stack[i].of \in W /\ base'[stack[i].of] = NoType
  BY DEF TypeCall
<1>2. CASE stack[i].phase = "fold"
  BY <1>1, <1>2 DEF TypeCall
<1>3. CASE stack[i].phase = "walk"
  <2>1. /\ Quiet(stack[i].of) /\ Groupless(stack[i].of) /\ attrGroupRefs[stack[i].of] = <<>>
        /\ WalkedTo(stack[i].of, stack[i].at, V)
    BY <1>3 DEF TypeCall
  <2>2. PICK t, a : t = stack[i].of /\ a = stack[i].at
    OBVIOUS
  <2>3. Quiet(t) /\ Groupless(t) /\ attrGroupRefs[t] = <<>> /\ WalkedTo(t, a, V)
    BY <2>1, <2>2
  <2>4. WalkedTo(t, a, W)'
    BY <2>3, WalkedKept
  <2>5. Groupless(t)' /\ attrGroupRefs'[t] = <<>>
    BY <2>3 DEF Groupless, Quiet
  <2>6. stack'[i].of = t /\ stack'[i].at = a /\ stack'[i].phase = "walk"
    BY <1>3, <2>2
  <2>7. Groupless(stack[i].of)' /\ WalkedTo(stack[i].of, stack[i].at, W)'
    BY <2>4, <2>5, <2>6 DEF Groupless, WalkedTo
  <2> QED BY <1>1, <2>2, <2>5, <2>6, <2>7 DEF TypeCall
<1> QED BY <1>1, <1>2, <1>3

LEMMA ElementCallKept ==
  ASSUME NEW V, NEW W, V \subseteq W, schema' = schema,
         NEW i \in 1..Len(stack), ElementCall(i, V), stack'[i] = stack[i],
         i > 1 => stack'[i - 1] = stack[i - 1]
                  /\ (stack[i - 1].phase = "walk" => Quiet(stack[i - 1].of))
  PROVE  ElementCall(i, W)'
<1> SUFFICES ASSUME stack[i].kind = "element" PROVE ElementCall(i, W)'
  BY DEF ElementCall
<1>1. i > 1 => CalledFrom(i - 1, stack[i].of)'
  <2> SUFFICES ASSUME i > 1 PROVE CalledFrom(i - 1, stack[i].of)'
    OBVIOUS
  <2>0. PICK t, a, e : t = stack[i - 1].of /\ a = stack[i - 1].at /\ e = stack[i].of
    OBVIOUS
  <2>1. /\ stack[i - 1].kind = "type" /\ stack[i - 1].phase = "walk" /\ Quiet(t)
        /\ a \in 1..Len(content[t]) /\ content[t][a].of = e
        /\ \/ content[t][a].kind = "element"
           \/ content[t][a].kind = "ref" /\ e \in schema.global
    <3>1. CalledFrom(i - 1, stack[i].of)
      BY DEF ElementCall
    <3> QED BY <2>0, <3>1 DEF CalledFrom
  <2>2. /\ stack'[i - 1].kind = "type" /\ stack'[i - 1].phase = "walk"
        /\ stack'[i - 1].of = t /\ stack'[i - 1].at = a /\ stack'[i].of = e
    BY <2>0, <2>1
  <2>3. /\ a \in 1..Len(content'[t]) /\ content'[t][a].of = e
        /\ \/ content'[t][a].kind = "element"
           \/ content'[t][a].kind = "ref" /\ e \in schema.global
    BY <2>1 DEF Quiet
  <2>4. CalledFrom(i - 1, e)'
    BY <2>2, <2>3 DEF CalledFrom
  <2> QED BY <2>0, <2>4 DEF CalledFrom
<1>2. PICK e, alts, calls : e = stack[i].of /\ calls = stack[i].calls /\ alts = schema.alternatives[e]
  OBVIOUS
<1>3. /\ \A k \in 1..Len(alts) : alts[k] \in Type \cup {Missing} =>
            alts[k] \in W \/ \E m \in 1..Len(calls) : calls[m] = alts[k]
      /\ \A m \in 1..Len(calls) : \E k \in 1..Len(alts) : calls[m] = alts[k]
      /\ i = 1 => e \in schema.global
  BY <1>2 DEF ElementCall
<1>4. stack'[i].of = e /\ stack'[i].calls = calls /\ schema'.alternatives[e] = alts
  BY <1>2
<1> QED BY <1>1, <1>2, <1>3, <1>4 DEF ElementCall

\* The calls up to the m-th, which lie below the top.
LEMMA CallsBelow ==
  ASSUME TypeInv, NEW V, NEW W, V \subseteq W, Calls(V), schema' = schema,
         NEW m \in Nat, m < Len(stack),
         \A i \in 1..m : stack'[i] = stack[i],
         \A t \in Type : base'[t] = base[t] \/ base'[t] = NoType,
         \A i \in 1..m : stack[i].kind = "type" /\ stack[i].phase = "walk" => Quiet(stack[i].of)
  PROVE  \A i \in 1..m : TypeCall(i, W)' /\ ElementCall(i, W)'
<1> SUFFICES ASSUME NEW i \in 1..m PROVE TypeCall(i, W)' /\ ElementCall(i, W)'
  OBVIOUS
<1>0. Len(stack) \in Nat /\ TypeOK
  BY DEF TypeInv, TypeOK
<1>1. /\ i \in 1..Len(stack) /\ i < Len(stack) /\ TypeCall(i, V) /\ ElementCall(i, V)
      /\ i > 1 => i - 1 \in 1..m /\ i - 1 \in 1..Len(stack)
      /\ TypeOK /\ stack'[i] = stack[i]
  BY <1>0 DEF Calls
<1>2. stack[i].kind = "type" => stack[i].of \in Type /\ stack[i].phase # "derive"
  BY <1>1, FrameTyped DEF TypeCall
<1>3. stack[i].kind = "type" => base'[stack[i].of] = NoType
  BY <1>1, <1>2 DEF TypeCall
<1>4. TypeCall(i, W)'
  BY <1>1, <1>3, TypeCallKept
<1>5. ElementCall(i, W)'
  <2>1. CASE i > 1 /\ stack[i].kind = "element"
    <3>1. stack[i - 1].kind = "type" /\ stack[i - 1].phase = "walk"
      BY <1>1, <2>1 DEF ElementCall, CalledFrom
    <3>2. stack'[i - 1] = stack[i - 1] /\ Quiet(stack[i - 1].of)
      BY <1>1, <2>1, <3>1
    <3> QED BY <1>1, <3>2, ElementCallKept, SMTT(30)
  <2>2. CASE i > 1 /\ stack[i].kind # "element"
    BY <1>1, <2>2 DEF ElementCall
  <2>3. CASE ~(i > 1)
    BY <1>1, <2>3, ElementCallKept
  <2> QED BY <2>1, <2>2, <2>3
<1> QED BY <1>4, <1>5

LEMMA FoldsKept ==
  ASSUME FoldsOutermost, WaitingKept, Len(stack) \in Nat, Len(stack') \in Nat,
         \A i \in 1..Len(stack') : i < Len(stack) => stack'[i].of = stack[i].of /\ stack'[i].kind = stack[i].kind
  PROVE  FoldsOutermost'
<1> SUFFICES ASSUME NEW i \in 1..Len(stack'), NEW j \in 1..Len(stack'), i < j,
                    stack'[i].kind = "type", stack'[i].of = stack'[j].of, stack'[j].phase = "fold"
             PROVE  FALSE
  BY DEF FoldsOutermost
<1>1. j \in 1..Len(stack) /\ stack[j].phase = "fold" /\ stack'[j].of = stack[j].of
  BY DEF WaitingKept
<1>2. i \in 1..Len(stack) /\ stack[i].kind = "type" /\ stack[i].of = stack[j].of
  BY <1>1
<1> QED BY <1>1, <1>2 DEF FoldsOutermost

\* What each pass has done so far stays done.
LEMMA PassesKept ==
  ASSUME TypeInv, NEW V \in SUBSET Type, NEW W \in SUBSET Type, V \subseteq W, Visited(V),
         schema' = schema, pass' = pass,
         types \ types' \subseteq W,
         \A e \in elements \ elements' : InProgress(e)',
         \A e \in schema.global : InProgress(e) => InProgress(e)' \/ Settled(e, W)',
         \A t \in V : OnStack(t) => OnStack(t)' \/ Finished(t, W)',
         \A t \in W \ V : OnStack(t)',
         \A t \in V : Quiet(t) \/ (pass = 1 /\ OnStack(t)'),
         pass = 2 => W = V /\ WaitingKept
  PROVE  PassOne(W)' /\ PassTwo(W)'
<1>1. PassOne(W)'
  <2> SUFFICES ASSUME pass = 1
               PROVE  /\ \A t \in W : OnStack(t)' \/ Finished(t, W)'
                      /\ schema.named \ types' \subseteq W
                      /\ \A e \in schema.global \ elements' : InProgress(e)' \/ Settled(e, W)'
    BY DEF PassOne
  <2>1. \A t \in V : OnStack(t) \/ Finished(t, V)
    BY DEF Visited, PassOne
  <2>2. ASSUME NEW t \in W PROVE OnStack(t)' \/ Finished(t, W)'
    BY <2>1, FinishedKept
  <2>3. schema.named \ types' \subseteq W
    BY DEF Visited, PassOne
  <2>4. ASSUME NEW e \in schema.global \ elements' PROVE InProgress(e)' \/ Settled(e, W)'
    <3>1. CASE e \in elements
      BY <3>1
    <3>2. CASE e \notin elements
      <4>1. InProgress(e) \/ Settled(e, V)
        BY <3>2 DEF Visited, PassOne
      <4> QED BY <4>1, SettledKept
    <3> QED BY <3>1, <3>2
  <2> QED BY <2>2, <2>3, <2>4
<1>2. PassTwo(W)'
  <2> SUFFICES ASSUME pass = 2
               PROVE  /\ \A t \in W : Finished(t, W)'
                      /\ schema.named \subseteq W
                      /\ \A e \in schema.global : Settled(e, W)'
                      /\ \A i \in 1..Len(stack') : stack'[i].phase # "fold"
    BY DEF PassTwo
  <2>1. W = V /\ WaitingKept /\ PassTwo(V)
    BY DEF Visited
  <2>2. \A t \in W : Finished(t, W)'
    BY <2>1, FinishedKept DEF PassTwo
  <2>3. \A e \in schema.global : Settled(e, W)'
    BY <2>1, SettledKept DEF PassTwo
  <2>4. \A i \in 1..Len(stack') : stack'[i].phase # "fold"
    BY <2>1 DEF PassTwo, WaitingKept
  <2> QED BY <2>1, <2>2, <2>3, <2>4 DEF PassTwo
<1> QED BY <1>1, <1>2

\* Only the call at the top goes on, and only its type may change.
LEMMA TopMoves ==
  ASSUME TypeInv, NEW V \in SUBSET Type, Visited(V), WaitingKept, Proceeds,
         stack # <<>>, Top.kind = "type", UNCHANGED <<schema, pass, elements, types, seen>>,
         \A t \in Type : t # Top.of => Quiet(t),
         base'[Top.of] = NoType,
         \/ Quiet(Top.of)
         \/ /\ pass = 1
            /\ \A i \in 1..(Len(stack) - 1) :
                  stack[i].kind = "type" /\ stack[i].of = Top.of => stack[i].phase # "walk",
         TypeCall(Len(stack), V)'
  PROVE  Visited(V)'
<1> DEFINE n == Len(stack)
<1>1. /\ n \in Nat \ {0} /\ TypeOK /\ Top.of \in Type /\ n - 1 \in Nat /\ n - 1 < n
      /\ Len(stack') = n /\ stack'[n].of = Top.of /\ stack'[n].kind = "type"
      /\ \A i \in 1..n : i = n \/ (i \in 1..(n - 1) /\ stack'[i] = stack[i])
  BY TopTyped DEF TypeInv, Proceeds, SameCall
<1>2. Calls(V)'
  <2>1. \A t \in Type : base'[t] = base[t] \/ base'[t] = NoType
    BY DEF Quiet
  <2>2. \A i \in 1..(n - 1) : /\ stack'[i] = stack[i]
                              /\ stack[i].kind = "type" /\ stack[i].phase = "walk" => Quiet(stack[i].of)
    BY <1>1, FrameTyped
  <2>3. Calls(V)
    BY DEF Visited
  <2>4. \A i \in 1..(n - 1) : TypeCall(i, V)' /\ ElementCall(i, V)'
    <3> DEFINE m == n - 1
    <3>1. m \in Nat /\ m < Len(stack)
      BY <1>1
    <3>2. \A i \in 1..m : /\ stack'[i] = stack[i]
                          /\ stack[i].kind = "type" /\ stack[i].phase = "walk" => Quiet(stack[i].of)
      BY <2>2
    <3> HIDE DEF m, n
    <3>3. \A i \in 1..m : TypeCall(i, V)' /\ ElementCall(i, V)'
      BY <2>1, <2>3, <3>1, <3>2, CallsBelow
    <3> QED BY <3>3 DEF m
  <2>5. ElementCall(n, V)'
    BY <1>1 DEF ElementCall
  <2> QED BY <1>1, <2>4, <2>5 DEF Calls
<1>3. FoldsOutermost'
  BY <1>1, FoldsKept DEF Visited
<1>4. \A i \in 1..n : stack'[i].of = stack[i].of /\ stack'[i].kind = stack[i].kind
  BY <1>1 DEF Top
<1>5. /\ \A t : OnStack(t) <=> OnStack(t)'
      /\ OnStack(Top.of)
  BY <1>1, <1>4 DEF OnStack, Top
<1>6. \A e : InProgress(e) => InProgress(e)'
  BY <1>1, <1>4 DEF InProgress
<1>7. PassOne(V)' /\ PassTwo(V)'
  <2>1. \A t \in V : Quiet(t) \/ (pass = 1 /\ OnStack(t)')
    BY <1>5
  <2> QED BY <1>5, <1>6, <2>1, PassesKept
<1> QED BY <1>2, <1>3, <1>7 DEF Visited

\* NextToken skips no token of the kinds it looks for.
LEMMA NextTokenFirst ==
  ASSUME NEW t, NEW n \in Nat \ {0}, NEW kinds, Len(content[t]) \in Nat,
         NEW j \in n..Len(content[t]), content[t][j].kind \in kinds
  PROVE  NextToken(t, n, kinds) # 0 /\ NextToken(t, n, kinds) <= j
<1> DEFINE is == {k \in n..Len(content[t]) : content[t][k].kind \in kinds}
<1>0. NextToken(t, n, kinds) = IF is = {} THEN 0 ELSE CHOOSE k \in is : \A l \in is : k <= l
  BY DEF NextToken
<1>1. is \in SUBSET Nat /\ j \in is /\ 0 \notin is
  OBVIOUS
<1> HIDE DEF is
<1>2. \E k \in is : \A l \in is : k <= l
  BY <1>1, LeastNatural
<1>3. NextToken(t, n, kinds) \in is /\ \A l \in is : NextToken(t, n, kinds) <= l
  BY <1>0, <1>1, <1>2
<1> QED BY <1>1, <1>3

\* The call at the top of the stack.
LEMMA TopCall ==
  ASSUME TypeInv, NEW V \in SUBSET Type, Visited(V), stack # <<>>, Top.kind = "type"
  PROVE  /\ Top.of \in V /\ Top.of \in Type /\ Len(stack) \in Nat \ {0} /\ Len(stack) \in 1..Len(stack)
         /\ Top.phase # "derive" => base[Top.of] = NoType
         /\ Top.phase \in {"groups", "walk"} => Groupless(Top.of)
         /\ Top.phase = "walk" => attrGroupRefs[Top.of] = <<>> /\ WalkedTo(Top.of, Top.at, V)
         /\ pass = 2 => Finished(Top.of, V) /\ Top.phase # "fold"
         /\ Top.at \in Nat \ {0}
         /\ content[Top.of] \in Content /\ Len(content[Top.of]) \in Nat
<1>1. Len(stack) \in Nat \ {0} /\ Top.of \in Type /\ Len(stack) \in 1..Len(stack) /\ TypeOK
  BY TopTyped DEF TypeInv
<1>2. TypeCall(Len(stack), V) /\ PassTwo(V)
  BY <1>1 DEF Visited, Calls
<1>3. Top.at \in Nat \ {0}
  BY <1>1, FrameTyped DEF Top
<1>4. content[Top.of] \in Content /\ Len(content[Top.of]) \in Nat
  BY <1>1 DEF TypeOK, Content
<1> QED BY <1>1, <1>2, <1>3, <1>4 DEF TypeCall, PassTwo, Top

\* The new frame at the top after a change of phase.
LEMMA NewPhase ==
  ASSUME TypeInv, stack # <<>>, Top.kind = "type", NEW phase \in {"derive", "fold", "expand", "groups", "walk"},
         NEW at \in Nat \ {0}, stack' = Moved(stack, phase, at)
  PROVE  /\ Len(stack') = Len(stack) /\ stack'[Len(stack)].kind = "type"
         /\ stack'[Len(stack)].of = Top.of /\ stack'[Len(stack)].phase = phase
         /\ stack'[Len(stack)].at = at
<1>1. Top \in TypeFrames /\ Len(stack) \in Nat \ {0} /\ stack \in Seq(Frame) /\ TypeOK
  BY TopTyped DEF TypeInv, TypeOK
<1>2. [Top EXCEPT !.phase = phase, !.at = at].at = at
  BY <1>1 DEF TypeFrames
<1>3. Moved(stack, phase, at) = [stack EXCEPT ![Len(stack)] = [Top EXCEPT !.phase = phase, !.at = at]]
  BY DEF Moved, Top
<1>4. stack'[Len(stack)] = [Top EXCEPT !.phase = phase, !.at = at]
  BY <1>1, <1>3
<1> QED BY <1>1, <1>2, <1>4, MovedTyped

LEMMA NoDerivationVisits ==
  ASSUME TypeInv, [Next]_vars, NEW V \in SUBSET Type, Visited(V), NoDerivation \/ SimpleBase
  PROVE  Visited(V)'
<1>1. /\ stack # <<>> /\ Top.kind = "type" /\ stack' = Moved(stack, "expand", 1)
      /\ Top.phase = "derive" /\ UNCHANGED <<schema, pass, elements, types, seen, content, attrGroupRefs, attrs>>
      /\ base' = [base EXCEPT ![Top.of] = NoType] \/ (base' = base /\ base[Top.of] = NoType)
  BY DEF NoDerivation, SimpleBase, AtType, loops, heap
<1>2. /\ Top.of \in V /\ Top.of \in Type /\ Len(stack) \in 1..Len(stack)
      /\ pass = 2 => base[Top.of] = NoType
  BY <1>1, TopCall DEF Finished
<1>3. base'[Top.of] = NoType /\ \A t \in Type : t # Top.of => base'[t] = base[t]
  BY <1>1, <1>2 DEF TypeInv, TypeOK
<1>4. \A t \in Type : base'[t] = base[t] => Quiet(t)
  BY <1>1 DEF Quiet
<1>5. \/ Quiet(Top.of)
      \/ /\ pass = 1
         /\ \A i \in 1..(Len(stack) - 1) :
               stack[i].kind = "type" /\ stack[i].of = Top.of => stack[i].phase # "walk"
  <2>1. CASE base[Top.of] = NoType
    BY <1>2, <1>3, <1>4, <2>1
  <2>2. CASE base[Top.of] # NoType
    <3>1. pass = 1
      BY <1>2, <2>2 DEF TypeInv, TypeOK
    <3>2. ASSUME NEW i \in 1..(Len(stack) - 1), stack[i].kind = "type", stack[i].of = Top.of
          PROVE  stack[i].phase # "walk"
      BY <1>2, <2>2, <3>2 DEF Visited, Calls, TypeCall
    <3> QED BY <3>1, <3>2
  <2> QED BY <2>1, <2>2
<1>6. TypeCall(Len(stack), V)'
  BY <1>1, <1>2, <1>3, NewPhase DEF TypeCall
<1>7. Proceeds /\ WaitingKept
  <2>1. ~ResolveBase
    BY DerivationAssumption DEF NoDerivation, SimpleBase, ResolveBase
  <2> QED BY <2>1, ProceedStep, WaitingStep
<1> QED BY <1>1, <1>3, <1>4, <1>5, <1>6, <1>7, TopMoves

LEMMA FoldVisits ==
  ASSUME TypeInv, [Next]_vars, NEW V \in SUBSET Type, Visited(V), Fold
  PROVE  Visited(V)'
<1>1. /\ stack # <<>> /\ Top.kind = "type" /\ stack' = Moved(stack, "expand", 1)
      /\ Top.phase = "fold" /\ UNCHANGED <<schema, pass, elements, types, seen, base, attrGroupRefs>>
      /\ \A t \in Type : t # Top.of => content'[t] = content[t] /\ attrs'[t] = attrs[t]
  BY DEF Fold, AtType, loops, TypeInv, TypeOK, AttrsTyped
<1>2. /\ Top.of \in V /\ base[Top.of] = NoType /\ pass = 1 /\ Len(stack) \in 1..Len(stack)
  BY <1>1, TopCall DEF TypeInv, TypeOK
<1>3. \A t \in Type : t # Top.of => Quiet(t)
  BY <1>1 DEF Quiet
<1>4. \A i \in 1..(Len(stack) - 1) :
         stack[i].kind = "type" /\ stack[i].of = Top.of => stack[i].phase # "walk"
  BY <1>1, <1>2 DEF Visited, FoldsOutermost, Top
<1>5. TypeCall(Len(stack), V)'
  BY <1>1, <1>2, NewPhase DEF TypeCall
<1>6. Proceeds /\ WaitingKept
  <2>1. ~ResolveBase
    BY DEF Fold, ResolveBase, AtType
  <2> QED BY <2>1, ProceedStep, WaitingStep
<1> QED BY <1>1, <1>2, <1>3, <1>4, <1>5, <1>6, TopMoves

\* While a group is left to expand, no call for the type walks its model.
LEMMA ExpandGroupVisits ==
  ASSUME TypeInv, [Next]_vars, NEW V \in SUBSET Type, Visited(V), ExpandGroup
  PROVE  Visited(V)'
<1>1. /\ stack # <<>> /\ Top.kind = "type" /\ Top.phase = "expand"
      /\ UNCHANGED <<schema, pass, elements, types, seen, base, attrGroupRefs, attrs>>
      /\ \A t \in Type : t # Top.of => content'[t] = content[t]
  BY DEF ExpandGroup, AtType, loops, TypeInv, TypeOK
<1>2. ~Groupless(Top.of)
  <2>1. Here.kind = "group"
    BY GroupAtTyped DEF GroupRef
  <2> QED BY <2>1, GroupAtTyped DEF Groupless, Here
<1>3. Top.of \in V /\ base[Top.of] = NoType /\ pass = 1 /\ Len(stack) \in 1..Len(stack)
  BY <1>1, <1>2, TopCall DEF TypeInv, TypeOK, Finished
<1>4. \A t \in Type : t # Top.of => Quiet(t)
  BY <1>1 DEF Quiet
<1>5. \A i \in 1..(Len(stack) - 1) :
         stack[i].kind = "type" /\ stack[i].of = Top.of => stack[i].phase # "walk"
  BY <1>2, <1>3 DEF Visited, Calls, TypeCall
<1>6. Proceeds /\ WaitingKept
  <2>1. ~ResolveBase
    BY DEF ExpandGroup, ResolveBase, AtType
  <2> QED BY <2>1, ProceedStep, WaitingStep
<1>7. TypeCall(Len(stack), V)'
  <2>1. Len(stack') = Len(stack) /\ stack'[Len(stack)].of = Top.of
    BY <1>6 DEF Proceeds, SameCall
  <2>2. stack'[Len(stack)].phase = "expand"
    <3> DEFINE x == [group |-> Here.of, rest |-> Behind]
               f == [Top EXCEPT !.path = Within \cup {x}]
    <3>1. stack' = [stack EXCEPT ![Len(stack)] = f] /\ Top \in TypeFrames /\ stack \in Seq(Frame)
      BY <1>1, TopTyped DEF ExpandGroup, TypeInv, TypeOK, Top
    <3> HIDE DEF x
    <3>2. f.phase = "expand"
      BY <1>1, <3>1 DEF TypeFrames
    <3> HIDE DEF f
    <3> QED BY <1>3, <3>1, <3>2
  <2> QED BY <1>1, <1>3, <2>1, <2>2 DEF TypeCall
<1> QED BY <1>1, <1>3, <1>4, <1>5, <1>6, <1>7, TopMoves

LEMMA EndExpandVisits ==
  ASSUME TypeInv, [Next]_vars, NEW V \in SUBSET Type, Visited(V), EndExpand \/ EndGroups
  PROVE  Visited(V)'
<1>1. /\ stack # <<>> /\ Top.kind = "type" /\ Top.phase \in {"expand", "groups"}
      /\ UNCHANGED <<schema, pass, elements, types, seen, content, base, attrGroupRefs, attrs>>
  BY DEF EndExpand, EndGroups, AtType, loops, heap
<1>2. /\ Top.of \in V /\ Top.of \in Type /\ base[Top.of] = NoType /\ Len(content[Top.of]) \in Nat
      /\ Len(stack) \in 1..Len(stack)
  BY <1>1, TopCall
<1>3. \A t : Quiet(t)
  BY <1>1 DEF Quiet
<1>4. Proceeds /\ WaitingKept
  <2>1. ~ResolveBase
    BY DEF EndExpand, EndGroups, ResolveBase, AtType
  <2> QED BY <2>1, ProceedStep, WaitingStep
<1>5. CASE EndExpand
  <2>1. stack' = Moved(stack, "groups", 1) /\ GroupAt = 0
    BY <1>5 DEF EndExpand
  <2>2. Groupless(Top.of)
    <3> DEFINE t == Top.of
               kinds == {"group"}
    <3> SUFFICES ASSUME NEW j \in 1..Len(content[t]), content[t][j].kind \in kinds PROVE FALSE
      BY DEF Groupless
    <3>1. NextToken(t, 1, kinds) = 0 /\ Len(content[t]) \in Nat
      BY <1>2, <2>1 DEF GroupAt
    <3> HIDE DEF t, kinds
    <3>2. 1 \in Nat \ {0} /\ j \in 1..Len(content[t]) /\ content[t][j].kind \in kinds
      OBVIOUS
    <3>3. NextToken(t, 1, kinds) # 0
      BY <3>1, <3>2, NextTokenFirst
    <3> QED BY <3>1, <3>3
  <2>3. \A j \in 1..Len(content'[Top.of]) : content'[Top.of][j].kind # "group"
    BY <1>1, <2>2 DEF Groupless
  <2>4. TypeCall(Len(stack), V)'
    BY <1>1, <1>2, <2>1, <2>3, NewPhase DEF TypeCall, Groupless
  <2> QED BY <1>1, <1>2, <1>3, <1>4, <2>4, TopMoves
<1>6. CASE EndGroups
  <2>1. stack' = Moved(stack, "walk", 1) /\ attrGroupRefs[Top.of] = <<>> /\ Groupless(Top.of)
    BY <1>1, <1>6, TopCall DEF EndGroups, AtType
  <2>2. /\ stack'[Len(stack)].of = Top.of /\ Len(stack') = Len(stack)
        /\ stack'[Len(stack)].phase = "walk" /\ stack'[Len(stack)].at = 1
    BY <1>1, <2>1, NewPhase
  <2>3. \A j \in 1..Len(content'[Top.of]) : content'[Top.of][j].kind # "group" /\ ~(j < 1)
    BY <1>1, <2>1 DEF Groupless
  <2>4. TypeCall(Len(stack), V)'
    BY <1>1, <1>2, <2>1, <2>2, <2>3, SMTT(30) DEF TypeCall, Groupless, WalkedTo
  <2> QED BY <1>1, <1>2, <1>3, <1>4, <2>4, TopMoves
<1> QED BY <1>5, <1>6

LEMMA ApplyAttrGroupVisits ==
  ASSUME TypeInv, [Next]_vars, NEW V \in SUBSET Type, Visited(V), ApplyAttrGroup
  PROVE  Visited(V)'
<1>1. /\ stack # <<>> /\ Top.kind = "type" /\ Top.phase = "groups" /\ attrGroupRefs[Top.of] # <<>>
      /\ UNCHANGED <<schema, pass, elements, types, stack, seen, content, base>>
      /\ \A t \in Type : t # Top.of => attrGroupRefs'[t] = attrGroupRefs[t] /\ attrs'[t] = attrs[t]
  BY DEF ApplyAttrGroup, AtType, loops, TypeInv, TypeOK, AttrsTyped
<1>2. /\ Top.of \in V /\ base[Top.of] = NoType /\ pass = 1 /\ Len(stack) \in 1..Len(stack)
      /\ Groupless(Top.of)
  BY <1>1, TopCall DEF TypeInv, TypeOK, Finished
<1>3. \A t \in Type : t # Top.of => Quiet(t)
  BY <1>1 DEF Quiet
<1>4. \A i \in 1..(Len(stack) - 1) :
         stack[i].kind = "type" /\ stack[i].of = Top.of => stack[i].phase # "walk"
  BY <1>1, <1>2 DEF Visited, Calls, TypeCall
<1>5. Proceeds /\ WaitingKept
  BY <1>1, <1>2 DEF Proceeds, SameCall, WaitingKept, Top
<1>6. TypeCall(Len(stack), V)'
  <2>1. stack'[Len(stack)].of = Top.of /\ Len(stack') = Len(stack) /\ stack'[Len(stack)].phase = "groups"
    BY <1>1 DEF Top
  <2>2. \A j \in 1..Len(content'[Top.of]) : content'[Top.of][j].kind # "group"
    BY <1>1, <1>2 DEF Groupless
  <2> QED BY <1>1, <1>2, <2>1, <2>2 DEF TypeCall, Groupless
<1> QED BY <1>1, <1>2, <1>3, <1>4, <1>5, <1>6, TopMoves, SMTT(30)

\* The calls after a step that leaves those up to the m-th alone.
LEMMA CallsFrom ==
  ASSUME TypeInv, NEW V, NEW W, V \subseteq W, Calls(V), schema' = schema,
         NEW m \in Nat, m < Len(stack), Len(stack') \in Nat,
         \A i \in 1..m : stack'[i] = stack[i],
         \A t \in Type : base'[t] = base[t] \/ base'[t] = NoType,
         \A i \in 1..m : stack[i].kind = "type" /\ stack[i].phase = "walk" => Quiet(stack[i].of),
         \A i \in (m + 1)..Len(stack') : TypeCall(i, W)' /\ ElementCall(i, W)'
  PROVE  Calls(W)'
<1>1. \A i \in 1..m : TypeCall(i, W)' /\ ElementCall(i, W)'
  BY CallsBelow
<1>2. \A i \in 1..Len(stack') : i \in 1..m \/ i \in (m + 1)..Len(stack')
  OBVIOUS
<1>3. \A i \in 1..Len(stack') : TypeCall(i, W)' /\ ElementCall(i, W)'
  BY <1>1, <1>2
<1> QED BY <1>3 DEF Calls

\* No call ends.
LEMMA CallsStay ==
  ASSUME TypeInv, Len(stack') \in Nat, Len(stack') >= Len(stack),
         \A i \in 1..Len(stack) : stack'[i].of = stack[i].of /\ stack'[i].kind = stack[i].kind
  PROVE  /\ \A t : OnStack(t) => OnStack(t)'
         /\ \A e : InProgress(e) => InProgress(e)'
<1>0. stack \in Seq(Frame) /\ Len(stack) \in Nat /\ (stack # <<>> => Len(stack) # 0)
  BY DEF TypeInv, TypeOK
<1>1. ASSUME NEW t, OnStack(t) PROVE OnStack(t)'
  <2>1. PICK i \in 1..Len(stack) : stack[i].kind = "type" /\ stack[i].of = t
    BY <1>1 DEF OnStack
  <2>2. i \in 1..Len(stack') /\ stack'[i].kind = "type" /\ stack'[i].of = t
    BY <1>0, <2>1
  <2> QED BY <2>2 DEF OnStack
<1>2. ASSUME NEW e, InProgress(e) PROVE InProgress(e)'
  <2>1. stack # <<>> /\ stack[1].kind = "element" /\ stack[1].of = e
    BY <1>2 DEF InProgress
  <2>2. 1 \in 1..Len(stack) /\ Len(stack') # 0
    BY <1>0, <2>1
  <2>3. stack' # <<>> /\ stack'[1].kind = "element" /\ stack'[1].of = e
    BY <2>1, <2>2
  <2> QED BY <2>3 DEF InProgress
<1> QED BY <1>1, <1>2

LEMMA WalkElementVisits ==
  ASSUME TypeInv, [Next]_vars, NEW V \in SUBSET Type, Visited(V), WalkElement
  PROVE  Visited(V)'
<1>0. PICK n : n = Len(stack)
  OBVIOUS
<1>1. /\ stack # <<>> /\ Top.kind = "type" /\ Top.phase = "walk" /\ ElementAt # 0 /\ Known
      /\ UNCHANGED <<schema, pass, elements, types, seen, content, base, attrGroupRefs, attrs>>
      /\ stack' = Append(Moved(stack, "walk", ElementAt),
                         ElementFrame(content[Top.of][ElementAt].of, Top.level))
  BY DEF WalkElement, AtType, loops, heap
<1>2. /\ Top.of \in V /\ Top.of \in Type /\ base[Top.of] = NoType /\ Groupless(Top.of)
      /\ attrGroupRefs[Top.of] = <<>> /\ WalkedTo(Top.of, Top.at, V)
      /\ n \in Nat \ {0} /\ n \in 1..n /\ Top.at \in Nat \ {0} /\ Len(content[Top.of]) \in Nat
  BY <1>0, <1>1, TopCall
<1>3. \A t : Quiet(t)
  BY <1>1 DEF Quiet
<1>4. PICK t, a, e : t = Top.of /\ a = ElementAt /\ e = content[t][a].of
  OBVIOUS
<1>5. /\ a \in 1..Len(content[t]) /\ IsElement(content[t][a])
      /\ \A j \in 1..Len(content[t]) : j < a /\ IsElement(content[t][j]) => j < Top.at
  <2> DEFINE kinds == {"element", "ref"}
             b == Top.at
  <2>1. a = NextToken(t, b, kinds) /\ a # 0 /\ b \in Nat \ {0} /\ Len(content[t]) \in Nat
    BY <1>1, <1>2, <1>4 DEF ElementAt
  <2>2. \A x : IsElement(x) <=> x.kind \in kinds
    BY DEF IsElement
  <2> HIDE DEF kinds, b
  <2>3. a \in 1..Len(content[t]) /\ content[t][a].kind \in kinds
    BY <2>1, NextTokenIsToken
  <2>4. ASSUME NEW j \in 1..Len(content[t]), j < a, content[t][j].kind \in kinds
        PROVE  j < b
    <3> SUFFICES ASSUME ~(j < b) PROVE FALSE
      OBVIOUS
    <3>1. j \in b..Len(content[t])
      BY <2>1
    <3>2. NextToken(t, b, kinds) <= j
      BY <2>1, <2>4, <3>1, NextTokenFirst
    <3> QED BY <2>1, <2>3, <2>4, <3>2
  <2> QED BY <2>2, <2>3, <2>4 DEF b
<1>6. /\ Len(stack') = n + 1 /\ \A i \in 1..n : i # n => stack'[i] = stack[i]
      /\ stack'[n].of = t /\ stack'[n].kind = "type" /\ stack'[n].phase = "walk" /\ stack'[n].at = a
      /\ stack'[n + 1] = ElementFrame(e, Top.level)
  <2> DEFINE moved == Moved(stack, "walk", ElementAt)
             f == ElementFrame(content[Top.of][ElementAt].of, Top.level)
  <2>1. a \in Nat \ {0}
    BY <1>5
  <2>2. /\ moved \in Seq(Frame) /\ Len(moved) = n
        /\ \A i \in 1..n : i # n => moved[i] = stack[i]
        /\ moved[n].of = t /\ moved[n].kind = "type" /\ moved[n].phase = "walk"
    <3>1. TypeOK
      BY DEF TypeInv
    <3>2. moved = Moved(stack, "walk", a)
      BY <1>4
    <3> HIDE DEF moved
    <3>3. /\ Moved(stack, "walk", a) \in Seq(Frame) /\ Len(Moved(stack, "walk", a)) = Len(stack)
          /\ \A i \in 1..Len(stack) : i # Len(stack) => Moved(stack, "walk", a)[i] = stack[i]
          /\ Moved(stack, "walk", a)[Len(stack)].of = Top.of
          /\ Moved(stack, "walk", a)[Len(stack)].kind = "type"
          /\ Moved(stack, "walk", a)[Len(stack)].phase = "walk"
      BY <1>1, <2>1, <3>1, MovedTyped
    <3> QED BY <1>0, <1>4, <3>2, <3>3
  <2>3. moved[n].at = a
    <3>1. Top \in TypeFrames /\ stack \in Seq(Frame)
      BY <1>1, TopTyped DEF TypeInv, TypeOK
    <3>2. [Top EXCEPT !.phase = "walk", !.at = a].at = a
      BY <3>1 DEF TypeFrames
    <3>3. moved = [stack EXCEPT ![n] = [Top EXCEPT !.phase = "walk", !.at = a]]
      BY <1>0, <1>4 DEF Moved, Top
    <3>4. moved[n] = [Top EXCEPT !.phase = "walk", !.at = a]
      BY <1>0, <1>2, <3>1, <3>3
    <3> QED BY <3>2, <3>4
  <2>4. stack' = Append(moved, f)
    BY <1>1
  <2> HIDE DEF moved, f
  <2>5. /\ Len(stack') = n + 1 /\ \A i \in 1..n : stack'[i] = moved[i]
        /\ stack'[n + 1] = f
    BY <1>2, <2>2, <2>4
  <2>6. f = ElementFrame(e, Top.level)
    BY <1>4 DEF f
  <2> QED BY <1>2, <2>2, <2>3, <2>5, <2>6
<1>7. TypeCall(n, V)' /\ ElementCall(n, V)'
  <2>1. WalkedTo(t, a, V)
    BY <1>2, <1>4, <1>5 DEF WalkedTo
  <2>2. WalkedTo(t, a, V)' /\ Groupless(t)'
    BY <1>1, <1>2, <1>3, <1>4, <2>1, WalkedKept DEF Groupless
  <2>3. WalkedTo(stack[n].of, stack[n].at, V)' /\ Groupless(stack[n].of)'
    BY <1>6, <2>2 DEF WalkedTo, Groupless
  <2>4. t \in V /\ base'[t] = NoType /\ attrGroupRefs'[t] = <<>>
    BY <1>1, <1>2, <1>4
  <2> QED BY <1>6, <2>3, <2>4 DEF TypeCall, ElementCall
<1>8. TypeCall(n + 1, V)' /\ ElementCall(n + 1, V)'
  <2>1. /\ stack'[n + 1].kind = "element" /\ stack'[n + 1].of = e
        /\ stack'[n + 1].calls = schema.alternatives[e]
    BY <1>6 DEF ElementFrame
  <2>2. CalledFrom(n, e)'
    <3>1. \/ content[t][a].kind = "element"
          \/ content[t][a].kind = "ref" /\ e \in schema.global
      BY <1>1, <1>4, <1>5 DEF IsElement, Known
    <3>2. content' = content /\ schema' = schema
      BY <1>1
    <3>3. stack'[n].of = t /\ stack'[n].kind = "type" /\ stack'[n].phase = "walk" /\ stack'[n].at = a
      BY <1>6
    <3>4. a \in 1..Len(content[t]) /\ content[t][a].of = e
      BY <1>4, <1>5
    <3> QED BY <3>1, <3>2, <3>3, <3>4 DEF CalledFrom
  <2>3. n + 1 > 1 /\ n + 1 # 1 /\ (n + 1) - 1 = n
    BY <1>2
  <2>4. schema' = schema
    BY <1>1
  <2> QED BY <2>1, <2>2, <2>3, <2>4 DEF TypeCall, ElementCall
<1>9. Calls(V)'
  <2> DEFINE m == n - 1
  <2>1. m \in Nat /\ m < Len(stack) /\ Len(stack') \in Nat /\ \A i \in 1..m : stack'[i] = stack[i]
    BY <1>0, <1>2, <1>6
  <2>2. \A i \in (m + 1)..Len(stack') : i = n \/ i = n + 1
    BY <1>2, <1>6
  <2>3. \A i \in (m + 1)..Len(stack') : TypeCall(i, V)' /\ ElementCall(i, V)'
    BY <1>7, <1>8, <2>2
  <2> HIDE DEF m
  <2> QED BY <1>1, <1>3, <2>1, <2>3, CallsFrom DEF Visited
<1>10. WaitingKept
  <2>1. ~ResolveBase
    BY DEF WalkElement, ResolveBase, AtType
  <2> QED BY <2>1, WaitingStep
<1>11. /\ \A i \in 1..n : stack'[i].of = stack[i].of /\ stack'[i].kind = stack[i].kind
       /\ n \in Nat /\ Len(stack') \in Nat /\ Len(stack') >= n
  <2>1. stack[n].of = t /\ stack[n].kind = "type"
    BY <1>0, <1>1, <1>4 DEF Top
  <2>2. n \in Nat /\ Len(stack') \in Nat /\ Len(stack') >= n
    BY <1>2, <1>6
  <2>3. ASSUME NEW i \in 1..n PROVE stack'[i].of = stack[i].of /\ stack'[i].kind = stack[i].kind
    <3>1. CASE i = n
      BY <1>6, <2>1, <3>1
    <3>2. CASE i # n
      BY <1>6, <3>2
    <3> QED BY <3>1, <3>2
  <2> QED BY <2>2, <2>3
<1>12. FoldsOutermost'
  BY <1>0, <1>10, <1>11, FoldsKept DEF Visited
<1>13. PassOne(V)' /\ PassTwo(V)'
  BY <1>0, <1>1, <1>3, <1>10, <1>11, CallsStay, PassesKept
<1> QED BY <1>1, <1>9, <1>12, <1>13 DEF Visited

\* A base is met in the first pass only, and by the outermost call for its type.
LEMMA ResolveBaseVisits ==
  ASSUME TypeInv, [Next]_vars, NEW V \in SUBSET Type, Visited(V), ResolveBase
  PROVE  \E W \in SUBSET Type : Visited(W)'
<1>0. PICK n, t, b, l : n = Len(stack) /\ t = Top.of /\ b = base[t] /\ l = Top.level
  OBVIOUS
<1>1. /\ stack # <<>> /\ Top.kind = "type" /\ b \in Type
      /\ UNCHANGED <<schema, pass, elements, types, content, attrGroupRefs, attrs>>
      /\ base' = [base EXCEPT ![t] = NoType]
  BY <1>0 DEF ResolveBase, AtType, loops
<1>2. t \in V /\ t \in Type /\ n \in Nat \ {0} /\ n \in 1..n
  BY <1>0, <1>1, TopCall
<1>3. base[t] # NoType /\ base'[t] = NoType /\ \A u \in Type : u # t => base'[u] = base[u]
  BY <1>0, <1>1, <1>2, DerivationAssumption DEF TypeInv, TypeOK
<1>4. pass = 1
  BY <1>0, <1>1, <1>3, TopCall DEF Finished, TypeInv, TypeOK
<1>5. \A u \in Type : u # t => Quiet(u)
  BY <1>1, <1>3 DEF Quiet
<1>6. ASSUME NEW i \in 1..(n - 1), stack[i].kind = "type"
      PROVE  stack[i].of \in Type /\ stack[i].of # t
  <2>1. i \in 1..Len(stack) /\ i < Len(stack) /\ TypeOK
    BY <1>0, <1>2 DEF TypeInv
  <2>2. TypeCall(i, V)
    BY <2>1 DEF Visited, Calls
  <2> QED BY <1>3, <1>6, <2>1, <2>2, FrameTyped DEF TypeCall
<1>7. /\ \A i \in 1..n : i # n => stack'[i] = stack[i]
      /\ stack'[n].of = t /\ stack'[n].kind = "type" /\ stack'[n].phase = "fold"
      /\ Len(seen') = Len(seen)
      /\ \/ Len(stack') = n /\ seen' = seen
         \/ /\ Len(stack') = n + 1
            /\ stack'[n + 1] = TypeFrame(b, l)
            /\ seen' = [seen EXCEPT ![l] = @ \cup {b}]
  <2>1. /\ \A i \in 1..Len(stack) : i # Len(stack) => stack'[i] = stack[i]
        /\ stack'[Len(stack)].of = Top.of /\ stack'[Len(stack)].kind = Top.kind
        /\ stack'[Len(stack)].phase = "fold"
        /\ Len(seen') = Len(seen)
        /\ \/ Len(stack') = Len(stack) /\ seen' = seen
           \/ /\ Len(stack') = Len(stack) + 1
              /\ stack'[Len(stack) + 1] = TypeFrame(base[Top.of], Top.level)
              /\ seen' = [seen EXCEPT ![Top.level] = @ \cup {base[Top.of]}]
    BY ResolveBaseStep DEF SameCall
  <2> QED BY <1>0, <1>1, <2>1
<1> DEFINE W == IF Len(stack') = n THEN V ELSE V \cup {b}
<1>8. PICK X \in SUBSET Type : /\ V \subseteq X
                               /\ Len(stack') = n => X = V
                               /\ Len(stack') # n => X = V \cup {b}
  <2>1. W \in SUBSET Type /\ V \subseteq W
    BY <1>1
  <2> QED BY <2>1
<1> HIDE DEF W
<1>9. \A k \in 1..Len(seen') : seen'[k] \subseteq X
  <2>1. /\ \A k \in 1..Len(seen) : seen[k] \subseteq V
        /\ DOMAIN seen = 1..Len(seen)
    BY DEF Visited, TypeInv, TypeOK
  <2>2. CASE Len(stack') = n
    BY <1>2, <1>7, <1>8, <2>1, <2>2
  <2>3. CASE Len(stack') # n
    BY <1>7, <1>8, <2>1, <2>3
  <2> QED BY <2>2, <2>3
<1>10. TypeCall(n, X)' /\ ElementCall(n, X)'
  BY <1>2, <1>3, <1>7, <1>8 DEF TypeCall, ElementCall
<1>11. Len(stack') = n + 1 => TypeCall(n + 1, X)' /\ ElementCall(n + 1, X)'
  <2> SUFFICES ASSUME Len(stack') = n + 1 PROVE TypeCall(n + 1, X)' /\ ElementCall(n + 1, X)'
    OBVIOUS
  <2>1. stack'[n + 1] = TypeFrame(b, l) /\ b \in X
    BY <1>2, <1>7, <1>8
  <2>2. stack'[n + 1].of = b /\ stack'[n + 1].kind = "type" /\ stack'[n + 1].phase = "derive"
    BY <2>1 DEF TypeFrame
  <2>3. ~(n + 1 < Len(stack'))
    BY <1>2
  <2> QED BY <2>1, <2>2, <2>3 DEF TypeCall, ElementCall
<1>12. Calls(X)'
  <2> DEFINE m == n - 1
  <2>1. m \in Nat /\ m < Len(stack) /\ Len(stack') \in Nat /\ \A i \in 1..m : stack'[i] = stack[i]
    BY <1>0, <1>2, <1>7
  <2>2. \A i \in (m + 1)..Len(stack') : i = n \/ (i = n + 1 /\ Len(stack') = n + 1)
    BY <1>2, <1>7
  <2>3. \A i \in (m + 1)..Len(stack') : TypeCall(i, X)' /\ ElementCall(i, X)'
    BY <1>10, <1>11, <2>2
  <2>4. \A i \in 1..m : stack[i].kind = "type" /\ stack[i].phase = "walk" => Quiet(stack[i].of)
    BY <1>5, <1>6
  <2>5. \A u \in Type : base'[u] = base[u] \/ base'[u] = NoType
    BY <1>3
  <2> HIDE DEF m
  <2> QED BY <1>1, <1>8, <2>1, <2>3, <2>4, <2>5, CallsFrom DEF Visited
<1>13. FoldsOutermost'
  <2> SUFFICES ASSUME NEW i \in 1..Len(stack'), NEW j \in 1..Len(stack'), i < j,
                      stack'[i].kind = "type", stack'[i].of = stack'[j].of, stack'[j].phase = "fold"
               PROVE  FALSE
    BY DEF FoldsOutermost
  <2>1. \/ j = n
        \/ j \in 1..n /\ j # n /\ stack[j].phase = "fold" /\ stack'[j].of = stack[j].of
    BY <1>0, WaitsForBase
  <2>2. i \in 1..(n - 1) /\ stack'[i] = stack[i]
    BY <1>2, <1>7, <2>1
  <2>3. CASE j = n
    BY <1>6, <1>7, <2>2, <2>3
  <2>4. CASE j \in 1..n /\ j # n /\ stack[j].phase = "fold" /\ stack'[j].of = stack[j].of
    BY <1>0, <2>2, <2>4 DEF Visited, FoldsOutermost
  <2> QED BY <2>1, <2>3, <2>4
<1>14. /\ \A u : OnStack(u) => OnStack(u)'
       /\ \A e : InProgress(e) => InProgress(e)'
  <2>1. stack[n].of = t /\ stack[n].kind = "type"
    BY <1>0, <1>1 DEF Top
  <2>2. ASSUME NEW i \in 1..n PROVE stack'[i].of = stack[i].of /\ stack'[i].kind = stack[i].kind
    <3>1. CASE i = n
      BY <1>7, <2>1, <3>1
    <3>2. CASE i # n
      BY <1>7, <3>2
    <3> QED BY <3>1, <3>2
  <2>3. Len(stack') \in Nat /\ Len(stack') >= Len(stack)
    BY <1>0, <1>2, <1>7
  <2> QED BY <1>0, <2>2, <2>3, CallsStay
<1>15. OnStack(t)'
  BY <1>2, <1>7 DEF OnStack
<1>16. \A u \in X \ V : OnStack(u)'
  <2> SUFFICES ASSUME NEW u \in X \ V PROVE OnStack(u)'
    OBVIOUS
  <2>1. u = b /\ Len(stack') = n + 1 /\ stack'[n + 1] = TypeFrame(b, l) /\ n + 1 \in 1..Len(stack')
    BY <1>2, <1>7, <1>8
  <2>2. stack'[n + 1].kind = "type" /\ stack'[n + 1].of = u
    BY <2>1 DEF TypeFrame
  <2> QED BY <2>1, <2>2 DEF OnStack
<1>17. PassOne(X)' /\ PassTwo(X)'
  <2>1. \A u \in V : Quiet(u) \/ (pass = 1 /\ OnStack(u)')
    BY <1>4, <1>5, <1>15
  <2> QED BY <1>1, <1>4, <1>8, <1>14, <1>16, <2>1, PassesKept
<1>18. Visited(X)'
  BY <1>1, <1>9, <1>12, <1>13, <1>17 DEF Visited
<1> QED BY <1>18
\* The call for an element at the top of the stack, and its caller.
LEMMA TopElement ==
  ASSUME TypeInv, NEW V \in SUBSET Type, Visited(V), stack # <<>>, Top.kind = "element"
  PROVE  LET n == Len(stack)
             e == Top.of
             alts == schema.alternatives[e]
             p == stack[n - 1].of
         IN  /\ n \in Nat \ {0} /\ n \in 1..n /\ e \in Element
             /\ Top.calls \in Seq(Type \cup {Simple, Missing})
             /\ alts \in Seq(Type \cup {Simple, Missing})
             /\ \A k \in 1..Len(alts) : alts[k] \in Type \cup {Missing} =>
                   alts[k] \in V \/ \E m \in 1..Len(Top.calls) : Top.calls[m] = alts[k]
             /\ \A m \in 1..Len(Top.calls) : \E k \in 1..Len(alts) : Top.calls[m] = alts[k]
             /\ n = 1 => e \in schema.global
             /\ n > 1 => /\ n - 1 \in 1..n /\ p \in V /\ base[p] = NoType /\ Groupless(p)
                         /\ attrGroupRefs[p] = <<>> /\ WalkedTo(p, stack[n - 1].at, V)
                         /\ CalledFrom(n - 1, e)
             /\ pass = 2 => Settled(e, V)
<1>1. PICK n, e, p, calls, alts :
         /\ n = Len(stack) /\ e = Top.of /\ p = stack[n - 1].of
         /\ calls = Top.calls /\ alts = schema.alternatives[e]
  OBVIOUS
<1>2. n \in Nat \ {0} /\ n \in 1..n /\ e \in Element /\ TypeOK /\ stack[n] = Top
  BY <1>1, TopTyped DEF TypeInv, Top
<1>3. calls \in Seq(Type \cup {Simple, Missing}) /\ alts \in Seq(Type \cup {Simple, Missing})
  BY <1>1, <1>2, FrameTyped, SchemaTyped DEF TypeInv
<1>4. ElementCall(n, V)
  BY <1>1, <1>2 DEF Visited, Calls
<1>5. /\ \A k \in 1..Len(alts) : alts[k] \in Type \cup {Missing} =>
            alts[k] \in V \/ \E m \in 1..Len(calls) : calls[m] = alts[k]
      /\ \A m \in 1..Len(calls) : \E k \in 1..Len(alts) : calls[m] = alts[k]
      /\ n = 1 => e \in schema.global
      /\ n > 1 => CalledFrom(n - 1, e)
  BY <1>1, <1>2, <1>4 DEF ElementCall
<1>6. n > 1 => /\ n - 1 \in 1..n /\ p \in V /\ base[p] = NoType /\ Groupless(p)
               /\ attrGroupRefs[p] = <<>> /\ WalkedTo(p, stack[n - 1].at, V)
  <2> SUFFICES ASSUME n > 1
               PROVE  /\ n - 1 \in 1..n /\ p \in V /\ base[p] = NoType /\ Groupless(p)
                      /\ attrGroupRefs[p] = <<>> /\ WalkedTo(p, stack[n - 1].at, V)
    OBVIOUS
  <2>1. n - 1 \in 1..n /\ stack[n - 1].kind = "type" /\ stack[n - 1].phase = "walk"
    BY <1>2, <1>5 DEF CalledFrom
  <2>2. TypeCall(n - 1, V)
    BY <1>1, <2>1 DEF Visited, Calls
  <2> QED BY <1>1, <2>1, <2>2 DEF TypeCall
<1>7. pass = 2 => Settled(e, V)
  <2> SUFFICES ASSUME pass = 2 PROVE Settled(e, V)
    OBVIOUS
  <2>1. PassTwo(V)
    BY DEF Visited
  <2>2. CASE n = 1
    BY <1>5, <2>1, <2>2 DEF PassTwo
  <2>3. CASE n > 1
    <3>1. PICK a : a = stack[n - 1].at
      OBVIOUS
    <3>2. a \in 1..Len(content[p]) /\ content[p][a].of = e /\ IsElement(content[p][a])
      BY <1>1, <1>5, <2>3, <3>1 DEF CalledFrom, IsElement
    <3>3. WalkedTo(p, Len(content[p]) + 1, V)
      BY <1>6, <2>1, <2>3 DEF PassTwo, Finished
    <3>4. Len(content[p]) \in Nat
      BY <1>2, <1>6, <2>3 DEF TypeOK, Content
    <3> QED BY <3>2, <3>3, <3>4 DEF WalkedTo
  <2> QED BY <1>2, <2>2, <2>3
<1> QED BY <1>1, <1>2, <1>3, <1>5, <1>6, <1>7

\* A conditional type was visited before, or is visited now.
LEMMA AlternativeVisits ==
  ASSUME TypeInv, [Next]_vars, NEW V \in SUBSET Type, Visited(V), Alternative
  PROVE  \E W \in SUBSET Type : Visited(W)'
<1>0. PICK n, e, t, l, calls, alts :
         /\ n = Len(stack) /\ e = Top.of /\ calls = Top.calls /\ t = Head(calls)
         /\ l = Top.level + 1 /\ alts = schema.alternatives[e]
  OBVIOUS
<1>1. /\ stack # <<>> /\ Top.kind = "element" /\ calls # <<>> /\ t # Missing
      /\ UNCHANGED <<schema, pass, elements, types, content, base, attrGroupRefs, attrs>>
  BY <1>0 DEF Alternative, AtElement, loops, heap
<1>2. /\ n \in Nat \ {0} /\ n \in 1..n /\ calls \in Seq(Type \cup {Simple, Missing})
      /\ \A k \in 1..Len(alts) : alts[k] \in Type \cup {Missing} =>
            alts[k] \in V \/ \E m \in 1..Len(calls) : calls[m] = alts[k]
      /\ \A m \in 1..Len(calls) : \E k \in 1..Len(alts) : calls[m] = alts[k]
      /\ n = 1 => e \in schema.global
      /\ n > 1 => CalledFrom(n - 1, e)
      /\ pass = 2 => Settled(e, V)
  BY <1>0, <1>1, TopElement
<1>3. \A u : Quiet(u)
  BY <1>1 DEF Quiet
<1>4. /\ \A i \in 1..n : i # n => stack'[i] = stack[i]
      /\ stack'[n].of = e /\ stack'[n].kind = "element"
      /\ stack'[n].calls = Tail(calls)
      /\ IF t \in Type
           THEN /\ Len(stack') = n + 1 /\ stack'[n + 1] = TypeFrame(t, l)
                /\ seen' = Append(seen, {t})
           ELSE Len(stack') = n /\ seen' = seen
  <2>1. /\ \A i \in 1..Len(stack) : i # Len(stack) => stack'[i] = stack[i]
        /\ stack'[Len(stack)].of = Top.of /\ stack'[Len(stack)].kind = Top.kind
        /\ stack'[Len(stack)].calls = Tail(Top.calls)
        /\ \/ Len(stack') = Len(stack) /\ seen' = seen
           \/ /\ Len(stack') = Len(stack) + 1
              /\ stack'[Len(stack) + 1] = TypeFrame(Head(Top.calls), Top.level + 1)
              /\ seen' = Append(seen, {Head(Top.calls)})
    BY AlternativeStep DEF SameCall
  <2>2. IF t \in Type THEN seen' = Append(seen, {t}) /\ seen' # seen ELSE seen' = seen
    <3>1. IF t \in Type THEN seen' = Append(seen, {t}) ELSE seen' = seen
      BY <1>0 DEF Alternative
    <3>2. Append(seen, {t}) # seen
      <4>1. seen \in Seq(SUBSET Type)
        BY DEF TypeInv, TypeOK
      <4>2. Len(seen) \in Nat /\ Len(Append(seen, {t})) = Len(seen) + 1
        BY <4>1, LenProperties, AppendProperties
      <4> QED BY <4>2
    <3> QED BY <3>1, <3>2
  <2>3. Len(stack') = Len(stack) => t \notin Type
    BY <1>0, <1>2, <2>1, <2>2
  <2> QED BY <1>0, <1>1, <2>1, <2>2, <2>3
<1> DEFINE W == IF t \in Type THEN V \cup {t} ELSE V
<1>5. PICK X \in SUBSET Type : /\ V \subseteq X
                               /\ t \in Type => X = V \cup {t}
                               /\ t \notin Type => X = V
  <2>1. W \in SUBSET Type /\ V \subseteq W
    OBVIOUS
  <2> QED BY <2>1
<1> HIDE DEF W
<1>6. calls[1] = t /\ \A m \in 1..Len(Tail(calls)) : m + 1 \in 1..Len(calls) /\ Tail(calls)[m] = calls[m + 1]
  BY <1>0, <1>1, <1>2
<1>7. \A m \in 1..Len(calls) : m = 1 \/ (m - 1 \in 1..Len(Tail(calls)) /\ Tail(calls)[m - 1] = calls[m])
  BY <1>1, <1>2
<1>8. pass = 2 => X = V
  <2> SUFFICES ASSUME pass = 2, t \in Type PROVE t \in V
    BY <1>5
  <2>1. 1 \in 1..Len(calls)
    BY <1>1, <1>2
  <2>2. PICK k \in 1..Len(alts) : t = alts[k]
    BY <1>2, <1>6, <2>1
  <2> QED BY <1>0, <1>2, <2>2 DEF Settled
<1>9. \A i \in 1..Len(seen') : seen'[i] \subseteq X
  <2>1. seen \in Seq(SUBSET Type) /\ \A i \in 1..Len(seen) : seen[i] \subseteq V
    BY DEF Visited, TypeInv, TypeOK
  <2>2. CASE t \in Type
    <3>1. /\ Len(seen') = Len(seen) + 1 /\ seen'[Len(seen) + 1] = {t}
          /\ \A i \in 1..Len(seen) : seen'[i] = seen[i]
      BY <1>4, <2>1, <2>2
    <3>2. \A i \in 1..Len(seen') : i \in 1..Len(seen) \/ i = Len(seen) + 1
      BY <2>1, <3>1
    <3> QED BY <1>5, <2>1, <2>2, <3>1, <3>2
  <2>3. CASE t \notin Type
    BY <1>4, <1>5, <2>1, <2>3
  <2> QED BY <2>2, <2>3
<1>10. TypeCall(n, X)' /\ ElementCall(n, X)'
  <2>1. \A k \in 1..Len(alts) : alts[k] \in Type \cup {Missing} =>
           alts[k] \in X \/ \E m \in 1..Len(Tail(calls)) : Tail(calls)[m] = alts[k]
    <3> SUFFICES ASSUME NEW k \in 1..Len(alts), alts[k] \in Type \cup {Missing}
                 PROVE  alts[k] \in X \/ \E m \in 1..Len(Tail(calls)) : Tail(calls)[m] = alts[k]
      OBVIOUS
    <3>1. alts[k] \in V \/ \E m \in 1..Len(calls) : calls[m] = alts[k]
      BY <1>2
    <3>2. CASE alts[k] \in V
      BY <1>5, <3>2
    <3>3. CASE \E m \in 1..Len(calls) : calls[m] = alts[k]
      BY <1>1, <1>5, <1>6, <1>7, <3>3
    <3> QED BY <3>1, <3>2, <3>3
  <2>2. \A m \in 1..Len(Tail(calls)) : \E k \in 1..Len(alts) : Tail(calls)[m] = alts[k]
    BY <1>2, <1>6
  <2>3. n > 1 => CalledFrom(n - 1, e)'
    <3> SUFFICES ASSUME n > 1 PROVE CalledFrom(n - 1, e)'
      OBVIOUS
    <3>1. stack'[n - 1] = stack[n - 1] /\ schema' = schema /\ content' = content /\ CalledFrom(n - 1, e)
      <4>1. n - 1 \in 1..n /\ n - 1 # n /\ CalledFrom(n - 1, e)
        BY <1>2
      <4>2. stack'[n - 1] = stack[n - 1]
        BY <1>4, <4>1
      <4>3. schema' = schema /\ content' = content
        BY <1>1
      <4> QED BY <4>1, <4>2, <4>3
    <3> QED BY <3>1 DEF CalledFrom
  <2>4. schema'.alternatives[e] = alts /\ schema'.global = schema.global
    BY <1>0, <1>1
  <2> QED BY <1>2, <1>4, <2>1, <2>2, <2>3, <2>4 DEF TypeCall, ElementCall
<1>11. t \in Type => TypeCall(n + 1, X)' /\ ElementCall(n + 1, X)'
  <2> SUFFICES ASSUME t \in Type PROVE TypeCall(n + 1, X)' /\ ElementCall(n + 1, X)'
    OBVIOUS
  <2>1. stack'[n + 1] = TypeFrame(t, l) /\ t \in X /\ Len(stack') = n + 1
    BY <1>4, <1>5
  <2>2. stack'[n + 1].of = t /\ stack'[n + 1].kind = "type" /\ stack'[n + 1].phase = "derive"
    BY <2>1 DEF TypeFrame
  <2>3. ~(n + 1 < Len(stack'))
    BY <1>2, <2>1
  <2> QED BY <2>1, <2>2, <2>3 DEF TypeCall, ElementCall
<1>12. Calls(X)'
  <2> DEFINE m == n - 1
  <2>1. m \in Nat /\ m < Len(stack) /\ Len(stack') \in Nat /\ \A i \in 1..m : stack'[i] = stack[i]
    BY <1>0, <1>2, <1>4
  <2>2. \A i \in (m + 1)..Len(stack') : i = n \/ (i = n + 1 /\ t \in Type)
    BY <1>2, <1>4, SMTT(30)
  <2>3. \A i \in (m + 1)..Len(stack') : TypeCall(i, X)' /\ ElementCall(i, X)'
    BY <1>10, <1>11, <2>2
  <2>4. \A u \in Type : base'[u] = base[u]
    BY <1>1
  <2> HIDE DEF m
  <2> QED BY <1>1, <1>3, <1>5, <2>1, <2>3, <2>4, CallsFrom DEF Visited
<1>13. WaitingKept
  <2>1. ~ResolveBase
    BY DEF Alternative, AtElement, ResolveBase, AtType
  <2> QED BY <2>1, WaitingStep
<1>14. /\ \A i \in 1..n : stack'[i].of = stack[i].of /\ stack'[i].kind = stack[i].kind
       /\ Len(stack') \in Nat /\ Len(stack') >= n
  <2>1. stack[n].of = e /\ stack[n].kind = "element"
    BY <1>0, <1>1 DEF Top
  <2>2. ASSUME NEW i \in 1..n PROVE stack'[i].of = stack[i].of /\ stack'[i].kind = stack[i].kind
    <3>1. CASE i = n
      BY <1>4, <2>1, <3>1
    <3>2. CASE i # n
      BY <1>4, <3>2
    <3> QED BY <3>1, <3>2
  <2>3. Len(stack') = n \/ Len(stack') = n + 1
    BY <1>4
  <2>4. Len(stack') \in Nat /\ Len(stack') >= n
    BY <1>2, <2>3
  <2> QED BY <2>2, <2>4
<1>15. FoldsOutermost'
  BY <1>0, <1>2, <1>13, <1>14, FoldsKept DEF Visited
<1>16. /\ \A u : OnStack(u) => OnStack(u)'
       /\ \A x : InProgress(x) => InProgress(x)'
  BY <1>0, <1>14, CallsStay
<1>17. \A u \in X \ V : OnStack(u)'
  <2> SUFFICES ASSUME NEW u \in X \ V PROVE OnStack(u)'
    OBVIOUS
  <2>1. u = t /\ Len(stack') = n + 1 /\ stack'[n + 1] = TypeFrame(t, l) /\ n + 1 \in 1..Len(stack')
    BY <1>2, <1>4, <1>5
  <2>2. stack'[n + 1].kind = "type" /\ stack'[n + 1].of = u
    BY <2>1 DEF TypeFrame
  <2> QED BY <2>1, <2>2 DEF OnStack
<1>18. PassOne(X)' /\ PassTwo(X)'
  BY <1>1, <1>3, <1>5, <1>8, <1>13, <1>16, <1>17, PassesKept
<1>19. Visited(X)'
  BY <1>1, <1>9, <1>12, <1>15, <1>18 DEF Visited
<1> QED BY <1>19
\* The caller of an element goes on with its next token, whether or not the
\* element's type is entered.
CallerGoesOn(n, t, l) ==
  /\ \A i \in 1..(n - 1) : /\ i < n - 1 => stack'[i] = stack[i]
                           /\ stack'[i].of = stack[i].of /\ stack'[i].kind = stack[i].kind
                           /\ stack'[i].phase = stack[i].phase
  /\ n > 1 => stack'[n - 1].at = stack[n - 1].at + 1
  /\ \/ Len(stack') = n - 1 /\ seen' = seen
     \/ /\ Len(stack') = n /\ t \in Type /\ stack'[n] = TypeFrame(t, l)
        /\ seen' = [seen EXCEPT ![l] = @ \cup {t}]

LEMMA OwnTypeShape ==
  ASSUME TypeInv, OwnType
  PROVE  CallerGoesOn(Len(stack), schema.type[Top.of], Top.level)
<1>0. PICK n, t : n = Len(stack) /\ t = schema.type[Top.of]
  OBVIOUS
<1>1. /\ \A i \in 1..(n - 1) :
            stack'[i].of = stack[i].of /\ stack'[i].kind = stack[i].kind /\ stack'[i].phase = stack[i].phase
      /\ \/ Len(stack') = n - 1 /\ seen' = seen
         \/ /\ Len(stack') = n /\ t \in Type /\ stack'[n] = TypeFrame(t, Top.level)
            /\ seen' = [seen EXCEPT ![Top.level] = @ \cup {t}]
  BY <1>0, OwnTypeStep DEF SameCall
<1>2. stack # <<>> /\ TypeOK /\ n \in Nat \ {0}
  BY <1>0, TopTyped DEF OwnType, AtElement, TypeInv
<1>3. PICK below : below = SubSeq(stack, 1, n - 1)
  OBVIOUS
<1>4. below \in Seq(Frame) /\ Len(below) = n - 1 /\ \A i \in 1..(n - 1) : below[i] = stack[i]
  BY <1>0, <1>2, <1>3, BelowTyped
<1>5. Returned = IF below = <<>> THEN below ELSE [below EXCEPT ![n - 1].at = @ + 1]
  BY <1>0, <1>3, <1>4 DEF Returned, Advanced
<1>6. /\ Len(Returned) = n - 1 /\ \A i \in 1..(n - 1) : i < n - 1 => Returned[i] = stack[i]
      /\ Returned \in Seq(Frame)
  <2>1. Returned \in Seq(Frame) /\ Len(Returned) = n - 1
    BY <1>0, <1>2, ReturnedTyped
  <2>2. \A i \in 1..(n - 1) : i < n - 1 => Returned[i] = below[i]
    BY <1>2, <1>4, <1>5
  <2> QED BY <1>4, <2>1, <2>2
<1>7. n > 1 => Returned[n - 1].at = stack[n - 1].at + 1
  <2> SUFFICES ASSUME n > 1 PROVE Returned[n - 1].at = stack[n - 1].at + 1
    OBVIOUS
  <2>1. n - 1 \in 1..(n - 1) /\ n - 1 \in DOMAIN below /\ below[n - 1] \in Frame /\ below # <<>>
    BY <1>2, <1>4
  <2>2. Returned[n - 1] = [below[n - 1] EXCEPT !.at = @ + 1]
    BY <1>5, <2>1
  <2>3. [below[n - 1] EXCEPT !.at = @ + 1].at = below[n - 1].at + 1
    BY <2>1 DEF Frame, TypeFrames, ElementFrames
  <2> QED BY <1>4, <2>1, <2>2, <2>3
<1>8. \A i \in 1..(n - 1) : stack'[i] = Returned[i]
  <2>1. stack' = Returned \/ stack' = Append(Returned, TypeFrame(t, Top.level))
    BY <1>0 DEF OwnType, Enter
  <2> QED BY <1>2, <1>6, <2>1
<1>9. n > 1 => n - 1 \in 1..(n - 1)
  BY <1>2
<1> QED BY <1>0, <1>1, <1>6, <1>7, <1>8, <1>9 DEF CallerGoesOn

\* An element that is not linked to its type names one.
LEMMA TypeNamed ==
  ASSUME TypeInv, InPlaceLinked, NEW V \in SUBSET Type, Visited(V), OwnType,
         NEW t \in Type, t = schema.type[Top.of], t \notin schema.named
  PROVE  HasType
<1>0. PICK n, e, p, a : n = Len(stack) /\ e = Top.of /\ p = stack[n - 1].of /\ a = stack[n - 1].at
  OBVIOUS
<1>1. stack # <<>> /\ Top.kind = "element"
  BY DEF OwnType, AtElement
<1>2. /\ n \in Nat \ {0} /\ e \in Element
      /\ n = 1 => e \in schema.global
      /\ n > 1 => p \in V /\ CalledFrom(n - 1, e)
  BY <1>0, <1>1, TopElement
<1>3. e \in Anonymous(schema)
  BY <1>0, <1>2 DEF Anonymous
<1>4. e \in schema.global => e \in linked
  BY <1>3 DEF InPlaceLinked
<1>5. CASE n = 1
  BY <1>0, <1>2, <1>4, <1>5, SMTT(30) DEF HasType
<1>6. CASE n > 1
  <2>1. /\ a \in 1..Len(content[p]) /\ content[p][a].of = e
        /\ \/ content[p][a].kind = "element"
           \/ content[p][a].kind = "ref" /\ e \in schema.global
    BY <1>0, <1>2, <1>6 DEF CalledFrom
  <2>2. Particle = content[p][a]
    BY <1>0 DEF Particle, Caller
  <2>3. DOMAIN content[p] = 1..Len(content[p])
    BY <1>2, <1>6 DEF TypeInv, TypeOK, Content
  <2>4. content[p][a].kind = "element" => content[p][a].linked
    BY <1>2, <1>3, <1>6, <2>1, <2>3 DEF InPlaceLinked, InPlace
  <2> QED BY <1>0, <1>2, <1>4, <1>6, <2>1, <2>2, <2>4 DEF HasType
<1> QED BY <1>2, <1>5, <1>6
\* The element is settled: its type was visited, is visited now or is named.
LEMMA OwnTypeVisits ==
  ASSUME TypeInv, InPlaceLinked, [Next]_vars, NEW V \in SUBSET Type, Visited(V), OwnType
  PROVE  \E W \in SUBSET Type : Visited(W)'
<1>0. PICK n, e, t, l, p, a, alts :
         /\ n = Len(stack) /\ e = Top.of /\ t = schema.type[e] /\ l = Top.level
         /\ p = stack[n - 1].of /\ a = stack[n - 1].at /\ alts = schema.alternatives[e]
  OBVIOUS
<1>1. /\ stack # <<>> /\ Top.kind = "element" /\ Top.calls = <<>>
      /\ UNCHANGED <<schema, pass, elements, types, base, attrGroupRefs, attrs>>
  BY DEF OwnType, AtElement, loops
<1>2. /\ n \in Nat \ {0} /\ n \in 1..n /\ e \in Element
      /\ \A k \in 1..Len(alts) : alts[k] \in Type \cup {Missing} => alts[k] \in V
      /\ n = 1 => e \in schema.global
      /\ n > 1 => /\ n - 1 \in 1..n /\ p \in V /\ base[p] = NoType /\ Groupless(p)
                  /\ attrGroupRefs[p] = <<>> /\ WalkedTo(p, a, V) /\ CalledFrom(n - 1, e)
      /\ pass = 2 => Settled(e, V)
  BY <1>0, <1>1, TopElement
<1>3. Relinks
  BY OwnTypeRelinks
<1>4. \A u \in Type : Quiet(u)
  BY <1>1, <1>3 DEF Quiet, Relinks
<1>5. /\ \A i \in 1..(n - 1) : /\ i < n - 1 => stack'[i] = stack[i]
                               /\ stack'[i].of = stack[i].of /\ stack'[i].kind = stack[i].kind
                               /\ stack'[i].phase = stack[i].phase
      /\ n > 1 => stack'[n - 1].at = a + 1
      /\ \/ Len(stack') = n - 1 /\ seen' = seen
         \/ /\ Len(stack') = n /\ t \in Type /\ stack'[n] = TypeFrame(t, l)
            /\ seen' = [seen EXCEPT ![l] = @ \cup {t}]
  <2>1. CallerGoesOn(n, t, l)
    BY <1>0, OwnTypeShape
  <2> QED BY <1>0, <2>1 DEF CallerGoesOn
<1> DEFINE W == IF Len(stack') = n THEN V \cup {t} ELSE V
<1>6. PICK X \in SUBSET Type : /\ V \subseteq X
                               /\ Len(stack') = n => X = V \cup {t}
                               /\ Len(stack') # n => X = V
  <2>1. n # n - 1
    BY <1>2
  <2>2. W \in SUBSET Type /\ V \subseteq W
    BY <1>5, <2>1
  <2> QED BY <2>2
<1> HIDE DEF W
<1>7. t \in Type => t \in X \cup schema.named
  <2> SUFFICES ASSUME t \in Type, t \notin schema.named PROVE t \in X
    OBVIOUS
  <2>1. HasType
    BY <1>0, TypeNamed
  <2>2. Enter(Returned, t, l)
    BY <1>0, <2>1 DEF OwnType
  <2>3. CASE t \in seen[l]
    <3>1. l \in 1..Len(seen)
      BY <1>0, <1>2 DEF TypeInv, Levels, Top
    <3> QED BY <1>6, <2>3, <3>1 DEF Visited
  <2>4. CASE t \notin seen[l]
    <3>1. stack' = Append(Returned, TypeFrame(t, l))
      BY <2>2, <2>4 DEF Enter
    <3>2. Returned \in Seq(Frame) /\ Len(Returned) = n - 1
      BY <1>0, <1>1, ReturnedTyped DEF TypeInv
    <3>3. Len(stack') = n
      BY <1>2, <3>1, <3>2
    <3> QED BY <1>6, <3>3
  <2> QED BY <2>3, <2>4
<1>8. Settled(e, X)'
  <2>1. \A k \in 1..Len(alts) : alts[k] \in Type \cup {Missing} => alts[k] \in X
    BY <1>2, <1>6
  <2> QED BY <1>0, <1>1, <1>7, <2>1 DEF Settled
<1>9. pass = 2 => X = V
  <2> SUFFICES ASSUME pass = 2, Len(stack') = n PROVE t \in V
    BY <1>6
  <2>1. t \in Type
    BY <1>2, <1>5
  <2>2. t \in V \cup schema.named /\ schema.named \subseteq V
    BY <1>0, <1>2, <2>1 DEF Settled, Visited, PassTwo
  <2> QED BY <2>2
<1>10. \A k \in 1..Len(seen') : seen'[k] \subseteq X
  <2>1. (\A k \in 1..Len(seen) : seen[k] \subseteq V) /\ seen \in Seq(SUBSET Type)
    BY DEF Visited, TypeInv, TypeOK
  <2>2. CASE seen' = seen
    BY <1>6, <2>1, <2>2
  <2>3. CASE Len(stack') = n /\ seen' = [seen EXCEPT ![l] = @ \cup {t}]
    <3>1. Len(seen') = Len(seen) /\ X = V \cup {t} /\ DOMAIN seen = 1..Len(seen)
      BY <1>6, <2>1, <2>3
    <3> QED BY <2>1, <2>3, <3>1
  <2> QED BY <1>5, <2>2, <2>3
<1>11. n > 1 => TypeCall(n - 1, X)' /\ ElementCall(n - 1, X)'
  <2> SUFFICES ASSUME n > 1 PROVE TypeCall(n - 1, X)' /\ ElementCall(n - 1, X)'
    OBVIOUS
  <2>0. n - 1 \in 1..(n - 1)
    BY <1>2
  <2>1. /\ stack'[n - 1].of = p /\ stack'[n - 1].kind = "type" /\ stack'[n - 1].phase = "walk"
        /\ stack'[n - 1].at = a + 1
    <3>1. stack[n - 1].kind = "type" /\ stack[n - 1].phase = "walk"
      BY <1>2, SMTT(30) DEF CalledFrom
    <3> QED BY <1>0, <1>5, <2>0, <3>1
  <2>2. a \in 1..Len(content[p]) /\ content[p][a].of = e /\ Len(content[p]) \in Nat
    BY <1>0, <1>2 DEF CalledFrom, TypeInv, TypeOK, Content
  <2>3. Quiet(p) /\ p \in X
    BY <1>2, <1>4, <1>6
  <2>4. WalkedTo(p, a + 1, X)'
    <3>1. WalkedTo(p, a, X)'
      BY <1>1, <1>2, <1>6, <2>3, WalkedKept
    <3>2. content'[p][a].of = e /\ RefKnown(content[p][a])'
      <4>1. content'[p][a].kind = content[p][a].kind /\ content'[p][a].of = e
        BY <2>2, <2>3 DEF Quiet
      <4>2. content[p][a].kind = "ref" => e \in schema.global
        BY <1>0, <1>2 DEF CalledFrom
      <4> QED BY <1>1, <4>1, <4>2 DEF RefKnown
    <3>3. Len(content'[p]) \in Nat
      BY <2>2, <2>3 DEF Quiet
    <3>4. \A j \in 1..Len(content'[p]) : j < a + 1 => j < a \/ j = a
      BY <2>2, <3>3
    <3> QED BY <1>8, <3>1, <3>2, <3>4 DEF WalkedTo
  <2>5. Groupless(p)' /\ base'[p] = NoType /\ attrGroupRefs'[p] = <<>>
    BY <1>2, <2>3 DEF Groupless, Quiet
  <2>6. Groupless(stack[n - 1].of)' /\ WalkedTo(stack[n - 1].of, stack[n - 1].at, X)'
    BY <2>1, <2>4, <2>5 DEF Groupless, WalkedTo
  <2> QED BY <2>1, <2>3, <2>5, <2>6 DEF TypeCall, ElementCall
<1>12. Len(stack') = n => TypeCall(n, X)' /\ ElementCall(n, X)'
  <2> SUFFICES ASSUME Len(stack') = n PROVE TypeCall(n, X)' /\ ElementCall(n, X)'
    OBVIOUS
  <2>1. stack'[n] = TypeFrame(t, l) /\ t \in X
    BY <1>2, <1>5, <1>6
  <2>2. stack'[n].of = t /\ stack'[n].kind = "type" /\ stack'[n].phase = "derive"
    BY <2>1 DEF TypeFrame
  <2>3. ~(n < Len(stack'))
    BY <1>2
  <2> QED BY <2>1, <2>2, <2>3 DEF TypeCall, ElementCall
<1>13. Calls(X)'
  <2> DEFINE m == IF n = 1 THEN 0 ELSE n - 2
  <2>1. m \in Nat /\ m < Len(stack) /\ Len(stack') \in Nat
    BY <1>0, <1>2, <1>5
  <2>2. \A i \in 1..m : stack'[i] = stack[i] /\ i \in 1..Len(stack)
    BY <1>0, <1>2, <1>5, SMTT(30)
  <2>3. \A i \in (m + 1)..Len(stack') : \/ i = n - 1 /\ n > 1
                                        \/ i = n /\ Len(stack') = n
    BY <1>2, <1>5
  <2>4. \A i \in (m + 1)..Len(stack') : TypeCall(i, X)' /\ ElementCall(i, X)'
    BY <1>11, <1>12, <2>3
  <2>5. \A i \in 1..m : stack[i].kind = "type" => Quiet(stack[i].of)
    BY <1>4, <2>2, FrameTyped DEF TypeInv
  <2>6. \A u \in Type : base'[u] = base[u]
    BY <1>1
  <2> HIDE DEF m
  <2> QED BY <1>1, <1>6, <2>1, <2>2, <2>4, <2>5, <2>6, CallsFrom DEF Visited
<1>14. WaitingKept
  <2>1. ~ResolveBase
    BY DEF OwnType, AtElement, ResolveBase, AtType
  <2> QED BY <2>1, WaitingStep
<1>15. /\ Len(stack') \in Nat
       /\ \A i \in 1..Len(stack') : i < n => stack'[i].of = stack[i].of /\ stack'[i].kind = stack[i].kind
       /\ \A i \in 1..n : i # n => i \in 1..Len(stack') /\ i \in 1..(n - 1)
  <2>1. Len(stack') = n \/ Len(stack') = n - 1
    BY <1>5
  <2>2. Len(stack') \in Nat /\ \A i \in 1..Len(stack') : i < n => i \in 1..(n - 1)
    BY <1>2, <2>1
  <2>3. \A i \in 1..n : i # n => i \in 1..Len(stack') /\ i \in 1..(n - 1)
    BY <1>2, <2>1
  <2> QED BY <1>5, <2>2, <2>3
<1>16. FoldsOutermost'
  BY <1>0, <1>2, <1>14, <1>15, FoldsKept DEF Visited
<1>17. \A u : OnStack(u) => OnStack(u)'
  <2> SUFFICES ASSUME NEW u, NEW i \in 1..n, stack[i].kind = "type", stack[i].of = u PROVE OnStack(u)'
    BY <1>0 DEF OnStack
  <2>1. i # n
    BY <1>0, <1>1 DEF Top
  <2>2. i \in 1..Len(stack') /\ stack'[i].kind = "type" /\ stack'[i].of = u
    BY <1>5, <1>15, <2>1
  <2> QED BY <2>2 DEF OnStack
<1>18. \A x \in schema.global : InProgress(x) => InProgress(x)' \/ Settled(x, X)'
  <2> SUFFICES ASSUME NEW x, InProgress(x), n # 1 PROVE InProgress(x)'
    <3>1. ASSUME NEW x, InProgress(x), n = 1 PROVE x = e
      BY <1>0, <3>1 DEF InProgress, Top
    <3> QED BY <1>8, <3>1
  <2>1. 1 \in 1..n
    BY <1>2
  <2>2. 1 \in 1..Len(stack') /\ stack'[1].kind = stack[1].kind /\ stack'[1].of = stack[1].of
    BY <1>5, <1>15, <2>1
  <2>3. stack' # <<>>
    BY <1>15, <2>2
  <2> QED BY <2>2, <2>3 DEF InProgress
<1>19. \A u \in X \ V : OnStack(u)'
  <2> SUFFICES ASSUME NEW u \in X \ V PROVE OnStack(u)'
    OBVIOUS
  <2>1. u = t /\ Len(stack') = n /\ stack'[n] = TypeFrame(t, l) /\ n \in 1..Len(stack')
    BY <1>2, <1>5, <1>6
  <2>2. stack'[n].kind = "type" /\ stack'[n].of = u
    BY <2>1 DEF TypeFrame
  <2> QED BY <2>1, <2>2 DEF OnStack
<1>20. PassOne(X)' /\ PassTwo(X)'
  BY <1>1, <1>4, <1>6, <1>9, <1>14, <1>17, <1>18, <1>19, PassesKept
<1>21. Visited(X)'
  BY <1>1, <1>10, <1>13, <1>16, <1>20 DEF Visited
<1> QED BY <1>21
\* A type that returns is finished.
LEMMA ReturnVisits ==
  ASSUME TypeInv, [Next]_vars, NEW V \in SUBSET Type, Visited(V), Return
  PROVE  Visited(V)'
<1>0. PICK n, t : n = Len(stack) /\ t = Top.of
  OBVIOUS
<1>1. /\ stack # <<>> /\ Top.kind = "type" /\ Top.phase = "walk" /\ ElementAt = 0 /\ ~UnknownRef(t)
      /\ UNCHANGED <<schema, pass, elements, types, content, base, attrGroupRefs, attrs>>
  BY <1>0 DEF Return, AtType, loops
<1>2. /\ t \in V /\ n \in Nat \ {0} /\ base[t] = NoType /\ Groupless(t) /\ attrGroupRefs[t] = <<>>
      /\ WalkedTo(t, Top.at, V) /\ Top.at \in Nat \ {0} /\ Len(content[t]) \in Nat
  BY <1>0, <1>1, TopCall
<1>3. \A u : Quiet(u)
  BY <1>1 DEF Quiet
<1>4. /\ Len(stack') = n - 1 /\ \A i \in 1..(n - 1) : stack'[i] = stack[i]
      /\ Len(seen') <= Len(seen) /\ \A i \in 1..Len(seen') : seen'[i] = seen[i]
      /\ Len(seen') \in Nat /\ Len(seen) \in Nat
  BY <1>0, ReturnStep DEF TypeInv, TypeOK
<1>5. Finished(t, V)
  <2>1. ASSUME NEW j \in 1..Len(content[t]), IsElement(content[t][j])
        PROVE  Settled(content[t][j].of, V) /\ RefKnown(content[t][j])
    <3> DEFINE kinds == {"element", "ref"}
               b == Top.at
    <3>1. CASE j < b
      BY <1>2, <2>1, <3>1 DEF WalkedTo
    <3>2. CASE ~(j < b)
      <4>1. NextToken(t, b, kinds) = 0 /\ content[t][j].kind \in kinds
        BY <1>0, <1>1, <2>1 DEF ElementAt, IsElement
      <4>2. j \in b..Len(content[t]) /\ b \in Nat \ {0}
        BY <1>2, <3>2
      <4> HIDE DEF kinds, b
      <4>3. NextToken(t, b, kinds) # 0
        BY <1>2, <4>1, <4>2, NextTokenFirst
      <4> QED BY <4>1, <4>3
    <3> QED BY <3>1, <3>2
  <2> QED BY <1>1, <1>2, <2>1 DEF Finished, WalkedTo
<1>6. Finished(t, V)'
  BY <1>1, <1>3, <1>5, FinishedKept
<1>7. Calls(V)'
  <2> DEFINE m == n - 1
  <2>1. /\ m \in Nat /\ m < Len(stack) /\ Len(stack') \in Nat
        /\ \A i \in 1..m : stack'[i] = stack[i]
        /\ \A i \in (m + 1)..Len(stack') : FALSE
    BY <1>0, <1>2, <1>4
  <2> HIDE DEF m
  <2> QED BY <1>1, <1>3, <2>1, CallsFrom DEF Visited
<1>8. WaitingKept
  <2>1. ~ResolveBase
    BY DEF Return, ResolveBase, AtType
  <2> QED BY <2>1, WaitingStep
<1>9. FoldsOutermost'
  BY <1>0, <1>2, <1>4, <1>8, FoldsKept DEF Visited
<1>10. \A i \in 1..n : i = n \/ (i \in 1..Len(stack') /\ stack'[i] = stack[i])
  BY <1>2, <1>4
<1>11. \A u : OnStack(u) => OnStack(u)' \/ u = t
  BY <1>0, <1>10 DEF OnStack, Top
<1>12. \A x : InProgress(x) => InProgress(x)'
  <2> SUFFICES ASSUME NEW x, InProgress(x) PROVE InProgress(x)'
    OBVIOUS
  <2>1. n # 1 /\ 1 \in 1..n
    BY <1>0, <1>1, <1>2 DEF InProgress, Top
  <2>2. 1 \in 1..Len(stack') /\ stack'[1] = stack[1]
    BY <1>10, <2>1
  <2>3. stack' # <<>>
    BY <1>2, <1>4, <2>2
  <2> QED BY <2>2, <2>3 DEF InProgress
<1>13. PassOne(V)' /\ PassTwo(V)'
  BY <1>1, <1>3, <1>6, <1>8, <1>11, <1>12, PassesKept
<1>14. \A i \in 1..Len(seen') : seen'[i] \subseteq V
  BY <1>4 DEF Visited
<1> QED BY <1>1, <1>7, <1>9, <1>13, <1>14 DEF Visited

\* The loops enter elements and types.
LEMMA BeginElementVisits ==
  ASSUME TypeInv, NEW V \in SUBSET Type, Visited(V), NEW e \in Element, BeginElement(e)
  PROVE  Visited(V)'
<1>1. /\ stack = <<>> /\ e \in elements /\ elements' = elements \ {e} /\ stack' = <<ElementFrame(e, 1)>>
      /\ UNCHANGED <<schema, pass, types, seen, content, base, attrGroupRefs, attrs>>
  BY DEF BeginElement, heap
<1>2. Len(stack) = 0 /\ Len(stack') = 1 /\ stack'[1] = ElementFrame(e, 1) /\ stack' # <<>>
  BY <1>1
<1>3. /\ stack'[1].kind = "element" /\ stack'[1].of = e /\ stack'[1].phase = "choose"
      /\ stack'[1].calls = schema.alternatives[e]
  BY <1>2 DEF ElementFrame
<1>4. e \in schema.global
  BY <1>1 DEF Visited
<1>5. \A u : Quiet(u)
  BY <1>1 DEF Quiet
<1>6. Calls(V)'
  <2>1. TypeCall(1, V)' /\ ElementCall(1, V)'
    BY <1>1, <1>3, <1>4 DEF TypeCall, ElementCall
  <2>2. \A i \in 1..Len(stack') : i = 1
    BY <1>2
  <2> QED BY <2>1, <2>2 DEF Calls
<1>7. FoldsOutermost' /\ WaitingKept
  BY <1>2, <1>3 DEF FoldsOutermost, WaitingKept
<1>8. InProgress(e)' /\ (\A u : ~OnStack(u)) /\ (\A x : ~InProgress(x))
  BY <1>1, <1>2, <1>3 DEF InProgress, OnStack
<1>9. PassOne(V)' /\ PassTwo(V)'
  <2>1. \A x \in elements \ elements' : InProgress(x)'
    BY <1>1, <1>8
  <2>2. types \ types' \subseteq V
    BY <1>1
  <2> QED BY <1>1, <1>5, <1>7, <1>8, <2>1, <2>2, PassesKept
<1> QED BY <1>1, <1>6, <1>7, <1>9 DEF Visited

LEMMA BeginTypeVisits ==
  ASSUME TypeInv, NEW V \in SUBSET Type, Visited(V), NEW t \in Type, BeginType(t)
  PROVE  \E W \in SUBSET Type : Visited(W)'
<1>1. /\ stack = <<>> /\ t \in types /\ types' = types \ {t} /\ Enter(<<>>, t, 1)
      /\ UNCHANGED <<schema, pass, elements, content, base, attrGroupRefs, attrs>>
  BY DEF BeginType, heap
<1>2. 1 \in 1..Len(seen) /\ <<>> \in Seq(Frame) /\ TypeOK /\ seen \in Seq(SUBSET Type)
  BY DEF TypeInv, TypeOK, Levels
<1>3. \/ stack' = <<>> /\ seen' = seen
      \/ /\ t \notin seen[1]
         /\ stack' = <<TypeFrame(t, 1)>>
         /\ seen' = [seen EXCEPT ![1] = @ \cup {t}]
  BY <1>1 DEF Enter
<1>4. t \in seen[1] \/ stack' = <<TypeFrame(t, 1)>>
  BY <1>1 DEF Enter
<1>5. PICK X \in SUBSET Type : X = V \cup {t}
  OBVIOUS
<1>6. \A k \in 1..Len(seen') : seen'[k] \subseteq X
  BY <1>2, <1>3, <1>5 DEF Visited
<1>7. \A i \in 1..Len(stack') : /\ i = 1 /\ Len(stack') = 1 /\ stack'[1].kind = "type"
                                /\ stack'[1].of = t /\ stack'[1].phase = "derive"
  <2>1. CASE stack' = <<>>
    BY <2>1
  <2>2. CASE stack' = <<TypeFrame(t, 1)>>
    <3>1. Len(stack') = 1 /\ stack'[1] = TypeFrame(t, 1)
      BY <2>2
    <3>2. stack'[1].kind = "type" /\ stack'[1].of = t /\ stack'[1].phase = "derive"
      BY <3>1 DEF TypeFrame
    <3> QED BY <3>1, <3>2
  <2> QED BY <1>3, <2>1, <2>2
<1>8. Calls(X)'
  BY <1>5, <1>7 DEF Calls, TypeCall, ElementCall
<1>9. FoldsOutermost' /\ WaitingKept
  BY <1>7 DEF FoldsOutermost, WaitingKept
<1>10. (\A u : ~OnStack(u)) /\ (\A x : ~InProgress(x))
  BY <1>1 DEF InProgress, OnStack
<1>11. \A u \in X \ V : OnStack(u)'
  <2> SUFFICES ASSUME NEW u \in X \ V PROVE OnStack(u)'
    OBVIOUS
  <2>1. u = t /\ t \notin seen[1]
    BY <1>2, <1>5 DEF Visited
  <2>2. Len(stack') = 1
    BY <1>4, <2>1
  <2> QED BY <1>7, <2>1, <2>2 DEF OnStack
<1>12. pass = 2 => X = V
  BY <1>1, <1>5 DEF Visited, PassTwo
<1>13. \A u : Quiet(u)
  BY <1>1 DEF Quiet
<1>14. PassOne(X)' /\ PassTwo(X)'
  <2>1. types \ types' \subseteq X
    BY <1>1, <1>5
  <2> QED BY <1>1, <1>5, <1>9, <1>10, <1>11, <1>12, <1>13, <2>1, PassesKept
<1>15. Visited(X)'
  BY <1>1, <1>6, <1>8, <1>9, <1>14 DEF Visited
<1> QED BY <1>15

\* Between the passes nothing is on the stack, so every visited type is finished.
LEMMA EndPassVisits ==
  ASSUME TypeInv, NEW V \in SUBSET Type, Visited(V), EndPass, pass = 1
  PROVE  Visited(V)'
<1>1. /\ stack = <<>> /\ elements = {} /\ types = {}
      /\ pass' = 2 /\ elements' = schema.global /\ types' = schema.named /\ seen' = <<{}>>
      /\ UNCHANGED <<schema, stack, content, base, attrGroupRefs, attrs>>
  BY DEF EndPass, heap
<1>2. /\ \A t \in V : Finished(t, V)
      /\ schema.named \subseteq V
      /\ \A e \in schema.global : Settled(e, V)
  BY <1>1 DEF Visited, PassOne, OnStack, InProgress
<1>3. \A u : Quiet(u)
  BY <1>1 DEF Quiet
<1>4. PassOne(V)' /\ PassTwo(V)'
  <2>1. \A t \in V : Finished(t, V)'
    BY <1>1, <1>2, <1>3, FinishedKept
  <2>2. \A e \in schema.global : Settled(e, V)'
    BY <1>1, <1>2, SettledKept
  <2>3. \A i \in 1..Len(stack') : FALSE
    BY <1>1
  <2> QED BY <1>1, <1>2, <2>1, <2>2, <2>3 DEF PassOne, PassTwo
<1>5. Calls(V)' /\ FoldsOutermost'
  BY <1>1 DEF Calls, FoldsOutermost
<1> QED BY <1>1, <1>4, <1>5 DEF Visited

\* A step that but ends the resolution, or none.
LEMMA IdleVisits ==
  ASSUME NEW V, Visited(V), UNCHANGED <<schema, loops, stack, seen, heap>>
  PROVE  Visited(V)'
<1>1. UNCHANGED <<schema, pass, elements, types, stack, seen, content, base, attrGroupRefs, attrs>>
  BY DEF loops, heap
<1>2. /\ \A e : Settled(e, V) => Settled(e, V)'
      /\ \A t : Finished(t, V) => Finished(t, V)'
      /\ \A t, i : WalkedTo(t, i, V) => WalkedTo(t, i, V)'
  BY <1>1 DEF Settled, Finished, Groupless, WalkedTo, RefKnown, UnknownRef, References
<1>3. ASSUME NEW i, TypeCall(i, V) PROVE TypeCall(i, V)'
  <2>1. Groupless(stack[i].of) => Groupless(stack[i].of)'
    BY <1>1, Zenon DEF Groupless
  <2>2. WalkedTo(stack[i].of, stack[i].at, V) => WalkedTo(stack[i].of, stack[i].at, V)'
    BY <1>1, Zenon DEF WalkedTo, Settled, RefKnown
  <2> QED BY <1>1, <1>3, <2>1, <2>2 DEF TypeCall
<1>4. ASSUME NEW i, ElementCall(i, V) PROVE ElementCall(i, V)'
  <2>1. CalledFrom(i - 1, stack[i].of) => CalledFrom(i - 1, stack[i].of)'
    BY <1>1 DEF CalledFrom
  <2> QED BY <1>1, <1>4, <2>1 DEF ElementCall
<1>5. FoldsOutermost' /\ PassOne(V)' /\ PassTwo(V)'
  BY <1>1, <1>2 DEF Visited, FoldsOutermost, PassOne, PassTwo, OnStack, InProgress
<1> QED BY <1>1, <1>3, <1>4, <1>5 DEF Visited, Calls-----------------------------------------------------------------------------
LEMMA VisitedStep ==
  ASSUME TypeInv, InPlaceLinked, [Next]_vars, NEW V \in SUBSET Type, Visited(V)
  PROVE  \E W \in SUBSET Type : Visited(W)'
<1>1. CASE UNCHANGED <<schema, loops, stack, seen, heap>>
  BY <1>1, IdleVisits
<1>2. ASSUME NEW e \in Element, BeginElement(e) PROVE Visited(V)'
  BY <1>2, BeginElementVisits
<1>3. ASSUME NEW t \in Type, BeginType(t) PROVE \E W \in SUBSET Type : Visited(W)'
  BY <1>3, BeginTypeVisits
<1>4. CASE EndPass
  <2>1. CASE pass = 1
    BY <1>4, <2>1, EndPassVisits
  <2>2. CASE pass # 1
    BY <1>1, <1>4, <2>2 DEF EndPass, loops
  <2> QED BY <2>1, <2>2
<1>5. CASE Alternative
  BY <1>5, AlternativeVisits
<1>6. CASE OwnType
  BY <1>6, OwnTypeVisits
<1>7. CASE NoDerivation \/ SimpleBase
  BY <1>7, NoDerivationVisits
<1>8. CASE ResolveBase
  BY <1>8, ResolveBaseVisits
<1>9. CASE Fold
  BY <1>9, FoldVisits
<1>10. CASE ExpandGroup
  BY <1>10, ExpandGroupVisits
<1>11. CASE EndExpand \/ EndGroups
  BY <1>11, EndExpandVisits
<1>12. CASE ApplyAttrGroup
  BY <1>12, ApplyAttrGroupVisits
<1>13. CASE WalkElement
  BY <1>13, WalkElementVisits
<1>14. CASE Return
  BY <1>14, ReturnVisits
<1>15. \/ RejectAlternative \/ RejectBase \/ RejectFold \/ RejectGroup \/ RejectRef
       \/ RejectAttribute \/ Overflow \/ UNCHANGED vars
       => UNCHANGED <<schema, loops, stack, seen, heap>>
  BY DEF RejectAlternative, RejectBase, RejectFold, RejectGroup, RejectRef,
     RejectAttribute, Overflow, Reject, vars, heap, loops
<1> QED BY <1>1, <1>2, <1>3, <1>4, <1>5, <1>6, <1>7, <1>8, <1>9, <1>10, <1>11, <1>12, <1>13,
           <1>14, <1>15 DEF Next, Step, Done

LEMMA ResolveStep ==
  ASSUME TypeInv, ResolveInv, [Next]_vars
  PROVE  ResolveInv'
<1>1. PICK V \in SUBSET Type : Visited(V)
  BY DEF ResolveInv
<1>2. \E W \in SUBSET Type : Visited(W)'
  BY <1>1, VisitedStep DEF ResolveInv
<1>3. InPlaceLinked'
  BY InPlaceStep DEF ResolveInv
<1> QED BY <1>2, <1>3 DEF ResolveInv

\* At first no type was visited.
LEMMA ResolveInit ==
  ASSUME Init
  PROVE  ResolveInv
<1>1. schema \in Schemas /\ stack = <<>> /\ seen = <<{}>> /\ pass = 1
  BY DEF Init
<1>2. InPlaceLinked
  BY <1>1, DerivationAssumption DEF Init, InPlaceLinked
<1>3. Visited({})
  <2>1. \A l \in 1..Len(seen) : seen[l] \subseteq {}
    BY <1>1
  <2>2. Calls({}) /\ FoldsOutermost
    BY <1>1 DEF Calls, FoldsOutermost
  <2>3. PassOne({}) /\ PassTwo({})
    BY <1>1 DEF Init, PassOne, PassTwo
  <2> QED BY <2>1, <2>2, <2>3 DEF Init, Visited
<1> QED BY <1>2, <1>3 DEF ResolveInv

LEMMA ResolveAlways == Spec => []ResolveInv
<1>1. TypeInv /\ ResolveInv /\ [Next]_vars => ResolveInv'
  BY ResolveStep
<1> QED BY <1>1, ResolveInit, TypeAlways, PTL DEF Spec

LEMMA SecondPassStep ==
  ASSUME TypeInv, ResolveInv, [Next]_vars, pass = 2
  PROVE  /\ UNCHANGED <<base, parent, traits, attrs, attrGroupRefs>>
         /\ \A t \in Type : Unlinked(content'[t]) = Unlinked(content[t])
<1>0. PICK V \in SUBSET Type : Visited(V)
  BY DEF ResolveInv
<1>1. CASE UNCHANGED heap
  BY <1>1 DEF heap
<1>2. \/ RejectAlternative \/ RejectBase \/ RejectFold \/ RejectGroup \/ RejectRef
      \/ RejectAttribute \/ Overflow \/ UNCHANGED vars
      => UNCHANGED heap
  BY DEF RejectAlternative, RejectBase, RejectFold, RejectGroup, RejectRef,
     RejectAttribute, Overflow, Reject, vars, heap
<1>3. \/ \E e \in Element : BeginElement(e)
      \/ \E t \in Type : BeginType(t)
      \/ EndPass \/ Alternative \/ NoDerivation \/ EndExpand \/ EndGroups \/ WalkElement
      => UNCHANGED heap
  BY DEF BeginElement, BeginType, EndPass, Alternative, NoDerivation, EndExpand, EndGroups, WalkElement
<1>4. CASE OwnType
  BY <1>4, OwnTypeRelinks DEF OwnType, Relinks
<1>5. CASE Return
  BY <1>5 DEF Return
<1>6. CASE SimpleBase
  <2>1. stack # <<>> /\ Top.kind = "type" /\ base' = [base EXCEPT ![Top.of] = NoType]
    BY <1>6 DEF SimpleBase, AtType
  <2>2. base[Top.of] = NoType
    BY <1>0, <2>1, TopCall DEF Finished
  <2> QED BY <1>6, <2>1, <2>2 DEF SimpleBase, TypeInv, TypeOK
<1>7. ~ResolveBase
  <2> SUFFICES ASSUME ResolveBase PROVE FALSE
    OBVIOUS
  <2>1. stack # <<>> /\ Top.kind = "type" /\ base[Top.of] \in Type
    BY DEF ResolveBase, AtType
  <2>2. base[Top.of] = NoType
    BY <1>0, <2>1, TopCall DEF Finished
  <2> QED BY <2>1, <2>2, DerivationAssumption
<1>8. ~Fold
  BY <1>0, TopCall DEF Fold, AtType
<1>9. ~ExpandGroup
  <2> SUFFICES ASSUME ExpandGroup PROVE FALSE
    OBVIOUS
  <2>1. Groupless(Top.of)
    BY <1>0, TopCall DEF ExpandGroup, AtType, Finished
  <2>2. Here.kind = "group"
    BY GroupAtTyped DEF GroupRef
  <2> QED BY <2>1, <2>2, GroupAtTyped DEF Groupless, Here
<1>10. ~ApplyAttrGroup
  BY <1>0, TopCall DEF ApplyAttrGroup, AtType, Finished
<1> QED BY <1>1, <1>2, <1>3, <1>4, <1>5, <1>6, <1>7, <1>8, <1>9, <1>10 DEF Next, Step, Done

\* Whatever refers to what and in whatever order types are reached, resolving
\* the schema again, in the document that includes it, derives, expands and
\* applies nothing a second time.
THEOREM SecondPassChangesNothing == Spec => SecondPassIdle
<1>1. TypeInv /\ ResolveInv /\ [Next]_vars =>
        [pass = 2 => /\ UNCHANGED <<base, parent, traits, attrs, attrGroupRefs>>
                     /\ \A t \in Type : Unlinked(content'[t]) = Unlinked(content[t])]_vars
  BY SecondPassStep
<1> QED BY <1>1, TypeAlways, ResolveAlways, PTL DEF Spec, SecondPassIdle
\* A resolution that ends well has done both passes.
EndsLast == outcome = "ok" => pass = 2

LEMMA EndsLastStep ==
  ASSUME TypeInv, EndsLast, [Next]_vars
  PROVE  EndsLast'
<1>1. CASE UNCHANGED vars
  BY <1>1 DEF vars, loops, EndsLast
<1>2. CASE EndPass
  <2>1. pass' = 2 \/ (pass # 1 /\ pass' = pass)
    BY <1>2, Zenon DEF EndPass, loops
  <2>2. pass \in 1..2
    BY DEF TypeInv, TypeOK
  <2> QED BY <2>1, <2>2 DEF EndsLast
<1>3. \/ \E e \in Element : BeginElement(e)
      \/ \E t \in Type : BeginType(t)
      \/ Alternative \/ OwnType
      \/ NoDerivation \/ SimpleBase \/ ResolveBase \/ Fold
      \/ ExpandGroup \/ EndExpand \/ ApplyAttrGroup \/ EndGroups
      \/ WalkElement \/ Return
      => outcome' = "running"
  BY Zenon DEF BeginElement, BeginType, Alternative, OwnType, NoDerivation, SimpleBase, ResolveBase, Fold,
     ExpandGroup, EndExpand, ApplyAttrGroup, EndGroups, WalkElement, Return, AtType, AtElement, Running
<1>4. \/ RejectAlternative \/ RejectBase \/ RejectFold \/ RejectGroup \/ RejectRef
      \/ RejectAttribute \/ Overflow
      => outcome' \in {"error", "overflow"}
  BY DEF RejectAlternative, RejectBase, RejectFold, RejectGroup, RejectRef,
     RejectAttribute, Overflow, Reject
<1> QED BY <1>1, <1>2, <1>3, <1>4 DEF Next, Step, Done, EndsLast

\* In a schema that is accepted nothing is left to resolve: in the types it
\* names, in those its elements lead to, and in those these lead to in turn, no
\* base is left to fold in, no group to expand and no attribute group to apply.
AcceptedResolved ==
  outcome = "ok" =>
    \E V \in SUBSET Type : /\ schema.named \subseteq V
                           /\ \A t \in V : Finished(t, V)
                           /\ \A e \in schema.global : Settled(e, V)

THEOREM AcceptedIsResolved == Spec => []AcceptedResolved
<1>1. Init => EndsLast
  BY DEF Init, EndsLast
<1>2. TypeInv /\ EndsLast /\ [Next]_vars => EndsLast'
  BY EndsLastStep
<1>3. ResolveInv /\ EndsLast => AcceptedResolved
  BY DEF ResolveInv, EndsLast, AcceptedResolved, Visited, PassTwo
<1> QED BY <1>1, <1>2, <1>3, TypeAlways, ResolveAlways, PTL DEF Spec
-----------------------------------------------------------------------------
(* Named groups written out.                                               *)

\* What a function makes of a value, again and again.
Iterates(f, H, a, m) == /\ DOMAIN f = 0..m /\ f[0] = a
                        /\ \A n \in 1..m : f[n] = H[f[n - 1]]

LEMMA Iterated ==
  ASSUME NEW D, NEW a \in D, NEW H \in [D -> D]
  PROVE  \A m \in Nat : \E f \in [0..m -> D] : Iterates(f, H, a, m)
<1> DEFINE S == {m \in Nat : \E f \in [0..m -> D] : Iterates(f, H, a, m)}
<1>1. 0 \in S
  <2> DEFINE f == [n \in 0..0 |-> a]
  <2>1. f \in [0..0 -> D] /\ DOMAIN f = 0..0 /\ f[0] = a /\ \A n \in 1..0 : FALSE
    OBVIOUS
  <2> HIDE DEF f
  <2>2. Iterates(f, H, a, 0)
    BY <2>1 DEF Iterates
  <2> QED BY <2>1, <2>2
<1>2. ASSUME NEW m \in Nat, m \in S
      PROVE  m + 1 \in S
  <2>1. PICK f \in [0..m -> D] : Iterates(f, H, a, m)
    BY <1>2
  <2> DEFINE g == [n \in 0..(m + 1) |-> IF n = m + 1 THEN H[f[m]] ELSE f[n]]
  <2>2. H[f[m]] \in D
    BY <2>1
  <2>3. g \in [0..(m + 1) -> D]
    BY <2>1, <2>2
  <2>4. g[0] = a /\ g[m + 1] = H[f[m]] /\ \A n \in 0..m : g[n] = f[n]
    BY <2>1 DEF Iterates
  <2> HIDE DEF g
  <2>5. \A n \in 1..(m + 1) : g[n] = H[g[n - 1]]
    <3> TAKE n \in 1..(m + 1)
    <3>1. CASE n = m + 1
      <4>1. n - 1 = m /\ m \in 0..m
        BY <3>1
      <4> QED BY <2>4, <3>1, <4>1
    <3>2. CASE n # m + 1
      <4>1. n \in 1..m /\ n \in 0..m /\ n - 1 \in 0..m
        BY <3>2
      <4> QED BY <2>1, <2>4, <4>1 DEF Iterates
    <3> QED BY <3>1, <3>2
  <2>6. Iterates(g, H, a, m + 1)
    <3>1. DOMAIN g = 0..(m + 1)
      BY <2>3
    <3> QED BY <2>4, <2>5, <3>1 DEF Iterates
  <2> QED BY <2>3, <2>6
<1>3. Nat \subseteq S
  <2> HIDE DEF S
  <2> QED BY <1>1, <1>2, Upwards
<1> QED BY <1>3

Token == Bracket \cup Particles \cup GroupRef
Models == [Group -> Content]

\* What stands for a token when the groups are the models f.
Stands(x, f) == x.kind = "group" /\ x.of \in schema.groupNames /\ f[x.of] # <<>>
One(x, f) == IF Stands(x, f) THEN [f[x.of] EXCEPT ![1].occurs = x.occurs] ELSE <<x>>
Ones(c, f) == [i \in 1..Len(c) |-> One(c[i], f)]

LEMMA InlineOnes == ASSUME NEW c, NEW f PROVE Inline(c, f) = FlattenSeq(Ones(c, f))
BY DEF Inline, Ones, One, Stands

LEMMA CountedTyped ==
  ASSUME NEW x \in Token, NEW n \in Nat
  PROVE  Counted(x, n) \in Token
BY DEF Counted, Token, Bracket, Particles, GroupRef

LEMMA TokenTyped ==
  ASSUME NEW x \in Token
  PROVE  /\ x.occurs \in Nat /\ x.linked \in BOOLEAN
         /\ x.kind = "group" => x.of \in Group
         /\ x.kind \in {"element", "ref"} => x.of \in Element
BY DEF Token, Bracket, Particles, GroupRef

\* The counts of the reference go to the first token of the copy.
Recounted(c, n) == [c EXCEPT ![1].occurs = n]

LEMMA RecountedTyped ==
  ASSUME NEW c \in Seq(Token), c # <<>>, NEW n \in Nat
  PROVE  /\ Recounted(c, n) \in Seq(Token) /\ Len(Recounted(c, n)) = Len(c)
         /\ Recounted(c, n) # <<>> /\ 1 \in 1..Len(c)
         /\ Recounted(c, n)[1] = Counted(c[1], n)
         /\ \A i \in 1..Len(c) : i # 1 => Recounted(c, n)[i] = c[i]
<1>1. 1 \in 1..Len(c) /\ c[1] \in Token /\ Len(c) \in Nat
  BY EmptySeq
<1>2. Counted(c[1], n) \in Token
  BY <1>1, CountedTyped
<1>3. Recounted(c, n) = [c EXCEPT ![1] = Counted(c[1], n)]
  BY DEF Recounted, Counted
<1> DEFINE x == Counted(c[1], n)
           d == Recounted(c, n)
<1> HIDE DEF x, d
<1>4. d \in Seq(Token) /\ Len(d) = Len(c)
  BY <1>1, <1>2, <1>3, ExceptSeq DEF x, d
<1>5. d[1] = x /\ \A i \in 1..Len(c) : i # 1 => d[i] = c[i]
  BY <1>1, <1>3 DEF x, d
<1>6. d # <<>>
  BY <1>1, <1>4
<1> QED BY <1>1, <1>4, <1>5, <1>6 DEF x, d

LEMMA OneTyped ==
  ASSUME NEW x \in Token, NEW f \in Models
  PROVE  /\ One(x, f) \in Seq(Token) /\ One(x, f) # <<>>
         /\ Stands(x, f) => /\ x.of \in Group /\ f[x.of] \in Seq(Token) /\ f[x.of] # <<>>
                            /\ One(x, f) = Recounted(f[x.of], x.occurs)
<1>1. CASE Stands(x, f)
  <2>1. x.of \in Group /\ x.occurs \in Nat /\ f[x.of] # <<>>
    BY <1>1, TokenTyped DEF Stands
  <2>2. f[x.of] \in Seq(Token)
    BY <2>1 DEF Models, Content, Token
  <2>3. One(x, f) = Recounted(f[x.of], x.occurs)
    BY <1>1 DEF One, Recounted
  <2> QED BY <2>1, <2>2, <2>3, RecountedTyped
<1>2. CASE ~Stands(x, f)
  <2>1. One(x, f) = <<x>>
    BY <1>2 DEF One
  <2> QED BY <1>2, <2>1
<1> QED BY <1>1, <1>2

LEMMA OnesTyped ==
  ASSUME NEW c \in Seq(Token), NEW f \in Models
  PROVE  /\ Ones(c, f) \in Seq(Seq(Token)) /\ Len(Ones(c, f)) = Len(c)
         /\ Inline(c, f) \in Seq(Token)
<1>1. \A i \in 1..Len(c) : One(c[i], f) \in Seq(Token)
  BY OneTyped, ElementOfSeq
<1>2. Ones(c, f) \in Seq(Seq(Token)) /\ Len(Ones(c, f)) = Len(c)
  BY <1>1 DEF Ones
<1>3. FlattenSeq(Ones(c, f)) \in Seq(Token)
  BY <1>2, FlattenTyped
<1> QED BY <1>2, <1>3, InlineOnes
-----------------------------------------------------------------------------
LEMMA SameTokens ==
  ASSUME NEW S, NEW a \in Seq(S), NEW b \in Seq(S), NEW n, Len(a) = n, Len(b) = n,
         \A i \in 1..n : a[i] = b[i]
  PROVE  a = b
OBVIOUS

LEMMA OnesConcat ==
  ASSUME NEW x \in Seq(Token), NEW y \in Seq(Token), NEW f \in Models
  PROVE  Ones(x \o y, f) = Ones(x, f) \o Ones(y, f)
<1> DEFINE n == Len(x)
           m == Len(y)
           z == x \o y
<1>1. n \in Nat /\ m \in Nat /\ Len(z) = n + m /\ z \in Seq(Token)
  OBVIOUS
<1>2. \A i \in 1..(n + m) : z[i] = IF i <= n THEN x[i] ELSE y[i - n]
  BY ConcatProperties
<1> HIDE DEF n, m, z
<1> DEFINE a == Ones(x, f)
           b == Ones(y, f)
           u == Ones(z, f)
<1>3. /\ a = [i \in 1..n |-> One(x[i], f)] /\ b = [i \in 1..m |-> One(y[i], f)]
      /\ u = [i \in 1..(n + m) |-> One(z[i], f)]
  BY <1>1 DEF Ones, n, m
<1>4. DOMAIN u = 1..(n + m) /\ \A i \in 1..(n + m) : u[i] = IF i <= n THEN a[i] ELSE b[i - n]
  BY <1>1, <1>2, <1>3
<1>5. /\ a \in Seq(Seq(Token)) /\ Len(a) = n /\ b \in Seq(Seq(Token)) /\ Len(b) = m
      /\ u \in Seq(Seq(Token)) /\ Len(u) = n + m
  <2> HIDE DEF a, b, u
  <2>1. a \in Seq(Seq(Token)) /\ Len(a) = n
    BY OnesTyped DEF a, n
  <2>2. b \in Seq(Seq(Token)) /\ Len(b) = m
    BY OnesTyped DEF b, m
  <2>3. u \in Seq(Seq(Token)) /\ Len(u) = n + m
    BY <1>1, OnesTyped DEF u
  <2> QED BY <2>1, <2>2, <2>3
<1> HIDE DEF a, b, u
<1> DEFINE S == Seq(Token)
           v == a \o b
<1> HIDE DEF S
<1>6. /\ v \in Seq(S) /\ Len(v) = n + m
      /\ \A i \in 1..(n + m) : v[i] = IF i <= n THEN a[i] ELSE b[i - n]
  BY <1>5, ConcatProperties DEF S
<1> HIDE DEF v
<1>7. u \in Seq(S)
  BY <1>5 DEF S
<1>8. u = v
  <2>1. \A i \in 1..(n + m) : u[i] = v[i]
    BY <1>4, <1>6
  <2>2. Len(u) = n + m
    BY <1>5
  <2> QED BY <1>6, <1>7, <2>1, <2>2, SameTokens, Zenon
<1> QED BY <1>8 DEF a, b, u, v, z

LEMMA InlineConcat ==
  ASSUME NEW x \in Seq(Token), NEW y \in Seq(Token), NEW f \in Models
  PROVE  Inline(x \o y, f) = Inline(x, f) \o Inline(y, f)
<1>1. Ones(x \o y, f) = Ones(x, f) \o Ones(y, f)
  BY OnesConcat
<1>2. Ones(x, f) \in Seq(Seq(Token)) /\ Ones(y, f) \in Seq(Seq(Token))
  BY OnesTyped
<1> QED BY <1>1, <1>2, FlattenConcat, InlineOnes

LEMMA InlineSingle ==
  ASSUME NEW x \in Token, NEW f \in Models
  PROVE  Inline(<<x>>, f) = One(x, f)
<1>1. Ones(<<x>>, f) = <<One(x, f)>>
  BY DEF Ones
<1>2. One(x, f) \in Seq(Token)
  BY OneTyped
<1> QED BY <1>1, <1>2, FlattenOne, InlineOnes

LEMMA InlineFirst ==
  ASSUME NEW c \in Seq(Token), c # <<>>, NEW f \in Models
  PROVE  /\ c[1] \in Token /\ Tail(c) \in Seq(Token) /\ c = <<c[1]>> \o Tail(c)
         /\ Inline(c, f) = One(c[1], f) \o Inline(Tail(c), f)
         /\ Inline(c, f) # <<>>
<1> DEFINE x == c[1]
           y == Tail(c)
<1>1. x \in Token /\ y \in Seq(Token) /\ c = <<x>> \o y /\ <<x>> \in Seq(Token)
  <2>1. c = <<Head(c)>> \o Tail(c) /\ Head(c) = c[1] /\ 1 \in 1..Len(c)
    BY EmptySeq
  <2> QED BY <2>1
<1> HIDE DEF x, y
<1>2. Inline(c, f) = One(x, f) \o Inline(y, f)
  <2>1. Inline(<<x>> \o y, f) = Inline(<<x>>, f) \o Inline(y, f)
    BY <1>1, InlineConcat
  <2>2. Inline(<<x>>, f) = One(x, f)
    BY <1>1, InlineSingle
  <2> QED BY <1>1, <2>1, <2>2
<1>3. One(x, f) \in Seq(Token) /\ One(x, f) # <<>> /\ Inline(y, f) \in Seq(Token)
  BY <1>1, OneTyped, OnesTyped
<1>4. One(x, f) \o Inline(y, f) # <<>>
  BY <1>3, ConcatEqualIffEmpty
<1> QED BY <1>1, <1>2, <1>4 DEF x, y

LEMMA RecountedFirst ==
  ASSUME NEW x \in Seq(Token), x # <<>>, NEW y \in Seq(Token), NEW n \in Nat
  PROVE  Recounted(x \o y, n) = Recounted(x, n) \o y
<1> DEFINE a == Len(x)
           b == Len(y)
           v == Recounted(x, n)
           z == x \o y
           w == Recounted(z, n)
<1>1. a \in Nat /\ b \in Nat /\ z \in Seq(Token) /\ Len(z) = a + b /\ z # <<>> /\ a # 0
  <2>1. z \in Seq(Token) /\ Len(z) = a + b /\ a \in Nat /\ b \in Nat
    OBVIOUS
  <2>2. a # 0
    BY EmptySeq
  <2> QED BY <2>1, <2>2
<1>2. \A i \in 1..(a + b) : z[i] = IF i <= a THEN x[i] ELSE y[i - a]
  BY ConcatProperties
<1>3. /\ v \in Seq(Token) /\ Len(v) = a /\ v[1] = Counted(x[1], n)
      /\ \A i \in 1..a : i # 1 => v[i] = x[i]
  BY RecountedTyped
<1>4. /\ w \in Seq(Token) /\ Len(w) = a + b /\ w[1] = Counted(z[1], n)
      /\ \A i \in 1..(a + b) : i # 1 => w[i] = z[i]
  <2> HIDE DEF z, a, b
  <2>1. /\ w \in Seq(Token) /\ Len(w) = Len(z) /\ w[1] = Counted(z[1], n)
        /\ \A i \in 1..Len(z) : i # 1 => w[i] = z[i]
    BY <1>1, RecountedTyped
  <2> HIDE DEF w
  <2> QED BY <1>1, <2>1
<1> HIDE DEF z, w, v
<1>5. \A i \in 1..(a + b) : (v \o y)[i] = IF i <= a THEN v[i] ELSE y[i - a]
  BY <1>3, ConcatProperties
<1>6. v \o y \in Seq(Token) /\ Len(v \o y) = a + b
  BY <1>3
<1>7. \A i \in 1..(a + b) : w[i] = (v \o y)[i]
  <2>1. z[1] = x[1] /\ 1 \in 1..(a + b) /\ 1 <= a
    BY <1>1, <1>2
  <2> HIDE DEF a, b
  <2> TAKE i \in 1..(a + b)
  <2>2. CASE i = 1
    <3>1. w[1] = v[1]
      BY <1>3, <1>4, <2>1
    <3> QED BY <1>5, <2>1, <2>2, <3>1
  <2>3. CASE i # 1
    <3>1. w[i] = z[i] /\ z[i] = IF i <= a THEN x[i] ELSE y[i - a]
      BY <1>2, <1>4, <2>3
    <3>2. i <= a => i \in 1..a
      BY <1>1
    <3>3. i <= a => v[i] = x[i]
      BY <1>3, <2>3, <3>2
    <3> QED BY <1>5, <3>1, <3>3
  <2> QED BY <2>2, <2>3
<1>8. w = v \o y
  BY <1>4, <1>6, <1>7
<1> QED BY <1>8 DEF v, w, z

\* A copy with other counts is written out as the group is, with the counts.
LEMMA CopyInlined ==
  ASSUME NEW c \in Seq(Token), c # <<>>, NEW n \in Nat, NEW f \in Models
  PROVE  Inline(Recounted(c, n), f) = Recounted(Inline(c, f), n)
<1> DEFINE x == c[1]
           y == Tail(c)
           u == Counted(x, n)
<1>1. /\ x \in Token /\ y \in Seq(Token) /\ c = <<x>> \o y
      /\ Inline(c, f) = One(x, f) \o Inline(y, f)
  BY InlineFirst
<1>2. u \in Token /\ u.kind = x.kind /\ u.of = x.of /\ u.occurs = n
  <2>1. x \in Token
    BY <1>1
  <2> HIDE DEF x
  <2>2. FieldsApart(x, n) /\ Counted(x, n) \in Token
    BY <2>1, TokenFields, CountedTyped DEF Token
  <2>3. Counted(x, n).occurs = n
    BY <2>1 DEF Counted, Token, Bracket, Particles, GroupRef
  <2> QED BY <2>2, <2>3 DEF FieldsApart
<1> HIDE DEF x, y, u
<1>3. Recounted(c, n) = <<u>> \o y
  <2>1. <<x>> \in Seq(Token) /\ <<x>> # <<>> /\ Recounted(<<x>>, n) = <<u>>
    <3>1. <<x>> \in Seq(Token) /\ <<x>> # <<>> /\ Len(<<x>>) = 1 /\ <<x>>[1] = x
      BY <1>1
    <3>2. Recounted(<<x>>, n) \in Seq(Token) /\ Len(Recounted(<<x>>, n)) = 1 /\ Recounted(<<x>>, n)[1] = u
      BY <3>1, RecountedTyped DEF u
    <3> QED BY <3>1, <3>2
  <2> QED BY <1>1, <2>1, RecountedFirst, ZenonT(60)
<1>4. Inline(<<u>> \o y, f) = One(u, f) \o Inline(y, f)
  <2>1. <<u>> \in Seq(Token)
    BY <1>2
  <2>2. Inline(<<u>> \o y, f) = Inline(<<u>>, f) \o Inline(y, f)
    BY <1>1, <2>1, InlineConcat
  <2>3. Inline(<<u>>, f) = One(u, f)
    BY <1>2, InlineSingle
  <2> QED BY <2>2, <2>3
<1>5. One(u, f) = Recounted(One(x, f), n)
  <2>1. CASE Stands(x, f)
    <3>1. Stands(u, f)
      BY <1>2, <2>1 DEF Stands
    <3>2. One(u, f) = Recounted(f[x.of], n) /\ One(x, f) = Recounted(f[x.of], x.occurs)
      BY <1>2, <2>1, <3>1 DEF One, Recounted
    <3>3. f[x.of] \in Seq(Token) /\ f[x.of] # <<>> /\ x.occurs \in Nat
      BY <1>1, <2>1, OneTyped, TokenTyped
    <3> DEFINE g == f[x.of]
               m == x.occurs
    <3> HIDE DEF g, m
    <3>4. g \in Seq(Token) /\ g # <<>> /\ m \in Nat
      BY <3>3 DEF g, m
    <3>5. Recounted(Recounted(g, m), n) = Recounted(g, n)
      <4>1. g[1] \in Token
        BY <3>4, RecountedTyped
      <4>2. Counted(Counted(g[1], m), n) = Counted(g[1], n)
        BY <4>1 DEF Counted, Token, Bracket, Particles, GroupRef
      <4> DEFINE p == Recounted(g, m)
                 q == Recounted(p, n)
                 r == Recounted(g, n)
      <4>3. /\ p \in Seq(Token) /\ Len(p) = Len(g) /\ p # <<>> /\ p[1] = Counted(g[1], m)
            /\ \A i \in 1..Len(g) : i # 1 => p[i] = g[i]
        BY <3>4, RecountedTyped
      <4> HIDE DEF p
      <4>4. /\ q \in Seq(Token) /\ Len(q) = Len(g) /\ q[1] = Counted(p[1], n)
            /\ \A i \in 1..Len(g) : i # 1 => q[i] = p[i]
        BY <4>3, RecountedTyped
      <4>5. /\ r \in Seq(Token) /\ Len(r) = Len(g) /\ r[1] = Counted(g[1], n)
            /\ \A i \in 1..Len(g) : i # 1 => r[i] = g[i]
        BY <3>4, RecountedTyped
      <4> HIDE DEF q, r
      <4>6. \A i \in 1..Len(g) : q[i] = r[i]
        BY <4>2, <4>3, <4>4, <4>5, Zenon
      <4>7. q = r
        BY <4>4, <4>5, <4>6
      <4> QED BY <4>7 DEF p, q, r
    <3> QED BY <3>2, <3>5 DEF g, m
  <2>2. CASE ~Stands(x, f)
    <3>1. ~Stands(u, f)
      BY <1>2, <2>2 DEF Stands
    <3>2. One(u, f) = <<u>> /\ One(x, f) = <<x>>
      BY <2>2, <3>1 DEF One
    <3>3. <<x>> \in Seq(Token) /\ <<x>> # <<>> /\ Len(<<x>>) = 1 /\ <<x>>[1] = x
      BY <1>1
    <3>4. Recounted(<<x>>, n) \in Seq(Token) /\ Len(Recounted(<<x>>, n)) = 1 /\ Recounted(<<x>>, n)[1] = u
      BY <3>3, RecountedTyped DEF u
    <3> QED BY <3>2, <3>4
  <2> QED BY <2>1, <2>2
<1>6. One(x, f) \in Seq(Token) /\ One(x, f) # <<>> /\ Inline(y, f) \in Seq(Token)
  BY <1>1, OneTyped, OnesTyped
<1>7. Recounted(One(x, f) \o Inline(y, f), n) = Recounted(One(x, f), n) \o Inline(y, f)
  BY <1>6, RecountedFirst
<1> QED BY <1>1, <1>3, <1>4, <1>5, <1>7
-----------------------------------------------------------------------------
(* The groups written out so many levels deep.                             *)
GroupCount == Cardinality(Group)
Levelled ==
  LET f[n \in 0..GroupCount] ==
        IF n = 0 THEN schema.groups
        ELSE [g \in Group |-> Inline(schema.groups[g], f[n - 1])]
  IN  f
Level(n) == Levelled[n]

LEMMA LevelTyped ==
  ASSUME schema \in Schemas
  PROVE  /\ GroupCount \in Nat
         /\ \A n \in 0..GroupCount : Level(n) \in Models
         /\ Level(0) = schema.groups
         /\ \A n \in 1..GroupCount : \A g \in Group : Level(n)[g] = Inline(schema.groups[g], Level(n - 1))
         /\ WrittenOut = Level(GroupCount)
<1> DEFINE N == GroupCount
           H == [w \in Models |-> [g \in Group |-> Inline(schema.groups[g], w)]]
           v(n, f) == IF n = 0 THEN schema.groups
                      ELSE [g \in Group |-> Inline(schema.groups[g], f[n - 1])]
<1>1. N \in Nat
  BY DerivationAssumption, FS_CardinalityType DEF GroupCount
<1>2. schema.groups \in Models /\ \A g \in Group : schema.groups[g] \in Seq(Token)
  BY SchemaTyped DEF Models, Content, Token
<1>3. H \in [Models -> Models]
  <2>1. ASSUME NEW w \in Models, NEW g \in Group PROVE Inline(schema.groups[g], w) \in Content
    BY <1>2, OnesTyped DEF Content, Token
  <2> QED BY <2>1 DEF Models
<1>4. PICK f \in [0..N -> Models] : Iterates(f, H, schema.groups, N)
  BY <1>1, <1>2, <1>3, Iterated
<1>5. f = [n \in 0..N |-> v(n, f)]
  <2>1. \A n \in 0..N : f[n] = v(n, f)
    <3> TAKE n \in 0..N
    <3>1. CASE n = 0
      BY <1>4, <3>1 DEF Iterates
    <3>2. CASE n # 0
      <4>1. n \in 1..N /\ n - 1 \in 0..N
        BY <1>1, <3>2
      <4>2. f[n] = H[f[n - 1]] /\ f[n - 1] \in Models
        BY <1>4, <4>1 DEF Iterates
      <4> QED BY <3>2, <4>2
    <3> QED BY <3>1, <3>2
  <2>2. f = [n \in 0..N |-> f[n]]
    BY <1>4
  <2> HIDE DEF v
  <2> QED BY <2>1, <2>2, Zenon
<1> DEFINE S(h) == h = [n \in 0..N |-> v(n, h)]
           c == CHOOSE h : S(h)
<1>6. Levelled = c
  BY Zenon DEF Levelled
<1>7. S(c)
  <2>1. \E h : S(h)
    BY <1>5
  <2> HIDE DEF S
  <2> QED BY <2>1, Zenon
<1> HIDE DEF c
<1>8. \A n \in 0..N : c[n] = v(n, c)
  <2> HIDE DEF v
  <2> QED BY <1>7, Zenon
<1>9. c[0] = schema.groups /\ \A n \in 1..N : c[n] = [g \in Group |-> Inline(schema.groups[g], c[n - 1])]
  <2>1. 0 \in 0..N /\ \A n \in 1..N : n \in 0..N /\ n # 0
    BY <1>1
  <2> QED BY <1>8, <2>1
<1>10. \A n \in 0..N : c[n] \in Models
  <2> DEFINE T == {n \in Nat : n <= N => c[n] \in Models}
  <2>1. 0 \in T
    BY <1>2, <1>9
  <2>2. ASSUME NEW n \in Nat, n \in T PROVE n + 1 \in T
    <3> SUFFICES ASSUME n + 1 <= N PROVE c[n + 1] \in Models
      OBVIOUS
    <3>1. n + 1 \in 1..N /\ (n + 1) - 1 = n /\ c[n] \in Models
      BY <1>1, <2>2
    <3>2. c[n + 1] = [g \in Group |-> Inline(schema.groups[g], c[n])]
      BY <1>9, <3>1
    <3>3. c[n + 1] = H[c[n]]
      BY <3>1, <3>2
    <3> HIDE DEF H
    <3> QED BY <1>3, <3>1, <3>3
  <2>3. Nat \subseteq T
    <3> HIDE DEF T
    <3> QED BY <2>1, <2>2, Upwards
  <2> QED BY <1>1, <2>3
<1>11. WrittenOut = c[N]
  BY Zenon DEF WrittenOut, c, GroupCount
<1> HIDE DEF N, v, H, S
<1>12. \A n : Level(n) = c[n]
  BY <1>6 DEF Level
<1>13. \A n \in 1..N : \A g \in Group : c[n][g] = Inline(schema.groups[g], c[n - 1])
  BY <1>9
<1> QED BY <1>1, <1>9, <1>10, <1>11, <1>12, <1>13 DEF N

\* A level deeper what a group holds is written out.
LEMMA LevelEmpty ==
  ASSUME schema \in Schemas, NEW n \in 0..GroupCount, NEW g \in Group
  PROVE  Level(n)[g] = <<>> <=> schema.groups[g] = <<>>
<1> DEFINE c == schema.groups[g]
<1>1. c \in Seq(Token)
  BY SchemaTyped DEF Content, Token
<1>2. CASE n = 0
  BY <1>2, LevelTyped
<1>3. CASE n # 0
  <2>1. n \in 1..GroupCount /\ n - 1 \in 0..GroupCount
    BY <1>3, LevelTyped
  <2>2. Level(n)[g] = Inline(c, Level(n - 1)) /\ Level(n - 1) \in Models
    BY <2>1, LevelTyped
  <2> HIDE DEF c
  <2>3. c # <<>> => Inline(c, Level(n - 1)) # <<>>
    BY <1>1, <2>2, InlineFirst
  <2>4. c = <<>> => Inline(c, Level(n - 1)) = <<>>
    <3> HAVE c = <<>>
    <3>1. Len(Ones(c, Level(n - 1))) = 0
      BY DEF Ones
    <3>2. Ones(c, Level(n - 1)) = <<>>
      BY <3>1 DEF Ones
    <3> QED BY <3>1, <3>2, InlineOnes DEF FlattenSeq
  <2> QED BY <2>2, <2>3, <2>4 DEF c
<1> QED BY <1>2, <1>3

\* Nothing stands for the tokens of a model without references to groups.
NoGroup(c) == \A i \in 1..Len(c) : c[i].kind # "group"

LEMMA InlineNoGroup ==
  ASSUME NEW c \in Seq(Token), NoGroup(c), NEW f
  PROVE  Inline(c, f) = c
<1>1. Ones(c, f) = [i \in 1..Len(c) |-> <<c[i]>>]
  BY DEF Ones, One, Stands, NoGroup
<1> QED BY <1>1, FlattenSingles, InlineOnes
-----------------------------------------------------------------------------
LEMMA ThreeParts ==
  ASSUME NEW S, NEW x \in Seq(S), NEW y \in Seq(S), NEW z \in Seq(S)
  PROVE  /\ (x \o y) \o z \in Seq(S)
         /\ Len((x \o y) \o z) = Len(x) + Len(y) + Len(z)
         /\ \A i \in 1..Len(x) : ((x \o y) \o z)[i] = x[i]
         /\ \A i \in 1..Len(y) : ((x \o y) \o z)[Len(x) + i] = y[i]
         /\ \A i \in 1..Len(z) : ((x \o y) \o z)[Len(x) + Len(y) + i] = z[i]
<1> DEFINE v == x \o y
           w == v \o z
           a == Len(x)
           b == Len(y)
           c == Len(z)
<1>1. a \in Nat /\ b \in Nat /\ c \in Nat
  OBVIOUS
<1>2. v \in Seq(S) /\ Len(v) = a + b /\ \A i \in 1..(a + b) : v[i] = IF i <= a THEN x[i] ELSE y[i - a]
  BY ConcatProperties
<1> HIDE DEF v
<1>3. w \in Seq(S) /\ Len(w) = a + b + c
      /\ \A i \in 1..(a + b + c) : w[i] = IF i <= a + b THEN v[i] ELSE z[i - (a + b)]
  <2>1. /\ w \in Seq(S) /\ Len(w) = Len(v) + Len(z)
        /\ \A i \in 1..(Len(v) + Len(z)) : w[i] = IF i <= Len(v) THEN v[i] ELSE z[i - Len(v)]
    <3>1. v \in Seq(S) /\ z \in Seq(S)
      BY <1>2
    <3> QED BY <3>1, ConcatProperties, Zenon
  <2> HIDE DEF w, a, b
  <2> QED BY <1>2, <2>1 DEF c
<1> HIDE DEF w, a, b, c
<1>4. ASSUME NEW i \in 1..a PROVE w[i] = x[i]
  <2>1. i \in 1..(a + b + c) /\ i <= a + b /\ i \in 1..(a + b) /\ i <= a
    BY <1>1
  <2> QED BY <1>2, <1>3, <2>1
<1>5. ASSUME NEW i \in 1..b PROVE w[a + i] = y[i]
  <2>1. a + i \in 1..(a + b + c) /\ a + i <= a + b /\ a + i \in 1..(a + b) /\ ~(a + i <= a) /\ (a + i) - a = i
    BY <1>1
  <2>2. w[a + i] = v[a + i]
    BY <1>3, <2>1
  <2>3. v[a + i] = y[(a + i) - a]
    BY <1>2, <2>1
  <2> QED BY <2>1, <2>2, <2>3
<1>6. ASSUME NEW i \in 1..c PROVE w[a + b + i] = z[i]
  <2>1. a + b + i \in 1..(a + b + c) /\ ~(a + b + i <= a + b) /\ (a + b + i) - (a + b) = i
    BY <1>1
  <2>2. w[a + b + i] = z[(a + b + i) - (a + b)]
    BY <1>3, <2>1
  <2> QED BY <2>1, <2>2
<1> QED BY <1>3, <1>4, <1>5, <1>6 DEF w, v, a, b, c

LEMMA OfThreeParts ==
  ASSUME NEW S, NEW x \in Seq(S), NEW y \in Seq(S), NEW z \in Seq(S), NEW w \in Seq(S),
         Len(w) = Len(x) + Len(y) + Len(z),
         \A i \in 1..Len(x) : w[i] = x[i],
         \A i \in 1..Len(y) : w[Len(x) + i] = y[i],
         \A i \in 1..Len(z) : w[Len(x) + Len(y) + i] = z[i]
  PROVE  w = (x \o y) \o z
<1> DEFINE u == (x \o y) \o z
           a == Len(x)
           b == Len(y)
           c == Len(z)
<1>1. a \in Nat /\ b \in Nat /\ c \in Nat
  OBVIOUS
<1>2. /\ u \in Seq(S) /\ Len(u) = a + b + c
      /\ \A i \in 1..a : u[i] = x[i]
      /\ \A i \in 1..b : u[a + i] = y[i]
      /\ \A i \in 1..c : u[a + b + i] = z[i]
  BY ThreeParts
<1> HIDE DEF u
<1>3. /\ Len(w) = a + b + c
      /\ \A i \in 1..a : w[i] = x[i]
      /\ \A i \in 1..b : w[a + i] = y[i]
      /\ \A i \in 1..c : w[a + b + i] = z[i]
  OBVIOUS
<1> HIDE DEF a, b, c
<1>4. ASSUME NEW i \in 1..(a + b + c) PROVE w[i] = u[i]
  <2>1. CASE i <= a
    BY <1>1, <1>2, <1>3, <2>1
  <2>2. CASE ~(i <= a) /\ i <= a + b
    <3>1. i - a \in 1..b /\ a + (i - a) = i
      BY <1>1, <2>2
    <3>2. w[a + (i - a)] = y[i - a] /\ u[a + (i - a)] = y[i - a]
      BY <1>2, <1>3, <3>1, Zenon
    <3> QED BY <3>1, <3>2
  <2>3. CASE ~(i <= a + b)
    <3>1. i - (a + b) \in 1..c /\ a + b + (i - (a + b)) = i
      BY <1>1, <2>3
    <3> DEFINE k == i - (a + b)
    <3> HIDE DEF k
    <3>2. k \in 1..c /\ a + b + k = i
      BY <3>1 DEF k
    <3>3. w[a + b + k] = z[k] /\ u[a + b + k] = z[k]
      BY <1>2, <1>3, <3>2, Zenon
    <3> QED BY <3>2, <3>3
  <2> QED BY <1>1, <2>1, <2>2, <2>3
<1>5. w = u
  BY <1>2, <1>3, <1>4, SameTokens, Zenon
<1> QED BY <1>5 DEF u

LEMMA FlattenThree ==
  ASSUME NEW S, NEW x \in Seq(Seq(S)), NEW y \in Seq(Seq(S)), NEW z \in Seq(Seq(S))
  PROVE  FlattenSeq((x \o y) \o z) = (FlattenSeq(x) \o FlattenSeq(y)) \o FlattenSeq(z)
<1>1. x \o y \in Seq(Seq(S))
  OBVIOUS
<1>2. FlattenSeq((x \o y) \o z) = FlattenSeq(x \o y) \o FlattenSeq(z)
  BY <1>1, FlattenConcat
<1>3. FlattenSeq(x \o y) = FlattenSeq(x) \o FlattenSeq(y)
  BY FlattenConcat
<1> QED BY <1>2, <1>3

-----------------------------------------------------------------------------
(* What the model of a type is once its groups are expanded: a reference   *)
(* in the copy of a group is a level deeper in it.                         *)
Path == [group : Group, rest : Nat]
Active(c, path, i) == {p.group : p \in {q \in path : q.rest <= Len(c) - i}}
LevelAt(c, path, i) == GroupCount - Cardinality(Active(c, path, i))
Pieces(c, path) == [i \in 1..Len(c) |-> One(c[i], Level(LevelAt(c, path, i)))]
Expanded(c, path) == FlattenSeq(Pieces(c, path))

LEMMA LevelAtTyped ==
  ASSUME schema \in Schemas, NEW c, NEW path \in SUBSET Path, NEW i
  PROVE  /\ Active(c, path, i) \in SUBSET Group /\ IsFiniteSet(Active(c, path, i))
         /\ LevelAt(c, path, i) \in 0..GroupCount
         /\ Level(LevelAt(c, path, i)) \in Models
<1> DEFINE A == Active(c, path, i)
<1>1. A \in SUBSET Group
  BY DEF Active, Path
<1> HIDE DEF A
<1>2. IsFiniteSet(A) /\ Cardinality(A) <= GroupCount /\ Cardinality(A) \in Nat /\ GroupCount \in Nat
  BY <1>1, DerivationAssumption, FS_Subset, FS_CardinalityType DEF GroupCount
<1>3. LevelAt(c, path, i) \in 0..GroupCount
  BY <1>2 DEF LevelAt, A
<1> QED BY <1>1, <1>2, <1>3, LevelTyped DEF A

LEMMA PiecesTyped ==
  ASSUME schema \in Schemas, NEW c \in Seq(Token), NEW path \in SUBSET Path
  PROVE  /\ Pieces(c, path) \in Seq(Seq(Token)) /\ Len(Pieces(c, path)) = Len(c)
         /\ \A i \in 1..Len(c) : Pieces(c, path)[i] = One(c[i], Level(LevelAt(c, path, i)))
         /\ Expanded(c, path) \in Seq(Token)
<1>1. \A i \in 1..Len(c) : One(c[i], Level(LevelAt(c, path, i))) \in Seq(Token)
  BY OneTyped, LevelAtTyped, ElementOfSeq
<1>2. /\ Pieces(c, path) \in Seq(Seq(Token)) /\ Len(Pieces(c, path)) = Len(c)
      /\ \A i \in 1..Len(c) : Pieces(c, path)[i] = One(c[i], Level(LevelAt(c, path, i)))
  BY <1>1 DEF Pieces
<1> QED BY <1>2, FlattenTyped DEF Expanded

\* Without groups left it is the model, outside of groups what is written out.
LEMMA ExpandedNoGroup ==
  ASSUME NEW c \in Seq(Token), NoGroup(c), NEW path
  PROVE  Expanded(c, path) = c
<1>1. Pieces(c, path) = [i \in 1..Len(c) |-> <<c[i]>>]
  BY DEF Pieces, One, Stands, NoGroup
<1> QED BY <1>1, FlattenSingles DEF Expanded

LEMMA ExpandedOutside ==
  ASSUME schema \in Schemas, NEW c \in Seq(Token)
  PROVE  Expanded(c, {}) = Inline(c, WrittenOut)
<1>1. \A i \in 1..Len(c) : LevelAt(c, {}, i) = GroupCount
  <2> TAKE i \in 1..Len(c)
  <2>1. Active(c, {}, i) = {}
    BY DEF Active
  <2>2. Cardinality(Active(c, {}, i)) = 0
    BY <2>1, FS_EmptySet
  <2>3. GroupCount \in Nat
    BY LevelTyped
  <2> QED BY <2>2, <2>3 DEF LevelAt
<1>2. WrittenOut = Level(GroupCount)
  BY LevelTyped
<1>3. Pieces(c, {}) = Ones(c, WrittenOut)
  BY <1>1, <1>2 DEF Pieces, Ones
<1> QED BY <1>3, InlineOnes DEF Expanded
-----------------------------------------------------------------------------
\* The reference at place p of model c gives way to a copy of its group.
Splits(c, path, p) ==
  /\ schema \in Schemas /\ c \in Seq(Token) /\ path \in SUBSET Path /\ p \in 1..Len(c)
  /\ c[p].kind = "group" /\ c[p].of \in schema.groupNames /\ schema.groups[c[p].of] # <<>>
  /\ \A i \in 1..(p - 1) : c[i].kind # "group"
Inside(c, path, p) == {q \in path : q.rest <= Len(c) - p}
Copied(c, p) == Recounted(schema.groups[c[p].of], c[p].occurs)
SplitPath(c, path, p) == Inside(c, path, p) \cup {[group |-> c[p].of, rest |-> Len(c) - p]}
Split(c, p) == (SubSeq(c, 1, p - 1) \o Copied(c, p)) \o SubSeq(c, p + 1, Len(c))

LEMMA SplitParts ==
  ASSUME NEW c, NEW path, NEW p, Splits(c, path, p)
  PROVE  /\ c[p].of \in Group /\ c[p].occurs \in Nat /\ p \in Nat \ {0} /\ Len(c) \in Nat /\ p <= Len(c)
         /\ schema.groups[c[p].of] \in Seq(Token)
         /\ Copied(c, p) \in Seq(Token) /\ Len(Copied(c, p)) \in Nat \ {0}
         /\ SubSeq(c, 1, p - 1) \in Seq(Token) /\ Len(SubSeq(c, 1, p - 1)) = p - 1
         /\ \A i \in 1..(p - 1) : SubSeq(c, 1, p - 1)[i] = c[i]
         /\ SubSeq(c, p + 1, Len(c)) \in Seq(Token) /\ Len(SubSeq(c, p + 1, Len(c))) = Len(c) - p
         /\ \A i \in 1..(Len(c) - p) : SubSeq(c, p + 1, Len(c))[i] = c[p + i]
         /\ SplitPath(c, path, p) \in SUBSET Path
<1>1. c \in Seq(Token) /\ p \in 1..Len(c) /\ c[p] \in Token /\ c[p].kind = "group"
  BY DEF Splits
<1>2. c[p].of \in Group /\ c[p].occurs \in Nat
  BY <1>1, TokenTyped
<1>3. schema.groups[c[p].of] \in Seq(Token) /\ schema.groups[c[p].of] # <<>>
  BY <1>2, SchemaTyped DEF Splits, Content, Token
<1>4. Copied(c, p) \in Seq(Token) /\ Len(Copied(c, p)) \in Nat \ {0}
  <2>1. Copied(c, p) \in Seq(Token) /\ Copied(c, p) # <<>>
    BY <1>2, <1>3, RecountedTyped DEF Copied
  <2> QED BY <2>1, EmptySeq
<1>5. /\ SubSeq(c, 1, p - 1) \in Seq(Token) /\ Len(SubSeq(c, 1, p - 1)) = p - 1
      /\ \A i \in 1..(p - 1) : SubSeq(c, 1, p - 1)[i] = c[i]
  BY <1>1
<1>6. /\ SubSeq(c, p + 1, Len(c)) \in Seq(Token) /\ Len(SubSeq(c, p + 1, Len(c))) = Len(c) - p
      /\ \A i \in 1..(Len(c) - p) : SubSeq(c, p + 1, Len(c))[i] = c[p + i]
  BY <1>1
<1>7. SplitPath(c, path, p) \in SUBSET Path
  <2>1. path \in SUBSET Path /\ Len(c) - p \in Nat
    BY <1>1 DEF Splits
  <2> QED BY <1>2, <2>1 DEF SplitPath, Inside, Path
<1> QED BY <1>1, <1>2, <1>3, <1>4, <1>5, <1>6, <1>7

\* Which groups a place of the new model is in.
LEMMA SplitActive ==
  ASSUME NEW c, NEW path, NEW p, Splits(c, path, p), NEW d, Len(d) = Len(c) - 1 + Len(Copied(c, p))
  PROVE  /\ \A i \in 1..Len(Copied(c, p)) :
              Active(d, SplitPath(c, path, p), (p - 1) + i) = Active(c, path, p) \cup {c[p].of}
         /\ \A i \in 1..(Len(c) - p) :
              Active(d, SplitPath(c, path, p), (p - 1) + Len(Copied(c, p)) + i) = Active(c, path, p + i)
<1> DEFINE n == Len(c)
           m == Len(Copied(c, p))
           r == n - p
           g == c[p].of
           new == [group |-> g, rest |-> r]
           deep == SplitPath(c, path, p)
<1>1. n \in Nat /\ m \in Nat \ {0} /\ p \in 1..n /\ path \in SUBSET Path /\ Len(d) = n - 1 + m
  BY SplitParts DEF Splits
<1>2. \A q \in path : q.rest \in Nat
  BY <1>1 DEF Path
<1>3. new.rest = r /\ new.group = g /\ deep = {q \in path : q.rest <= r} \cup {new}
  BY DEF SplitPath, Inside
<1> HIDE DEF n, m, new, deep, g
<1>4. ASSUME NEW i \in 1..m PROVE Active(d, deep, (p - 1) + i) = Active(c, path, p) \cup {g}
  <2>1. Len(d) - ((p - 1) + i) = r + (m - i) /\ m - i >= 0 /\ Len(c) - p = r /\ r \in Nat
    BY <1>1 DEF n
  <2> DEFINE k == Len(d) - ((p - 1) + i)
  <2>2. k \in Nat /\ k >= r
    BY <1>1, <2>1
  <2> HIDE DEF k, r
  <2>3. {q \in deep : q.rest <= k} = {q \in path : q.rest <= r} \cup {new}
    BY <1>2, <1>3, <2>1, <2>2
  <2>4. Active(d, deep, (p - 1) + i) = {q.group : q \in {q \in path : q.rest <= r} \cup {new}}
    BY <2>3 DEF Active, k
  <2>5. Active(c, path, p) = {q.group : q \in {q \in path : q.rest <= r}}
    BY <2>1 DEF Active
  <2> QED BY <1>3, <2>4, <2>5
<1>5. ASSUME NEW i \in 1..(n - p) PROVE Active(d, deep, (p - 1) + m + i) = Active(c, path, p + i)
  <2>1. Len(d) - ((p - 1) + m + i) = r - i /\ Len(c) - (p + i) = r - i /\ r - i \in Nat /\ r - i < r /\ r \in Nat
    BY <1>1 DEF n
  <2> DEFINE k == r - i
  <2> HIDE DEF k, r
  <2>2. {q \in deep : q.rest <= k} = {q \in path : q.rest <= k}
    BY <1>2, <1>3, <2>1 DEF k
  <2>3. Active(d, deep, (p - 1) + m + i) = {q.group : q \in {q \in deep : q.rest <= k}}
    BY <2>1 DEF Active, k
  <2>4. Active(c, path, p + i) = {q.group : q \in {q \in path : q.rest <= k}}
    BY <2>1 DEF Active, k
  <2> QED BY <2>2, <2>3, <2>4
<1> QED BY <1>4, <1>5 DEF n, m, g, deep, r
-----------------------------------------------------------------------------
\* A group that is not in its own copy: there is a level left for it.
LEMMA LevelLeft ==
  ASSUME NEW c, NEW path, NEW p, Splits(c, path, p), c[p].of \notin Active(c, path, p)
  PROVE  /\ LevelAt(c, path, p) \in 1..GroupCount
         /\ GroupCount - Cardinality(Active(c, path, p) \cup {c[p].of}) = LevelAt(c, path, p) - 1
<1> DEFINE A == Active(c, path, p)
           g == c[p].of
<1>1. A \in SUBSET Group /\ IsFiniteSet(A) /\ LevelAt(c, path, p) = GroupCount - Cardinality(A)
  BY LevelAtTyped DEF Splits, LevelAt
<1>2. g \in Group /\ g \notin A
  BY SplitParts
<1> HIDE DEF A, g
<1>3. Cardinality(A \cup {g}) = Cardinality(A) + 1 /\ Cardinality(A) \in Nat
  BY <1>1, <1>2, FS_AddElement, FS_CardinalityType
<1>4. Cardinality(A \cup {g}) <= GroupCount /\ GroupCount \in Nat
  <2>1. A \cup {g} \in SUBSET Group
    BY <1>1, <1>2
  <2> QED BY <2>1, DerivationAssumption, FS_Subset, FS_CardinalityType DEF GroupCount
<1> QED BY <1>1, <1>3, <1>4 DEF A, g

\* The copy, written out a level deeper, is what stood for the reference.
LEMMA CopyStands ==
  ASSUME NEW c, NEW path, NEW p, Splits(c, path, p), NEW l \in 1..GroupCount
  PROVE  /\ Ones(Copied(c, p), Level(l - 1)) \in Seq(Seq(Token))
         /\ Len(Ones(Copied(c, p), Level(l - 1))) = Len(Copied(c, p))
         /\ FlattenSeq(Ones(Copied(c, p), Level(l - 1))) = One(c[p], Level(l))
<1> DEFINE g == c[p].of
           k == c[p].occurs
           w == schema.groups[g]
           f == Level(l - 1)
<1>1. g \in Group /\ k \in Nat /\ w \in Seq(Token) /\ w # <<>> /\ schema \in Schemas
  BY SplitParts DEF Splits
<1>2. f \in Models /\ Level(l)[g] = Inline(w, f) /\ Level(l)[g] # <<>>
  <2>1. GroupCount \in Nat
    BY <1>1, LevelTyped
  <2>2. l - 1 \in 0..GroupCount /\ l \in 0..GroupCount
    BY <2>1
  <2> QED BY <1>1, <2>2, LevelTyped, LevelEmpty
<1>3. Copied(c, p) = Recounted(w, k) /\ Copied(c, p) \in Seq(Token)
  BY SplitParts DEF Copied
<1>4. One(c[p], Level(l)) = Recounted(Level(l)[g], k)
  BY <1>2 DEF One, Stands, Splits, Recounted
<1> HIDE DEF g, k, w, f
<1>5. Inline(Recounted(w, k), f) = Recounted(Inline(w, f), k)
  BY <1>1, <1>2, CopyInlined
<1>6. FlattenSeq(Ones(Copied(c, p), f)) = Inline(Copied(c, p), f)
  BY InlineOnes
<1>7. Ones(Copied(c, p), f) \in Seq(Seq(Token)) /\ Len(Ones(Copied(c, p), f)) = Len(Copied(c, p))
  BY <1>2, <1>3, OnesTyped
<1> QED BY <1>2, <1>3, <1>4, <1>5, <1>6, <1>7 DEF f

LEMMA SplitTyped ==
  ASSUME NEW c, NEW path, NEW p, Splits(c, path, p)
  PROVE  /\ Split(c, p) \in Seq(Token) /\ Len(Split(c, p)) = Len(c) - 1 + Len(Copied(c, p))
         /\ \A i \in 1..(p - 1) : Split(c, p)[i] = c[i]
         /\ \A i \in 1..Len(Copied(c, p)) : Split(c, p)[(p - 1) + i] = Copied(c, p)[i]
         /\ \A i \in 1..(Len(c) - p) : Split(c, p)[(p - 1) + Len(Copied(c, p)) + i] = c[p + i]
<1> DEFINE x == SubSeq(c, 1, p - 1)
           y == Copied(c, p)
           z == SubSeq(c, p + 1, Len(c))
           w == Split(c, p)
<1>1. /\ x \in Seq(Token) /\ Len(x) = p - 1 /\ y \in Seq(Token) /\ Len(y) \in Nat
      /\ z \in Seq(Token) /\ Len(z) = Len(c) - p /\ Len(c) \in Nat /\ p \in Nat
      /\ \A i \in 1..(p - 1) : x[i] = c[i]
      /\ \A i \in 1..(Len(c) - p) : z[i] = c[p + i]
  BY SplitParts
<1>2. w = (x \o y) \o z
  BY DEF Split
<1> HIDE DEF x, y, z, w
<1>3. /\ w \in Seq(Token) /\ Len(w) = Len(x) + Len(y) + Len(z)
      /\ \A i \in 1..Len(x) : w[i] = x[i]
      /\ \A i \in 1..Len(y) : w[Len(x) + i] = y[i]
      /\ \A i \in 1..Len(z) : w[Len(x) + Len(y) + i] = z[i]
  <2>1. /\ (x \o y) \o z \in Seq(Token)
        /\ Len((x \o y) \o z) = Len(x) + Len(y) + Len(z)
        /\ \A i \in 1..Len(x) : ((x \o y) \o z)[i] = x[i]
        /\ \A i \in 1..Len(y) : ((x \o y) \o z)[Len(x) + i] = y[i]
        /\ \A i \in 1..Len(z) : ((x \o y) \o z)[Len(x) + Len(y) + i] = z[i]
    <3>1. ASSUME NEW q \in Seq(Token), NEW r \in Seq(Token), NEW s \in Seq(Token)
          PROVE  /\ (q \o r) \o s \in Seq(Token)
                 /\ Len((q \o r) \o s) = Len(q) + Len(r) + Len(s)
                 /\ \A i \in 1..Len(q) : ((q \o r) \o s)[i] = q[i]
                 /\ \A i \in 1..Len(r) : ((q \o r) \o s)[Len(q) + i] = r[i]
                 /\ \A i \in 1..Len(s) : ((q \o r) \o s)[Len(q) + Len(r) + i] = s[i]
      BY ThreeParts
    <3> QED BY <1>1, <3>1
  <2> QED BY <1>2, <2>1, Zenon
<1>4. Len(w) = Len(c) - 1 + Len(y)
  BY <1>1, <1>3
<1> QED BY <1>1, <1>3, <1>4 DEF y, w

LEMMA SplitExpands ==
  ASSUME NEW c, NEW path, NEW p, Splits(c, path, p), c[p].of \notin Active(c, path, p)
  PROVE  Expanded(Split(c, p), SplitPath(c, path, p)) = Expanded(c, path)
<1> DEFINE y == Copied(c, p)
           n == Len(c)
           m == Len(y)
           d == Split(c, p)
           deep == SplitPath(c, path, p)
           l == LevelAt(c, path, p)
           X == [i \in 1..(p - 1) |-> <<c[i]>>]
           Y == Ones(y, Level(l - 1))
           Z == [i \in 1..(n - p) |-> One(c[p + i], Level(LevelAt(c, path, p + i)))]
           u == One(c[p], Level(l))
           U == Pieces(c, path)
           W == Pieces(d, deep)
           S == Seq(Token)
<1>1. /\ n \in Nat /\ m \in Nat \ {0} /\ p \in 1..n /\ schema \in Schemas /\ c \in Seq(Token)
      /\ path \in SUBSET Path /\ deep \in SUBSET Path
  BY SplitParts DEF Splits
<1>2. /\ d \in Seq(Token) /\ Len(d) = n - 1 + m
      /\ \A i \in 1..(p - 1) : d[i] = c[i] /\ c[i].kind # "group"
      /\ \A i \in 1..m : d[(p - 1) + i] = y[i]
      /\ \A i \in 1..(n - p) : d[(p - 1) + m + i] = c[p + i]
  <2>1. \A i \in 1..(p - 1) : c[i].kind # "group"
    BY DEF Splits
  <2>2. /\ Split(c, p) \in Seq(Token) /\ Len(Split(c, p)) = Len(c) - 1 + Len(Copied(c, p))
        /\ \A i \in 1..(p - 1) : Split(c, p)[i] = c[i]
        /\ \A i \in 1..Len(Copied(c, p)) : Split(c, p)[(p - 1) + i] = Copied(c, p)[i]
        /\ \A i \in 1..(Len(c) - p) : Split(c, p)[(p - 1) + Len(Copied(c, p)) + i] = c[p + i]
    BY SplitTyped
  <2> QED BY <2>1, <2>2
<1>3. l \in 1..GroupCount
  BY LevelLeft
<1>4. /\ \A i \in 1..m : LevelAt(d, deep, (p - 1) + i) = l - 1
      /\ \A i \in 1..(n - p) : LevelAt(d, deep, (p - 1) + m + i) = LevelAt(c, path, p + i)
  BY <1>2, SplitActive, LevelLeft DEF LevelAt
<1>5. X \in Seq(S) /\ Len(X) = p - 1
  BY <1>1
<1>6. Y \in Seq(S) /\ Len(Y) = m /\ FlattenSeq(Y) = u /\ u \in S /\ \A i \in 1..m : Y[i] = One(y[i], Level(l - 1))
  <2>1. c[p] \in Token /\ Level(l) \in Models
    BY <1>1, LevelAtTyped
  <2> QED BY <1>3, <2>1, CopyStands, OneTyped DEF Ones
<1>7. Z \in Seq(S) /\ Len(Z) = n - p
  <2>1. ASSUME NEW i \in 1..(n - p) PROVE One(c[p + i], Level(LevelAt(c, path, p + i))) \in Seq(Token)
    <3>1. p + i \in 1..n
      BY <1>1
    <3>2. c[p + i] \in Token
      BY <1>1, <3>1
    <3> QED BY <1>1, <3>2, OneTyped, LevelAtTyped
  <2> QED BY <1>1, <2>1
<1>8. /\ U \in Seq(S) /\ Len(U) = n
      /\ \A i \in 1..n : U[i] = One(c[i], Level(LevelAt(c, path, i)))
  BY <1>1, PiecesTyped
<1>9. /\ W \in Seq(S) /\ Len(W) = n - 1 + m
      /\ \A i \in 1..(n - 1 + m) : W[i] = One(d[i], Level(LevelAt(d, deep, i)))
  <2> HIDE DEF d, deep, S
  <2>1. W \in Seq(Seq(Token)) /\ Len(W) = Len(d) /\ \A i \in 1..Len(d) : W[i] = One(d[i], Level(LevelAt(d, deep, i)))
    BY <1>1, <1>2, PiecesTyped
  <2> QED BY <1>2, <2>1 DEF S
<1>10. U = (X \o <<u>>) \o Z
  <2>1. <<u>> \in Seq(S) /\ Len(<<u>>) = 1 /\ \A i \in 1..1 : <<u>>[i] = u
    BY <1>6
  <2>2. \A i \in 1..(p - 1) : U[i] = X[i]
    <3> TAKE i \in 1..(p - 1)
    <3>1. i \in 1..n /\ c[i].kind # "group"
      BY <1>1, <1>2
    <3>2. U[i] = <<c[i]>>
      BY <1>8, <3>1 DEF One, Stands
    <3> QED BY <3>2
  <2>3. \A i \in 1..1 : U[(p - 1) + i] = u
    <3>1. (p - 1) + 1 = p /\ p \in 1..n /\ \A i \in 1..1 : i = 1
      BY <1>1
    <3>2. U[p] = u
      BY <1>8, <3>1
    <3> HIDE DEF U, u
    <3> QED BY <3>1, <3>2
  <2>4. \A i \in 1..(n - p) : U[(p - 1) + 1 + i] = Z[i]
    <3> TAKE i \in 1..(n - p)
    <3>1. (p - 1) + 1 + i = p + i /\ p + i \in 1..n
      BY <1>1
    <3>2. Z[i] = One(c[p + i], Level(LevelAt(c, path, p + i)))
      OBVIOUS
    <3>3. U[p + i] = One(c[p + i], Level(LevelAt(c, path, p + i)))
      BY <1>8, <3>1
    <3> HIDE DEF U, Z
    <3> QED BY <3>1, <3>2, <3>3
  <2> HIDE DEF U, X, Z, u, S, n
  <2>5. Len(U) = Len(X) + Len(<<u>>) + Len(Z)
    BY <1>1, <1>5, <1>7, <1>8, <2>1
  <2>6. /\ \A i \in 1..Len(X) : U[i] = X[i]
        /\ \A i \in 1..Len(<<u>>) : U[Len(X) + i] = <<u>>[i]
        /\ \A i \in 1..Len(Z) : U[Len(X) + Len(<<u>>) + i] = Z[i]
    BY <1>5, <1>7, <2>1, <2>2, <2>3, <2>4
  <2> QED BY <1>5, <1>7, <1>8, <2>1, <2>5, <2>6, OfThreeParts, ZenonT(60)
<1>11. W = (X \o Y) \o Z
  <2>2. \A i \in 1..(p - 1) : W[i] = X[i]
    <3> TAKE i \in 1..(p - 1)
    <3>1. i \in 1..(n - 1 + m) /\ d[i] = c[i] /\ c[i].kind # "group"
      BY <1>1, <1>2
    <3>2. W[i] = <<c[i]>>
      BY <1>9, <3>1 DEF One, Stands
    <3> QED BY <3>2
  <2>3. \A i \in 1..m : W[(p - 1) + i] = Y[i]
    <3> TAKE i \in 1..m
    <3>1. (p - 1) + i \in 1..(n - 1 + m)
      BY <1>1
    <3>2. W[(p - 1) + i] = One(d[(p - 1) + i], Level(LevelAt(d, deep, (p - 1) + i)))
      BY <1>9, <3>1
    <3>3. W[(p - 1) + i] = One(y[i], Level(l - 1))
      BY <1>2, <1>4, <3>2
    <3> QED BY <1>6, <3>3
  <2>4. \A i \in 1..(n - p) : W[(p - 1) + m + i] = Z[i]
    <3> TAKE i \in 1..(n - p)
    <3>1. (p - 1) + m + i \in 1..(n - 1 + m)
      BY <1>1
    <3>2. W[(p - 1) + m + i] = One(d[(p - 1) + m + i], Level(LevelAt(d, deep, (p - 1) + m + i)))
      BY <1>9, <3>1
    <3>3. W[(p - 1) + m + i] = One(c[p + i], Level(LevelAt(c, path, p + i)))
      BY <1>2, <1>4, <3>2
    <3> QED BY <3>3
  <2> HIDE DEF W, X, Y, Z, S, n, m
  <2>5. Len(W) = Len(X) + Len(Y) + Len(Z)
    BY <1>1, <1>5, <1>6, <1>7, <1>9
  <2>6. /\ \A i \in 1..Len(X) : W[i] = X[i]
        /\ \A i \in 1..Len(Y) : W[Len(X) + i] = Y[i]
        /\ \A i \in 1..Len(Z) : W[Len(X) + Len(Y) + i] = Z[i]
    BY <1>5, <1>6, <1>7, <2>2, <2>3, <2>4
  <2> QED BY <1>5, <1>6, <1>7, <1>9, <2>5, <2>6, OfThreeParts, ZenonT(60)
<1> HIDE DEF U, W, X, Y, Z, u
<1>12. FlattenSeq(<<u>>) = u /\ <<u>> \in Seq(S)
  BY <1>6, FlattenOne
<1>13. ASSUME NEW q \in Seq(S), NEW r \in Seq(S), NEW s \in Seq(S)
       PROVE  FlattenSeq((q \o r) \o s) = (FlattenSeq(q) \o FlattenSeq(r)) \o FlattenSeq(s)
  BY FlattenThree, SMTT(30)
<1>14. FlattenSeq(U) = (FlattenSeq(X) \o u) \o FlattenSeq(Z)
  <2>1. FlattenSeq((X \o <<u>>) \o Z) = (FlattenSeq(X) \o FlattenSeq(<<u>>)) \o FlattenSeq(Z)
    BY <1>5, <1>7, <1>12, <1>13
  <2> QED BY <1>10, <1>12, <2>1
<1>15. FlattenSeq(W) = (FlattenSeq(X) \o u) \o FlattenSeq(Z)
  <2>1. FlattenSeq((X \o Y) \o Z) = (FlattenSeq(X) \o FlattenSeq(Y)) \o FlattenSeq(Z)
    BY <1>5, <1>6, <1>7, <1>13
  <2> QED BY <1>6, <1>11, <2>1
<1> QED BY <1>14, <1>15 DEF Expanded, U, W
-----------------------------------------------------------------------------
(* What a type holds at a time, its groups written out.                    *)

\* The groups in whose copies the expansion of t is.
PathOf(t) ==
  IF stack # <<>> /\ Top.kind = "type" /\ Top.phase = "expand" /\ Top.of = t THEN Top.path ELSE {}
Spread(t) == Expanded(content[t], PathOf(t))

\* A call that did not come to its groups is in none.
FreshPaths == \A i \in 1..Len(stack) : stack[i].phase \in {"derive", "fold"} => stack[i].path = {}

LEMMA MovedPath ==
  ASSUME TypeInv, stack # <<>>, Top.kind = "type", NEW phase, NEW at, stack' = Moved(stack, phase, at)
  PROVE  /\ Len(stack') = Len(stack) /\ Len(stack) \in Nat \ {0}
         /\ \A i \in 1..Len(stack) : i # Len(stack) => stack'[i] = stack[i]
         /\ stack'[Len(stack)].path = Top.path /\ stack'[Len(stack)].phase = phase
         /\ stack'[Len(stack)].of = Top.of /\ stack'[Len(stack)].kind = "type"
<1>1. Top \in TypeFrames /\ Len(stack) \in Nat \ {0} /\ stack \in Seq(Frame)
  BY TopTyped DEF TypeInv, TypeOK
<1> DEFINE f == [Top EXCEPT !.phase = phase, !.at = at]
<1>2. f.path = Top.path /\ f.phase = phase /\ f.of = Top.of /\ f.kind = "type"
  BY <1>1 DEF TypeFrames
<1>3. stack' = [stack EXCEPT ![Len(stack)] = f]
  BY DEF Moved, Top
<1> HIDE DEF f
<1> QED BY <1>1, <1>2, <1>3

\* The copy of a group takes the place of the first reference.
LEMMA GroupSplits ==
  ASSUME TypeInv, ExpandGroup
  PROVE  LET c == content[Top.of]
         IN  /\ Splits(c, Top.path, GroupAt) /\ c[GroupAt].of \notin Active(c, Top.path, GroupAt)
             /\ content' = [content EXCEPT ![Top.of] = Split(c, GroupAt)]
             /\ stack' = [stack EXCEPT ![Len(stack)].path = SplitPath(c, Top.path, GroupAt)]
<1> DEFINE c == content[Top.of]
           p == GroupAt
<1>1. /\ Top \in TypeFrames /\ c \in Seq(Token) /\ p \in 1..Len(c) /\ Here = c[p] /\ Here \in GroupRef
      /\ Len(c) \in Nat
  BY GroupAtTyped, TopTyped DEF ExpandGroup, AtType, TypeInv, Content, Token, Here
<1>2. Top.path \in SUBSET Path
  BY <1>1 DEF TypeFrames, Path
<1>3. Here.kind = "group"
  BY <1>1 DEF GroupRef
<1>4. \A i \in 1..(p - 1) : c[i].kind # "group"
  <2> DEFINE t == Top.of
             kinds == {"group"}
  <2> SUFFICES ASSUME NEW i \in 1..(p - 1), content[t][i].kind \in kinds PROVE FALSE
    OBVIOUS
  <2>1. p = NextToken(t, 1, kinds) /\ Len(content[t]) \in Nat /\ i \in 1..Len(content[t]) /\ i < p
    BY <1>1 DEF GroupAt
  <2> HIDE DEF t, kinds, c, p
  <2>2. 1 \in Nat \ {0}
    OBVIOUS
  <2>3. NextToken(t, 1, kinds) <= i
    BY <2>1, <2>2, NextTokenFirst
  <2> QED BY <1>1, <2>1, <2>3
<1>5. Expandable(Here.of) /\ schema \in Schemas
  BY DEF ExpandGroup, TypeInv
<1>6. Splits(c, Top.path, p)
  BY <1>1, <1>2, <1>3, <1>4, <1>5 DEF Splits, Expandable
<1>7. Within = Inside(c, Top.path, p)
  BY DEF Within, Inside, Behind
<1>8. Here.of \notin Active(c, Top.path, p)
  BY <1>5, <1>7 DEF Expandable, Cyclic, Active, Inside
<1>9. content' = [content EXCEPT ![Top.of] = Split(c, p)]
  BY <1>1 DEF ExpandGroup, Split, Copied, Recounted, Copy
<1>10. stack' = [stack EXCEPT ![Len(stack)].path = SplitPath(c, Top.path, p)]
  BY <1>1, <1>7 DEF ExpandGroup, SplitPath, Behind
<1> QED BY <1>1, <1>6, <1>8, <1>9, <1>10


LEMMA FreshStep ==
  ASSUME TypeInv, ResolveInv, FreshPaths, [Next]_vars
  PROVE  FreshPaths'
<1>0. Len(stack) \in Nat
  BY DEF TypeInv, TypeOK
<1> DEFINE n == Len(stack)
           Fresh(f) == f.phase \in {"derive", "fold"} => f.path = {}
<1>1. \A i \in 1..n : Fresh(stack[i])
  BY DEF FreshPaths
<1>2. \A t, l : Fresh(TypeFrame(t, l))
  BY DEF TypeFrame
<1>3. CASE stack' = stack
  BY <1>3 DEF FreshPaths
<1>4. \/ RejectAlternative \/ RejectBase \/ RejectFold \/ RejectGroup \/ RejectRef
      \/ RejectAttribute \/ ApplyAttrGroup \/ Overflow \/ UNCHANGED vars \/ EndPass
      => stack' = stack
  BY DEF RejectAlternative, RejectBase, RejectFold, RejectGroup, RejectRef,
     RejectAttribute, ApplyAttrGroup, Overflow, Reject, vars, EndPass
<1>5. ASSUME NEW e \in Element, BeginElement(e) PROVE FreshPaths'
  BY <1>5 DEF BeginElement, ElementFrame, FreshPaths
<1>6. ASSUME NEW t \in Type, BeginType(t) PROVE FreshPaths'
  <2>1. stack' = <<>> \/ stack' = <<TypeFrame(t, 1)>>
    BY <1>6 DEF BeginType, Enter
  <2> QED BY <2>1 DEF TypeFrame, FreshPaths
<1> HIDE DEF Fresh
<1>7. CASE Alternative
  <2>1. /\ \A i \in 1..n : i # n => stack'[i] = stack[i]
        /\ stack'[n].phase = "choose"
        /\ \/ Len(stack') = n
           \/ Len(stack') = n + 1 /\ stack'[n + 1] = TypeFrame(Head(Top.calls), Top.level + 1)
    BY <1>7, AlternativeStep
  <2>2. Fresh(stack'[n])
    BY <2>1 DEF Fresh
  <2>3. \A i \in 1..Len(stack') : (i \in 1..n /\ i # n) \/ i = n \/ (i = n + 1 /\ Len(stack') = n + 1)
    BY <1>0, <2>1
  <2>4. \A i \in 1..Len(stack') : Fresh(stack'[i])
    BY <1>1, <1>2, <2>1, <2>2, <2>3, Zenon
  <2> QED BY <2>4 DEF Fresh, FreshPaths
<1>8. CASE OwnType
  <2>1. PICK V \in SUBSET Type : Visited(V)
    BY DEF ResolveInv
  <2>2. stack # <<>> /\ Top.kind = "element"
    BY <1>8 DEF OwnType, AtElement
  <2>3. n \in Nat \ {0} /\ (n > 1 => CalledFrom(n - 1, Top.of))
    BY <2>1, <2>2, TopElement
  <2>4. CallerGoesOn(n, schema.type[Top.of], Top.level)
    BY <1>8, OwnTypeShape
  <2>5. \A i \in 1..(n - 1) : Fresh(stack'[i])
    <3> TAKE i \in 1..(n - 1)
    <3>1. CASE i < n - 1
      <4>1. stack'[i] = stack[i] /\ i \in 1..n
        BY <1>0, <2>4, <3>1 DEF CallerGoesOn
      <4> QED BY <1>1, <4>1
    <3>2. CASE ~(i < n - 1)
      <4>1. i = n - 1 /\ n > 1
        BY <1>0, <3>2
      <4>2. stack[i].phase = "walk"
        BY <2>3, <4>1 DEF CalledFrom
      <4>3. stack'[i].phase = "walk"
        BY <2>4, <4>2 DEF CallerGoesOn
      <4> QED BY <4>3 DEF Fresh
    <3> QED BY <3>1, <3>2
  <2>6. /\ Len(stack') = n - 1 \/ Len(stack') = n
        /\ Len(stack') = n => \E t, l : stack'[n] = TypeFrame(t, l)
    BY <1>0, <2>4 DEF CallerGoesOn
  <2>7. \A i \in 1..Len(stack') : i \in 1..(n - 1) \/ (i = n /\ Len(stack') = n)
    BY <1>0, <2>6
  <2>8. \A i \in 1..Len(stack') : Fresh(stack'[i])
    BY <1>2, <2>5, <2>6, <2>7, Zenon
  <2> QED BY <2>8 DEF Fresh, FreshPaths
<1>9. CASE NoDerivation \/ SimpleBase \/ Fold \/ EndExpand \/ EndGroups
  <2>1. /\ stack # <<>> /\ Top.kind = "type"
        /\ \E phase \in {"expand", "groups", "walk"} : stack' = Moved(stack, phase, 1)
    BY <1>9 DEF NoDerivation, SimpleBase, Fold, EndExpand, EndGroups, AtType
  <2>2. /\ Len(stack') = n
        /\ \A i \in 1..n : i # n => stack'[i] = stack[i]
        /\ stack'[n].phase \in {"expand", "groups", "walk"}
    BY <2>1, MovedPath
  <2> QED BY <2>2 DEF FreshPaths
<1>10. CASE ExpandGroup
  <2>1. /\ stack' = [stack EXCEPT ![n].path = SplitPath(content[Top.of], Top.path, GroupAt)]
        /\ Top.phase = "expand" /\ stack # <<>>
    BY <1>10, GroupSplits DEF ExpandGroup, AtType
  <2>2. Top \in TypeFrames /\ n \in Nat \ {0} /\ stack \in Seq(Frame)
    BY <1>10, <2>1, TopTyped DEF ExpandGroup, AtType, TypeInv, TypeOK
  <2> DEFINE f == [Top EXCEPT !.path = SplitPath(content[Top.of], Top.path, GroupAt)]
  <2>3. f.phase = "expand"
    BY <2>1, <2>2 DEF TypeFrames
  <2>4. stack' = [stack EXCEPT ![n] = f]
    BY <2>1 DEF Top
  <2> HIDE DEF f
  <2>5. Len(stack') = n /\ stack'[n] = f /\ \A i \in 1..n : i # n => stack'[i] = stack[i]
    BY <2>2, <2>4
  <2> QED BY <2>3, <2>5 DEF FreshPaths
<1>11. CASE ResolveBase
  <2>1. stack # <<>> /\ Top.kind = "type" /\ Top.phase = "derive"
    BY <1>11 DEF ResolveBase, AtType
  <2>2. Top \in TypeFrames /\ n \in Nat \ {0} /\ stack \in Seq(Frame) /\ Top.path = {}
    BY <2>1, TopTyped DEF TypeInv, TypeOK, FreshPaths, Top
  <2> DEFINE f == [Top EXCEPT !.phase = "fold", !.at = 1]
             moved == Moved(stack, "fold", 1)
  <2>3. f.path = {}
    BY <2>2 DEF TypeFrames
  <2>4. moved = [stack EXCEPT ![n] = f]
    BY DEF Moved, Top
  <2>5. Enter(moved, base[Top.of], Top.level) /\ moved \in Seq(Frame)
    BY <1>11, <2>1, MovedTyped DEF ResolveBase, TypeInv
  <2> HIDE DEF f
  <2>6. moved[n] = f /\ Len(moved) = n /\ \A i \in 1..n : i # n => moved[i] = stack[i]
    BY <2>2, <2>4
  <2> HIDE DEF moved
  <2>7. \A i \in 1..n : Fresh(moved[i])
    BY <1>1, <2>3, <2>6 DEF Fresh
  <2>8. stack' = moved \/ stack' = Append(moved, TypeFrame(base[Top.of], Top.level))
    BY <2>5 DEF Enter
  <2>9. \/ Len(stack') = n /\ \A i \in 1..n : stack'[i] = moved[i]
        \/ /\ Len(stack') = n + 1 /\ \A i \in 1..n : stack'[i] = moved[i]
           /\ stack'[n + 1] = TypeFrame(base[Top.of], Top.level)
    BY <2>5, <2>6, <2>8
  <2>10. \A i \in 1..Len(stack') : i \in 1..n \/ (i = n + 1 /\ Len(stack') = n + 1)
    BY <1>0, <2>9
  <2>11. \A i \in 1..Len(stack') : Fresh(stack'[i])
    <3>1. n # n + 1
      BY <1>0
    <3> QED BY <1>2, <2>7, <2>9, <2>10, <3>1, Zenon
  <2> QED BY <2>11 DEF Fresh, FreshPaths
<1>12. CASE WalkElement
  <2>1. /\ Len(stack') = n + 1 /\ \A i \in 1..n : i # n => stack'[i] = stack[i]
        /\ stack'[n].phase = "walk"
        /\ \E e \in Element : stack'[n + 1] = ElementFrame(e, Top.level)
    BY <1>12, WalkElementStep
  <2>2. stack'[n + 1].phase = "choose"
    BY <2>1 DEF ElementFrame
  <2>3. \A i \in 1..(n + 1) : (i \in 1..n /\ i # n) \/ i = n \/ i = n + 1
    BY <1>0
  <2> QED BY <1>1, <2>1, <2>2, <2>3 DEF Fresh, FreshPaths
<1>13. CASE Return
  <2>1. Len(stack') = n - 1 /\ \A i \in 1..Len(stack') : stack'[i] = stack[i]
    BY <1>13, ReturnStep
  <2> QED BY <1>0, <2>1 DEF FreshPaths
<1> QED BY <1>3, <1>4, <1>5, <1>6, <1>7, <1>8, <1>9, <1>10, <1>11, <1>12, <1>13 DEF Next, Step, Done
-----------------------------------------------------------------------------
LEMMA ExpandedKept ==
  ASSUME schema' = schema, NEW c, NEW path
  PROVE  Expanded(c, path)' = Expanded(c, path)
<1>1. Levelled' = Levelled /\ GroupCount' = GroupCount
  BY SMT DEF Levelled, Inline, GroupCount
<1>2. \A n : Level(n)' = Level(n)
  BY <1>1 DEF Level
<1>3. \A x, f : One(x, f)' = One(x, f)
  BY DEF One, Stands
<1>4. \A i : LevelAt(c, path, i)' = LevelAt(c, path, i)
  BY <1>1 DEF LevelAt, Active
<1>5. Pieces(c, path)' = Pieces(c, path)
  BY <1>2, <1>3, <1>4 DEF Pieces
<1> QED BY <1>5 DEF Expanded

\* Outside of an expansion no type is in a copy.
Plain == stack # <<>> /\ Top.kind = "type" /\ Top.phase = "expand" => Top.path = {}
LEMMA PlainPath == ASSUME Plain PROVE \A t : PathOf(t) = {}
BY DEF Plain, PathOf

\* An element at the bottom of the stack leaves none behind.
LEMMA OwnTypeEmpty ==
  ASSUME TypeInv, OwnType, Len(stack') = 0
  PROVE  stack' = <<>>
<1>1. stack # <<>>
  BY DEF OwnType, AtElement
<1>2. Returned \in Seq(Frame)
  BY <1>1, ReturnedTyped DEF TypeInv
<1>3. stack' = Returned \/ \E f : stack' = Append(Returned, f)
  BY DEF OwnType, Enter
<1> QED BY <1>2, <1>3

LEMMA PathsKept ==
  ASSUME TypeInv, ResolveInv, FreshPaths, [Next]_vars, ~ExpandGroup, ~EndExpand
  PROVE  stack' = stack \/ (Plain /\ Plain')
<1>0. Len(stack) \in Nat
  BY DEF TypeInv, TypeOK
<1>1. PICK n : n = Len(stack)
  OBVIOUS
<1>2. Top = stack[n]
  BY <1>1 DEF Top
<1>3. \A m : Len(stack') = m /\ stack'[m].phase # "expand" => Plain'
  BY DEF Plain, Top
<1>4. \/ RejectAlternative \/ RejectBase \/ RejectFold \/ RejectGroup \/ RejectRef
      \/ RejectAttribute \/ ApplyAttrGroup \/ Overflow \/ UNCHANGED vars \/ EndPass
      => stack' = stack
  BY DEF RejectAlternative, RejectBase, RejectFold, RejectGroup, RejectRef,
     RejectAttribute, ApplyAttrGroup, Overflow, Reject, vars, EndPass
<1>5. ASSUME NEW e \in Element, BeginElement(e) PROVE Plain /\ Plain'
  <2>1. stack = <<>> /\ stack' = <<ElementFrame(e, 1)>>
    BY <1>5 DEF BeginElement
  <2>2. Len(stack') = 1 /\ stack'[1].phase = "choose"
    BY <2>1 DEF ElementFrame
  <2> QED BY <1>3, <2>1, <2>2 DEF Plain
<1>6. ASSUME NEW t \in Type, BeginType(t) PROVE Plain /\ Plain'
  <2>1. stack = <<>> /\ (stack' = <<>> \/ stack' = <<TypeFrame(t, 1)>>)
    BY <1>6 DEF BeginType, Enter
  <2>2. CASE stack' = <<>>
    BY <2>1, <2>2 DEF Plain
  <2>3. CASE stack' = <<TypeFrame(t, 1)>>
    <3>1. Len(stack') = 1 /\ stack'[1].phase = "derive"
      BY <2>3 DEF TypeFrame
    <3> QED BY <1>3, <2>1, <3>1 DEF Plain
  <2> QED BY <2>1, <2>2, <2>3
<1>7. CASE Alternative
  <2>1. /\ stack'[n].phase = "choose"
        /\ \/ Len(stack') = n
           \/ Len(stack') = n + 1 /\ stack'[n + 1] = TypeFrame(Head(Top.calls), Top.level + 1)
    BY <1>1, <1>7, AlternativeStep
  <2>2. Plain
    BY <1>7 DEF Alternative, AtElement, Plain
  <2> QED BY <1>3, <2>1, <2>2 DEF TypeFrame
<1>8. CASE OwnType
  <2>1. PICK V \in SUBSET Type : Visited(V)
    BY DEF ResolveInv
  <2>2. stack # <<>> /\ Top.kind = "element"
    BY <1>8 DEF OwnType, AtElement
  <2>3. n \in Nat \ {0} /\ (n > 1 => CalledFrom(n - 1, Top.of))
    BY <1>1, <2>1, <2>2, TopElement
  <2>4. CallerGoesOn(n, schema.type[Top.of], Top.level)
    BY <1>1, <1>8, OwnTypeShape
  <2>5. CASE Len(stack') = n - 1 /\ n = 1
    <3>1. stack' = <<>>
      BY <1>8, <2>5, OwnTypeEmpty
    <3> QED BY <2>2, <3>1 DEF Plain
  <2>6. CASE Len(stack') = n - 1 /\ n > 1
    <3>1. n - 1 \in 1..(n - 1)
      BY <2>3, <2>6
    <3>2. stack'[n - 1].phase = "walk"
      BY <2>3, <2>4, <2>6, <3>1 DEF CallerGoesOn, CalledFrom
    <3> QED BY <1>3, <2>2, <2>6, <3>2 DEF Plain
  <2>7. CASE Len(stack') = n /\ \E t, l : stack'[n] = TypeFrame(t, l)
    BY <1>3, <2>2, <2>7 DEF TypeFrame, Plain
  <2>8. \/ Len(stack') = n - 1
        \/ Len(stack') = n /\ \E t, l : stack'[n] = TypeFrame(t, l)
    BY <2>4 DEF CallerGoesOn
  <2> QED BY <2>3, <2>5, <2>6, <2>7, <2>8
<1>9. CASE NoDerivation \/ SimpleBase \/ Fold \/ EndGroups
  <2>1. /\ stack # <<>> /\ Top.kind = "type" /\ Top.phase # "expand"
        /\ Top.phase \in {"derive", "fold"} \/ EndGroups
        /\ \E phase \in {"expand", "walk"} : /\ stack' = Moved(stack, phase, 1)
                                             /\ EndGroups => phase = "walk"
    BY <1>9 DEF NoDerivation, SimpleBase, Fold, EndGroups, AtType
  <2>2. PICK phase \in {"expand", "walk"} : /\ stack' = Moved(stack, phase, 1)
                                            /\ EndGroups => phase = "walk"
    BY <2>1
  <2>3. /\ Len(stack') = n /\ stack'[n].path = Top.path /\ stack'[n].phase = phase /\ n \in Nat \ {0}
    BY <1>1, <2>1, <2>2, MovedPath
  <2>4. Top.phase \in {"derive", "fold"} => Top.path = {}
    BY <1>1, <2>3 DEF FreshPaths, Top
  <2>5. Top' = stack'[n]
    BY <2>3 DEF Top
  <2> QED BY <2>1, <2>2, <2>3, <2>4, <2>5 DEF Plain
<1>10. CASE ResolveBase
  <2>1. /\ stack'[n].phase = "fold"
        /\ \/ Len(stack') = n
           \/ Len(stack') = n + 1 /\ stack'[n + 1] = TypeFrame(base[Top.of], Top.level)
    BY <1>1, <1>10, ResolveBaseStep
  <2>2. Plain
    BY <1>10 DEF ResolveBase, AtType, Plain
  <2> QED BY <1>3, <2>1, <2>2 DEF TypeFrame
<1>11. CASE WalkElement
  <2>1. Len(stack') = n + 1 /\ \E e \in Element : stack'[n + 1] = ElementFrame(e, Top.level)
    BY <1>1, <1>11, WalkElementStep
  <2>2. Plain
    BY <1>11 DEF WalkElement, AtType, Plain
  <2> QED BY <1>3, <2>1, <2>2 DEF ElementFrame
<1>12. CASE Return
  <2>1. stack' \in Seq(Frame) /\ Len(stack') = n - 1 /\ \A i \in 1..Len(stack') : stack'[i] = stack[i]
    BY <1>1, <1>12, ReturnStep
  <2>2. Plain /\ stack # <<>>
    BY <1>12 DEF Return, AtType, Plain
  <2>3. PICK V \in SUBSET Type : Visited(V)
    BY DEF ResolveInv
  <2>4. CASE stack' = <<>>
    BY <2>2, <2>4 DEF Plain
  <2>5. CASE stack' # <<>>
    <3>1. n - 1 \in 1..n /\ n - 1 \in 1..Len(stack') /\ n - 1 < n
      BY <1>0, <1>1, <2>1, <2>5
    <3>2. TypeCall(n - 1, V) /\ stack'[n - 1] = stack[n - 1]
      BY <1>1, <2>1, <2>3, <3>1 DEF Visited, Calls
    <3>3. stack[n - 1].phase # "expand"
      BY <1>1, <3>1, <3>2, FrameTyped DEF TypeCall, TypeInv
    <3> QED BY <1>3, <2>1, <2>2, <3>2, <3>3
  <2> QED BY <2>4, <2>5
<1> QED BY <1>4, <1>5, <1>6, <1>7, <1>8, <1>9, <1>10, <1>11, <1>12 DEF Next, Step, Done
-----------------------------------------------------------------------------
LEMMA InlineEmpty ==
  ASSUME NEW c \in Seq(Token), NEW f \in Models
  PROVE  Inline(c, f) \in Seq(Token) /\ (Inline(c, f) = <<>> <=> c = <<>>)
<1>1. c # <<>> => Inline(c, f) # <<>>
  BY InlineFirst
<1>2. c = <<>> => Inline(c, f) = <<>>
  <2> HAVE c = <<>>
  <2>1. NoGroup(c)
    BY DEF NoGroup
  <2> QED BY <2>1, InlineNoGroup
<1>3. Inline(c, f) \in Seq(Token)
  BY OnesTyped
<1> QED BY <1>1, <1>2, <1>3

\* Writing the groups out and folding a base in do not disturb each other.
LEMMA InlineFold ==
  ASSUME NEW b \in Seq(Token), NEW own \in Seq(Token), NEW f \in Models
  PROVE  Inline(ConcatContent(b, own), f) = ConcatContent(Inline(b, f), Inline(own, f))
<1> DEFINE o == Open("sequence", 1)
           x == Inline(b, f)
           y == Inline(own, f)
<1>1. o \in Token /\ Close \in Token /\ o.kind # "group" /\ Close.kind # "group"
  BY DEF Open, Close, Token, Bracket, Compositor
<1>2. <<o>> \in Seq(Token) /\ <<Close>> \in Seq(Token)
  BY <1>1
<1>3. Inline(<<o>>, f) = <<o>> /\ Inline(<<Close>>, f) = <<Close>>
  BY <1>1, InlineSingle DEF One, Stands
<1>4. /\ x \in Seq(Token) /\ y \in Seq(Token)
      /\ x = <<>> <=> b = <<>>
      /\ y = <<>> <=> own = <<>>
  BY InlineEmpty
<1> HIDE DEF o
<1>5. CASE b # <<>> /\ own # <<>>
  <2>0. ASSUME NEW u \in Seq(Token), NEW v \in Seq(Token)
        PROVE  u \o v \in Seq(Token) /\ Inline(u \o v, f) = Inline(u, f) \o Inline(v, f)
    BY InlineConcat
  <2> DEFINE p == <<o>> \o b
             q == p \o own
             r == q \o <<Close>>
  <2>1. p \in Seq(Token) /\ Inline(p, f) = <<o>> \o x
    BY <1>2, <1>3, <2>0, Zenon
  <2> HIDE DEF p
  <2>2. q \in Seq(Token) /\ Inline(q, f) = Inline(p, f) \o y
    BY <2>0, <2>1, Zenon
  <2> HIDE DEF q
  <2>3. Inline(r, f) = Inline(q, f) \o <<Close>>
    BY <1>2, <1>3, <2>0, <2>2, Zenon
  <2>4. Inline(((<<o>> \o b) \o own) \o <<Close>>, f) = ((<<o>> \o x) \o y) \o <<Close>>
    BY <2>1, <2>2, <2>3, Zenon DEF p, q, r
  <2>5. ConcatContent(b, own) = ((<<o>> \o b) \o own) \o <<Close>>
    BY <1>5 DEF ConcatContent, o
  <2> HIDE DEF x, y
  <2>6. ConcatContent(x, y) = ((<<o>> \o x) \o y) \o <<Close>>
    BY <1>4, <1>5 DEF ConcatContent, o
  <2> QED BY <2>4, <2>5, <2>6 DEF x, y
<1>6. CASE b = <<>>
  BY <1>4, <1>6, Zenon DEF ConcatContent
<1>7. CASE b # <<>> /\ own = <<>>
  BY <1>4, <1>7, Zenon DEF ConcatContent
<1> QED BY <1>5, <1>6, <1>7

\* A base is folded in: the type holds the base's model, then its own.
Folds(t) ==
  /\ Fold /\ t = Top.of /\ Extends(t) /\ parent[t] \in Type
  /\ Spread(t)' = ConcatContent(Spread(parent[t]), Spread(t))

LEMMA ContentTyped ==
  ASSUME TypeInv, NEW t \in Type
  PROVE  content[t] \in Seq(Token) /\ Len(content[t]) \in Nat
BY DEF TypeInv, TypeOK, Content, Token

\* The copy of a group is expanded in turn, a group deeper.
LEMMA ExpandedPath ==
  ASSUME TypeInv, ExpandGroup, NEW t \in Type
  PROVE  LET c == content[Top.of]
         IN  /\ PathOf(t) = (IF t = Top.of THEN Top.path ELSE {})
             /\ PathOf(t)' = (IF t = Top.of THEN SplitPath(c, Top.path, GroupAt) ELSE {})
             /\ content'[t] = (IF t = Top.of THEN Split(c, GroupAt) ELSE content[t])
<1> DEFINE c == content[Top.of]
<1>1. /\ content' = [content EXCEPT ![Top.of] = Split(c, GroupAt)]
      /\ stack' = [stack EXCEPT ![Len(stack)].path = SplitPath(c, Top.path, GroupAt)]
  BY GroupSplits
<1>2. stack # <<>> /\ Top.kind = "type" /\ Top.phase = "expand"
  BY DEF ExpandGroup, AtType
<1>3. Top \in TypeFrames /\ Len(stack) \in Nat \ {0} /\ stack \in Seq(Frame) /\ Top.of \in Type
  BY <1>2, TopTyped DEF TypeInv, TypeOK
<1> DEFINE deep == SplitPath(c, Top.path, GroupAt)
           f == [Top EXCEPT !.path = deep]
<1> HIDE DEF c, deep
<1>4. f.path = deep /\ f.phase = "expand" /\ f.of = Top.of /\ f.kind = "type"
  BY <1>2, <1>3 DEF TypeFrames
<1>5. stack' = [stack EXCEPT ![Len(stack)] = f]
  BY <1>1 DEF Top, deep
<1> HIDE DEF f
<1>6. Len(stack') = Len(stack) /\ stack'[Len(stack)] = f /\ stack' # <<>>
  BY <1>3, <1>5
<1>7. Top' = f
  BY <1>6 DEF Top
<1>8. PathOf(t) = (IF t = Top.of THEN Top.path ELSE {}) /\ PathOf(t)' = IF t = Top.of THEN deep ELSE {}
  BY <1>2, <1>4, <1>6, <1>7 DEF PathOf
<1>9. content'[t] = IF t = Top.of THEN Split(c, GroupAt) ELSE content[t]
  BY <1>1 DEF TypeInv, TypeOK
<1> QED BY <1>8, <1>9 DEF c, deep

\* Nothing else changes what a type holds with its groups written out.
LEMMA SpreadStep ==
  ASSUME TypeInv, ResolveInv, FreshPaths, [Next]_vars, NEW t \in Type
  PROVE  /\ Unlinked(Spread(t)') = Unlinked(Spread(t)) \/ Folds(t)
         /\ Fold /\ t = Top.of /\ Extends(t) => Folds(t)
<1>0. schema' = schema /\ content[t] \in Seq(Token) /\ schema \in Schemas /\ Len(content[t]) \in Nat
  BY StepKeeps, ContentTyped DEF TypeInv
<1>1. \A c, p : Expanded(c, p)' = Expanded(c, p)
  BY <1>0, ExpandedKept
<1>9. ASSUME NEW c, NEW q, content'[t] = c, PathOf(t)' = q
      PROVE  Spread(t)' = Expanded(c, q)
  <2>1. Spread(t)' = Expanded(c, q)'
    BY <1>9 DEF Spread
  <2> QED BY <1>1, <2>1
<1>10. ASSUME Fold
       PROVE  /\ stack # <<>> /\ Top.kind = "type" /\ Top.phase = "fold"
              /\ \A u \in Type : PathOf(u) = {} /\ PathOf(u)' = {}
  <2>1. ~ExpandGroup /\ ~EndExpand /\ stack # <<>> /\ Top.kind = "type" /\ Top.phase = "fold"
    BY <1>10 DEF Fold, ExpandGroup, EndExpand, AtType
  <2>2. Plain /\ Plain'
    <3>1. stack' = Moved(stack, "expand", 1)
      BY <1>10 DEF Fold
    <3>2. Top' = stack'[Len(stack)] /\ stack'[Len(stack)].path = Top.path /\ Len(stack) \in Nat \ {0}
      BY <2>1, <3>1, MovedPath DEF Top
    <3> QED BY <2>1, <3>2 DEF Plain, FreshPaths, Top
  <2>3. \A u \in Type : PathOf(u) = {} /\ PathOf(u)' = {}
    BY <2>2 DEF Plain, PathOf
  <2> QED BY <2>1, <2>3
<1>7. ASSUME Fold, t = Top.of, Extends(t) PROVE Folds(t)
  <2>1. content'[t] = ConcatContent(content[parent[t]], content[t])
    BY <1>7 DEF Fold, TypeInv, TypeOK
  <2>2. parent[t] \in Type
    BY <1>7, FoldBase
  <2> DEFINE b == content[parent[t]]
             own == content[t]
  <2>3. b \in Seq(Token) /\ own \in Seq(Token) /\ WrittenOut \in Models
    <3>1. WrittenOut \in Models
      BY <1>0, LevelTyped
    <3> QED BY <1>0, <2>2, <3>1, ContentTyped
  <2>4. Inline(ConcatContent(b, own), WrittenOut) = ConcatContent(Inline(b, WrittenOut), Inline(own, WrittenOut))
    BY <2>3, InlineFold
  <2>5. ConcatContent(b, own) \in Seq(Token)
    BY <2>3, ConcatTyped DEF Content, Token
  <2>6. /\ Expanded(ConcatContent(b, own), {}) = Inline(ConcatContent(b, own), WrittenOut)
        /\ Expanded(b, {}) = Inline(b, WrittenOut) /\ Expanded(own, {}) = Inline(own, WrittenOut)
    BY <1>0, <2>3, <2>5, ExpandedOutside
  <2>7. PICK c : c = ConcatContent(b, own)
    OBVIOUS
  <2>8. Spread(t)' = Expanded(c, {})
    BY <1>7, <1>9, <1>10, <2>1, <2>7
  <2>9. Spread(t)' = Expanded(ConcatContent(b, own), {})
    BY <2>7, <2>8
  <2>10. Spread(t) = Expanded(own, {}) /\ Spread(parent[t]) = Expanded(b, {})
    BY <1>7, <1>10, <2>2 DEF Spread
  <2>11. Spread(t)' = ConcatContent(Spread(parent[t]), Spread(t))
    BY <2>4, <2>6, <2>9, <2>10, Zenon
  <2> QED BY <1>7, <2>1, <2>2, <2>11 DEF Folds
<1> SUFFICES Unlinked(Spread(t)') = Unlinked(Spread(t)) \/ Folds(t)
  BY <1>7
<1>2. ASSUME PathOf(t)' = PathOf(t), content'[t] = content[t]
      PROVE  Spread(t)' = Spread(t)
  <2>1. PICK c, q : c = content[t] /\ q = PathOf(t)
    OBVIOUS
  <2>2. Spread(t)' = Expanded(c, q)
    BY <1>2, <1>9, <2>1
  <2> QED BY <2>1, <2>2 DEF Spread
<1>3. PICK V \in SUBSET Type : Visited(V)
  BY DEF ResolveInv
<1>4. CASE ExpandGroup
  <2> DEFINE c == content[Top.of]
  <2>1. /\ Splits(c, Top.path, GroupAt) /\ c[GroupAt].of \notin Active(c, Top.path, GroupAt)
        /\ content' = [content EXCEPT ![Top.of] = Split(c, GroupAt)]
        /\ stack' = [stack EXCEPT ![Len(stack)].path = SplitPath(c, Top.path, GroupAt)]
    BY <1>4, GroupSplits
  <2> DEFINE deep == SplitPath(c, Top.path, GroupAt)
  <2>8. /\ PathOf(t) = (IF t = Top.of THEN Top.path ELSE {})
        /\ PathOf(t)' = (IF t = Top.of THEN deep ELSE {})
        /\ content'[t] = (IF t = Top.of THEN Split(c, GroupAt) ELSE content[t])
    BY <1>4, ExpandedPath
  <2> HIDE DEF c, deep
  <2>9. CASE t = Top.of
    <3>1. content'[t] = Split(c, GroupAt)
      BY <2>8, <2>9
    <3>2. PICK d, q : d = Split(c, GroupAt) /\ q = deep
      OBVIOUS
    <3>3. Spread(t)' = Expanded(d, q)
      BY <1>9, <2>8, <2>9, <3>1, <3>2
    <3>4. Spread(t) = Expanded(c, Top.path)
      BY <2>8, <2>9 DEF Spread, c
    <3>5. Expanded(Split(c, GroupAt), deep) = Expanded(c, Top.path)
      BY <2>1, SplitExpands DEF deep
    <3> QED BY <3>2, <3>3, <3>4, <3>5
  <2>10. CASE t # Top.of
    BY <1>2, <2>8, <2>10
  <2> QED BY <2>9, <2>10
<1>5. CASE EndExpand
  <2>1. stack # <<>> /\ Top.kind = "type" /\ stack' = Moved(stack, "groups", 1) /\ content' = content
    BY <1>5 DEF EndExpand, AtType, heap
  <2>2. Len(stack') = Len(stack) /\ stack'[Len(stack)].phase = "groups"
    BY <2>1, MovedPath
  <2>3. PathOf(t)' = {}
    BY <2>2 DEF PathOf, Top
  <2>4. CASE PathOf(t) = {}
    BY <1>2, <2>1, <2>3, <2>4
  <2>5. CASE PathOf(t) # {}
    <3>1. t = Top.of
      BY <2>5 DEF PathOf
    <3>2. Visited(V)'
      BY <1>3, <1>5, EndExpandVisits
    <3>3. TypeCall(Len(stack), V)' /\ stack'[Len(stack)].of = t /\ stack'[Len(stack)].kind = "type"
      <4>1. Len(stack) \in 1..Len(stack')
        BY <2>1, <2>2, MovedPath
      <4> QED BY <2>1, <3>1, <3>2, <4>1, MovedPath DEF Visited, Calls
    <3>4. NoGroup(content[t])
      BY <2>1, <2>2, <3>3 DEF TypeCall, Groupless, NoGroup
    <3>5. Expanded(content[t], PathOf(t)) = content[t] /\ Expanded(content[t], {}) = content[t]
      BY <1>0, <3>4, ExpandedNoGroup
    <3>6. PICK c : c = content[t]
      OBVIOUS
    <3>7. Spread(t)' = Expanded(c, {})
      BY <1>9, <2>1, <2>3, <3>6
    <3> QED BY <3>5, <3>6, <3>7 DEF Spread
  <2> QED BY <2>4, <2>5
<1>6. CASE OwnType
  <2>1. ~ExpandGroup /\ ~EndExpand /\ stack # <<>> /\ Top.kind = "element"
    BY <1>6 DEF OwnType, AtElement, ExpandGroup, EndExpand, AtType
  <2>2. PathOf(t) = {} /\ PathOf(t)' = {}
    <3>1. stack' = stack \/ (Plain /\ Plain')
      BY <2>1, PathsKept
    <3> QED BY <2>1, <3>1 DEF PathOf, Top, Plain
  <2>3. CASE content'[t] = content[t]
    BY <1>2, <2>2, <2>3
  <2>4. CASE content'[t] # content[t]
    <3>1. Len(stack) > 1 /\ t = Caller.of
      BY <1>6, <2>4 DEF OwnType, TypeInv, TypeOK
    <3>2. Groupless(t)
      BY <1>3, <2>1, <3>1, TopElement DEF Caller
    <3>3. Relinks
      BY <1>6, OwnTypeRelinks
    <3>4. NoGroup(content[t])
      BY <3>2 DEF Groupless, NoGroup
    <3>5. NoGroup(content'[t])
      BY <3>3, <3>4 DEF Relinks, NoGroup
    <3>6. content'[t] \in Seq(Token)
      BY <1>6, OwnTypeTyped DEF Content, Token
    <3>7. Expanded(content'[t], {}) = content'[t] /\ Expanded(content[t], {}) = content[t]
      BY <1>0, <3>4, <3>5, <3>6, ExpandedNoGroup
    <3>8. PICK c : c = content'[t]
      OBVIOUS
    <3>9. Spread(t)' = Expanded(c, {})
      BY <1>9, <2>2, <3>8
    <3>10. Spread(t)' = content'[t]
      BY <3>7, <3>8, <3>9
    <3>11. Spread(t) = content[t]
      BY <2>2, <3>7 DEF Spread
    <3> QED BY <3>3, <3>10, <3>11 DEF Relinks
  <2> QED BY <2>3, <2>4
<1>11. CASE Fold /\ ~(t = Top.of /\ Extends(t))
  <2>1. content'[t] = content[t]
    BY <1>11 DEF Fold, TypeInv, TypeOK
  <2> QED BY <1>2, <1>10, <1>11, <2>1
<1>8. CASE ~ExpandGroup /\ ~EndExpand /\ ~OwnType /\ ~Fold
  <2>1. content' = content
    BY <1>8, ContentKept
  <2>2. PathOf(t)' = PathOf(t)
    <3>1. stack' = stack \/ (Plain /\ Plain')
      BY <1>8, PathsKept
    <3> QED BY <3>1 DEF PathOf, Top, Plain
  <2> QED BY <1>2, <2>1, <2>2
<1> QED BY <1>4, <1>5, <1>6, <1>7, <1>8, <1>11
-----------------------------------------------------------------------------
(* A base that is cleared or set is the one the schema names.              *)
Origins ==
  \A t \in Type :
    /\ base[t] = schema.base[t] \/ (base[t] = NoType /\ schema.base[t] # Missing)
    /\ parent[t] \in Type => parent[t] = schema.base[t]

LEMMA OriginsStep ==
  ASSUME TypeInv, Origins, [Next]_vars
  PROVE  Origins'
<1>0. schema' = schema
  BY StepKeeps
<1>1. CASE ResolveBase
  <2>1. /\ Top.of \in Type /\ base[Top.of] \in Type
        /\ base' = [base EXCEPT ![Top.of] = NoType]
        /\ parent' = [parent EXCEPT ![Top.of] = base[Top.of]]
    BY <1>1, WaitsForBase
  <2>2. base[Top.of] = schema.base[Top.of] /\ schema.base[Top.of] # Missing
    BY <2>1, DerivationAssumption DEF Origins
  <2> QED BY <1>0, <2>1, <2>2 DEF Origins, TypeInv, TypeOK
<1>2. CASE SimpleBase
  <2>1. /\ Top.of \in Type /\ base[Top.of] = Simple
        /\ base' = [base EXCEPT ![Top.of] = NoType] /\ parent' = parent
    BY <1>2, TopTyped DEF SimpleBase, AtType, TypeInv
  <2>2. schema.base[Top.of] # Missing
    BY <2>1, DerivationAssumption DEF Origins
  <2> QED BY <1>0, <2>1, <2>2 DEF Origins, TypeInv, TypeOK
<1>3. CASE ~ResolveBase /\ ~SimpleBase
  <2>1. base' = base /\ parent' = parent
    BY <1>3 DEF Next, Step, Done, vars, heap, loops, Reject, BeginElement, BeginType, EndPass, Alternative,
       RejectAlternative, OwnType, NoDerivation, RejectBase, SimpleBase, RejectFold, Fold, RejectGroup,
       ExpandGroup, EndExpand, ApplyAttrGroup, EndGroups, RejectRef, WalkElement, RejectAttribute,
       Return, Overflow
  <2> QED BY <1>0, <2>1 DEF Origins
<1> QED BY <1>1, <1>2, <1>3

\* What a type without base holds, its groups written out, stays the same.
OwnModels ==
  \A t \in Type : schema.base[t] \notin Type => Unlinked(Spread(t)) = Unlinked(Own(t))

LEMMA OwnModelsStep ==
  ASSUME TypeInv, ResolveInv, FreshPaths, Origins, OwnModels, [Next]_vars
  PROVE  OwnModels'
<1> SUFFICES ASSUME NEW t \in Type, schema.base[t] \notin Type
             PROVE  Unlinked(Spread(t)') = Unlinked(Own(t)')
  <2>1. schema' = schema
    BY StepKeeps
  <2> QED BY <2>1 DEF OwnModels
<1>1. schema' = schema
  BY StepKeeps
<1>2. Own(t)' = Own(t)
  BY <1>1, SMT DEF Own, WrittenOut, Inline
<1>3. ~Folds(t)
  BY DEF Folds, Origins
<1>4. Unlinked(Spread(t)') = Unlinked(Spread(t))
  BY <1>3, SpreadStep
<1>5. Unlinked(Spread(t)) = Unlinked(Own(t))
  BY DEF OwnModels
<1> QED BY <1>2, <1>4, <1>5

LEMMA SpreadInit ==
  ASSUME Init
  PROVE  FreshPaths /\ Origins /\ (\A t \in Type : Spread(t) = Own(t)) /\ OwnModels
<1>1. schema \in Schemas /\ stack = <<>> /\ content = schema.content /\ base = schema.base
      /\ parent = [t \in Type |-> NoType]
  BY DEF Init
<1>2. FreshPaths /\ Origins
  BY <1>1, DerivationAssumption DEF FreshPaths, Origins
<1>3. \A t \in Type : Spread(t) = Own(t)
  <2> TAKE t \in Type
  <2>1. schema.content[t] \in Seq(Token)
    BY <1>1, SchemaTyped DEF Content, Token
  <2>2. PathOf(t) = {}
    BY <1>1 DEF PathOf
  <2> QED BY <1>1, <2>1, <2>2, ExpandedOutside DEF Spread, Own
<1> QED BY <1>2, <1>3 DEF OwnModels

LEMMA SpreadAlways == Spec => [](FreshPaths /\ Origins)
<1>1. Init => FreshPaths /\ Origins
  BY SpreadInit
<1>2. TypeInv /\ ResolveInv /\ FreshPaths /\ Origins /\ [Next]_vars => (FreshPaths /\ Origins)'
  BY FreshStep, OriginsStep
<1> QED BY <1>1, <1>2, TypeAlways, ResolveAlways, PTL DEF Spec


\* At the end no group is left to write out.
LEMMA NothingToSpread ==
  ASSUME TypeInv, AcceptedResolved, outcome = "ok", NEW t \in schema.named
  PROVE  Spread(t) = content[t]
<1>1. t \in Type /\ content[t] \in Seq(Token)
  BY SchemaTyped, ContentTyped DEF TypeInv
<1>2. NoGroup(content[t])
  BY DEF AcceptedResolved, Finished, Groupless, NoGroup
<1> QED BY <1>1, <1>2, ExpandedNoGroup DEF Spread

\* Whatever uses a named group, and in whatever order the uses are resolved,
\* a type without base ends with its own model, each group in it copied with
\* the counts of the reference.
THEOREM GroupsWrittenInPlace == Spec => []GroupsWrittenOut
<1>1. Init => OwnModels
  BY SpreadInit
<1>2. TypeInv /\ ResolveInv /\ FreshPaths /\ Origins /\ OwnModels /\ [Next]_vars => OwnModels'
  BY OwnModelsStep
<1>3. ASSUME TypeInv, AcceptedResolved, OwnModels PROVE GroupsWrittenOut
  <2> SUFFICES ASSUME outcome = "ok", NEW t \in schema.named, schema.base[t] \notin Type
               PROVE  Unlinked(content[t]) = Unlinked(Own(t))
    BY DEF GroupsWrittenOut
  <2>1. t \in Type
    BY <1>3, SchemaTyped DEF TypeInv
  <2>2. Spread(t) = content[t]
    BY <1>3, NothingToSpread
  <2>3. Unlinked(Spread(t)) = Unlinked(Own(t))
    BY <1>3, <2>1 DEF OwnModels
  <2> QED BY <2>2, <2>3
<1> QED BY <1>1, <1>2, <1>3, TypeAlways, ResolveAlways, SpreadAlways, AcceptedIsResolved, PTL DEF Spec
-----------------------------------------------------------------------------
(* The leaves of a model.                                                  *)

LEMMA RangeConcat ==
  ASSUME NEW S, NEW a \in Seq(S), NEW b \in Seq(S)
  PROVE  Range(a \o b) = Range(a) \cup Range(b)
<1> DEFINE n == Len(a)
           m == Len(b)
           c == a \o b
<1>1. n \in Nat /\ m \in Nat /\ DOMAIN a = 1..n /\ DOMAIN b = 1..m
  OBVIOUS
<1>2. DOMAIN c = 1..(n + m) /\ \A i \in 1..(n + m) : c[i] = IF i <= n THEN a[i] ELSE b[i - n]
  OBVIOUS
<1> HIDE DEF n, m, c
<1>3. ASSUME NEW x \in Range(c) PROVE x \in Range(a) \cup Range(b)
  <2>1. PICK i \in 1..(n + m) : x = c[i]
    BY <1>2 DEF Range
  <2>2. CASE i <= n
    BY <1>1, <1>2, <2>1, <2>2 DEF Range
  <2>3. CASE ~(i <= n)
    <3>1. i - n \in 1..m /\ x = b[i - n]
      BY <1>1, <1>2, <2>1, <2>3
    <3> QED BY <1>1, <3>1 DEF Range
  <2> QED BY <2>2, <2>3
<1>4. ASSUME NEW x \in Range(a) PROVE x \in Range(c)
  <2>1. PICK i \in 1..n : x = a[i]
    BY <1>1 DEF Range
  <2>2. i \in 1..(n + m) /\ c[i] = x
    BY <1>1, <1>2, <2>1
  <2> QED BY <1>2, <2>2 DEF Range
<1>5. ASSUME NEW x \in Range(b) PROVE x \in Range(c)
  <2>1. PICK i \in 1..m : x = b[i]
    BY <1>1 DEF Range
  <2>2. n + i \in 1..(n + m) /\ ~(n + i <= n) /\ (n + i) - n = i
    BY <1>1
  <2>3. c[n + i] = x
    BY <1>2, <2>1, <2>2
  <2> QED BY <1>2, <2>2, <2>3 DEF Range
<1> QED BY <1>3, <1>4, <1>5 DEF c

LEMMA FlattenMembers ==
  ASSUME NEW S, NEW q \in Seq(Seq(S))
  PROVE  Range(FlattenSeq(q)) = UNION {Range(q[i]) : i \in 1..Len(q)}
<1> DEFINE n == Len(q)
<1>1. PICK h : Sums(q, h) /\ FlattenSeq(q) = h[n]
  BY FlattenSums
<1>2. n \in Nat /\ \A i \in 0..n : h[i] \in Seq(S)
  BY <1>1, SumsTyped
<1>3. \A i \in 1..n : q[i] \in Seq(S)
  OBVIOUS
<1> DEFINE T == {m \in Nat : m <= n => Range(h[m]) = UNION {Range(q[i]) : i \in 1..m}}
<1>4. 0 \in T
  <2>1. h[0] = <<>> /\ 1..0 = {}
    BY <1>1 DEF Sums
  <2>2. Range(h[0]) = {}
    BY <2>1 DEF Range
  <2> QED BY <2>1, <2>2
<1>5. ASSUME NEW m \in Nat, m \in T PROVE m + 1 \in T
  <2> SUFFICES ASSUME m + 1 <= n PROVE Range(h[m + 1]) = UNION {Range(q[i]) : i \in 1..(m + 1)}
    OBVIOUS
  <2>1. m \in 0..n /\ m + 1 \in 1..n /\ (m + 1) - 1 = m /\ 1..(m + 1) = (1..m) \cup {m + 1}
    BY <1>2
  <2>2. h[m + 1] = h[m] \o q[m + 1] /\ h[m] \in Seq(S) /\ q[m + 1] \in Seq(S)
    BY <1>1, <1>2, <1>3, <2>1 DEF Sums
  <2>3. Range(h[m + 1]) = Range(h[m]) \cup Range(q[m + 1])
    BY <2>2, RangeConcat
  <2>4. Range(h[m]) = UNION {Range(q[i]) : i \in 1..m}
    BY <1>2, <1>5, <2>1
  <2> QED BY <2>1, <2>3, <2>4
<1>6. Nat \subseteq T
  <2> HIDE DEF T
  <2> QED BY <1>4, <1>5, Upwards
<1>7. n \in T
  <2> HIDE DEF T
  <2> QED BY <1>2, <1>6
<1>8. n <= n
  BY <1>2
<1> QED BY <1>1, <1>7, <1>8

Leaf == {"element", "ref", "group"} \X (Element \cup Group)
LeafOf(x) == IF IsLeaf(x) THEN <<<<x.kind, x.of>>>> ELSE <<>>
LeafSeqs(c) == [i \in 1..Len(c) |-> LeafOf(c[i])]

LEMMA LeafTyped ==
  ASSUME NEW x \in Token
  PROVE  LeafOf(x) \in Seq(Leaf) /\ Range(LeafOf(x)) = IF IsLeaf(x) THEN {<<x.kind, x.of>>} ELSE {}
<1>1. IsLeaf(x) => <<x.kind, x.of>> \in Leaf
  BY TokenTyped DEF IsLeaf, Leaf
<1>2. CASE IsLeaf(x)
  <2>1. LeafOf(x) = <<<<x.kind, x.of>>>>
    BY <1>2 DEF LeafOf
  <2>2. PICK l \in Leaf : l = <<x.kind, x.of>>
    BY <1>1, <1>2
  <2>3. <<l>> \in Seq(Leaf) /\ Range(<<l>>) = {l}
    BY DEF Range
  <2> QED BY <1>2, <2>1, <2>2, <2>3
<1>3. CASE ~IsLeaf(x)
  BY <1>3 DEF LeafOf, Range
<1> QED BY <1>2, <1>3

LEMMA LeavesTyped ==
  ASSUME NEW c \in Seq(Token)
  PROVE  /\ Leaves(c) = FlattenSeq(LeafSeqs(c)) /\ LeafSeqs(c) \in Seq(Seq(Leaf))
         /\ Leaves(c) \in Seq(Leaf)
         /\ Range(Leaves(c)) = {<<x.kind, x.of>> : x \in {y \in Range(c) : IsLeaf(y)}}
<1>1. \A i \in 1..Len(c) : c[i] \in Token
  BY ElementOfSeq
<1>2. LeafSeqs(c) \in Seq(Seq(Leaf)) /\ Len(LeafSeqs(c)) = Len(c)
      /\ \A i \in 1..Len(c) : LeafSeqs(c)[i] = LeafOf(c[i])
  BY <1>1, LeafTyped DEF LeafSeqs
<1>3. Leaves(c) = FlattenSeq(LeafSeqs(c))
  BY DEF Leaves, LeafSeqs, LeafOf
<1>4. Leaves(c) \in Seq(Leaf)
  BY <1>2, <1>3, FlattenTyped
<1>5. Range(Leaves(c)) = UNION {Range(LeafOf(c[i])) : i \in 1..Len(c)}
  <2>1. Range(FlattenSeq(LeafSeqs(c))) = UNION {Range(LeafSeqs(c)[i]) : i \in 1..Len(LeafSeqs(c))}
    BY <1>2, FlattenMembers
  <2> QED BY <1>2, <1>3, <2>1
<1>6. DOMAIN c = 1..Len(c)
  OBVIOUS
<1>7. \A i \in 1..Len(c) : Range(LeafOf(c[i])) = IF IsLeaf(c[i]) THEN {<<c[i].kind, c[i].of>>} ELSE {}
  BY <1>1, LeafTyped
<1> DEFINE R == {<<x.kind, x.of>> : x \in {y \in Range(c) : IsLeaf(y)}}
<1>8. ASSUME NEW l \in Range(Leaves(c)) PROVE l \in R
  <2>1. PICK i \in 1..Len(c) : l \in Range(LeafOf(c[i]))
    BY <1>5
  <2>2. IsLeaf(c[i]) /\ l = <<c[i].kind, c[i].of>>
    <3> DEFINE k == <<c[i].kind, c[i].of>>
    <3>1. Range(LeafOf(c[i])) = IF IsLeaf(c[i]) THEN {k} ELSE {}
      BY <1>7
    <3> HIDE DEF k
    <3>2. IsLeaf(c[i]) /\ l = k
      BY <2>1, <3>1
    <3> QED BY <3>2 DEF k
  <2>3. c[i] \in Range(c)
    BY <1>6 DEF Range
  <2> QED BY <2>2, <2>3
<1>9. ASSUME NEW l \in R PROVE l \in Range(Leaves(c))
  <2>1. PICK x \in Range(c) : IsLeaf(x) /\ l = <<x.kind, x.of>>
    OBVIOUS
  <2>2. PICK i \in 1..Len(c) : x = c[i]
    BY <1>6 DEF Range
  <2>3. l \in Range(LeafOf(c[i]))
    BY <1>7, <2>1, <2>2
  <2> QED BY <1>5, <2>3
<1>10. Range(Leaves(c)) = R
  BY <1>8, <1>9
<1> QED BY <1>2, <1>3, <1>4, <1>10

\* Which types its elements are linked to is nothing to the leaves.
LEMMA LeavesUnlinked ==
  ASSUME NEW c \in Seq(Token), NEW d \in Seq(Token), Unlinked(c) = Unlinked(d)
  PROVE  Leaves(c) = Leaves(d)
<1>1. /\ DOMAIN c = 1..Len(c) /\ DOMAIN d = 1..Len(d) /\ Len(c) \in Nat /\ Len(d) \in Nat
      /\ \A i \in 1..Len(c) : c[i] \in Token
      /\ \A i \in 1..Len(d) : d[i] \in Token
  BY ElementOfSeq
<1>2. DOMAIN Unlinked(c) = DOMAIN c /\ DOMAIN Unlinked(d) = DOMAIN d
  BY DEF Unlinked
<1>3. Len(c) = Len(d)
  <2>1. \A n, m \in Nat : 1..n = 1..m => n = m
    <3> SUFFICES ASSUME NEW n \in Nat, NEW m \in Nat, 1..n = 1..m, n < m PROVE FALSE
      <4>1. \A n, m \in Nat : n = m \/ n < m \/ m < n
        OBVIOUS
      <4> QED BY <4>1
    <3>1. m \in 1..m /\ m \notin 1..n
      OBVIOUS
    <3> QED BY <3>1
  <2>2. 1..Len(c) = 1..Len(d)
    BY <1>1, <1>2, Zenon
  <2> QED BY <1>1, <2>1, <2>2
<1>4. ASSUME NEW i \in 1..Len(c) PROVE c[i].kind = d[i].kind /\ c[i].of = d[i].of
  <2>1. Bare(c[i]) = Bare(d[i])
    BY <1>1, <1>3 DEF Unlinked, Bare
  <2>2. ASSUME NEW x \in Token PROVE Bare(x).kind = x.kind /\ Bare(x).of = x.of
    <3>1. ASSUME NEW K, NEW O, x \in [kind : K, of : O, occurs : Nat, linked : BOOLEAN]
          PROVE  Bare(x).kind = x.kind /\ Bare(x).of = x.of
      BY <3>1 DEF Bare
    <3> QED BY <3>1, Zenon DEF Token, Bracket, Particles, GroupRef
  <2>3. c[i] \in Token /\ d[i] \in Token
    BY <1>1, <1>3
  <2> QED BY <2>1, <2>2, <2>3
<1>5. \A i \in 1..Len(c) : LeafOf(c[i]) = LeafOf(d[i])
  BY <1>4 DEF LeafOf, IsLeaf
<1>6. LeafSeqs(c) = LeafSeqs(d)
  BY <1>3, <1>5 DEF LeafSeqs
<1> QED BY <1>6, LeavesTyped

LEMMA LeavesConcat ==
  ASSUME NEW a \in Seq(Token), NEW b \in Seq(Token)
  PROVE  Leaves(a \o b) = Leaves(a) \o Leaves(b)
<1> DEFINE n == Len(a)
           m == Len(b)
           c == a \o b
<1>1. n \in Nat /\ m \in Nat /\ c \in Seq(Token) /\ Len(c) = n + m
      /\ \A i \in 1..(n + m) : c[i] = IF i <= n THEN a[i] ELSE b[i - n]
  OBVIOUS
<1>2. /\ LeafSeqs(a) \in Seq(Seq(Leaf)) /\ LeafSeqs(b) \in Seq(Seq(Leaf)) /\ LeafSeqs(c) \in Seq(Seq(Leaf))
      /\ Leaves(a) = FlattenSeq(LeafSeqs(a)) /\ Leaves(b) = FlattenSeq(LeafSeqs(b))
      /\ Leaves(c) = FlattenSeq(LeafSeqs(c))
  BY <1>1, LeavesTyped
<1>3. /\ Len(LeafSeqs(a)) = n /\ Len(LeafSeqs(b)) = m /\ Len(LeafSeqs(c)) = n + m
      /\ \A i \in 1..n : LeafSeqs(a)[i] = LeafOf(a[i])
      /\ \A i \in 1..m : LeafSeqs(b)[i] = LeafOf(b[i])
      /\ \A i \in 1..(n + m) : LeafSeqs(c)[i] = LeafOf(c[i])
  BY <1>1 DEF LeafSeqs
<1> HIDE DEF c, n, m
<1> DEFINE x == LeafSeqs(a)
           y == LeafSeqs(b)
           z == x \o y
<1>4. z \in Seq(Seq(Leaf)) /\ Len(z) = n + m
      /\ \A i \in 1..(n + m) : z[i] = IF i <= n THEN x[i] ELSE y[i - n]
  <2>1. /\ z \in Seq(Seq(Leaf)) /\ Len(z) = Len(x) + Len(y)
        /\ \A i \in 1..(Len(x) + Len(y)) : z[i] = IF i <= Len(x) THEN x[i] ELSE y[i - Len(x)]
    BY <1>2, ConcatProperties
  <2> QED BY <1>3, <2>1
<1> HIDE DEF x, y, z
<1>5. ASSUME NEW i \in 1..(n + m) PROVE LeafSeqs(c)[i] = z[i]
  <2>1. CASE i <= n
    <3>1. i \in 1..n
      BY <1>1, <2>1
    <3>2. c[i] = a[i] /\ z[i] = x[i]
      BY <1>1, <1>4, <2>1
    <3> QED BY <1>3, <3>1, <3>2 DEF x
  <2>2. CASE ~(i <= n)
    <3>1. i - n \in 1..m
      BY <1>1, <2>2
    <3>2. c[i] = b[i - n] /\ z[i] = y[i - n]
      BY <1>1, <1>4, <2>2
    <3> QED BY <1>3, <3>1, <3>2 DEF y
  <2> QED BY <2>1, <2>2
<1>6. LeafSeqs(c) = z
  BY <1>2, <1>3, <1>4, <1>5, SameTokens
<1>7. FlattenSeq(x \o y) = FlattenSeq(x) \o FlattenSeq(y)
  BY <1>2, FlattenConcat DEF x, y
<1> QED BY <1>2, <1>6, <1>7 DEF x, y, z, c

LEMMA LeavesFold ==
  ASSUME NEW b \in Seq(Token), NEW own \in Seq(Token)
  PROVE  Leaves(ConcatContent(b, own)) = Leaves(b) \o Leaves(own)
<1> DEFINE o == Open("sequence", 1)
<1>1. o \in Token /\ Close \in Token /\ ~IsLeaf(o) /\ ~IsLeaf(Close)
  BY DEF Open, Close, Token, Bracket, Compositor, IsLeaf
<1>2. ASSUME NEW x \in Token, ~IsLeaf(x) PROVE <<x>> \in Seq(Token) /\ Leaves(<<x>>) = <<>>
  <2>0. <<x>> \in Seq(Token)
    OBVIOUS
  <2>1. LeafSeqs(<<x>>) = << <<>> >>
    BY <1>2 DEF LeafSeqs, LeafOf
  <2>2. <<>> \in Seq(Leaf)
    OBVIOUS
  <2>3. FlattenSeq(<< <<>> >>) = <<>>
    BY <2>2, FlattenOne
  <2> QED BY <2>0, <2>1, <2>3, LeavesTyped
<1>3. Leaves(b) \in Seq(Leaf) /\ Leaves(own) \in Seq(Leaf)
  BY LeavesTyped
<1>4. Leaves(<<>>) = <<>>
  <2>1. <<>> \in Seq(Token) /\ Len(<<>>) = 0
    OBVIOUS
  <2>2. LeafSeqs(<<>>) = <<>>
    BY DEF LeafSeqs
  <2> QED BY <2>1, <2>2, LeavesTyped DEF FlattenSeq
<1> HIDE DEF o
<1>8. /\ <<o>> \in Seq(Token) /\ Leaves(<<o>>) = <<>>
      /\ <<Close>> \in Seq(Token) /\ Leaves(<<Close>>) = <<>>
  BY <1>1, <1>2
<1>5. CASE b # <<>> /\ own # <<>>
  <2>0. ASSUME NEW u \in Seq(Token), NEW v \in Seq(Token)
        PROVE  u \o v \in Seq(Token) /\ Leaves(u \o v) = Leaves(u) \o Leaves(v)
    BY LeavesConcat
  <2> DEFINE p == <<o>> \o b
             q == p \o own
             r == q \o <<Close>>
  <2>1. p \in Seq(Token) /\ Leaves(p) = <<>> \o Leaves(b)
    BY <1>8, <2>0, Zenon
  <2>2. Leaves(p) = Leaves(b)
    BY <1>3, <2>1
  <2> HIDE DEF p
  <2>3. q \in Seq(Token) /\ Leaves(q) = Leaves(b) \o Leaves(own)
    BY <2>0, <2>1, <2>2, Zenon
  <2> HIDE DEF q
  <2>4. Leaves(r) = Leaves(q) \o <<>> /\ Leaves(q) \in Seq(Leaf)
    BY <1>8, <2>0, <2>3, LeavesTyped, Zenon
  <2>5. Leaves(r) = Leaves(q)
    BY <2>4
  <2>6. ConcatContent(b, own) = r
    BY <1>5 DEF ConcatContent, o, p, q
  <2> QED BY <2>3, <2>5, <2>6
<1>6. CASE b = <<>>
  BY <1>3, <1>4, <1>6 DEF ConcatContent
<1>7. CASE b # <<>> /\ own = <<>>
  BY <1>3, <1>4, <1>7 DEF ConcatContent
<1> QED BY <1>5, <1>6, <1>7
-----------------------------------------------------------------------------
(* The ancestors of a type.                                                *)

\* A function on the subsets of T that only adds, and what it makes of a in N steps.
Growing(T, N, H, a, f) ==
  /\ IsFiniteSet(T) /\ N \in Nat /\ N > Cardinality(T)
  /\ H \in [SUBSET T -> SUBSET T] /\ \A X \in SUBSET T : X \subseteq H[X]
  /\ a \in SUBSET T /\ f \in [0..N -> SUBSET T] /\ Iterates(f, H, a, N)
Grown(N, H, a, f) == /\ \A k \in 0..N : a \subseteq f[k] /\ f[k] \subseteq f[N]
                     /\ f[N - 1] = f[N] /\ H[f[N]] = f[N]
Kept(T, H, C) == \A X \in SUBSET T : X \subseteq C => H[X] \subseteq C

\* Sets that only grow in a finite set T stop to grow within |T| + 1 steps.
LEMMA GrowingEnds ==
  ASSUME NEW T, NEW N, NEW H, NEW a, NEW f, Growing(T, N, H, a, f)
  PROVE  Grown(N, H, a, f)
<1> /\ IsFiniteSet(T) /\ N \in Nat /\ N > Cardinality(T)
    /\ H \in [SUBSET T -> SUBSET T] /\ \A X \in SUBSET T : X \subseteq H[X]
    /\ a \in SUBSET T /\ f \in [0..N -> SUBSET T] /\ Iterates(f, H, a, N)
  BY DEF Growing
<1>0. Cardinality(T) \in Nat /\ \A X \in SUBSET T : IsFiniteSet(X) /\ Cardinality(X) \in Nat /\ Cardinality(X) <= Cardinality(T)
  BY FS_Subset, FS_CardinalityType
<1>1. \A n \in 0..N : f[n] \in SUBSET T
  OBVIOUS
<1>2. \A n \in Nat : n + 1 <= N => f[n + 1] = H[f[n]] /\ f[n] \subseteq f[n + 1]
  <2> TAKE n \in Nat
  <2> HAVE n + 1 <= N
  <2>1. n + 1 \in 1..N /\ n \in 0..N /\ (n + 1) - 1 = n
    OBVIOUS
  <2>2. f[n + 1] = H[f[(n + 1) - 1]]
    BY <2>1 DEF Iterates
  <2> QED BY <1>1, <2>1, <2>2
<1> DEFINE Still(m) == f[m + 1] = f[m]
           S == {n \in Nat : n <= N => (\E m \in 0..(n - 1) : Still(m)) \/ Cardinality(f[n]) >= n}
<1>3. 0 \in S
  <2>1. f[0] \in SUBSET T
    BY <1>1
  <2>2. Cardinality(f[0]) \in Nat
    BY <1>0, <2>1
  <2> QED BY <2>2
<1>4. ASSUME NEW n \in Nat, n \in S PROVE n + 1 \in S
  <2> SUFFICES ASSUME n + 1 <= N, \A m \in 0..n : ~Still(m)
               PROVE  Cardinality(f[n + 1]) >= n + 1
    OBVIOUS
  <2>1. n \in 0..n /\ n \in 0..N /\ n + 1 \in 0..N /\ n <= N
    OBVIOUS
  <2>2. f[n] # f[n + 1] /\ f[n] \subseteq f[n + 1] /\ f[n + 1] \in SUBSET T /\ f[n] \in SUBSET T
    BY <1>1, <1>2, <2>1
  <2>3. Cardinality(f[n]) >= n
    BY <1>4, <2>1
  <2>4. Cardinality(f[n]) <= Cardinality(f[n + 1]) /\ Cardinality(f[n]) # Cardinality(f[n + 1])
    <3>1. IsFiniteSet(f[n + 1]) /\ f[n] \in SUBSET f[n + 1]
      BY <1>0, <2>2
    <3> QED BY <2>2, <3>1, FS_Subset
  <2>5. Cardinality(f[n]) \in Nat /\ Cardinality(f[n + 1]) \in Nat
    BY <1>0, <2>2
  <2> QED BY <2>3, <2>4, <2>5
<1>5. Nat \subseteq S
  <2> HIDE DEF S
  <2> QED BY <1>3, <1>4, Upwards
<1>6. PICK m \in 0..(N - 1) : Still(m)
  <2>1. (\E m \in 0..(N - 1) : Still(m)) \/ Cardinality(f[N]) >= N
    BY <1>5
  <2>2. f[N] \in SUBSET T
    BY <1>1
  <2>3. Cardinality(f[N]) <= Cardinality(T) /\ Cardinality(f[N]) \in Nat
    BY <1>0, <2>2
  <2> QED BY <1>0, <2>1, <2>3
<1> DEFINE R == {d \in Nat : m + d <= N => f[m + d] = f[m]}
<1>7. 0 \in R
  BY <1>6
<1>8. ASSUME NEW d \in Nat, d \in R PROVE d + 1 \in R
  <2> SUFFICES ASSUME m + (d + 1) <= N PROVE f[m + (d + 1)] = f[m]
    OBVIOUS
  <2>1. m \in Nat /\ m + (d + 1) = (m + d) + 1 /\ m + d \in Nat /\ m + d <= N /\ m + 1 <= N
    BY <1>6
  <2>2. f[m + d] = f[m]
    BY <1>8, <2>1
  <2>3. f[(m + d) + 1] = H[f[m + d]] /\ f[m + 1] = H[f[m]]
    BY <1>2, <2>1
  <2> QED BY <1>6, <2>1, <2>2, <2>3
<1>9. Nat \subseteq R
  <2> HIDE DEF R, Still
  <2> QED BY <1>7, <1>8, Upwards
<1>10. f[N - 1] = f[m] /\ f[N] = f[m]
  <2>1. N - m \in Nat /\ (N - 1) - m \in Nat /\ m + (N - m) = N /\ m + ((N - 1) - m) = N - 1
    BY <1>6
  <2>2. f[m + (N - m)] = f[m] /\ f[m + ((N - 1) - m)] = f[m]
    BY <1>9, <2>1
  <2> QED BY <2>1, <2>2
<1>11. H[f[N]] = f[N]
  <2>1. N - 1 \in Nat /\ (N - 1) + 1 = N
    BY <1>0
  <2> QED BY <1>2, <1>10, <2>1
<1> DEFINE A == {n \in Nat : n <= N => a \subseteq f[n]}
           B == {d \in Nat : d <= N => f[N - d] \subseteq f[N]}
<1>12. Nat \subseteq A
  <2>1. 0 \in A
    BY DEF Iterates
  <2>2. \A n \in Nat : n \in A => n + 1 \in A
    BY <1>2
  <2> HIDE DEF A
  <2> QED BY <2>1, <2>2, Upwards
<1>13. Nat \subseteq B
  <2>1. 0 \in B
    OBVIOUS
  <2>2. ASSUME NEW d \in Nat, d \in B PROVE d + 1 \in B
    <3> SUFFICES ASSUME d + 1 <= N PROVE f[N - (d + 1)] \subseteq f[N]
      OBVIOUS
    <3>1. N - (d + 1) \in Nat /\ (N - (d + 1)) + 1 = N - d /\ N - d <= N /\ d <= N
      OBVIOUS
    <3>2. f[N - (d + 1)] \subseteq f[N - d]
      BY <1>2, <3>1
    <3>3. f[N - d] \subseteq f[N]
      BY <2>2, <3>1
    <3> QED BY <3>2, <3>3
  <2> HIDE DEF B
  <2> QED BY <2>1, <2>2, Upwards
<1>14. ASSUME NEW k \in 0..N PROVE a \subseteq f[k] /\ f[k] \subseteq f[N]
  <2>1. k \in Nat /\ k <= N /\ N - k \in Nat /\ N - k <= N /\ N - (N - k) = k
    OBVIOUS
  <2>2. k \in A /\ (N - k) \in B
    BY <1>12, <1>13, <2>1
  <2> QED BY <2>1, <2>2
<1> QED BY <1>10, <1>11, <1>14 DEF Grown

\* What a monotone step never leaves, its iterates do not leave.
LEMMA GrowingWithin ==
  ASSUME NEW T, NEW N, NEW H, NEW a, NEW f, Growing(T, N, H, a, f),
         NEW C, a \subseteq C, Kept(T, H, C)
  PROVE  \A k \in 0..N : f[k] \subseteq C
<1> /\ N \in Nat /\ f \in [0..N -> SUBSET T] /\ Iterates(f, H, a, N)
    /\ \A X \in SUBSET T : X \subseteq C => H[X] \subseteq C
  BY DEF Growing, Kept
<1> DEFINE A == {n \in Nat : n <= N => f[n] \subseteq C}
<1>1. 0 \in A
  BY DEF Iterates
<1>2. ASSUME NEW n \in Nat, n \in A PROVE n + 1 \in A
  <2> SUFFICES ASSUME n + 1 <= N PROVE f[n + 1] \subseteq C
    OBVIOUS
  <2>1. n + 1 \in 1..N /\ n \in 0..N /\ (n + 1) - 1 = n /\ n <= N
    OBVIOUS
  <2>2. f[n + 1] = H[f[(n + 1) - 1]]
    BY <2>1 DEF Iterates
  <2>3. f[n] \subseteq C /\ f[n] \in SUBSET T
    BY <1>2, <2>1
  <2> QED BY <2>1, <2>2, <2>3
<1>3. Nat \subseteq A
  <2> HIDE DEF A
  <2> QED BY <1>1, <1>2, Upwards
<1> QED BY <1>3

\* A set of types with the bases of its members.
Bases(X) == {schema.base[u] : u \in {v \in X : schema.base[v] \in Type}}
Up == [X \in SUBSET Type |-> X \cup Bases(X)]
Lines(t, f) == f \in [0..Deep -> SUBSET Type] /\ Iterates(f, Up, {t}, Deep)

LEMMA DeepTyped == Deep \in Nat /\ Deep > Cardinality(Type) /\ Deep >= 1 /\ IsFiniteSet(Type)
                     /\ Cardinality(Type) \in Nat
BY DerivationAssumption, FS_CardinalityType DEF Deep

LEMMA UpTyped == Up \in [SUBSET Type -> SUBSET Type] /\ \A X \in SUBSET Type : X \subseteq Up[X]
BY DEF Up, Bases

LEMMA AncestorsAre ==
  ASSUME NEW t \in Type
  PROVE  \E f : /\ Lines(t, f)
                /\ Ancestors(t) = UNION {{schema.base[u] : u \in f[n - 1]} \cap Type : n \in 1..Deep}
<1> DEFINE N == Deep
           v(n, f) == IF n = 0 THEN {t}
                      ELSE f[n - 1] \cup {schema.base[u] : u \in {w \in f[n - 1] : schema.base[w] \in Type}}
<1>1. N \in Nat
  BY DeepTyped
<1>2. \E f \in [0..N -> SUBSET Type] : Iterates(f, Up, {t}, N)
  <2> DEFINE D == SUBSET Type
             a == {t}
  <2>1. a \in D /\ Up \in [D -> D]
    BY UpTyped
  <2> HIDE DEF N, D, a
  <2>2. \E f \in [0..N -> D] : Iterates(f, Up, a, N)
    BY <1>1, <2>1, Iterated
  <2> QED BY <2>2 DEF D, a
<1>3. PICK f \in [0..N -> SUBSET Type] : Iterates(f, Up, {t}, N)
  BY <1>2
<1>4. f = [n \in 0..N |-> v(n, f)]
  <2>1. \A n \in 0..N : f[n] = v(n, f)
    <3> TAKE n \in 0..N
    <3>1. CASE n = 0
      BY <1>3, <3>1 DEF Iterates
    <3>2. CASE n # 0
      <4>1. n \in 1..N /\ n - 1 \in 0..N
        BY <1>1, <3>2
      <4>2. f[n] = Up[f[n - 1]] /\ f[n - 1] \in SUBSET Type
        BY <1>3, <4>1 DEF Iterates
      <4> QED BY <3>2, <4>2 DEF Up, Bases
    <3> QED BY <3>1, <3>2
  <2>2. f = [n \in 0..N |-> f[n]]
    BY <1>3
  <2> HIDE DEF v
  <2> QED BY <2>1, <2>2, Zenon
<1> DEFINE S(h) == h = [n \in 0..N |-> v(n, h)]
           c == CHOOSE h : S(h)
           U(h) == UNION {[k \in 1..Deep |-> {schema.base[u] : u \in h[k - 1]} \cap Type][n] : n \in 1..Deep}
<1>5. Ancestors(t) = U(c)
  BY Zenon DEF Ancestors
<1>6. S(c)
  <2>1. \E h : S(h)
    BY <1>4
  <2> HIDE DEF S
  <2> QED BY <2>1, Zenon
<1> HIDE DEF c
<1>7. \A n \in 0..N : c[n] = v(n, c)
  <2> HIDE DEF v
  <2> QED BY <1>6, Zenon
<1>8. c[0] = {t} /\ \A n \in 1..N : c[n] = c[n - 1] \cup Bases(c[n - 1])
  <2>1. 0 \in 0..N /\ \A n \in 1..N : n \in 0..N /\ n # 0
    BY <1>1
  <2> QED BY <1>7, <2>1 DEF Bases
<1>9. \A n \in 0..N : c[n] \in SUBSET Type
  <2> DEFINE T == {n \in Nat : n <= N => c[n] \in SUBSET Type}
  <2>1. 0 \in T
    BY <1>8
  <2>2. ASSUME NEW n \in Nat, n \in T PROVE n + 1 \in T
    <3> SUFFICES ASSUME n + 1 <= N PROVE c[n + 1] \in SUBSET Type
      OBVIOUS
    <3>1. n + 1 \in 1..N /\ (n + 1) - 1 = n /\ c[n] \in SUBSET Type
      BY <1>1, <2>2
    <3>2. c[n + 1] = c[n] \cup Bases(c[n])
      BY <1>8, <3>1
    <3> QED BY <3>1, <3>2 DEF Bases
  <2>3. Nat \subseteq T
    <3> HIDE DEF T
    <3> QED BY <2>1, <2>2, Upwards
  <2> QED BY <1>1, <2>3
<1>10. DOMAIN c = 0..N /\ c = [n \in 0..N |-> c[n]]
  <2> HIDE DEF v
  <2>1. c = [n \in 0..N |-> v(n, c)]
    BY <1>6
  <2>2. DOMAIN c = 0..N
    BY <2>1
  <2>3. c = [n \in 0..N |-> c[n]]
    BY <1>7, <2>1
  <2> QED BY <2>2, <2>3
<1>11. c \in [0..N -> SUBSET Type]
  BY <1>9, <1>10
<1>12. Iterates(c, Up, {t}, N)
  <2>1. \A n \in 1..N : c[n] = Up[c[n - 1]]
    <3> TAKE n \in 1..N
    <3>1. n - 1 \in 0..N
      BY <1>1
    <3>2. c[n - 1] \in SUBSET Type
      BY <1>9, <3>1
    <3> QED BY <1>8, <3>2 DEF Up
  <2> QED BY <1>8, <1>10, <2>1 DEF Iterates
<1>13. U(c) = UNION {{schema.base[u] : u \in c[n - 1]} \cap Type : n \in 1..Deep}
  BY Zenon
<1> QED BY <1>5, <1>11, <1>12, <1>13 DEF Lines

\* With a type they hold its base.
LEMMA AncestorsClosed ==
  ASSUME schema \in Schemas, NEW t \in Type, NEW u \in {t} \cup Ancestors(t), schema.base[u] \in Type
  PROVE  schema.base[u] \in Ancestors(t)
<1>1. PICK f : /\ Lines(t, f)
               /\ Ancestors(t) = UNION {{schema.base[w] : w \in f[n - 1]} \cap Type : n \in 1..Deep}
  BY AncestorsAre
<1>2. f \in [0..Deep -> SUBSET Type] /\ Iterates(f, Up, {t}, Deep) /\ {t} \in SUBSET Type
  BY <1>1 DEF Lines
<1> DEFINE N == Deep
<1>3. N \in Nat /\ N > Cardinality(Type) /\ N >= 1 /\ IsFiniteSet(Type)
  BY DeepTyped
<1>4. /\ \A k \in 0..N : {t} \subseteq f[k] /\ f[k] \subseteq f[N]
      /\ f[N - 1] = f[N] /\ Up[f[N]] = f[N]
  <2>1. Growing(Type, Deep, Up, {t}, f)
    BY <1>2, <1>3, UpTyped DEF Growing
  <2>2. Grown(Deep, Up, {t}, f)
    BY <2>1, GrowingEnds
  <2> QED BY <2>2 DEF Grown
<1>5. N \in 0..N /\ N \in 1..N /\ f[N] \in SUBSET Type
  BY <1>2, <1>3
<1>6. \A w \in f[N] : schema.base[w] \in Type => schema.base[w] \in f[N] /\ schema.base[w] \in Ancestors(t)
  <2>1. \A w \in f[N] : schema.base[w] \in Type => schema.base[w] \in {schema.base[x] : x \in f[N - 1]} \cap Type
    BY <1>4
  <2>2. {schema.base[x] : x \in f[N - 1]} \cap Type \subseteq Ancestors(t)
    BY <1>1, <1>5
  <2>3. Bases(f[N]) \subseteq f[N]
    BY <1>4, <1>5 DEF Up
  <2> QED BY <2>1, <2>2, <2>3 DEF Bases
<1>7. Ancestors(t) \subseteq f[N]
  <2> SUFFICES ASSUME NEW n \in 1..N, NEW w \in f[n - 1], schema.base[w] \in Type
               PROVE  schema.base[w] \in f[N]
    BY <1>1
  <2>1. n - 1 \in 0..N
    BY <1>3
  <2>2. w \in f[N]
    BY <1>4, <2>1
  <2> QED BY <1>6, <2>2
<1>8. t \in f[N]
  BY <1>4, <1>5
<1> QED BY <1>6, <1>7, <1>8

\* They are in every set that does.
LEMMA AncestorsLeast ==
  ASSUME NEW t \in Type, NEW C,
         \A u \in {t} \cup C : schema.base[u] \in Type => schema.base[u] \in C
  PROVE  Ancestors(t) \subseteq C \cap Type
<1>1. PICK f : /\ Lines(t, f)
               /\ Ancestors(t) = UNION {{schema.base[w] : w \in f[n - 1]} \cap Type : n \in 1..Deep}
  BY AncestorsAre
<1>2. f \in [0..Deep -> SUBSET Type] /\ Iterates(f, Up, {t}, Deep) /\ {t} \in SUBSET Type
  BY <1>1 DEF Lines
<1> DEFINE N == Deep
           D == {t} \cup C
<1>3. N \in Nat /\ Up \in [SUBSET Type -> SUBSET Type]
  BY DeepTyped, UpTyped
<1>4. \A X \in SUBSET Type : X \subseteq D => Up[X] \subseteq D
  BY DEF Up, Bases
<1>5. \A k \in 0..N : f[k] \subseteq D
  <2>1. Growing(Type, Deep, Up, {t}, f)
    BY <1>2, DeepTyped, UpTyped DEF Growing
  <2>2. {t} \subseteq D /\ Kept(Type, Up, D)
    BY <1>4 DEF Kept
  <2> HIDE DEF D
  <2> QED BY <2>1, <2>2, GrowingWithin
<1>6. \A n \in 1..N : n - 1 \in 0..N
  BY <1>3
<1>7. ASSUME NEW n \in 1..N, NEW w \in f[n - 1], schema.base[w] \in Type PROVE schema.base[w] \in C
  BY <1>5, <1>6, <1>7
<1> QED BY <1>1, <1>7

LEMMA AncestorsOfBase ==
  ASSUME schema \in Schemas, NEW t \in Type, schema.base[t] \in Type
  PROVE  Ancestors(t) = {schema.base[t]} \cup Ancestors(schema.base[t])
<1> DEFINE b == schema.base[t]
<1>1. \A u \in {b} \cup Ancestors(b) : schema.base[u] \in Type => schema.base[u] \in Ancestors(b)
  BY AncestorsClosed
<1>2. Ancestors(t) \subseteq {b} \cup Ancestors(b)
  <2> DEFINE C == {b} \cup Ancestors(b)
  <2>1. \A u \in {t} \cup C : schema.base[u] \in Type => schema.base[u] \in C
    BY <1>1
  <2> HIDE DEF C
  <2>2. Ancestors(t) \subseteq C
    BY <2>1, AncestorsLeast
  <2> QED BY <2>2 DEF C
<1>3. \A u \in {t} \cup Ancestors(t) : schema.base[u] \in Type => schema.base[u] \in Ancestors(t)
  BY AncestorsClosed
<1>4. b \in Ancestors(t)
  BY <1>3
<1>5. Ancestors(b) \subseteq Ancestors(t)
  <2>1. \A u \in {b} \cup Ancestors(t) : schema.base[u] \in Type => schema.base[u] \in Ancestors(t)
    BY <1>3, <1>4
  <2> HIDE DEF b
  <2>2. b \in Type
    BY DEF b
  <2> QED BY <2>1, <2>2, AncestorsLeast
<1> QED BY <1>2, <1>4, <1>5
-----------------------------------------------------------------------------
(* A group that is in its own copy is never written out.                   *)

\* Wherever g is written out, h is so in fewer levels.
NeedsFirst(g, h) ==
  \A n \in 0..GroupCount : NoGroup(Level(n)[g]) => \E m \in 0..(n - 1) : NoGroup(Level(m)[h])

LEMMA NeedsTransitive ==
  ASSUME schema \in Schemas, NEW a, NEW g, NEW h, NeedsFirst(a, g), NeedsFirst(g, h)
  PROVE  NeedsFirst(a, h)
<1> SUFFICES ASSUME NEW n \in 0..GroupCount, NoGroup(Level(n)[a])
             PROVE  \E m \in 0..(n - 1) : NoGroup(Level(m)[h])
  BY DEF NeedsFirst
<1>0. GroupCount \in Nat
  BY LevelTyped
<1>1. PICK k \in 0..(n - 1) : NoGroup(Level(k)[g])
  BY DEF NeedsFirst
<1>2. k \in 0..GroupCount
  BY <1>0
<1>3. PICK m \in 0..(k - 1) : NoGroup(Level(m)[h])
  BY <1>1, <1>2 DEF NeedsFirst
<1>4. m \in 0..(n - 1)
  BY <1>0
<1> QED BY <1>3, <1>4

LEMMA NeverWrittenOut ==
  ASSUME schema \in Schemas, NEW g, NeedsFirst(g, g)
  PROVE  \A n \in 0..GroupCount : ~NoGroup(Level(n)[g])
<1>0. GroupCount \in Nat
  BY LevelTyped
<1> DEFINE W == {n \in Nat : n \in 0..GroupCount /\ NoGroup(Level(n)[g])}
<1> SUFFICES ASSUME W # {} PROVE FALSE
  BY <1>0
<1>1. PICK j \in W : \A k \in W : j <= k
  <2> HIDE DEF W
  <2>1. W \in SUBSET Nat
    BY DEF W
  <2> QED BY <2>1, LeastNatural
<1>2. PICK m \in 0..(j - 1) : NoGroup(Level(m)[g])
  BY <1>1 DEF NeedsFirst
<1>3. m \in W /\ m < j
  BY <1>0, <1>1, <1>2
<1> QED BY <1>1, <1>3

\* What the tokens of a model are written out to are tokens of the whole.
LEMMA InlineMembers ==
  ASSUME NEW c \in Seq(Token), NEW f \in Models
  PROVE  Range(Inline(c, f)) = UNION {Range(One(c[i], f)) : i \in 1..Len(c)}
<1>1. /\ Ones(c, f) \in Seq(Seq(Token)) /\ Len(Ones(c, f)) = Len(c) /\ Inline(c, f) = FlattenSeq(Ones(c, f))
      /\ \A i \in 1..Len(c) : Ones(c, f)[i] = One(c[i], f)
  BY OnesTyped, InlineOnes DEF Ones
<1>2. Range(FlattenSeq(Ones(c, f))) = UNION {Range(Ones(c, f)[i]) : i \in 1..Len(Ones(c, f))}
  BY <1>1, FlattenMembers
<1> QED BY <1>1, <1>2

LEMMA NoGroupRange ==
  ASSUME NEW c \in Seq(Token)
  PROVE  NoGroup(c) <=> \A x \in Range(c) : x.kind # "group"
<1>1. DOMAIN c = 1..Len(c)
  OBVIOUS
<1> QED BY <1>1 DEF NoGroup, Range

\* New counts leave the kinds as they are.
LEMMA RecountedNoGroup ==
  ASSUME NEW c \in Seq(Token), c # <<>>, NEW n \in Nat
  PROVE  NoGroup(Recounted(c, n)) <=> NoGroup(c)
<1>1. /\ Len(Recounted(c, n)) = Len(c) /\ 1 \in 1..Len(c) /\ c[1] \in Token
      /\ Recounted(c, n)[1] = Counted(c[1], n)
      /\ \A i \in 1..Len(c) : i # 1 => Recounted(c, n)[i] = c[i]
  BY RecountedTyped
<1>2. Recounted(c, n)[1].kind = c[1].kind
  BY <1>1, TokenFields DEF FieldsApart, Token
<1>3. \A i \in 1..Len(c) : Recounted(c, n)[i].kind = c[i].kind
  BY <1>1, <1>2
<1> QED BY <1>1, <1>3 DEF NoGroup

\* A reference is left where its group is not written out or is none.
LEMMA GroupLeft ==
  ASSUME NEW x \in Token, x.kind = "group", NEW f \in Models,
         Stands(x, f) => ~NoGroup(f[x.of])
  PROVE  ~NoGroup(One(x, f))
<1>1. CASE Stands(x, f)
  <2>1. f[x.of] \in Seq(Token) /\ f[x.of] # <<>> /\ One(x, f) = Recounted(f[x.of], x.occurs) /\ x.occurs \in Nat
    BY <1>1, OneTyped, TokenTyped
  <2> QED BY <1>1, <2>1, RecountedNoGroup
<1>2. CASE ~Stands(x, f)
  <2>1. One(x, f) = <<x>>
    BY <1>2 DEF One
  <2>2. 1 \in 1..Len(<<x>>) /\ <<x>>[1] = x
    OBVIOUS
  <2> QED BY <2>1, <2>2 DEF NoGroup
<1> QED BY <1>1, <1>2

\* What a group refers to is written out before it.
LEMMA NeedsWhatItHolds ==
  ASSUME schema \in Schemas, NEW g \in Group, NEW i \in 1..Len(schema.groups[g]),
         schema.groups[g][i].kind = "group"
  PROVE  NeedsFirst(g, schema.groups[g][i].of)
<1> DEFINE c == schema.groups[g]
           x == c[i]
<1>0. c \in Seq(Token) /\ x \in Token /\ x.kind = "group" /\ GroupCount \in Nat /\ x.of \in Group
  <2>1. c \in Seq(Token) /\ GroupCount \in Nat
    BY SchemaTyped, LevelTyped DEF Content, Token
  <2>2. x \in Token
    BY <2>1
  <2> QED BY <2>1, <2>2, TokenTyped
<1> SUFFICES ASSUME NEW n \in 0..GroupCount, NoGroup(Level(n)[g])
             PROVE  \E m \in 0..(n - 1) : NoGroup(Level(m)[x.of])
  BY DEF NeedsFirst
<1>1. n # 0
  <2> SUFFICES ASSUME n = 0 PROVE FALSE
    OBVIOUS
  <2>1. NoGroup(c)
    BY LevelTyped
  <2> QED BY <1>0, <2>1 DEF NoGroup
<1>2. n \in 1..GroupCount /\ n - 1 \in 0..GroupCount /\ n - 1 \in 0..(n - 1)
  BY <1>0, <1>1
<1>3. Level(n)[g] = Inline(c, Level(n - 1)) /\ Level(n - 1) \in Models
  BY <1>2, LevelTyped
<1> HIDE DEF x, c
<1>4. Range(One(x, Level(n - 1))) \subseteq Range(Inline(c, Level(n - 1)))
  <2>1. i \in 1..Len(c) /\ x = c[i]
    BY DEF c, x
  <2>2. Range(Inline(c, Level(n - 1))) = UNION {Range(One(c[j], Level(n - 1))) : j \in 1..Len(c)}
    BY <1>0, <1>3, InlineMembers
  <2> QED BY <2>1, <2>2
<1>5. NoGroup(One(x, Level(n - 1)))
  <2>1. One(x, Level(n - 1)) \in Seq(Token) /\ Inline(c, Level(n - 1)) \in Seq(Token)
    BY <1>0, <1>3, OneTyped, OnesTyped
  <2>2. \A y \in Range(Inline(c, Level(n - 1))) : y.kind # "group"
    BY <1>3, <2>1, NoGroupRange
  <2> QED BY <1>4, <2>1, <2>2, NoGroupRange
<1>6. NoGroup(Level(n - 1)[x.of])
  BY <1>0, <1>3, <1>5, GroupLeft
<1> QED BY <1>2, <1>6 DEF x, c
-----------------------------------------------------------------------------
\* A reference in copies of groups is to a group each of them needs first.
NestedIn(c, path) ==
  \A i \in 1..Len(c) : c[i].kind = "group" => \A g \in Active(c, path, i) : NeedsFirst(g, c[i].of)

LEMMA NestedOutside == ASSUME NEW c PROVE NestedIn(c, {})
BY DEF NestedIn, Active

LEMMA NestedKept ==
  ASSUME schema' = schema, NEW c, NEW path
  PROVE  NestedIn(c, path)' = NestedIn(c, path)
<1>1. Levelled' = Levelled /\ GroupCount' = GroupCount
  BY SMT DEF Levelled, Inline, GroupCount
<1>2. \A n : Level(n)' = Level(n)
  BY <1>1 DEF Level
<1>3. \A g, h : NeedsFirst(g, h)' = NeedsFirst(g, h)
  BY <1>1, <1>2 DEF NeedsFirst, NoGroup
<1>4. \A i : Active(c, path, i)' = Active(c, path, i)
  BY DEF Active
<1> QED BY <1>3, <1>4 DEF NestedIn

LEMMA SplitNested ==
  ASSUME NEW c, NEW path, NEW p, Splits(c, path, p), NestedIn(c, path)
  PROVE  NestedIn(Split(c, p), SplitPath(c, path, p))
<1> DEFINE n == Len(c)
           y == Copied(c, p)
           m == Len(y)
           d == Split(c, p)
           deep == SplitPath(c, path, p)
           g == c[p].of
<1>1. /\ n \in Nat /\ m \in Nat \ {0} /\ p \in 1..n /\ schema \in Schemas /\ c \in Seq(Token)
      /\ g \in Group /\ c[p].kind = "group" /\ c[p].occurs \in Nat
      /\ schema.groups[g] \in Seq(Token) /\ schema.groups[g] # <<>>
  BY SplitParts DEF Splits
<1>2. /\ Len(d) = n - 1 + m
      /\ \A i \in 1..(p - 1) : d[i] = c[i] /\ c[i].kind # "group"
      /\ \A i \in 1..m : d[(p - 1) + i] = y[i]
      /\ \A i \in 1..(n - p) : d[(p - 1) + m + i] = c[p + i]
  <2>1. \A i \in 1..(p - 1) : c[i].kind # "group"
    BY DEF Splits
  <2>2. /\ Len(Split(c, p)) = Len(c) - 1 + Len(Copied(c, p))
        /\ \A i \in 1..(p - 1) : Split(c, p)[i] = c[i]
        /\ \A i \in 1..Len(Copied(c, p)) : Split(c, p)[(p - 1) + i] = Copied(c, p)[i]
        /\ \A i \in 1..(Len(c) - p) : Split(c, p)[(p - 1) + Len(Copied(c, p)) + i] = c[p + i]
    BY SplitTyped
  <2> QED BY <2>1, <2>2
<1>3. /\ \A i \in 1..m : Active(d, deep, (p - 1) + i) = Active(c, path, p) \cup {g}
      /\ \A i \in 1..(n - p) : Active(d, deep, (p - 1) + m + i) = Active(c, path, p + i)
  BY <1>2, SplitActive
<1>4. ASSUME NEW i \in 1..m, y[i].kind = "group"
      PROVE  \A a \in Active(c, path, p) \cup {g} : NeedsFirst(a, y[i].of)
  <2> DEFINE w == schema.groups[g]
  <2>1. m = Len(w) /\ i \in 1..Len(w) /\ w[i].kind = "group" /\ w[i].of = y[i].of
    <3>1. /\ Len(y) = Len(w) /\ 1 \in 1..Len(w) /\ w[1] \in Token
          /\ y[1] = Counted(w[1], c[p].occurs)
          /\ \A j \in 1..Len(w) : j # 1 => y[j] = w[j]
      BY <1>1, RecountedTyped DEF Copied
    <3>2. y[1].kind = w[1].kind /\ y[1].of = w[1].of
      BY <3>1, TokenFields DEF FieldsApart, Token
    <3> HIDE DEF w, y
    <3> QED BY <1>4, <3>1, <3>2
  <2>2. NeedsFirst(g, y[i].of)
    BY <1>1, <2>1, NeedsWhatItHolds
  <2>3. \A a \in Active(c, path, p) : NeedsFirst(a, g)
    BY <1>1 DEF NestedIn
  <2> HIDE DEF y, g
  <2> QED BY <1>1, <2>2, <2>3, NeedsTransitive
<1>5. ASSUME NEW k \in 1..Len(d), d[k].kind = "group", NEW a \in Active(d, deep, k)
      PROVE  NeedsFirst(a, d[k].of)
  <2>1. \/ k \in 1..(p - 1)
        \/ \E i \in 1..m : k = (p - 1) + i
        \/ \E i \in 1..(n - p) : k = (p - 1) + m + i
    <3>1. k \in 1..(n - 1 + m)
      BY <1>2, <1>5
    <3> HIDE DEF n, m, d, y, deep
    <3>2. k <= p - 1 \/ (k > p - 1 /\ k <= p - 1 + m) \/ k > p - 1 + m
      BY <1>1, <3>1
    <3>3. k > p - 1 /\ k <= p - 1 + m => k - (p - 1) \in 1..m /\ k = (p - 1) + (k - (p - 1))
      BY <1>1, <3>1
    <3>4. k > p - 1 + m => k - (p - 1 + m) \in 1..(n - p) /\ k = (p - 1) + m + (k - (p - 1 + m))
      BY <1>1, <3>1
    <3>5. k <= p - 1 => k \in 1..(p - 1)
      BY <1>1, <3>1
    <3> QED BY <3>2, <3>3, <3>4, <3>5
  <2>2. CASE k \in 1..(p - 1)
    BY <1>2, <1>5, <2>2
  <2>3. CASE \E i \in 1..m : k = (p - 1) + i
    <3>1. PICK i \in 1..m : k = (p - 1) + i
      BY <2>3
    <3>2. d[k] = y[i] /\ Active(d, deep, k) = Active(c, path, p) \cup {g}
      BY <1>2, <1>3, <3>1
    <3> HIDE DEF d, y, deep, g
    <3> QED BY <1>4, <1>5, <3>2
  <2>4. CASE \E i \in 1..(n - p) : k = (p - 1) + m + i
    <3>1. PICK i \in 1..(n - p) : k = (p - 1) + m + i
      BY <2>4
    <3>2. d[k] = c[p + i] /\ Active(d, deep, k) = Active(c, path, p + i)
      BY <1>2, <1>3, <3>1
    <3>3. p + i \in 1..n
      BY <1>1
    <3> HIDE DEF d, y, deep, g
    <3> QED BY <1>5, <3>2, <3>3 DEF NestedIn, n
  <2> QED BY <2>1, <2>2, <2>3, <2>4
<1> HIDE DEF d, deep
<1>6. NestedIn(d, deep)
  BY <1>5 DEF NestedIn
<1> QED BY <1>6 DEF d, deep
-----------------------------------------------------------------------------
Nested == \A t \in Type : NestedIn(content[t], PathOf(t))

LEMMA NestedInit ==
  ASSUME Init
  PROVE  Nested
<1>1. stack = <<>>
  BY DEF Init
<1>2. \A t \in Type : PathOf(t) = {}
  BY <1>1 DEF PathOf
<1> QED BY <1>2, NestedOutside DEF Nested

LEMMA NestedStep ==
  ASSUME TypeInv, ResolveInv, FreshPaths, Nested, [Next]_vars
  PROVE  Nested'
<1> SUFFICES ASSUME NEW t \in Type PROVE NestedIn(content[t], PathOf(t))'
  BY DEF Nested
<1>0. schema' = schema
  BY StepKeeps
<1>1. ASSUME NEW c, NEW q, content'[t] = c, PathOf(t)' = q, NestedIn(c, q)
      PROVE  NestedIn(content[t], PathOf(t))'
  <2>1. NestedIn(content[t], PathOf(t))' <=> NestedIn(c, q)'
    BY <1>1, Zenon
  <2>2. NestedIn(c, q)' = NestedIn(c, q)
    BY <1>0, NestedKept
  <2> QED BY <1>1, <2>1, <2>2
<1>2. NestedIn(content[t], PathOf(t))
  BY DEF Nested
<1>3. ASSUME PathOf(t)' = {} PROVE NestedIn(content[t], PathOf(t))'
  <2>1. PICK c : c = content'[t]
    OBVIOUS
  <2> QED BY <1>1, <1>3, <2>1, NestedOutside
<1>4. ASSUME PathOf(t)' = PathOf(t), content'[t] = content[t] PROVE NestedIn(content[t], PathOf(t))'
  <2>1. PICK c, q : c = content[t] /\ q = PathOf(t)
    OBVIOUS
  <2> QED BY <1>1, <1>2, <1>4, <2>1
<1>5. CASE ExpandGroup
  <2> DEFINE c == content[Top.of]
             deep == SplitPath(c, Top.path, GroupAt)
             d == Split(c, GroupAt)
  <2>1. Splits(c, Top.path, GroupAt)
    BY <1>5, GroupSplits
  <2>2. /\ PathOf(t) = (IF t = Top.of THEN Top.path ELSE {})
        /\ PathOf(t)' = (IF t = Top.of THEN deep ELSE {})
        /\ content'[t] = (IF t = Top.of THEN d ELSE content[t])
    BY <1>5, ExpandedPath
  <2>3. CASE t = Top.of
    <3>1. NestedIn(c, Top.path)
      BY <1>2, <2>2, <2>3
    <3>2. NestedIn(d, deep)
      BY <2>1, <3>1, SplitNested
    <3> HIDE DEF c, d, deep
    <3>3. PICK x, q : x = d /\ q = deep
      OBVIOUS
    <3> QED BY <1>1, <2>2, <2>3, <3>2, <3>3
  <2>4. CASE t # Top.of
    BY <1>3, <2>2, <2>4
  <2> QED BY <2>3, <2>4
<1>6. CASE EndExpand
  <2>1. stack # <<>> /\ Top.kind = "type" /\ stack' = Moved(stack, "groups", 1)
    BY <1>6 DEF EndExpand, AtType
  <2>2. Len(stack') = Len(stack) /\ stack'[Len(stack)].phase = "groups"
    BY <2>1, MovedPath
  <2>3. PathOf(t)' = {}
    BY <2>2 DEF PathOf, Top
  <2> QED BY <1>3, <2>3
<1>7. CASE ~ExpandGroup /\ ~EndExpand
  <2>1. stack' = stack \/ (Plain /\ Plain')
    BY <1>7, PathsKept
  <2>2. CASE Plain /\ Plain'
    <3>1. PathOf(t)' = {}
      BY <2>2 DEF Plain, PathOf
    <3> QED BY <1>3, <3>1
  <2>3. CASE stack' = stack
    <3>1. PathOf(t)' = PathOf(t)
      BY <2>3 DEF PathOf, Top
    <3>2. CASE PathOf(t) = {}
      BY <1>3, <3>1, <3>2
    <3>3. CASE PathOf(t) # {}
      <4>1. Top.kind = "type" /\ Top.phase = "expand"
        BY <3>3 DEF PathOf
      <4>2. ~Fold /\ ~OwnType
        BY <4>1 DEF Fold, OwnType, AtType, AtElement
      <4>3. content' = content
        BY <1>7, <4>2, ContentKept
      <4> QED BY <1>4, <3>1, <4>3
    <3> QED BY <3>2, <3>3
  <2> QED BY <2>1, <2>2, <2>3
<1> QED BY <1>5, <1>6, <1>7

LEMMA NestedAlways == Spec => []Nested
<1>1. Init => Nested
  BY NestedInit
<1>2. TypeInv /\ ResolveInv /\ FreshPaths /\ Origins /\ Nested /\ [Next]_vars => Nested'
  BY NestedStep
<1> QED BY <1>1, <1>2, TypeAlways, ResolveAlways, SpreadAlways, PTL DEF Spec

\* A reference that is refused is left however deep the model is written out.
LEMMA RefusedGroup ==
  ASSUME TypeInv, Nested, RejectGroup
  PROVE  Top.of \in Type /\ Spread(Top.of) \in Seq(Token) /\ ~NoGroup(Spread(Top.of))
<1> DEFINE t == Top.of
           c == content[t]
           p == GroupAt
           x == c[p]
           path == Top.path
           l == LevelAt(c, path, p)
<1>1. /\ stack # <<>> /\ Top.kind = "type" /\ Top.phase = "expand" /\ p # 0 /\ ~Expandable(x.of)
      /\ TypeOK /\ schema \in Schemas
  BY DEF RejectGroup, AtType, Here, TypeInv
<1>2. t \in Type /\ path \in SUBSET Path /\ PathOf(t) = path
  BY <1>1, TopTyped DEF TypeFrames, Path, PathOf
<1>3. c \in Seq(Token) /\ Len(c) \in Nat
  BY <1>2, ContentTyped
<1>4. p \in 1..Len(c) /\ x.kind = "group"
  <2> DEFINE kinds == {"group"}
             u == t
  <2>1. NextToken(u, 1, kinds) # 0 /\ Len(content[u]) \in Nat /\ 1 \in Nat \ {0}
    BY <1>1, <1>3 DEF GroupAt
  <2> HIDE DEF u, kinds
  <2>2. NextToken(u, 1, kinds) \in 1..Len(content[u]) /\ content[u][NextToken(u, 1, kinds)].kind \in kinds
    BY <2>1, NextTokenIsToken
  <2> QED BY <2>2 DEF u, kinds, GroupAt
<1>5. x \in Token /\ x.of \in Group /\ l \in 0..GroupCount /\ Level(l) \in Models
  <2>1. x \in Token
    BY <1>3, <1>4
  <2> QED BY <1>1, <1>2, <1>4, <2>1, LevelAtTyped, TokenTyped
<1>6. ASSUME Stands(x, Level(l)) PROVE ~NoGroup(Level(l)[x.of])
  <2>1. x.of \in schema.groupNames /\ schema.groups[x.of] # <<>>
    BY <1>1, <1>5, <1>6, LevelEmpty DEF Stands
  <2>2. Cyclic(x.of)
    BY <1>1, <2>1 DEF Expandable
  <2>3. x.of \in Active(c, path, p)
    BY <2>2 DEF Cyclic, Within, Behind, Active
  <2>4. NestedIn(c, path)
    BY <1>2 DEF Nested
  <2>5. NeedsFirst(x.of, x.of)
    BY <1>4, <2>3, <2>4 DEF NestedIn
  <2> QED BY <1>1, <1>5, <2>5, NeverWrittenOut
<1>7. ~NoGroup(One(x, Level(l)))
  BY <1>4, <1>5, <1>6, GroupLeft
<1>8. /\ Pieces(c, path) \in Seq(Seq(Token)) /\ Len(Pieces(c, path)) = Len(c)
      /\ Pieces(c, path)[p] = One(x, Level(l)) /\ Expanded(c, path) \in Seq(Token)
  BY <1>1, <1>2, <1>3, <1>4, PiecesTyped
<1>9. Spread(t) = Expanded(c, path)
  BY <1>2 DEF Spread
<1> HIDE DEF t, c, x, l, path, p
<1>10. Range(One(x, Level(l))) \subseteq Range(Expanded(c, path))
  <2>1. Range(FlattenSeq(Pieces(c, path))) = UNION {Range(Pieces(c, path)[i]) : i \in 1..Len(Pieces(c, path))}
    BY <1>8, FlattenMembers
  <2> QED BY <1>4, <1>8, <2>1 DEF Expanded
<1>11. One(x, Level(l)) \in Seq(Token)
  BY <1>5, OneTyped
<1>12. ~NoGroup(Expanded(c, path))
  <2>1. ~(\A y \in Range(One(x, Level(l))) : y.kind # "group")
    BY <1>7, <1>11, NoGroupRange
  <2>2. ~(\A y \in Range(Expanded(c, path)) : y.kind # "group")
    BY <1>10, <2>1
  <2> QED BY <1>8, <2>2, NoGroupRange
<1> QED BY <1>2, <1>8, <1>9, <1>12 DEF t
-----------------------------------------------------------------------------
(* Where what a type holds comes from.                                     *)

\* The same model but for the types its elements are linked to.
LEMMA UnlinkedSame ==
  ASSUME NEW c \in Seq(Token), NEW d \in Seq(Token), Unlinked(c) = Unlinked(d)
  PROVE  Leaves(c) = Leaves(d) /\ (c = <<>> <=> d = <<>>) /\ (IsAll(c) <=> IsAll(d))
<1>1. /\ DOMAIN c = 1..Len(c) /\ DOMAIN d = 1..Len(d) /\ Len(c) \in Nat /\ Len(d) \in Nat
      /\ \A i \in 1..Len(c) : c[i] \in Token
      /\ \A i \in 1..Len(d) : d[i] \in Token
  BY ElementOfSeq
<1>2. DOMAIN c = DOMAIN d
  <2>1. DOMAIN Unlinked(c) = DOMAIN c /\ DOMAIN Unlinked(d) = DOMAIN d
    BY DEF Unlinked
  <2> QED BY <2>1, Zenon
<1>3. c = <<>> <=> d = <<>>
  <2>1. \A e \in Seq(Token) : e = <<>> <=> DOMAIN e = {}
    OBVIOUS
  <2> QED BY <1>2, <2>1
<1>4. ASSUME c # <<>> PROVE c[1].kind = d[1].kind /\ c[1].of = d[1].of
  <2>1. 1 \in DOMAIN c /\ 1 \in DOMAIN d /\ c[1] \in Token /\ d[1] \in Token
    BY <1>1, <1>2, <1>4
  <2>2. Bare(c[1]) = Bare(d[1])
    BY <2>1 DEF Unlinked, Bare
  <2>3. ASSUME NEW x \in Token PROVE Bare(x).kind = x.kind /\ Bare(x).of = x.of
    <3>1. ASSUME NEW K, NEW O, x \in [kind : K, of : O, occurs : Nat, linked : BOOLEAN]
          PROVE  Bare(x).kind = x.kind /\ Bare(x).of = x.of
      BY <3>1 DEF Bare
    <3> QED BY <3>1, Zenon DEF Token, Bracket, Particles, GroupRef
  <2> QED BY <2>1, <2>2, <2>3
<1>5. IsAll(c) <=> IsAll(d)
  BY <1>3, <1>4 DEF IsAll
<1> QED BY <1>3, <1>5, LeavesUnlinked

\* A model c of type t into which n bases were folded.
SourcesOf(t, c, n) ==
  /\ n = 0 => Unlinked(c) = Unlinked(Own(t))
  /\ Range(Leaves(Own(t))) \subseteq Range(Leaves(c))
  /\ \A leaf \in Range(Leaves(c)) : \E a \in {t} \cup Ancestors(t) : leaf \in Range(Leaves(Own(a)))
  /\ c # <<>> => \E a \in {t} \cup Ancestors(t) : Own(a) # <<>>
  /\ IsAll(c) => \E a \in {t} \cup Ancestors(t) : IsAll(Own(a))

LEMMA SourcesUnlinked ==
  ASSUME NEW t, NEW c \in Seq(Token), NEW d \in Seq(Token), Unlinked(d) = Unlinked(c),
         NEW n, NEW m, m = 0 => n = 0, SourcesOf(t, c, n)
  PROVE  SourcesOf(t, d, m)
<1>1. Leaves(c) = Leaves(d) /\ (c = <<>> <=> d = <<>>) /\ (IsAll(c) <=> IsAll(d))
  BY UnlinkedSame
<1> QED BY <1>1 DEF SourcesOf

LEMMA OwnTyped ==
  ASSUME schema \in Schemas, NEW t \in Type
  PROVE  Own(t) \in Seq(Token)
<1>1. schema.content[t] \in Seq(Token) /\ WrittenOut \in Models
  <2>1. GroupCount \in 0..GroupCount
    BY LevelTyped
  <2> QED BY <2>1, SchemaTyped, LevelTyped DEF Content, Token
<1> QED BY <1>1, OnesTyped DEF Own

LEMMA SourcesOwn ==
  ASSUME schema \in Schemas, NEW t \in Type
  PROVE  SourcesOf(t, Own(t), 0)
BY OwnTyped DEF SourcesOf

LEMMA SourcesFold ==
  ASSUME schema \in Schemas, NEW t \in Type, schema.base[t] \in Type,
         NEW c \in Seq(Token), NEW d \in Seq(Token), NEW n, NEW k, NEW m, m # 0,
         SourcesOf(t, c, n), SourcesOf(schema.base[t], d, k)
  PROVE  SourcesOf(t, ConcatContent(d, c), m)
<1> DEFINE b == schema.base[t]
           e == ConcatContent(d, c)
           A == {t} \cup Ancestors(t)
<1>1. Leaves(c) \in Seq(Leaf) /\ Leaves(d) \in Seq(Leaf) /\ Leaves(e) = Leaves(d) \o Leaves(c)
  BY LeavesTyped, LeavesFold
<1>2. Range(Leaves(e)) = Range(Leaves(d)) \cup Range(Leaves(c))
  <2>1. ASSUME NEW u \in Seq(Leaf), NEW v \in Seq(Leaf) PROVE Range(u \o v) = Range(u) \cup Range(v)
    BY RangeConcat
  <2> HIDE DEF e
  <2> QED BY <1>1, <2>1
<1>3. {b} \cup Ancestors(b) \subseteq A
  BY AncestorsOfBase
<1>4. e # <<>> => c # <<>> \/ d # <<>>
  BY DEF ConcatContent
<1>5. IsAll(e) => IsAll(c) \/ IsAll(d)
  <2>1. CASE c # <<>> /\ d # <<>>
    <3>1. e = <<Open("sequence", 1)>> \o d \o c \o <<Close>>
      BY <2>1 DEF ConcatContent
    <3> DEFINE o == Open("sequence", 1)
    <3>2. o \in Token /\ Close \in Token /\ o.of = "sequence"
      BY DEF Open, Close, Token, Bracket, Compositor
    <3> HIDE DEF o, e
    <3>3. e[1] = o
      BY <3>1, <3>2 DEF o
    <3> QED BY <3>2, <3>3 DEF IsAll
  <2>2. CASE c = <<>> \/ d = <<>>
    BY <2>2 DEF ConcatContent, IsAll
  <2> QED BY <2>1, <2>2
<1> HIDE DEF e, b, A
<1>6. /\ Range(Leaves(Own(t))) \subseteq Range(Leaves(c))
      /\ \A leaf \in Range(Leaves(c)) : \E a \in {t} \cup Ancestors(t) : leaf \in Range(Leaves(Own(a)))
      /\ c # <<>> => \E a \in A : Own(a) # <<>>
      /\ IsAll(c) => \E a \in A : IsAll(Own(a))
  BY DEF SourcesOf, A
<1>7. /\ \A leaf \in Range(Leaves(d)) : \E a \in {b} \cup Ancestors(b) : leaf \in Range(Leaves(Own(a)))
      /\ d # <<>> => \E a \in {b} \cup Ancestors(b) : Own(a) # <<>>
      /\ IsAll(d) => \E a \in {b} \cup Ancestors(b) : IsAll(Own(a))
  BY DEF SourcesOf, b
<1>8. e # <<>> => \E a \in A : Own(a) # <<>>
  BY <1>3, <1>4, <1>6, <1>7
<1>9. IsAll(e) => \E a \in A : IsAll(Own(a))
  BY <1>3, <1>5, <1>6, <1>7
<1>10. /\ Range(Leaves(Own(t))) \subseteq Range(Leaves(e))
       /\ \A leaf \in Range(Leaves(e)) : \E a \in A : leaf \in Range(Leaves(Own(a)))
  <2>1. \A leaf \in Range(Leaves(c)) : \E a \in A : leaf \in Range(Leaves(Own(a)))
    BY <1>6 DEF A
  <2>2. \A leaf \in Range(Leaves(d)) : \E a \in A : leaf \in Range(Leaves(Own(a)))
    BY <1>3, <1>7
  <2> QED BY <1>2, <1>6, <2>1, <2>2
<1> QED BY <1>8, <1>9, <1>10, Zenon DEF SourcesOf, A, e

LEMMA SourcesKept ==
  ASSUME schema' = schema, NEW t, NEW c, NEW n
  PROVE  SourcesOf(t, c, n)' = SourcesOf(t, c, n)
<1>1. \A a : Own(a)' = Own(a)
  BY SMT DEF Own, WrittenOut, Inline
<1>2. Ancestors(t)' = Ancestors(t)
  BY SMT DEF Ancestors, Deep
<1> QED BY <1>1, <1>2 DEF SourcesOf
-----------------------------------------------------------------------------
LEMMA SpreadTyped ==
  ASSUME TypeInv, NEW t \in Type
  PROVE  Spread(t) \in Seq(Token)
<1>1. PathOf(t) \in SUBSET Path
  BY TopTyped DEF PathOf, TypeInv, TypeFrames, Path
<1> QED BY <1>1, ContentTyped, PiecesTyped DEF Spread, TypeInv

LEMMA SpreadTypedStep ==
  ASSUME TypeInv, [Next]_vars, NEW t \in Type
  PROVE  Spread(t)' \in Seq(Token)
<1>0. schema' = schema /\ schema \in Schemas /\ TypeOK'
  BY StepKeeps, TypeStep DEF TypeInv
<1>1. content'[t] \in Seq(Token)
  BY <1>0 DEF TypeOK, Content, Token
<1>2. PathOf(t)' \in SUBSET Path
  <2>1. stack' \in Seq(Frame)
    BY <1>0 DEF TypeOK
  <2>2. CASE stack' # <<>> /\ Top'.kind = "type"
    <3>1. Top' \in Frame
      <4>1. Len(stack') \in 1..Len(stack')
        BY <2>1, <2>2
      <4>2. stack'[Len(stack')] \in Frame
        BY <2>1, <4>1, ElementOfSeq
      <4> QED BY <4>2 DEF Top
    <3>2. Top'.path \in SUBSET Path
      BY <2>2, <3>1 DEF Frame, TypeFrames, ElementFrames, Path
    <3> QED BY <3>2 DEF PathOf
  <2>3. CASE ~(stack' # <<>> /\ Top'.kind = "type")
    BY <2>3 DEF PathOf
  <2> QED BY <2>2, <2>3
<1>3. PICK c, q : c = content'[t] /\ q = PathOf(t)'
  OBVIOUS
<1>4. Spread(t)' = Expanded(c, q)'
  BY <1>3 DEF Spread
<1>5. Expanded(c, q)' = Expanded(c, q)
  BY <1>0, ExpandedKept
<1>6. Expanded(c, q) \in Seq(Token)
  BY <1>0, <1>1, <1>2, <1>3, PiecesTyped
<1> QED BY <1>4, <1>5, <1>6

\* Only a fold counts.
LEMMA FoldsCount ==
  ASSUME TypeInv, [Next]_vars
  PROVE  \/ folds' = folds /\ ~Fold
         \/ Fold /\ Top.of \in Type /\ folds' = [folds EXCEPT ![Top.of] = @ + 1]
<1>1. CASE Fold
  BY <1>1, FoldBase DEF Fold
<1>2. CASE ~Fold
  <2>1. CASE ResolveBase \/ SimpleBase
    BY <1>2, <2>1 DEF ResolveBase, SimpleBase
  <2>2. CASE ~ResolveBase /\ ~SimpleBase
    BY <1>2, <2>2, StepKeeps
  <2> QED BY <1>2, <2>1, <2>2
<1> QED BY <1>1, <1>2

\* What every type holds is its own or an ancestor's.
Sources == \A t \in Type : SourcesOf(t, Spread(t), folds[t])

LEMMA SourcesInit ==
  ASSUME Init
  PROVE  Sources
<1>1. schema \in Schemas /\ \A t \in Type : folds[t] = 0
  BY DEF Init
<1> QED BY <1>1, SpreadInit, SourcesOwn DEF Sources

LEMMA SourcesStep ==
  ASSUME TypeInv, ResolveInv, FreshPaths, Origins, Sources, [Next]_vars
  PROVE  Sources'
<1> SUFFICES ASSUME NEW t \in Type PROVE SourcesOf(t, Spread(t), folds[t])'
  BY DEF Sources
<1>0. schema' = schema /\ schema \in Schemas /\ folds \in [Type -> Nat]
  BY StepKeeps DEF TypeInv, TypeOK
<1>1. PICK c, d, n, m : c = Spread(t) /\ d = Spread(t)' /\ n = folds[t] /\ m = folds'[t]
  OBVIOUS
<1>2. c \in Seq(Token) /\ d \in Seq(Token) /\ SourcesOf(t, c, n)
  BY <1>1, SpreadTyped, SpreadTypedStep DEF Sources
<1>3. n \in Nat /\ (m = n \/ m = n + 1) /\ (Fold /\ t = Top.of => m = n + 1)
  BY <1>0, <1>1, FoldsCount
<1>4. SourcesOf(t, d, m)
  <2>1. CASE Unlinked(Spread(t)') = Unlinked(Spread(t))
    <3>1. Unlinked(d) = Unlinked(c) /\ (m = 0 => n = 0)
      BY <1>1, <1>3, <2>1
    <3> QED BY <1>2, <3>1, SourcesUnlinked
  <2>2. CASE Folds(t)
    <3>1. /\ Fold /\ t = Top.of /\ parent[t] \in Type /\ parent[t] = schema.base[t]
          /\ d = ConcatContent(Spread(parent[t]), c)
      BY <1>1, <2>2 DEF Folds, Origins
    <3>2. PICK b, e, k : b = schema.base[t] /\ e = Spread(b) /\ k = folds[b]
      OBVIOUS
    <3>3. b \in Type /\ e \in Seq(Token) /\ SourcesOf(b, e, k) /\ d = ConcatContent(e, c)
      BY <3>1, <3>2, SpreadTyped DEF Sources
    <3>4. m # 0
      BY <1>3, <3>1
    <3> QED BY <1>0, <1>2, <3>2, <3>3, <3>4, SourcesFold
  <2> QED BY <2>1, <2>2, SpreadStep
<1>5. SourcesOf(t, d, m)'
  BY <1>0, <1>4, SourcesKept
<1> QED BY <1>1, <1>5, Zenon

LEMMA FoldAlways == Spec => []FoldInv
<1>1. Init => FoldInv
  BY DEF Init, FoldInv, Waits
<1>2. TypeInv /\ FoldInv /\ [Next]_vars => FoldInv'
  BY FoldStep
<1> QED BY <1>1, <1>2, TypeAlways, PTL DEF Spec

LEMMA SourcesAlways == Spec => []Sources
<1>1. Init => Sources
  BY SourcesInit
<1>2. TypeInv /\ ResolveInv /\ FreshPaths /\ Origins /\ Sources /\ [Next]_vars => Sources'
  BY SourcesStep
<1> QED BY <1>1, <1>2, TypeAlways, ResolveAlways, SpreadAlways, PTL DEF Spec
-----------------------------------------------------------------------------
(* Where the attributes of a type come from.                               *)

GroupAttrs(g) ==
  IF g \in schema.attrGroupNames \ schema.late THEN schema.attrGroups[g].attrs ELSE <<>>
Pending(refs) == UNION {Range(GroupAttrs(refs[i])) : i \in 1..Len(refs)}

LEMMA GroupAttrsTyped ==
  ASSUME schema \in Schemas, NEW g \in AttrGroup
  PROVE  GroupAttrs(g) \in Seq(AttrDecl)
BY AttrsOfSchema DEF GroupAttrs

LEMMA OwnAttrsMembers ==
  ASSUME schema \in Schemas, NEW t \in Type
  PROVE  /\ OwnAttrs(t) \in Seq(AttrDecl)
         /\ Range(OwnAttrs(t)) = Range(schema.attrs[t]) \cup Pending(schema.attrGroupRefs[t])
<1> DEFINE refs == schema.attrGroupRefs[t]
           q == [i \in 1..Len(refs) |-> GroupAttrs(refs[i])]
           own == schema.attrs[t]
<1>1. own \in Seq(AttrDecl) /\ refs \in Seq(AttrGroup)
  BY AttrsOfSchema
<1>2. DOMAIN refs = 1..Len(refs) /\ Len(refs) \in Nat /\ \A i \in 1..Len(refs) : refs[i] \in AttrGroup
  BY <1>1
<1>3. OwnAttrs(t) = own \o FlattenSeq(q)
  BY <1>2 DEF OwnAttrs, GroupAttrs
<1> HIDE DEF refs, own
<1>4. q \in Seq(Seq(AttrDecl)) /\ Len(q) = Len(refs) /\ \A i \in 1..Len(refs) : q[i] = GroupAttrs(refs[i])
  <2>1. \A i \in 1..Len(refs) : GroupAttrs(refs[i]) \in Seq(AttrDecl)
    BY <1>2, GroupAttrsTyped
  <2> QED BY <1>2, <2>1
<1> HIDE DEF q
<1>5. FlattenSeq(q) \in Seq(AttrDecl) /\ Range(FlattenSeq(q)) = UNION {Range(q[i]) : i \in 1..Len(q)}
  BY <1>4, FlattenTyped, FlattenMembers
<1>6. UNION {Range(q[i]) : i \in 1..Len(q)} = Pending(refs)
  BY <1>4 DEF Pending
<1>7. ASSUME NEW u \in Seq(AttrDecl), NEW v \in Seq(AttrDecl)
      PROVE  u \o v \in Seq(AttrDecl) /\ Range(u \o v) = Range(u) \cup Range(v)
  BY RangeConcat
<1>8. OwnAttrs(t) \in Seq(AttrDecl) /\ Range(OwnAttrs(t)) = Range(own) \cup Range(FlattenSeq(q))
  BY <1>1, <1>3, <1>5, <1>7
<1> QED BY <1>5, <1>6, <1>8 DEF own, refs

\* What is inherited is the base's, and nothing of one's own is lost.
LEMMA InheritMembers ==
  ASSUME NEW S, NEW b \in Seq(S), NEW own \in Seq(S)
  PROVE  /\ Range(own) \subseteq Range(InheritAttrs(b, own))
         /\ Range(InheritAttrs(b, own)) \subseteq Range(b) \cup Range(own)
<1> DEFINE Restated(d) == \E i \in 1..Len(own) : KeyOf(own[i]) = KeyOf(d)
           x(i) == IF Restated(b[i]) THEN <<>> ELSE <<b[i]>>
           q == [i \in 1..Len(b) |-> x(i)]
<1>1. /\ Len(b) \in Nat /\ DOMAIN b = 1..Len(b)
      /\ \A i \in 1..Len(b) : x(i) \in Seq(S) /\ Range(x(i)) \subseteq Range(b)
  <2>1. ASSUME NEW i \in 1..Len(b) PROVE b[i] \in S /\ b[i] \in Range(b)
    BY DEF Range
  <2>2. ASSUME NEW y \in S PROVE <<y>> \in Seq(S) /\ <<>> \in Seq(S) /\ Range(<<y>>) = {y} /\ Range(<<>>) = {}
    BY DEF Range
  <2> HIDE DEF Restated
  <2> QED BY <2>1, <2>2
<1>2. InheritAttrs(b, own) = FlattenSeq(q) \o own
  BY DEF InheritAttrs
<1> HIDE DEF x
<1>3. q \in Seq(Seq(S)) /\ Len(q) = Len(b) /\ \A i \in 1..Len(b) : q[i] = x(i)
  BY <1>1
<1> HIDE DEF q
<1>4. FlattenSeq(q) \in Seq(S) /\ Range(FlattenSeq(q)) = UNION {Range(q[i]) : i \in 1..Len(q)}
  BY <1>3, FlattenTyped, FlattenMembers
<1>5. Range(FlattenSeq(q)) \subseteq Range(b)
  BY <1>1, <1>3, <1>4
<1>6. ASSUME NEW u \in Seq(S), NEW v \in Seq(S) PROVE Range(u \o v) = Range(u) \cup Range(v)
  BY RangeConcat
<1>7. Range(InheritAttrs(b, own)) = Range(FlattenSeq(q)) \cup Range(own)
  BY <1>2, <1>4, <1>6
<1> QED BY <1>5, <1>7

\* The list of type t with the references to attribute groups it still has.
AttrSourcesOf(t, list, refs) ==
  /\ \A d \in Range(list) : \E a \in Type : d \in Range(OwnAttrs(a))
  /\ Pending(refs) \subseteq Range(OwnAttrs(t))
  /\ Range(OwnAttrs(t)) \subseteq Range(list) \cup Pending(refs)

LEMMA AttrSourcesKept ==
  ASSUME schema' = schema, NEW t, NEW list, NEW refs
  PROVE  AttrSourcesOf(t, list, refs)' = AttrSourcesOf(t, list, refs)
<1>1. \A a : OwnAttrs(a)' = OwnAttrs(a)
  BY SMT DEF OwnAttrs
<1>2. Pending(refs)' = Pending(refs)
  BY SMT DEF Pending, GroupAttrs
<1> QED BY <1>1, <1>2 DEF AttrSourcesOf

LEMMA AttrSourcesFold ==
  ASSUME NEW t, NEW refs, NEW own \in Seq(AttrDecl), AttrSourcesOf(t, own, refs),
         NEW b, NEW others, NEW list \in Seq(AttrDecl), AttrSourcesOf(b, list, others)
  PROVE  AttrSourcesOf(t, InheritAttrs(list, own), refs)
<1>1. /\ Range(own) \subseteq Range(InheritAttrs(list, own))
      /\ Range(InheritAttrs(list, own)) \subseteq Range(list) \cup Range(own)
  BY InheritMembers
<1> QED BY <1>1 DEF AttrSourcesOf

LEMMA AttrSourcesApply ==
  ASSUME schema \in Schemas, NEW t \in Type, NEW list \in Seq(AttrDecl), NEW refs \in Seq(AttrGroup),
         refs # <<>>, AttrSourcesOf(t, list, refs)
  PROVE  AttrSourcesOf(t, list \o GroupAttrs(Head(refs)), Tail(refs))
<1> DEFINE g == Head(refs)
           n == Len(refs)
           rest == Tail(refs)
<1>1. n \in Nat \ {0} /\ g = refs[1] /\ g \in AttrGroup /\ Len(rest) = n - 1
      /\ \A i \in 1..(n - 1) : rest[i] = refs[i + 1]
  OBVIOUS
<1>2. GroupAttrs(g) \in Seq(AttrDecl)
  BY <1>1, GroupAttrsTyped
<1>3. Pending(refs) = Range(GroupAttrs(g)) \cup Pending(rest)
  <2> HIDE DEF g, n, rest
  <2>1. 1 \in 1..n /\ \A i \in 1..(n - 1) : i + 1 \in 1..n
    BY <1>1
  <2>2. \A i \in 1..n : i = 1 \/ (i - 1 \in 1..(n - 1) /\ (i - 1) + 1 = i)
    BY <1>1
  <2>3. ASSUME NEW d \in Pending(refs) PROVE d \in Range(GroupAttrs(g)) \cup Pending(rest)
    <3>1. PICK i \in 1..n : d \in Range(GroupAttrs(refs[i]))
      BY DEF Pending, n
    <3>2. CASE i = 1
      BY <1>1, <3>1, <3>2
    <3>3. CASE i # 1
      <4>1. i - 1 \in 1..(n - 1) /\ refs[i] = rest[i - 1]
        BY <1>1, <2>2, <3>3
      <4> QED BY <1>1, <3>1, <4>1 DEF Pending
    <3> QED BY <3>2, <3>3
  <2>4. Range(GroupAttrs(g)) \subseteq Pending(refs)
    BY <1>1, <2>1 DEF Pending, n
  <2>5. ASSUME NEW d \in Pending(rest) PROVE d \in Pending(refs)
    <3>1. PICK i \in 1..(n - 1) : d \in Range(GroupAttrs(rest[i]))
      BY <1>1 DEF Pending
    <3>2. i + 1 \in 1..n /\ d \in Range(GroupAttrs(refs[i + 1]))
      BY <1>1, <2>1, <3>1
    <3> QED BY <3>2 DEF Pending, n
  <2> QED BY <2>3, <2>4, <2>5
<1>4. ASSUME NEW u \in Seq(AttrDecl), NEW v \in Seq(AttrDecl) PROVE Range(u \o v) = Range(u) \cup Range(v)
  BY RangeConcat
<1>5. Range(list \o GroupAttrs(g)) = Range(list) \cup Range(GroupAttrs(g))
  BY <1>2, <1>4
<1> HIDE DEF g, rest
<1>6. Range(GroupAttrs(g)) \subseteq Range(OwnAttrs(t)) /\ Pending(rest) \subseteq Range(OwnAttrs(t))
  BY <1>3 DEF AttrSourcesOf
<1>7. AttrSourcesOf(t, list \o GroupAttrs(g), rest)
  BY <1>3, <1>5, <1>6 DEF AttrSourcesOf
<1> QED BY <1>7 DEF g, rest
-----------------------------------------------------------------------------
AttrSources == \A t \in Type : AttrSourcesOf(t, attrs[t], attrGroupRefs[t])

LEMMA AttrSourcesInit ==
  ASSUME Init
  PROVE  AttrSources
<1>1. schema \in Schemas /\ attrs = schema.attrs /\ attrGroupRefs = schema.attrGroupRefs
  BY DEF Init
<1>2. ASSUME NEW t \in Type PROVE AttrSourcesOf(t, schema.attrs[t], schema.attrGroupRefs[t])
  BY <1>1, OwnAttrsMembers DEF AttrSourcesOf
<1> QED BY <1>1, <1>2 DEF AttrSources

LEMMA AttrGroupRefsKept ==
  ASSUME [Next]_vars, ~ApplyAttrGroup
  PROVE  attrGroupRefs' = attrGroupRefs
BY DEF Next, Step, Done, vars, heap, loops, Reject, BeginElement, BeginType, EndPass, Alternative,
   RejectAlternative, OwnType, NoDerivation, RejectBase, SimpleBase, ResolveBase, RejectFold, Fold,
   RejectGroup, ExpandGroup, EndExpand, EndGroups, RejectRef, WalkElement, RejectAttribute,
   Return, Overflow

\* Groups are applied in the first pass only.
LEMMA AppliedFirst ==
  ASSUME TypeInv, ResolveInv, ApplyAttrGroup
  PROVE  /\ Top.of \in Type /\ attrGroupRefs[Top.of] \in Seq(AttrGroup) /\ attrGroupRefs[Top.of] # <<>>
         /\ attrs' = [attrs EXCEPT ![Top.of] = attrs[Top.of] \o GroupAttrs(Head(attrGroupRefs[Top.of]))]
         /\ attrGroupRefs' = [attrGroupRefs EXCEPT ![Top.of] = Tail(attrGroupRefs[Top.of])]
<1> DEFINE g == Head(attrGroupRefs[Top.of])
<1>1. stack # <<>> /\ Top.kind = "type" /\ attrGroupRefs[Top.of] # <<>>
  BY DEF ApplyAttrGroup, AtType
<1>2. PICK V \in SUBSET Type : Visited(V)
  BY DEF ResolveInv
<1>3. pass = 1
  <2>1. pass = 2 => attrGroupRefs[Top.of] = <<>>
    BY <1>1, <1>2, TopCall DEF Finished
  <2> QED BY <1>1, <2>1 DEF TypeInv, TypeOK
<1>4. g \in AttrGroup /\ Top.of \in Type
  BY AppliedGroup
<1>5. /\ attrs \in [Type -> Seq(AttrDecl)] /\ attrGroupRefs[Top.of] \in Seq(AttrGroup)
      /\ attrGroupRefs \in [Type -> Seq(AttrGroup)]
  BY <1>4 DEF TypeInv, AttrsTyped, TypeOK
<1>6. attrGroupRefs' = [attrGroupRefs EXCEPT ![Top.of] = Tail(attrGroupRefs[Top.of])]
  BY DEF ApplyAttrGroup
<1>7. CASE g \in AttrGroupsNow
  <2>1. GroupAttrs(g) = schema.attrGroups[g].attrs
    BY <1>3, <1>7 DEF AttrGroupsNow, GroupAttrs
  <2> QED BY <1>1, <1>4, <1>5, <1>6, <1>7, <2>1 DEF ApplyAttrGroup
<1>8. CASE g \notin AttrGroupsNow
  <2>1. GroupAttrs(g) = <<>>
    BY <1>3, <1>8 DEF AttrGroupsNow, GroupAttrs
  <2>2. attrs' = attrs
    BY <1>8 DEF ApplyAttrGroup
  <2>3. attrs[Top.of] \o <<>> = attrs[Top.of]
    BY <1>4, <1>5
  <2>4. attrs = [attrs EXCEPT ![Top.of] = attrs[Top.of]]
    BY <1>4, <1>5
  <2> QED BY <1>1, <1>4, <1>5, <1>6, <2>1, <2>2, <2>3, <2>4
<1> QED BY <1>7, <1>8

LEMMA AttrSourcesStep ==
  ASSUME TypeInv, ResolveInv, AttrSources, [Next]_vars
  PROVE  AttrSources'
<1>0. /\ schema' = schema /\ schema \in Schemas /\ attrs \in [Type -> Seq(AttrDecl)]
      /\ attrGroupRefs \in [Type -> Seq(AttrGroup)]
  BY StepKeeps DEF TypeInv, TypeOK, AttrsTyped
<1>1. ASSUME NEW t \in Type, NEW list, NEW refs, attrs'[t] = list, attrGroupRefs'[t] = refs,
             AttrSourcesOf(t, list, refs)
      PROVE  AttrSourcesOf(t, attrs[t], attrGroupRefs[t])'
  <2>1. AttrSourcesOf(t, attrs[t], attrGroupRefs[t])' <=> AttrSourcesOf(t, list, refs)'
    BY <1>1, Zenon
  <2>2. AttrSourcesOf(t, list, refs)' = AttrSourcesOf(t, list, refs)
    BY <1>0, AttrSourcesKept
  <2> QED BY <1>1, <2>1, <2>2
<1> SUFFICES ASSUME NEW t \in Type PROVE AttrSourcesOf(t, attrs[t], attrGroupRefs[t])'
  BY DEF AttrSources
<1>2. AttrSourcesOf(t, attrs[t], attrGroupRefs[t])
  BY DEF AttrSources
<1>3. CASE attrs'[t] = attrs[t] /\ attrGroupRefs'[t] = attrGroupRefs[t]
  <2>1. PICK list, refs : list = attrs[t] /\ refs = attrGroupRefs[t]
    OBVIOUS
  <2> QED BY <1>1, <1>2, <1>3, <2>1
<1>4. CASE Fold
  <2>1. Top.of \in Type /\ parent[Top.of] \in Type
    BY <1>4, FoldBase
  <2>2. attrs' = [attrs EXCEPT ![Top.of] = InheritAttrs(attrs[parent[Top.of]], attrs[Top.of])]
        /\ attrGroupRefs' = attrGroupRefs
    BY <1>4 DEF Fold
  <2>3. CASE t # Top.of
    BY <1>0, <1>3, <2>2, <2>3
  <2>4. CASE t = Top.of
    <3>1. PICK own, refs, b, list, others :
            /\ own = attrs[t] /\ refs = attrGroupRefs[t] /\ b = parent[t]
            /\ list = attrs[b] /\ others = attrGroupRefs[b]
      OBVIOUS
    <3>2. /\ own \in Seq(AttrDecl) /\ list \in Seq(AttrDecl)
          /\ AttrSourcesOf(t, own, refs) /\ AttrSourcesOf(b, list, others)
      BY <1>0, <1>2, <2>1, <2>4, <3>1 DEF AttrSources
    <3>3. AttrSourcesOf(t, InheritAttrs(list, own), refs)
      BY <3>2, AttrSourcesFold
    <3>4. attrs'[t] = InheritAttrs(list, own) /\ attrGroupRefs'[t] = refs
      BY <1>0, <2>1, <2>2, <2>4, <3>1
    <3>5. PICK x : x = InheritAttrs(list, own)
      OBVIOUS
    <3> QED BY <1>1, <3>3, <3>4, <3>5
  <2> QED BY <2>3, <2>4
<1>5. CASE ApplyAttrGroup
  <2>1. /\ Top.of \in Type /\ attrGroupRefs[Top.of] \in Seq(AttrGroup) /\ attrGroupRefs[Top.of] # <<>>
        /\ attrs' = [attrs EXCEPT ![Top.of] = attrs[Top.of] \o GroupAttrs(Head(attrGroupRefs[Top.of]))]
        /\ attrGroupRefs' = [attrGroupRefs EXCEPT ![Top.of] = Tail(attrGroupRefs[Top.of])]
    BY <1>5, AppliedFirst
  <2>2. CASE t # Top.of
    BY <1>0, <1>3, <2>1, <2>2
  <2>3. CASE t = Top.of
    <3>1. PICK own, refs : own = attrs[t] /\ refs = attrGroupRefs[t]
      OBVIOUS
    <3>2. own \in Seq(AttrDecl) /\ refs \in Seq(AttrGroup) /\ refs # <<>> /\ AttrSourcesOf(t, own, refs)
      BY <1>0, <1>2, <2>1, <2>3, <3>1
    <3>3. AttrSourcesOf(t, own \o GroupAttrs(Head(refs)), Tail(refs))
      BY <1>0, <3>2, AttrSourcesApply
    <3>4. PICK x, y : x = own \o GroupAttrs(Head(refs)) /\ y = Tail(refs)
      OBVIOUS
    <3>5. attrs'[t] = x /\ attrGroupRefs'[t] = y
      BY <1>0, <2>1, <2>3, <3>1, <3>4
    <3> QED BY <1>1, <3>3, <3>4, <3>5
  <2> QED BY <2>2, <2>3
<1>6. CASE ~Fold /\ ~ApplyAttrGroup
  <2>1. attrs' = attrs /\ attrGroupRefs' = attrGroupRefs
    BY <1>6, AttrsKept, AttrGroupRefsKept
  <2> QED BY <1>3, <2>1
<1> QED BY <1>4, <1>5, <1>6

LEMMA AttrSourcesAlways == Spec => []AttrSources
<1>1. Init => AttrSources
  BY AttrSourcesInit
<1>2. TypeInv /\ ResolveInv /\ AttrSources /\ [Next]_vars => AttrSources'
  BY AttrSourcesStep
<1> QED BY <1>1, <1>2, TypeAlways, ResolveAlways, PTL DEF Spec
-----------------------------------------------------------------------------
(* A schema is refused for a fault it has.                                 *)
Fault == \/ \E t \in Type : Faulty(t) \/ Clashes(t)
         \/ \E e \in Element : FaultyElement(e)

LEMMA FaultKept ==
  ASSUME schema' = schema
  PROVE  Fault' = Fault
<1>1. \A t : Own(t)' = Own(t)
  BY SMT DEF Own, WrittenOut, Inline
<1>2. \A t : Ancestors(t)' = Ancestors(t)
  BY SMT DEF Ancestors, Deep
<1>3. \A t : OwnAttrs(t)' = OwnAttrs(t)
  BY SMT DEF OwnAttrs
<1>4. \A t : Clashes(t)' = Clashes(t)
  BY <1>1, <1>2, SMT DEF Clashes, Circular, Extends, IsAll
<1>5. \A t : FaultyModel(t)' <=> FaultyModel(t)
  <2> TAKE t
  <2>1. \A leaf : KnownLeaf(leaf)' <=> KnownLeaf(leaf)
    BY DEF KnownLeaf
  <2>2. PICK c : c = Own(t)
    OBVIOUS
  <2>3. c = Own(t)'
    BY <1>1, <2>2
  <2>4. FaultyModel(t) <=> \E leaf \in Range(Leaves(c)) : ~KnownLeaf(leaf)
    BY <2>2 DEF FaultyModel
  <2>5. FaultyModel(t)' <=> \E leaf \in Range(Leaves(c)) : ~KnownLeaf(leaf)'
    BY <2>3 DEF FaultyModel
  <2> QED BY <2>1, <2>4, <2>5
<1>6. \A t : FaultyAttrs(t)' = FaultyAttrs(t)
  BY <1>3, SMT DEF FaultyAttrs
<1>7. \A t : Faulty(t)' = Faulty(t)
  BY <1>5, <1>6 DEF Faulty
<1>8. \A e : FaultyElement(e)' = FaultyElement(e)
  BY DEF FaultyElement
<1> QED BY <1>4, <1>7, <1>8 DEF Fault

LEMMA AlternativeFault ==
  ASSUME TypeInv, ResolveInv, RejectAlternative
  PROVE  Fault
<1>1. stack # <<>> /\ Top.kind = "element" /\ Top.calls # <<>> /\ Head(Top.calls) = Missing
  BY DEF RejectAlternative, AtElement
<1>2. PICK V \in SUBSET Type : Visited(V)
  BY DEF ResolveInv
<1>3. /\ Top.of \in Element /\ Top.calls \in Seq(Type \cup {Simple, Missing})
      /\ \A m \in 1..Len(Top.calls) :
            \E k \in 1..Len(schema.alternatives[Top.of]) : Top.calls[m] = schema.alternatives[Top.of][k]
  BY <1>1, <1>2, TopElement
<1>4. 1 \in 1..Len(Top.calls) /\ Top.calls[1] = Missing
  BY <1>1, <1>3
<1>5. Contains(schema.alternatives[Top.of], Missing)
  BY <1>3, <1>4 DEF Contains
<1> QED BY <1>3, <1>5 DEF Fault, FaultyElement

LEMMA BaseFault ==
  ASSUME TypeInv, Origins, RejectBase
  PROVE  Fault
<1>1. Top.of \in Type /\ base[Top.of] = Missing
  BY TopTyped DEF RejectBase, AtType, TypeInv
<1>2. schema.base[Top.of] = Missing
  BY <1>1, DerivationAssumption DEF Origins
<1> QED BY <1>1, <1>2 DEF Fault, Faulty

\* A leaf that is not known comes from a model that has it.
LEMMA LeafFault ==
  ASSUME Sources, NEW t \in Type, Spread(t) \in Seq(Token),
         NEW x \in Range(Spread(t)), IsLeaf(x), ~KnownLeaf(<<x.kind, x.of>>)
  PROVE  Fault
<1>1. <<x.kind, x.of>> \in Range(Leaves(Spread(t)))
  BY LeavesTyped
<1>2. PICK a \in Type : <<x.kind, x.of>> \in Range(Leaves(Own(a)))
  <2>1. Ancestors(t) \subseteq Type
    <3>1. \A u \in {t} \cup Type : schema.base[u] \in Type => schema.base[u] \in Type
      OBVIOUS
    <3> QED BY <3>1, AncestorsLeast
  <2> QED BY <1>1, <2>1 DEF Sources, SourcesOf
<1>3. FaultyModel(a)
  BY <1>2 DEF FaultyModel
<1> QED BY <1>3 DEF Fault, Faulty

LEMMA GroupFault ==
  ASSUME TypeInv, Nested, Sources, RejectGroup
  PROVE  Fault
<1>1. Top.of \in Type /\ Spread(Top.of) \in Seq(Token) /\ ~NoGroup(Spread(Top.of))
  BY RefusedGroup
<1>2. PICK x \in Range(Spread(Top.of)) : x.kind = "group"
  BY <1>1, NoGroupRange
<1>3. IsLeaf(x)
  BY <1>2 DEF IsLeaf
<1>4. ~KnownLeaf(<<x.kind, x.of>>)
  <2> DEFINE l == <<x.kind, x.of>>
  <2>1. l[1] = "group"
    BY <1>2
  <2> HIDE DEF l
  <2>2. ~KnownLeaf(l)
    BY <2>1 DEF KnownLeaf
  <2> QED BY <2>2 DEF l
<1> QED BY <1>1, <1>3, <1>4, LeafFault

LEMMA RefFault ==
  ASSUME TypeInv, ResolveInv, Sources, RejectRef
  PROVE  Fault
<1> DEFINE t == Top.of
           n == Top.at
           kinds == {"element", "ref"}
           x == content[t][ElementAt]
<1>1. stack # <<>> /\ Top.kind = "type" /\ Top.phase = "walk" /\ ElementAt # 0 /\ ~Known
  BY DEF RejectRef, AtType
<1>2. PICK V \in SUBSET Type : Visited(V)
  BY DEF ResolveInv
<1>3. t \in Type /\ Groupless(t) /\ n \in Nat \ {0} /\ content[t] \in Seq(Token) /\ Len(content[t]) \in Nat
  BY <1>1, <1>2, TopCall DEF Content, Token
<1>4. Spread(t) = content[t]
  BY <1>3, ExpandedNoGroup DEF Groupless, NoGroup, Spread
<1>5. ElementAt \in 1..Len(content[t]) /\ x.kind \in kinds
  <2>0. ElementAt = NextToken(t, n, kinds)
    BY DEF ElementAt
  <2> HIDE DEF t, n, kinds
  <2>1. NextToken(t, n, kinds) = 0 \/ (NextToken(t, n, kinds) \in 1..Len(content[t])
                                       /\ content[t][NextToken(t, n, kinds)].kind \in kinds)
    BY <1>3, NextTokenIsToken
  <2> QED BY <1>1, <2>0, <2>1
<1>6. x.kind = "ref" /\ x.of \notin schema.global
  BY <1>1, <1>5 DEF Known
<1>7. x \in Range(Spread(t)) /\ Spread(t) \in Seq(Token)
  <2>1. DOMAIN content[t] = 1..Len(content[t])
    BY <1>3
  <2> QED BY <1>3, <1>4, <1>5, <2>1 DEF Range
<1> HIDE DEF x, t
<1>8. IsLeaf(x)
  BY <1>6 DEF IsLeaf
<1>9. ~KnownLeaf(<<x.kind, x.of>>)
  <2> DEFINE l == <<x.kind, x.of>>
  <2>1. l[1] = "ref" /\ l[2] = x.of
    BY <1>6
  <2> HIDE DEF l
  <2>2. ~KnownLeaf(l)
    BY <1>6, <2>1 DEF KnownLeaf
  <2> QED BY <2>2 DEF l
<1> QED BY <1>3, <1>7, <1>8, <1>9, LeafFault

LEMMA AttributeFault ==
  ASSUME TypeInv, AttrSources, RejectAttribute
  PROVE  Fault
<1>1. Top.of \in Type /\ UnknownRef(Top.of)
  BY TopTyped DEF RejectAttribute, AtType, TypeInv
<1>2. PICK d \in AttrDecl : /\ schema.decl[d].ref /\ schema.decl[d].name \notin schema.globalAttrs
                            /\ \E i \in 1..Len(attrs[Top.of]) : attrs[Top.of][i] = d
  BY <1>1 DEF UnknownRef, References
<1>3. d \in Range(attrs[Top.of])
  <2>1. DOMAIN attrs[Top.of] = 1..Len(attrs[Top.of])
    BY <1>1 DEF TypeInv, AttrsTyped
  <2> QED BY <1>2, <2>1 DEF Range
<1>4. PICK a \in Type : d \in Range(OwnAttrs(a))
  BY <1>1, <1>3 DEF AttrSources, AttrSourcesOf
<1>5. FaultyAttrs(a)
  BY <1>2, <1>4 DEF FaultyAttrs, Range
<1> QED BY <1>5 DEF Fault, Faulty

\* Writing out the groups leaves an "all" at the top where it is.
LEMMA InlineAll ==
  ASSUME NEW c \in Seq(Token), c # <<>>, NEW f \in Models
  PROVE  Inline(c, f) # <<>> /\ (IsAll(c) => IsAll(Inline(c, f)))
<1> DEFINE x == c[1]
           y == Inline(Tail(c), f)
           d == Inline(c, f)
<1>1. x \in Token /\ Tail(c) \in Seq(Token) /\ d = One(x, f) \o y /\ d # <<>>
  BY InlineFirst
<1>2. y \in Seq(Token)
  BY <1>1, OnesTyped
<1>3. ASSUME IsAll(c) PROVE IsAll(d)
  <2>1. x.kind = "open" /\ x.of = "all"
    BY <1>3 DEF IsAll
  <2>2. One(x, f) = <<x>>
    BY <2>1 DEF One, Stands
  <2> HIDE DEF x, y, d
  <2>3. d[1] = x
    BY <1>1, <1>2, <2>2
  <2> QED BY <1>1, <2>1, <2>3 DEF IsAll
<1> QED BY <1>1, <1>3

LEMMA FoldFault ==
  ASSUME TypeInv, FoldInv, Origins, Sources, RejectFold
  PROVE  Fault
<1> DEFINE t == Top.of
           b == parent[t]
<1>1. /\ stack # <<>> /\ Top.kind = "type" /\ Top.phase = "fold" /\ Extends(t)
      /\ CannotConcat(content[b], content[t])
  BY DEF RejectFold, AtType
<1>2. t \in Type /\ Len(stack) \in 1..Len(stack) /\ schema \in Schemas
  BY <1>1, TopTyped DEF TypeInv
<1>3. b \in Type /\ b = schema.base[t]
  <2>1. b \in Type
    BY <1>1, <1>2 DEF TypeInv, BasesKnown, Top
  <2> QED BY <1>2, <2>1 DEF Origins
<1>4. folds[t] = 0
  BY <1>1, <1>2 DEF FoldInv, Waits, Top
<1>5. ASSUME NEW u \in Type, content[u] # <<>>
      PROVE  Spread(u) # <<>> /\ (IsAll(content[u]) => IsAll(Spread(u)))
  <2>1. PathOf(u) = {}
    BY <1>1 DEF PathOf
  <2>2. content[u] \in Seq(Token)
    BY ContentTyped
  <2>3. Spread(u) = Inline(content[u], WrittenOut)
    BY <1>2, <2>1, <2>2, ExpandedOutside DEF Spread
  <2>4. WrittenOut \in Models
    <3>1. GroupCount \in 0..GroupCount
      BY <1>2, LevelTyped
    <3> QED BY <1>2, <3>1, LevelTyped
  <2> QED BY <1>5, <2>2, <2>3, <2>4, InlineAll
<1>6. /\ Spread(t) # <<>> /\ Spread(b) # <<>> /\ (IsAll(Spread(t)) \/ IsAll(Spread(b)))
  BY <1>1, <1>2, <1>3, <1>5 DEF CannotConcat
<1>7. Own(t) # <<>> /\ (IsAll(Spread(t)) => IsAll(Own(t)))
  <2>1. Unlinked(Spread(t)) = Unlinked(Own(t))
    BY <1>2, <1>4 DEF Sources, SourcesOf
  <2>2. Spread(t) \in Seq(Token) /\ Own(t) \in Seq(Token)
    BY <1>2, SpreadTyped, OwnTyped
  <2> QED BY <1>6, <2>1, <2>2, UnlinkedSame
<1>8. Ancestors(t) = {b} \cup Ancestors(b)
  BY <1>2, <1>3, AncestorsOfBase
<1>9. /\ \E a \in Ancestors(t) : Own(a) # <<>>
      /\ IsAll(Spread(b)) => \E a \in Ancestors(t) : IsAll(Own(a))
  BY <1>3, <1>6, <1>8 DEF Sources, SourcesOf
<1>10. Clashes(t)
  <2> DEFINE models == {<<a, Own(a)>> : a \in Ancestors(t) \cup {t}}
  <2>1. ASSUME NEW a \in Ancestors(t), NEW m \in {<<t, Own(t)>>, <<a, Own(a)>>},
               NEW n \in {<<t, Own(t)>>, <<a, Own(a)>>}, m[1] # n[1] \/ a = t, IsAll(m[2]), n[2] # <<>>
        PROVE  Clashes(t)
    <3>1. m \in models /\ n \in models
      OBVIOUS
    <3>2. m # n \/ Circular(t)
      BY <2>1 DEF Circular
    <3> QED BY <1>1, <1>3, <2>1, <3>1, <3>2 DEF Clashes
  <2>2. CASE IsAll(Spread(t))
    <3>1. PICK a \in Ancestors(t) : Own(a) # <<>>
      BY <1>9
    <3>2. PICK m, n : m = <<t, Own(t)>> /\ n = <<a, Own(a)>>
      OBVIOUS
    <3>3. m[1] = t /\ m[2] = Own(t) /\ n[1] = a /\ n[2] = Own(a)
      BY <3>2
    <3> QED BY <1>7, <2>1, <2>2, <3>1, <3>2, <3>3
  <2>3. CASE IsAll(Spread(b))
    <3>1. PICK a \in Ancestors(t) : IsAll(Own(a))
      BY <1>9, <2>3
    <3>2. PICK m, n : m = <<a, Own(a)>> /\ n = <<t, Own(t)>>
      OBVIOUS
    <3>3. n[1] = t /\ n[2] = Own(t) /\ m[1] = a /\ m[2] = Own(a)
      BY <3>2
    <3> QED BY <1>7, <2>1, <3>1, <3>2, <3>3
  <2> QED BY <1>6, <2>2, <2>3
<1> QED BY <1>2, <1>10 DEF Fault

Blame == outcome = "error" => Fault

LEMMA BlameStep ==
  ASSUME TypeInv, ResolveInv, Origins, FoldInv, Nested, Sources, AttrSources, Blame, [Next]_vars
  PROVE  Blame'
<1>0. Fault' = Fault
  BY StepKeeps, FaultKept
<1>1. CASE UNCHANGED vars
  BY <1>0, <1>1 DEF vars, Blame
<1>2. CASE EndPass
  <2>1. outcome = "running" /\ (outcome' = outcome \/ outcome' = "ok")
    BY <1>2, Zenon DEF EndPass, Running
  <2> QED BY <2>1 DEF Blame
<1>3. \/ \E e \in Element : BeginElement(e)
      \/ \E t \in Type : BeginType(t)
      \/ Alternative \/ OwnType
      \/ NoDerivation \/ SimpleBase \/ ResolveBase \/ Fold
      \/ ExpandGroup \/ EndExpand \/ ApplyAttrGroup \/ EndGroups
      \/ WalkElement \/ Return
      => outcome' = "running"
  BY Zenon DEF BeginElement, BeginType, Alternative, OwnType, NoDerivation, SimpleBase, ResolveBase, Fold,
     ExpandGroup, EndExpand, ApplyAttrGroup, EndGroups, WalkElement, Return, AtType, AtElement, Running
<1>4. CASE \/ RejectAlternative \/ RejectBase \/ RejectFold \/ RejectGroup \/ RejectRef \/ RejectAttribute
  <2>1. Fault
    BY <1>4, AlternativeFault, BaseFault, FoldFault, GroupFault, RefFault, AttributeFault
  <2> QED BY <1>0, <2>1 DEF Blame
<1>5. CASE Overflow
  BY <1>5 DEF Overflow, Blame
<1> QED BY <1>1, <1>2, <1>3, <1>4, <1>5 DEF Next, Step, Done, Blame

\* What is accepted is without fault.
LEMMA AcceptedFaultless ==
  ASSUME TypeInv, AcceptedResolved, Origins, Sources, AttrSources, outcome = "ok"
  PROVE  /\ \A t \in schema.named : ~Faulty(t)
         /\ \A e \in schema.global : ~FaultyElement(e)
<1>1. PICK V \in SUBSET Type : /\ schema.named \subseteq V
                               /\ \A t \in V : Finished(t, V)
                               /\ \A e \in schema.global : Settled(e, V)
  BY DEF AcceptedResolved
<1>2. Missing \notin Type /\ Missing # NoType
  BY DerivationAssumption
<1>3. ASSUME NEW e \in schema.global PROVE ~FaultyElement(e)
  BY <1>1, <1>2 DEF FaultyElement, Contains, Settled
<1>4. ASSUME NEW t \in schema.named PROVE ~Faulty(t)
  <2>1. t \in Type /\ Finished(t, V) /\ content[t] \in Seq(Token)
    BY <1>1, ContentTyped
  <2>2. schema.base[t] # Missing
    BY <1>2, <2>1 DEF Finished, Origins
  <2>3. ~FaultyModel(t)
    <3>1. Range(Leaves(Own(t))) \subseteq Range(Leaves(content[t]))
      BY <2>1, NothingToSpread DEF Sources, SourcesOf
    <3>2. Range(Leaves(content[t])) = {<<x.kind, x.of>> : x \in {y \in Range(content[t]) : IsLeaf(y)}}
      BY <2>1, LeavesTyped
    <3>3. ASSUME NEW x \in Range(content[t]), IsLeaf(x) PROVE KnownLeaf(<<x.kind, x.of>>)
      <4> DEFINE l == <<x.kind, x.of>>
      <4>1. Len(content[t]) \in Nat /\ DOMAIN content[t] = 1..Len(content[t])
        BY <2>1
      <4>2. PICK j \in 1..Len(content[t]) : x = content[t][j]
        BY <4>1 DEF Range
      <4>3. j < Len(content[t]) + 1
        BY <4>1
      <4>4. x.kind \in {"element", "ref"}
        BY <2>1, <3>3, <4>2 DEF Finished, Groupless, IsLeaf
      <4>5. RefKnown(x)
        BY <2>1, <4>2, <4>3, <4>4 DEF Finished, WalkedTo, IsElement
      <4>6. l[1] = x.kind /\ l[2] = x.of
        OBVIOUS
      <4> HIDE DEF l
      <4>7. KnownLeaf(l)
        BY <4>4, <4>5, <4>6 DEF KnownLeaf, RefKnown
      <4> QED BY <4>7 DEF l
    <3> QED BY <3>1, <3>2, <3>3 DEF FaultyModel
  <2>4. ~FaultyAttrs(t)
    <3>1. Pending(attrGroupRefs[t]) = {}
      <4>1. Len(attrGroupRefs[t]) = 0
        BY <2>1 DEF Finished
      <4> QED BY <4>1 DEF Pending
    <3>2. Range(OwnAttrs(t)) \subseteq Range(attrs[t])
      BY <2>1, <3>1 DEF AttrSources, AttrSourcesOf
    <3>3. attrs[t] \in Seq(AttrDecl)
      BY <2>1 DEF TypeInv, AttrsTyped
    <3>4. ASSUME NEW d \in Range(attrs[t]), schema.decl[d].ref PROVE schema.decl[d].name \in schema.globalAttrs
      <4>1. d \in AttrDecl /\ \E i \in 1..Len(attrs[t]) : attrs[t][i] = d
        BY <3>3 DEF Range
      <4> QED BY <2>1, <3>4, <4>1 DEF Finished, UnknownRef, References
    <3>5. \A i \in DOMAIN OwnAttrs(t) : OwnAttrs(t)[i] \in Range(attrs[t])
      BY <3>2 DEF Range
    <3> QED BY <3>4, <3>5 DEF FaultyAttrs
  <2> QED BY <2>2, <2>3, <2>4 DEF Faulty
<1> QED BY <1>3, <1>4

\* A schema is refused only for a fault it has: a base, group, reference,
\* attribute or conditional type that is nowhere declared, a group that holds
\* itself, or an "all" where a model would have to be added to it.  And none is
\* accepted with a fault of the first five kinds in a type it names or in a
\* global element, whatever leads there and in whatever order.
THEOREM OnlyFaultsRefused == Spec => []RefusesFaults
<1>1. Init => Blame
  BY DEF Init, Blame
<1>2. TypeInv /\ ResolveInv /\ Origins /\ FoldInv /\ Nested /\ Sources /\ AttrSources /\ Blame /\ [Next]_vars
        => Blame'
  BY BlameStep
<1>3. TypeInv /\ AcceptedResolved /\ Origins /\ Sources /\ AttrSources /\ Blame => RefusesFaults
  BY AcceptedFaultless DEF RefusesFaults, Blame, Fault
<1> QED BY <1>1, <1>2, <1>3, TypeAlways, ResolveAlways, SpreadAlways, FoldAlways, NestedAlways,
           SourcesAlways, AttrSourcesAlways, AcceptedIsResolved, PTL DEF Spec
-----------------------------------------------------------------------------
(* The types that a type leads to.                                         *)

\* What is made of a step by step is what H makes of it again and again.
LEMMA IteratesIn ==
  ASSUME NEW D, NEW a \in D, NEW H \in [D -> D], NEW N \in Nat, NEW c,
         DOMAIN c = 0..N, c[0] = a, \A n \in 1..N : c[n - 1] \in D => c[n] = H[c[n - 1]]
  PROVE  (\A n \in 0..N : c[n] \in D) /\ Iterates(c, H, a, N)
<1> DEFINE T == {n \in Nat : n <= N => c[n] \in D}
<1>1. 0 \in T
  OBVIOUS
<1>2. ASSUME NEW n \in Nat, n \in T PROVE n + 1 \in T
  <2> SUFFICES ASSUME n + 1 <= N PROVE c[n + 1] \in D
    OBVIOUS
  <2>1. n + 1 \in 1..N /\ (n + 1) - 1 = n /\ c[n] \in D
    BY <1>2
  <2>2. c[n + 1] = H[c[n]]
    BY <2>1
  <2> QED BY <2>1, <2>2
<1>3. Nat \subseteq T
  <2> HIDE DEF T
  <2> QED BY <1>1, <1>2, Upwards
<1>4. \A n \in 0..N : c[n] \in D
  BY <1>3
<1>5. \A n \in 1..N : n - 1 \in 0..N
  OBVIOUS
<1> QED BY <1>4, <1>5 DEF Iterates

LEMMA IteratesAlike ==
  ASSUME NEW H, NEW a, NEW n \in Nat, NEW m \in Nat, n <= m, NEW f, NEW g,
         Iterates(f, H, a, n), Iterates(g, H, a, m)
  PROVE  \A k \in 0..n : f[k] = g[k]
<1> DEFINE T == {k \in Nat : k <= n => f[k] = g[k]}
<1>1. 0 \in T
  BY DEF Iterates
<1>2. ASSUME NEW k \in Nat, k \in T PROVE k + 1 \in T
  <2> SUFFICES ASSUME k + 1 <= n PROVE f[k + 1] = g[k + 1]
    OBVIOUS
  <2>1. k + 1 \in 1..n /\ k + 1 \in 1..m /\ (k + 1) - 1 = k /\ f[k] = g[k]
    BY <1>2
  <2>2. f[k + 1] = H[f[(k + 1) - 1]] /\ g[k + 1] = H[g[(k + 1) - 1]]
    BY <2>1 DEF Iterates
  <2> QED BY <2>1, <2>2
<1>3. Nat \subseteq T
  <2> HIDE DEF T
  <2> QED BY <1>1, <1>2, Upwards
<1> QED BY <1>3

TypesOf(e) == ({schema.type[e]} \cup Range(schema.alternatives[e])) \cap Type
Closed(X) == \A u \in X : Uses(u) \subseteq X
UsesUp == [X \in SUBSET Type |-> X \cup UNION {Uses(u) : u \in X}]

LEMMA UsesTyped ==
  ASSUME NEW t
  PROVE  Uses(t) \in SUBSET Type /\ \A e \in Held(t) : TypesOf(e) \subseteq Uses(t)
BY DEF Uses, TypesOf

LEMMA UsesBase ==
  ASSUME NEW t, schema.base[t] \in Type
  PROVE  schema.base[t] \in Uses(t)
<1> DEFINE X == UNION {{schema.type[e]} \cup Range(schema.alternatives[e]) : e \in Held(t)}
<1>1. Uses(t) = (X \cup {schema.base[t]}) \cap Type
  BY Zenon DEF Uses
<1> HIDE DEF X
<1> QED BY <1>1

LEMMA ReachedClosed ==
  ASSUME NEW t \in Type
  PROVE  /\ Uses(t) \subseteq Reached(t) /\ Reached(t) \in SUBSET Type
         /\ Closed(Reached(t)) /\ Closed({t} \cup Reached(t))
<1> DEFINE N == Deep
           D == SUBSET Type
           a == Uses(t)
           v(n, f) == IF n = 0 THEN a ELSE f[n - 1] \cup UNION {Uses(u) : u \in f[n - 1]}
<1>1. N \in Nat /\ N > Cardinality(Type) /\ N >= 1 /\ IsFiniteSet(Type)
  BY DeepTyped
<1>2. a \in D /\ UsesUp \in [D -> D] /\ \A X \in D : X \subseteq UsesUp[X]
  BY UsesTyped DEF UsesUp
<1>3. \E f \in [0..N -> D] : Iterates(f, UsesUp, a, N)
  <2> HIDE DEF N, D, a
  <2> QED BY <1>1, <1>2, Iterated
<1>4. PICK f \in [0..N -> D] : Iterates(f, UsesUp, a, N)
  BY <1>3
<1>5. f = [n \in 0..N |-> v(n, f)]
  <2>1. \A n \in 0..N : f[n] = v(n, f)
    <3> TAKE n \in 0..N
    <3>1. CASE n = 0
      BY <1>4, <3>1 DEF Iterates
    <3>2. CASE n # 0
      <4>1. n \in 1..N /\ n - 1 \in 0..N
        BY <1>1, <3>2
      <4>2. f[n] = UsesUp[f[n - 1]] /\ f[n - 1] \in D
        BY <1>4, <4>1 DEF Iterates
      <4> QED BY <3>2, <4>2 DEF UsesUp
    <3> QED BY <3>1, <3>2
  <2>2. f = [n \in 0..N |-> f[n]]
    BY <1>4
  <2> HIDE DEF v
  <2> QED BY <2>1, <2>2, Zenon
<1> DEFINE S(h) == h = [n \in 0..N |-> v(n, h)]
           c == CHOOSE h : S(h)
<1>6. Reached(t) = c[Deep]
  BY Zenon DEF Reached
<1>7. S(c)
  <2>1. \E h : S(h)
    BY <1>5
  <2> HIDE DEF S
  <2> QED BY <2>1, Zenon
<1> HIDE DEF c
<1>8. \A n \in 0..N : c[n] = v(n, c)
  <2> HIDE DEF v
  <2> QED BY <1>7, Zenon
<1>9. DOMAIN c = 0..N /\ c = [n \in 0..N |-> c[n]]
  <2> HIDE DEF v
  <2>1. c = [n \in 0..N |-> v(n, c)]
    BY <1>7
  <2>2. DOMAIN c = 0..N
    BY <2>1
  <2>3. c = [n \in 0..N |-> c[n]]
    BY <1>8, <2>1
  <2> QED BY <2>2, <2>3
<1>10. (\A n \in 0..N : c[n] \in D) /\ Iterates(c, UsesUp, a, N)
  <2>1. 0 \in 0..N /\ \A n \in 1..N : n \in 0..N /\ n # 0
    BY <1>1
  <2>2. c[0] = a /\ \A n \in 1..N : c[n - 1] \in D => c[n] = UsesUp[c[n - 1]]
    BY <1>8, <2>1 DEF UsesUp
  <2>3. N \in Nat /\ a \in D /\ UsesUp \in [D -> D]
    BY <1>1, <1>2
  <2>4. DOMAIN c = 0..N
    BY <1>9
  <2> HIDE DEF N, D, a
  <2> QED BY <2>2, <2>3, <2>4, IteratesIn
<1>11. c \in [0..N -> D]
  BY <1>9, <1>10
<1>12. /\ \A k \in 0..N : a \subseteq c[k] /\ c[k] \subseteq c[N]
       /\ c[N - 1] = c[N] /\ UsesUp[c[N]] = c[N]
  <2>1. Growing(Type, N, UsesUp, a, c)
    BY <1>1, <1>2, <1>10, <1>11 DEF Growing
  <2> HIDE DEF N, a
  <2>2. Grown(N, UsesUp, a, c)
    BY <2>1, GrowingEnds
  <2> QED BY <2>2 DEF Grown
<1>13. N \in 0..N /\ c[N] \in D
  BY <1>1, <1>10
<1>14. a \subseteq c[N] /\ Closed(c[N])
  BY <1>12, <1>13 DEF UsesUp, Closed
<1> QED BY <1>6, <1>13, <1>14 DEF Closed

\* A closed set has the ancestors of its members.
LEMMA ClosedAncestors ==
  ASSUME NEW t \in Type, NEW X, Closed(X), Uses(t) \subseteq X
  PROVE  Ancestors(t) \subseteq X /\ \A a \in {t} \cup Ancestors(t) : Uses(a) \subseteq X
<1>1. \A u : schema.base[u] \in Type => schema.base[u] \in Uses(u)
  BY UsesBase
<1>2. \A u \in {t} \cup X : schema.base[u] \in Type => schema.base[u] \in X
  BY <1>1 DEF Closed
<1>3. Ancestors(t) \subseteq X
  BY <1>2, AncestorsLeast
<1> QED BY <1>3 DEF Closed

\* A type that its base's base leads to, and the base itself when it waits.
LEMMA TangledBy ==
  ASSUME schema \in Schemas, NEW t \in Type, NEW b \in Type, schema.base[t] = b, schema.base[b] \in Type,
         t \in {schema.base[b]} \cup Reached(schema.base[b])
  PROVE  Tangled
<1> DEFINE a == schema.base[b]
<1>1. a \in Ancestors(b)
  BY AncestorsClosed
<1>2. t \in Reached(a)
  <2>1. CASE t = a
    <3>1. b \in Uses(t) /\ t \in Uses(b)
      BY <2>1, UsesBase
    <3>2. Uses(t) \subseteq Reached(t) /\ Closed(Reached(t))
      BY ReachedClosed
    <3> QED BY <2>1, <3>1, <3>2 DEF Closed
  <2> QED BY <2>1
<1> QED BY <1>1, <1>2 DEF Tangled
-----------------------------------------------------------------------------
(* What a type takes over, one ancestor at a time.                         *)
OwnLeaves(t) == Leaves(Own(t))
Alone(t) == schema.base[t] \notin Type \/ schema.method[t] = "restriction"
Inherits ==
  [g \in [Type -> Seq(Leaf)] |->
     [u \in Type |-> IF Alone(u) THEN OwnLeaves(u) ELSE g[schema.base[u]] \o OwnLeaves(u)]]
FirstOwn == [u \in Type |-> OwnLeaves(u)]
Inherited(n, c) == /\ DOMAIN c = 0..n /\ Iterates(c, Inherits, FirstOwn, n)
                   /\ \A k \in 0..n : c[k] \in [Type -> Seq(Leaf)]

LEMMA InheritsTyped ==
  ASSUME schema \in Schemas
  PROVE  /\ FirstOwn \in [Type -> Seq(Leaf)]
         /\ Inherits \in [[Type -> Seq(Leaf)] -> [Type -> Seq(Leaf)]]
<1>1. \A u \in Type : OwnLeaves(u) \in Seq(Leaf)
  BY OwnTyped, LeavesTyped DEF OwnLeaves
<1>2. FirstOwn \in [Type -> Seq(Leaf)]
  BY <1>1 DEF FirstOwn
<1>3. ASSUME NEW g \in [Type -> Seq(Leaf)], NEW u \in Type
      PROVE  (IF Alone(u) THEN OwnLeaves(u) ELSE g[schema.base[u]] \o OwnLeaves(u)) \in Seq(Leaf)
  <2>1. CASE Alone(u)
    BY <1>1, <2>1
  <2>2. CASE ~Alone(u)
    <3>1. g[schema.base[u]] \in Seq(Leaf) /\ OwnLeaves(u) \in Seq(Leaf)
      BY <1>1, <2>2 DEF Alone
    <3>2. ASSUME NEW x \in Seq(Leaf), NEW y \in Seq(Leaf) PROVE x \o y \in Seq(Leaf)
      OBVIOUS
    <3> QED BY <2>2, <3>1, <3>2
  <2> QED BY <2>1, <2>2
<1>4. Inherits \in [[Type -> Seq(Leaf)] -> [Type -> Seq(Leaf)]]
  BY <1>3 DEF Inherits
<1> QED BY <1>2, <1>4

LEMMA InheritedIs ==
  ASSUME schema \in Schemas, NEW n \in Nat, NEW t \in Type
  PROVE  \E c : Inherited(n, c) /\ FromAncestors(n, t) = c[n][t]
<1> DEFINE D == [Type -> Seq(Leaf)]
           w(k, f, u) == IF k = 0 \/ schema.base[u] \notin Type \/ schema.method[u] = "restriction"
                           THEN Leaves(Own(u)) ELSE f[k - 1][schema.base[u]] \o Leaves(Own(u))
           v(k, f) == [u \in Type |-> w(k, f, u)]
<1>1. FirstOwn \in D /\ Inherits \in [D -> D]
  BY InheritsTyped
<1>2. \E f \in [0..n -> D] : Iterates(f, Inherits, FirstOwn, n)
  <2> HIDE DEF D
  <2> QED BY <1>1, Iterated
<1>3. PICK f \in [0..n -> D] : Iterates(f, Inherits, FirstOwn, n)
  BY <1>2
<1>4. ASSUME NEW k \in 1..n, NEW h, h[k - 1] \in D PROVE v(k, h) = Inherits[h[k - 1]]
  <2>1. k # 0
    OBVIOUS
  <2>2. \A u \in Type : w(k, h, u) = IF Alone(u) THEN OwnLeaves(u) ELSE h[k - 1][schema.base[u]] \o OwnLeaves(u)
    BY <2>1 DEF Alone, OwnLeaves
  <2>3. Inherits[h[k - 1]] =
          [u \in Type |-> IF Alone(u) THEN OwnLeaves(u) ELSE h[k - 1][schema.base[u]] \o OwnLeaves(u)]
    BY <1>4 DEF Inherits
  <2> HIDE DEF w
  <2> QED BY <2>2, <2>3
<1>5. ASSUME NEW h PROVE v(0, h) = FirstOwn
  BY DEF FirstOwn, OwnLeaves
<1>6. f = [k \in 0..n |-> v(k, f)]
  <2>1. \A k \in 0..n : f[k] = v(k, f)
    <3> HIDE DEF v
    <3> TAKE k \in 0..n
    <3>1. CASE k = 0
      BY <1>3, <1>5, <3>1 DEF Iterates
    <3>2. CASE k # 0
      <4>1. k \in 1..n /\ k - 1 \in 0..n
        BY <3>2
      <4>2. f[k] = Inherits[f[k - 1]] /\ f[k - 1] \in D
        BY <1>3, <4>1 DEF Iterates
      <4> QED BY <1>4, <4>1, <4>2
    <3> QED BY <3>1, <3>2
  <2>2. f = [k \in 0..n |-> f[k]]
    BY <1>3
  <2> HIDE DEF v
  <2> QED BY <2>1, <2>2, Zenon
<1> DEFINE S(h) == h = [k \in 0..n |-> v(k, h)]
           c == CHOOSE h : S(h)
<1>7. FromAncestors(n, t) = c[n][t]
  BY Zenon DEF FromAncestors
<1>8. S(c)
  <2>1. \E h : S(h)
    BY <1>6
  <2> HIDE DEF S
  <2> QED BY <2>1, Zenon
<1> HIDE DEF c
<1>9. \A k \in 0..n : c[k] = v(k, c)
  <2> HIDE DEF v
  <2> QED BY <1>8, Zenon
<1>10. DOMAIN c = 0..n
  <2> HIDE DEF v
  <2> QED BY <1>8
<1>11. (\A k \in 0..n : c[k] \in D) /\ Iterates(c, Inherits, FirstOwn, n)
  <2>1. 0 \in 0..n /\ \A k \in 1..n : k \in 0..n
    OBVIOUS
  <2>2. c[0] = FirstOwn
    <3> HIDE DEF v
    <3> QED BY <1>5, <1>9, <2>1
  <2>3. \A k \in 1..n : c[k - 1] \in D => c[k] = Inherits[c[k - 1]]
    <3> HIDE DEF v, D
    <3> QED BY <1>4, <1>9, <2>1
  <2> HIDE DEF D
  <2> QED BY <1>1, <1>10, <2>2, <2>3, IteratesIn
<1> QED BY <1>7, <1>10, <1>11 DEF Inherited

LEMMA InheritsNothing ==
  ASSUME schema \in Schemas, NEW n \in Nat, NEW t \in Type, n = 0 \/ Alone(t)
  PROVE  FromAncestors(n, t) = OwnLeaves(t)
<1>1. PICK c : Inherited(n, c) /\ FromAncestors(n, t) = c[n][t]
  BY InheritedIs
<1>2. CASE n = 0
  BY <1>1, <1>2 DEF Inherited, Iterates, FirstOwn
<1>3. CASE n # 0
  <2>1. n \in 1..n /\ n - 1 \in 0..n
    BY <1>3
  <2>2. c[n] = Inherits[c[n - 1]] /\ c[n - 1] \in [Type -> Seq(Leaf)]
    BY <1>1, <2>1 DEF Inherited, Iterates
  <2> QED BY <1>1, <1>3, <2>2 DEF Inherits
<1> QED BY <1>2, <1>3

LEMMA InheritsFromBase ==
  ASSUME schema \in Schemas, NEW n \in Nat, NEW t \in Type, ~Alone(t)
  PROVE  FromAncestors(n + 1, t) = FromAncestors(n, schema.base[t]) \o OwnLeaves(t)
<1> DEFINE b == schema.base[t]
           m == n + 1
<1>1. b \in Type /\ m \in Nat /\ n <= m /\ m \in 1..m /\ m - 1 = n /\ n \in 0..n /\ n \in 0..m
  BY DEF Alone
<1>2. PICK c : Inherited(n, c) /\ FromAncestors(n, b) = c[n][b]
  BY <1>1, InheritedIs
<1> HIDE DEF m
<1>3. PICK d : Inherited(m, d) /\ FromAncestors(m, t) = d[m][t]
  BY <1>1, InheritedIs
<1>4. c[n] = d[n]
  <2>0. Iterates(c, Inherits, FirstOwn, n) /\ Iterates(d, Inherits, FirstOwn, m)
    BY <1>2, <1>3 DEF Inherited
  <2>1. \A k \in 0..n : c[k] = d[k]
    BY <1>1, <2>0, IteratesAlike
  <2> QED BY <1>1, <2>1
<1>5. d[m] = Inherits[d[n]] /\ d[n] \in [Type -> Seq(Leaf)]
  BY <1>1, <1>3 DEF Inherited, Iterates
<1>6. d[m][t] = d[n][b] \o OwnLeaves(t)
  BY <1>5 DEF Inherits
<1> QED BY <1>2, <1>3, <1>4, <1>6 DEF m
-----------------------------------------------------------------------------
(***************************************************************************)
(* The order in which types are reached.  A call leads to every call above *)
(* it on the stack, and one that waits for a base does so by that base.    *)
(* When the types of a schema are not tangled, a base that another type    *)
(* waits for is therefore never met, unfinished, from there.               *)
(***************************************************************************)
Stays(frame, X) == IF frame.kind = "type" THEN frame.of \in X ELSE TypesOf(frame.of) \subseteq X
BaseOf(i) == schema.base[stack[i].of]
Below ==
  \A i, j \in 1..Len(stack) :
    i < j /\ stack[i].kind = "type" =>
      /\ Stays(stack[j], Reached(stack[i].of))
      /\ stack[i].phase = "fold" => /\ Stays(stack[j], {BaseOf(i)} \cup Reached(BaseOf(i)))
                                    /\ j = i + 1 => stack[j].kind = "type" /\ stack[j].of = BaseOf(i)

\* The step keeps m calls and perhaps makes one more, from the call at the top.
Keeps(m) ==
  /\ m \in 0..Len(stack) /\ Len(stack') \in {m, m + 1}
  /\ \A i \in 1..m : /\ stack'[i].kind = stack[i].kind /\ stack'[i].of = stack[i].of
                     /\ i < Len(stack) => stack'[i].phase = stack[i].phase
  /\ Fold \/ \A i \in 1..Len(stack) : stack[i].phase = "fold" => i <= m /\ stack'[i].phase = "fold"
Calling(m) ==
  Len(stack') = m + 1 /\ m # 0 =>
    /\ \A X : Closed(X) /\ Stays(Top, X) => Stays(stack'[m + 1], X)
    /\ m # Len(stack) => Top.kind = "element" /\ Len(stack) = m + 1
    /\ m = Len(stack) /\ Top.kind = "type" =>
         /\ Stays(stack'[m + 1], Reached(Top.of))
         /\ stack'[m].phase = "fold" => /\ stack'[m + 1].kind = "type"
                                        /\ stack'[m + 1].of = schema.base[Top.of]
                                        /\ schema.base[Top.of] \in Type

LEMMA StaysKept ==
  ASSUME schema' = schema, NEW x, NEW X
  PROVE  Stays(x, X)' <=> Stays(x, X)
BY DEF Stays, TypesOf

LEMMA ReachedKept ==
  ASSUME schema' = schema
  PROVE  \A t : Reached(t)' = Reached(t)
BY SMT DEF Reached, Deep, Uses, Held, Own, WrittenOut, Inline

LEMMA BelowStep ==
  ASSUME TypeInv, Below, schema' = schema, NEW m, Keeps(m), Calling(m)
  PROVE  Below'
<1> DEFINE n == Len(stack)
           n1 == Len(stack')
<1>0. n \in Nat /\ m \in 0..n /\ n1 \in {m, m + 1} /\ Top = stack[n]
  BY DEF TypeInv, TypeOK, Keeps, Top
<1>1. \A i \in 1..n : stack[i].kind = "type" => stack[i].of \in Type
  BY FrameTyped DEF TypeInv
<1>2. ASSUME NEW i \in 1..m PROVE i \in 1..n /\ BaseOf(i)' = BaseOf(i)
  BY <1>0, <1>2 DEF Keeps, BaseOf
<1>3. ASSUME NEW i \in 1..n1, NEW j \in 1..n1, i < j, stack'[i].kind = "type"
      PROVE  /\ i \in 1..m /\ i \in 1..n /\ stack[i].kind = "type" /\ stack'[i].of = stack[i].of
             /\ BaseOf(i)' = BaseOf(i) /\ stack[i].of \in Type
             /\ i < n => stack'[i].phase = stack[i].phase
  <2>1. i \in 1..m
    BY <1>0, <1>3
  <2> QED BY <1>0, <1>1, <1>2, <1>3, <2>1 DEF Keeps
<1>4. ASSUME NEW i \in 1..n1, NEW j \in 1..m, i < j, stack'[i].kind = "type"
      PROVE  /\ Stays(stack'[j], Reached(stack[i].of))
             /\ stack'[i].phase = "fold" =>
                  /\ Stays(stack'[j], {BaseOf(i)} \cup Reached(BaseOf(i)))
                  /\ j = i + 1 => stack'[j].kind = "type" /\ stack'[j].of = BaseOf(i)
  <2>1. j \in 1..n /\ i < n /\ j \in 1..n1
    BY <1>0, <1>4
  <2>2. \A X : Stays(stack[j], X) => Stays(stack'[j], X)
    BY <1>4 DEF Keeps, Stays
  <2>3. /\ i \in 1..n /\ stack[i].kind = "type"
        /\ stack'[i].phase = stack[i].phase
    BY <1>3, <1>4, <2>1
  <2>4. stack'[j].kind = stack[j].kind /\ stack'[j].of = stack[j].of
    BY <1>4 DEF Keeps
  <2>5. /\ Stays(stack[j], Reached(stack[i].of))
        /\ stack[i].phase = "fold" =>
             /\ Stays(stack[j], {BaseOf(i)} \cup Reached(BaseOf(i)))
             /\ j = i + 1 => stack[j].kind = "type" /\ stack[j].of = BaseOf(i)
    BY <1>4, <2>1, <2>3 DEF Below
  <2> QED BY <2>2, <2>3, <2>4, <2>5
<1>5. ASSUME NEW i \in 1..n1, n1 = m + 1, i < m + 1, stack'[i].kind = "type"
      PROVE  /\ Stays(stack'[m + 1], Reached(stack[i].of))
             /\ stack'[i].phase = "fold" =>
                  /\ Stays(stack'[m + 1], {BaseOf(i)} \cup Reached(BaseOf(i)))
                  /\ m + 1 = i + 1 => stack'[m + 1].kind = "type" /\ stack'[m + 1].of = BaseOf(i)
  <2>0. m # 0 /\ m + 1 \in 1..n1 /\ i \in 1..m
    BY <1>0, <1>5
  <2>1. i \in 1..n /\ stack[i].kind = "type" /\ stack[i].of \in Type /\ (i < n => stack'[i].phase = stack[i].phase)
    BY <1>3, <1>5, <2>0
  <2>2. /\ \A X : Closed(X) /\ Stays(Top, X) => Stays(stack'[m + 1], X)
        /\ m # n => Top.kind = "element" /\ n = m + 1
        /\ m = n /\ Top.kind = "type" =>
             /\ Stays(stack'[m + 1], Reached(Top.of))
             /\ stack'[m].phase = "fold" => /\ stack'[m + 1].kind = "type"
                                            /\ stack'[m + 1].of = schema.base[Top.of]
                                            /\ schema.base[Top.of] \in Type
    BY <1>5, <2>0 DEF Calling
  <2>3. CASE i < n
    <3>1. n \in 1..n
      BY <1>0, <2>0
    <3>2. /\ Stays(Top, Reached(stack[i].of))
          /\ stack[i].phase = "fold" => /\ Stays(Top, {BaseOf(i)} \cup Reached(BaseOf(i)))
                                        /\ n = i + 1 => Top.kind = "type" /\ Top.of = BaseOf(i)
      BY <1>0, <2>1, <2>3, <3>1 DEF Below
    <3>3. Closed(Reached(stack[i].of))
      BY <2>1, ReachedClosed
    <3>4. CASE stack'[i].phase # "fold"
      BY <2>2, <3>2, <3>3, <3>4
    <3>5. CASE stack'[i].phase = "fold"
      <4>1. stack[i].phase = "fold"
        BY <2>1, <2>3, <3>5
      <4>2. BaseOf(i) \in Type
        <5>1. i + 1 \in 1..n
          BY <1>0, <2>3
        <5>2. \A j \in 1..n : i < j /\ j = i + 1 => stack[j].kind = "type" /\ stack[j].of = BaseOf(i)
          BY <2>1, <4>1 DEF Below
        <5>3. stack[i + 1].kind = "type" /\ stack[i + 1].of = BaseOf(i)
          BY <2>1, <5>1, <5>2
        <5> QED BY <1>1, <5>1, <5>3
      <4>3. Closed({BaseOf(i)} \cup Reached(BaseOf(i)))
        BY <4>2, ReachedClosed
      <4>4. Stays(stack'[m + 1], {BaseOf(i)} \cup Reached(BaseOf(i)))
        BY <2>2, <3>2, <4>1, <4>3
      <4>5. m # i
        <5> SUFFICES ASSUME m = i PROVE FALSE
          OBVIOUS
        <5>1. Top.kind = "element"
          BY <2>2, <2>3
        <5>2. n = i + 1
          BY <2>2, <2>3
        <5> QED BY <3>2, <4>1, <5>1, <5>2
      <4>6. m + 1 # i + 1
        BY <1>0, <4>5
      <4> QED BY <2>2, <3>2, <3>3, <4>4, <4>6
    <3> QED BY <3>4, <3>5
  <2>4. CASE ~(i < n)
    <3>1. i = n /\ m = n /\ stack[i] = Top
      BY <1>0, <2>0, <2>1, <2>4
    <3>2. BaseOf(i) = schema.base[Top.of]
      BY <3>1 DEF BaseOf
    <3>3. Stays(stack'[m + 1], Reached(stack[i].of))
      BY <2>1, <2>2, <3>1
    <3>4. stack'[i].phase = "fold" => stack'[m + 1].kind = "type" /\ stack'[m + 1].of = BaseOf(i)
      BY <2>1, <2>2, <3>1, <3>2
    <3>5. stack'[i].phase = "fold" => Stays(stack'[m + 1], {BaseOf(i)} \cup Reached(BaseOf(i)))
      BY <3>4 DEF Stays
    <3> QED BY <3>3, <3>4, <3>5
  <2> QED BY <2>3, <2>4
<1>6. ASSUME NEW i \in 1..n1, NEW j \in 1..n1, i < j, stack'[i].kind = "type"
      PROVE  /\ Stays(stack[j], Reached(stack[i].of))'
             /\ stack'[i].phase = "fold" =>
                  /\ Stays(stack[j], {BaseOf(i)} \cup Reached(BaseOf(i)))'
                  /\ j = i + 1 => stack'[j].kind = "type" /\ stack'[j].of = BaseOf(i)'
  <2>1. /\ Stays(stack'[j], Reached(stack[i].of))
        /\ stack'[i].phase = "fold" =>
             /\ Stays(stack'[j], {BaseOf(i)} \cup Reached(BaseOf(i)))
             /\ j = i + 1 => stack'[j].kind = "type" /\ stack'[j].of = BaseOf(i)
    <3>1. CASE j \in 1..m
      BY <1>4, <1>6, <3>1
    <3>2. CASE j \notin 1..m
      <4>1. j = m + 1 /\ n1 = m + 1
        BY <1>0, <3>2
      <4> QED BY <1>5, <1>6, <4>1
    <3> QED BY <3>1, <3>2
  <2>2. stack'[i].of = stack[i].of /\ BaseOf(i)' = BaseOf(i)
    BY <1>3, <1>6
  <2>3. PICK x, t, b, X, Y : /\ x = stack'[j] /\ t = stack'[i].of /\ b = BaseOf(i)'
                             /\ X = Reached(t) /\ Y = {b} \cup Reached(b)
    OBVIOUS
  <2>4. Reached(t)' = X /\ ({b} \cup Reached(b))' = Y
    BY <2>3, ReachedKept
  <2>5. Stays(x, X)' /\ (stack'[i].phase = "fold" => Stays(x, Y)')
    <3>1. Stays(x, X) /\ (stack'[i].phase = "fold" => Stays(x, Y))
      BY <2>1, <2>2, <2>3
    <3> QED BY <3>1, StaysKept
  <2>6. (Stays(stack[j], Reached(stack[i].of))' <=> Stays(x, X)')
        /\ (Stays(stack[j], {BaseOf(i)} \cup Reached(BaseOf(i)))' <=> Stays(x, Y)')
    BY <2>3, <2>4, Zenon
  <2> QED BY <2>1, <2>2, <2>5, <2>6
<1> QED BY <1>6 DEF Below
-----------------------------------------------------------------------------
\* The element a type comes to leads where the type does.
LEMMA WalkedElementUsed ==
  ASSUME TypeInv, ResolveInv, Sources, WalkElement
  PROVE  /\ Len(stack') = Len(stack) + 1 /\ stack'[Len(stack)].phase = "walk"
         /\ stack'[Len(stack) + 1].kind = "element"
         /\ \A X : Closed(X) /\ Uses(Top.of) \subseteq X => Stays(stack'[Len(stack) + 1], X)
<1> DEFINE t == Top.of
           n == Top.at
           kinds == {"element", "ref"}
           x == content[t][ElementAt]
<1>1. stack # <<>> /\ Top.kind = "type" /\ Top.phase = "walk" /\ ElementAt # 0
  BY DEF WalkElement, AtType
<1>2. PICK V \in SUBSET Type : Visited(V)
  BY DEF ResolveInv
<1>3. t \in Type /\ Groupless(t) /\ n \in Nat \ {0} /\ content[t] \in Seq(Token) /\ Len(content[t]) \in Nat
  BY <1>1, <1>2, TopCall DEF Content, Token
<1>4. Spread(t) = content[t]
  BY <1>3, ExpandedNoGroup DEF Groupless, NoGroup, Spread
<1>5. ElementAt \in 1..Len(content[t]) /\ x.kind \in kinds
  <2>0. ElementAt = NextToken(t, n, kinds)
    BY DEF ElementAt
  <2> HIDE DEF t, n, kinds
  <2>1. NextToken(t, n, kinds) = 0 \/ (NextToken(t, n, kinds) \in 1..Len(content[t])
                                       /\ content[t][NextToken(t, n, kinds)].kind \in kinds)
    BY <1>3, NextTokenIsToken
  <2> QED BY <1>1, <2>0, <2>1
<1>6. x \in Range(Spread(t)) /\ Spread(t) \in Seq(Token)
  <2>1. DOMAIN content[t] = 1..Len(content[t])
    BY <1>3
  <2> QED BY <1>3, <1>4, <1>5, <2>1 DEF Range
<1>7. PICK f : /\ f = stack'[Len(stack) + 1] /\ f.kind = "element" /\ f.of = x.of
               /\ Len(stack') = Len(stack) + 1 /\ stack'[Len(stack)].phase = "walk"
  <2> DEFINE moved == Moved(stack, "walk", ElementAt)
             g == ElementFrame(x.of, Top.level)
  <2>1. Len(stack') = Len(stack) + 1 /\ stack'[Len(stack)].phase = "walk"
    BY WalkElementStep
  <2>2. stack' = Append(moved, g)
    BY DEF WalkElement
  <2>3. moved \in Seq(Frame) /\ Len(moved) = Len(stack)
    BY <1>1, <1>5, MovedTyped DEF TypeInv
  <2>4. g.kind = "element" /\ g.of = x.of
    BY DEF ElementFrame
  <2> HIDE DEF moved, g
  <2>5. stack'[Len(stack) + 1] = g
    BY <2>2, <2>3
  <2> QED BY <2>1, <2>4, <2>5
<1> HIDE DEF x, t
<1>8. IsLeaf(x)
  BY <1>5 DEF IsLeaf
<1>9. PICK a \in {t} \cup Ancestors(t) : <<x.kind, x.of>> \in Range(Leaves(Own(a)))
  <2>1. <<x.kind, x.of>> \in Range(Leaves(Spread(t)))
    BY <1>6, <1>8, LeavesTyped
  <2> QED BY <1>3, <2>1 DEF Sources, SourcesOf
<1>10. x.of \in Held(a)
  <2>1. Own(a) \in Seq(Token)
    <3>1. \A u \in {t} \cup Type : schema.base[u] \in Type => schema.base[u] \in Type
      OBVIOUS
    <3>2. Ancestors(t) \subseteq Type
      BY <1>3, <3>1, AncestorsLeast
    <3> QED BY <1>3, <1>9, <3>2, OwnTyped DEF TypeInv
  <2>2. PICK y \in Range(Own(a)) : <<y.kind, y.of>> = <<x.kind, x.of>>
    BY <1>9, <2>1, LeavesTyped
  <2>3. y.kind = x.kind /\ y.of = x.of
    BY <2>2
  <2>4. y \in {z \in Range(Own(a)) : z.kind \in kinds}
    BY <1>5, <2>3
  <2> QED BY <2>3, <2>4 DEF Held
<1>11. ASSUME NEW X, Closed(X), Uses(t) \subseteq X PROVE Stays(f, X)
  <2>1. Uses(a) \subseteq X
    BY <1>3, <1>9, <1>11, ClosedAncestors
  <2>2. TypesOf(x.of) \subseteq Uses(a)
    BY <1>10, UsesTyped
  <2> QED BY <1>7, <2>1, <2>2 DEF Stays
<1> QED BY <1>7, <1>11 DEF t

\* A type that a call for an element leads to.
LEMMA ElementLeads ==
  ASSUME TypeInv, ResolveInv, stack # <<>>, Top.kind = "element", NEW u \in Type,
         u = schema.type[Top.of] \/ (Top.calls # <<>> /\ u = Head(Top.calls)),
         NEW f, f.kind = "type", f.of = u
  PROVE  \A X : Stays(Top, X) => Stays(f, X)
<1>1. PICK V \in SUBSET Type : Visited(V)
  BY DEF ResolveInv
<1>2. /\ Top.calls \in Seq(Type \cup {Simple, Missing})
      /\ schema.alternatives[Top.of] \in Seq(Type \cup {Simple, Missing})
      /\ \A m \in 1..Len(Top.calls) :
            \E k \in 1..Len(schema.alternatives[Top.of]) : Top.calls[m] = schema.alternatives[Top.of][k]
  BY <1>1, TopElement
<1>3. ASSUME Top.calls # <<>>, u = Head(Top.calls) PROVE u \in Range(schema.alternatives[Top.of])
  <2>1. 1 \in 1..Len(Top.calls) /\ Top.calls[1] = u
    BY <1>2, <1>3
  <2>2. PICK k \in 1..Len(schema.alternatives[Top.of]) : u = schema.alternatives[Top.of][k]
    BY <1>2, <2>1
  <2>3. DOMAIN schema.alternatives[Top.of] = 1..Len(schema.alternatives[Top.of])
    BY <1>2
  <2> QED BY <2>2, <2>3 DEF Range
<1>4. u \in TypesOf(Top.of)
  BY <1>3 DEF TypesOf
<1> QED BY <1>4 DEF Stays

\* Every step makes at most one call, and what is called is led to.
LEMMA StackShape ==
  ASSUME TypeInv, ResolveInv, Origins, Sources, [Next]_vars
  PROVE  \E m : Keeps(m) /\ Calling(m)
<1> DEFINE n == Len(stack)
<1>0. n \in Nat /\ (stack = <<>> => n = 0) /\ TypeOK /\ (stack # <<>> => n # 0)
  BY DEF TypeInv, TypeOK
<1>w. ASSUME stack # <<>>, Top.phase # "fold" PROVE \A i \in 1..n : stack[i].phase = "fold" => i < n
  BY <1>0, <1>w DEF Top
<1>1. CASE stack' = stack
  <2>1. Keeps(n) /\ Calling(n)
    BY <1>0, <1>1 DEF Keeps, Calling
  <2> QED BY <2>1
<1>2. CASE \/ \E e \in Element : BeginElement(e)
           \/ \E t \in Type : BeginType(t)
  <2>1. n = 0 /\ Len(stack') \in {0, 1}
    <3>1. CASE \E e \in Element : BeginElement(e)
      BY <1>0, <3>1 DEF BeginElement
    <3>2. CASE \E t \in Type : BeginType(t)
      BY <1>0, <3>2 DEF BeginType, Enter
    <3> QED BY <1>2, <3>1, <3>2
  <2>2. Keeps(0) /\ Calling(0)
    BY <2>1 DEF Keeps, Calling
  <2> QED BY <2>2
<1>3. CASE NoDerivation \/ SimpleBase \/ Fold \/ ExpandGroup \/ EndExpand \/ EndGroups
  <2>1. stack # <<>> /\ (~Fold => Top.phase # "fold")
    BY <1>3 DEF NoDerivation, SimpleBase, Fold, ExpandGroup, EndExpand, EndGroups, AtType
  <2>2. Proceeds
    BY <1>3, ProceedStep
  <2>3. Keeps(n)
    <3>1. Len(stack') = n /\ n \in 0..n
      BY <1>0, <2>2 DEF Proceeds
    <3>2. \A i \in 1..n : /\ stack'[i].kind = stack[i].kind /\ stack'[i].of = stack[i].of
                          /\ i < n => stack'[i].phase = stack[i].phase
      BY <1>0, <2>2 DEF Proceeds, SameCall, Top
    <3>3. ~Fold => \A i \in 1..n : stack[i].phase = "fold" => i <= n /\ stack'[i].phase = "fold"
      BY <1>0, <1>w, <2>1, <3>2
    <3> QED BY <3>1, <3>2, <3>3 DEF Keeps
  <2>4. Calling(n)
    BY <1>0, <2>2 DEF Proceeds, Calling
  <2> QED BY <2>3, <2>4
<1>4. CASE ResolveBase
  <2>1. /\ stack # <<>> /\ Top.kind = "type" /\ Top.phase = "derive" /\ Top.of \in Type
        /\ base[Top.of] \in Type
    BY <1>4, TopTyped DEF ResolveBase, AtType, TypeInv
  <2>2. base[Top.of] = schema.base[Top.of]
    BY <2>1, DerivationAssumption DEF Origins
  <2> DEFINE b == schema.base[Top.of]
  <2>3. /\ \A i \in 1..n : i # n => stack'[i] = stack[i]
        /\ SameCall(stack'[n], Top) /\ stack'[n].phase = "fold"
        /\ \/ Len(stack') = n
           \/ Len(stack') = n + 1 /\ stack'[n + 1].kind = "type" /\ stack'[n + 1].of = b
    <3>1. TypeFrame(b, Top.level).kind = "type" /\ TypeFrame(b, Top.level).of = b
      BY DEF TypeFrame
    <3> QED BY <1>4, <2>2, <3>1, ResolveBaseStep
  <2>4. Keeps(n)
    <3>1. Len(stack') \in {n, n + 1} /\ n \in 0..n
      BY <1>0, <2>3
    <3>2. \A i \in 1..n : /\ stack'[i].kind = stack[i].kind /\ stack'[i].of = stack[i].of
                          /\ i < n => stack'[i].phase = stack[i].phase
      BY <1>0, <2>3 DEF SameCall, Top
    <3>3. \A i \in 1..n : stack[i].phase = "fold" => i <= n /\ stack'[i].phase = "fold"
      BY <1>0, <2>3
    <3> QED BY <3>1, <3>2, <3>3 DEF Keeps
  <2>5. ASSUME Len(stack') = n + 1 PROVE Calling(n)
    <3>1. b \in Uses(Top.of) /\ b \in Type
      BY <2>1, <2>2, UsesBase
    <3>2. Uses(Top.of) \subseteq Reached(Top.of)
      BY <2>1, ReachedClosed
    <3>3. stack'[n + 1].kind = "type" /\ stack'[n + 1].of = b
      BY <1>0, <2>3, <2>5
    <3>4. ASSUME NEW X, Closed(X), Stays(Top, X) PROVE Stays(stack'[n + 1], X)
      BY <2>1, <3>1, <3>3, <3>4 DEF Stays, Closed
    <3>5. Stays(stack'[n + 1], Reached(Top.of))
      BY <3>1, <3>2, <3>3 DEF Stays
    <3> QED BY <3>1, <3>3, <3>4, <3>5 DEF Calling
  <2>6. ASSUME Len(stack') # n + 1 PROVE Calling(n)
    BY <2>6 DEF Calling
  <2> QED BY <2>4, <2>5, <2>6
<1>5. CASE WalkElement
  <2>1. /\ stack # <<>> /\ Top.kind = "type" /\ Top.phase = "walk" /\ Top.of \in Type
    BY <1>5, TopTyped DEF WalkElement, AtType, TypeInv
  <2>2. /\ Len(stack') = n + 1 /\ \A i \in 1..n : i # n => stack'[i] = stack[i]
        /\ SameCall(stack'[n], Top) /\ stack'[n].phase = "walk"
    BY <1>5, WalkElementStep
  <2>3. stack'[n + 1].kind = "element" /\ \A X : Closed(X) /\ Uses(Top.of) \subseteq X => Stays(stack'[n + 1], X)
    BY <1>5, WalkedElementUsed
  <2>4. Keeps(n)
    <3>1. \A i \in 1..n : /\ stack'[i].kind = stack[i].kind /\ stack'[i].of = stack[i].of
                          /\ i < n => stack'[i].phase = stack[i].phase
      BY <1>0, <2>2 DEF SameCall, Top
    <3>2. \A i \in 1..n : stack[i].phase = "fold" => i <= n /\ stack'[i].phase = "fold"
      BY <1>0, <1>w, <2>1, <2>2
    <3> QED BY <1>0, <2>2, <3>1, <3>2 DEF Keeps
  <2>5. Calling(n)
    <3>1. ASSUME NEW X, Closed(X), Stays(Top, X) PROVE Stays(stack'[n + 1], X)
      <4>1. Uses(Top.of) \subseteq X
        BY <2>1, <3>1 DEF Stays, Closed
      <4> QED BY <2>3, <3>1, <4>1
    <3>2. Stays(stack'[n + 1], Reached(Top.of))
      BY <2>1, <2>3, ReachedClosed
    <3> QED BY <2>2, <3>1, <3>2 DEF Calling
  <2> QED BY <2>4, <2>5
<1>6. CASE Alternative
  <2>1. stack # <<>> /\ Top.kind = "element" /\ Top.phase = "choose" /\ Top.calls # <<>>
    <3>1. stack # <<>> /\ Top.kind = "element" /\ Top.calls # <<>>
      BY <1>6 DEF Alternative, AtElement
    <3>2. Top \in ElementFrames
      BY <1>0, <3>1, TopTyped
    <3> QED BY <3>1, <3>2 DEF ElementFrames
  <2> DEFINE t == Head(Top.calls)
  <2>2. /\ \A i \in 1..n : i # n => stack'[i] = stack[i]
        /\ SameCall(stack'[n], Top) /\ stack'[n].phase = "choose"
        /\ \/ Len(stack') = n
           \/ Len(stack') = n + 1 /\ t \in Type /\ stack'[n + 1].kind = "type" /\ stack'[n + 1].of = t
    <3>1. TypeFrame(t, Top.level + 1).kind = "type" /\ TypeFrame(t, Top.level + 1).of = t
      BY DEF TypeFrame
    <3> QED BY <1>6, <3>1, AlternativeStep
  <2>3. Keeps(n)
    <3>1. \A i \in 1..n : /\ stack'[i].kind = stack[i].kind /\ stack'[i].of = stack[i].of
                          /\ i < n => stack'[i].phase = stack[i].phase
      BY <1>0, <2>2 DEF SameCall, Top
    <3>2. \A i \in 1..n : stack[i].phase = "fold" => i <= n /\ stack'[i].phase = "fold"
      BY <1>0, <1>w, <2>1, <2>2
    <3>3. Len(stack') \in {n, n + 1} /\ n \in 0..n
      BY <1>0, <2>2
    <3> QED BY <3>1, <3>2, <3>3 DEF Keeps
  <2>4. ASSUME Len(stack') = n + 1 PROVE Calling(n)
    <3>1. t \in Type /\ stack'[n + 1].kind = "type" /\ stack'[n + 1].of = t
      BY <1>0, <2>2, <2>4
    <3>2. \A X : Stays(Top, X) => Stays(stack'[n + 1], X)
      BY <2>1, <3>1, ElementLeads
    <3> QED BY <2>1, <3>2 DEF Calling
  <2>5. ASSUME Len(stack') # n + 1 PROVE Calling(n)
    BY <2>5 DEF Calling
  <2> QED BY <2>3, <2>4, <2>5
<1>7. CASE OwnType
  <2>1. stack # <<>> /\ Top.kind = "element" /\ Top.phase = "choose"
    <3>1. stack # <<>> /\ Top.kind = "element"
      BY <1>7 DEF OwnType, AtElement
    <3>2. Top \in ElementFrames
      BY <1>0, <3>1, TopTyped
    <3> QED BY <3>1, <3>2 DEF ElementFrames
  <2> DEFINE t == schema.type[Top.of]
             m == n - 1
  <2>2. /\ \A i \in 1..m : SameCall(stack'[i], stack[i]) /\ stack'[i].phase = stack[i].phase
        /\ \/ Len(stack') = m
           \/ Len(stack') = n /\ t \in Type /\ stack'[n].kind = "type" /\ stack'[n].of = t
    <3>1. TypeFrame(t, Top.level).kind = "type" /\ TypeFrame(t, Top.level).of = t
      BY DEF TypeFrame
    <3> QED BY <1>7, <3>1, OwnTypeStep
  <2>3. m \in Nat /\ n = m + 1 /\ m \in 0..n /\ m # n /\ \A i \in 1..n : i < n => i \in 1..m
    BY <1>0, <2>1
  <2> HIDE DEF t, m
  <2>4. Keeps(m)
    <3>1. \A i \in 1..m : /\ stack'[i].kind = stack[i].kind /\ stack'[i].of = stack[i].of
                          /\ stack'[i].phase = stack[i].phase
      BY <2>2 DEF SameCall
    <3>2. \A i \in 1..n : stack[i].phase = "fold" => i <= m /\ stack'[i].phase = "fold"
      BY <1>w, <2>1, <2>3, <3>1
    <3>3. Len(stack') \in {m, m + 1} /\ m \in 0..n
      BY <2>2, <2>3
    <3> QED BY <3>1, <3>2, <3>3 DEF Keeps
  <2>5. ASSUME Len(stack') = m + 1 PROVE Calling(m)
    <3>1. t \in Type /\ stack'[n].kind = "type" /\ stack'[n].of = t
      BY <2>2, <2>3, <2>5
    <3>2. \A X : Stays(Top, X) => Stays(stack'[n], X)
      BY <2>1, <3>1, ElementLeads DEF t
    <3> QED BY <2>1, <2>3, <3>2 DEF Calling
  <2>6. ASSUME Len(stack') # m + 1 PROVE Calling(m)
    BY <2>6 DEF Calling
  <2> QED BY <2>4, <2>5, <2>6
<1>8. CASE Return
  <2>1. stack # <<>> /\ Top.phase = "walk"
    BY <1>8 DEF Return, AtType
  <2> DEFINE m == n - 1
  <2>2. Len(stack') = m /\ \A i \in 1..m : stack'[i] = stack[i]
    BY <1>8, ReturnStep
  <2>3. m \in 0..n /\ \A i \in 1..n : i < n => i \in 1..m
    BY <1>0, <2>1
  <2>4. Keeps(m)
    <3>1. \A i \in 1..n : stack[i].phase = "fold" => i <= m /\ stack'[i].phase = "fold"
      BY <1>w, <2>1, <2>2, <2>3
    <3> HIDE DEF m
    <3> QED BY <2>2, <2>3, <3>1 DEF Keeps
  <2>5. Calling(m)
    BY <2>2, <2>3 DEF Calling
  <2> QED BY <2>4, <2>5
<1>9. UNCHANGED vars \/ EndPass \/ RejectAlternative \/ RejectBase \/ RejectFold \/ RejectGroup \/ ApplyAttrGroup
        \/ RejectRef \/ RejectAttribute \/ Overflow \/ Done => stack' = stack
  BY DEF vars, EndPass, RejectAlternative, RejectBase, RejectFold, RejectGroup, ApplyAttrGroup,
     RejectRef, RejectAttribute, Reject, Overflow, Done
<1> QED BY <1>1, <1>2, <1>3, <1>4, <1>5, <1>6, <1>7, <1>8, <1>9 DEF Next, Step
-----------------------------------------------------------------------------
\* A type whose base was taken from it has it folded in, or waits for it.
Folding ==
  \A t \in Type : base[t] = NoType /\ schema.base[t] \in Type =>
     folds[t] # 0 \/ \E i \in 1..Len(stack) : stack[i].of = t /\ stack[i].phase = "fold"

\* Once the base that the call at the top waits for is there, its own was taken.
Came == stack # <<>> /\ Top.phase = "fold" => base[schema.base[Top.of]] \notin Type

\* A step that is not ResolveBase or SimpleBase takes no base.
LEMMA BaseKept ==
  ASSUME [Next]_vars, ~ResolveBase, ~SimpleBase
  PROVE  base' = base
BY DEF Next, Step, Done, vars, heap, loops, Reject, BeginElement, BeginType, EndPass, Alternative,
   RejectAlternative, OwnType, NoDerivation, RejectBase, SimpleBase, RejectFold, Fold, RejectGroup,
   ExpandGroup, EndExpand, ApplyAttrGroup, EndGroups, RejectRef, WalkElement, RejectAttribute,
   Return, Overflow

LEMMA FoldingStep ==
  ASSUME TypeInv, Origins, Folding, [Next]_vars, NEW m, Keeps(m)
  PROVE  Folding'
<1>0. schema' = schema /\ TypeOK /\ folds \in [Type -> Nat] /\ Len(stack) \in Nat
      /\ base \in [Type -> Type \cup {NoType, Simple, Missing}] /\ NoType \notin Type
  BY StepKeeps, DerivationAssumption DEF TypeInv, TypeOK
<1> SUFFICES ASSUME NEW t \in Type, base'[t] = NoType, schema.base[t] \in Type
             PROVE  folds'[t] # 0 \/ \E i \in 1..Len(stack') : stack'[i].of = t /\ stack'[i].phase = "fold"
  BY <1>0 DEF Folding
<1>1. folds'[t] # folds[t] => folds'[t] # 0
  BY <1>0, FoldsCount
<1>2. CASE base[t] = NoType
  <2>1. CASE folds[t] # 0
    BY <1>1, <2>1
  <2>2. CASE folds[t] = 0
    <3>1. PICK i \in 1..Len(stack) : stack[i].of = t /\ stack[i].phase = "fold"
      BY <1>2, <2>2 DEF Folding
    <3>2. CASE Fold /\ i = Len(stack)
      <4>1. t = Top.of
        BY <3>1, <3>2 DEF Top
      <4>2. folds'[t] = folds[t] + 1
        BY <1>0, <3>2, <4>1 DEF Fold
      <4> QED BY <2>2, <4>2
    <3>3. CASE ~Fold
      <4>1. i <= m /\ stack'[i].phase = "fold" /\ m \in 0..Len(stack) /\ Len(stack') \in {m, m + 1}
        BY <3>1, <3>3 DEF Keeps
      <4>2. i \in 1..m /\ i \in 1..Len(stack')
        BY <4>1
      <4>3. stack'[i].of = t
        BY <3>1, <4>2 DEF Keeps
      <4> QED BY <4>1, <4>2, <4>3
    <3>4. CASE Fold /\ i # Len(stack)
      <4>1. Proceeds
        BY <3>4, ProceedStep
      <4> QED BY <3>1, <3>4, <4>1 DEF Proceeds
    <3> QED BY <3>2, <3>3, <3>4
  <2> QED BY <2>1, <2>2
<1>3. CASE base[t] # NoType
  <2>1. CASE ResolveBase
    <3>1. t = Top.of /\ Len(stack) \in 1..Len(stack)
      BY <1>0, <1>3, <2>1, WaitsForBase
    <3>2. /\ stack'[Len(stack)].phase = "fold" /\ stack'[Len(stack)].of = Top.of
          /\ Len(stack') = Len(stack) \/ Len(stack') = Len(stack) + 1
      BY <2>1, ResolveBaseStep DEF SameCall
    <3>3. Len(stack) \in 1..Len(stack')
      BY <1>0, <3>1, <3>2
    <3> QED BY <3>1, <3>2, <3>3
  <2>2. CASE SimpleBase
    <3>1. t = Top.of /\ base[t] = Simple
      BY <1>0, <1>3, <2>2 DEF SimpleBase
    <3> QED BY <1>3, <3>1, DerivationAssumption DEF Origins
  <2>3. CASE ~ResolveBase /\ ~SimpleBase
    BY <1>3, <2>3, BaseKept
  <2> QED BY <2>1, <2>2, <2>3
<1> QED BY <1>2, <1>3

LEMMA CameStep ==
  ASSUME TypeInv, ResolveInv, Origins, Below, Came, [Next]_vars
  PROVE  Came'
<1> DEFINE n == Len(stack)
<1>0. schema' = schema /\ n \in Nat /\ (stack # <<>> => n \in 1..n) /\ TypeOK /\ NoType \notin Type
      /\ base \in [Type -> Type \cup {NoType, Simple, Missing}]
  BY StepKeeps, DerivationAssumption DEF TypeInv, TypeOK
<1> SUFFICES ASSUME stack' # <<>>, Top'.phase = "fold"
             PROVE  base'[schema.base[Top'.of]] \notin Type
  BY <1>0 DEF Came
<1>1. PICK V \in SUBSET Type : Visited(V)
  BY DEF ResolveInv
<1>2. CASE ResolveBase
  <2> DEFINE t == Top.of
             b == base[t]
  <2>1. /\ stack # <<>> /\ Top.kind = "type" /\ Top.phase = "derive" /\ t \in Type /\ b \in Type
        /\ Enter(Moved(stack, "fold", 1), b, Top.level)
    BY <1>2, TopTyped DEF ResolveBase, AtType, TypeInv
  <2>2. b = schema.base[t]
    BY <2>1, DerivationAssumption DEF Origins
  <2>3. Len(stack') = n
    <3> SUFFICES ASSUME Len(stack') = n + 1 PROVE FALSE
      BY <1>2, ResolveBaseStep
    <3>1. stack'[n + 1] = TypeFrame(b, Top.level)
      BY <1>0, <1>2, ResolveBaseStep
    <3>2. Top'.phase = "derive"
      BY <3>1 DEF Top, TypeFrame
    <3> QED BY <3>2
  <2>4. Top'.of = t
    <3>1. SameCall(stack'[n], Top)
      BY <1>2, ResolveBaseStep
    <3> QED BY <2>3, <3>1 DEF SameCall, Top
  <2>5. b \in V
    <3>1. Top.level \in 1..Len(seen)
      BY <2>1, TopLevel
    <3>2. b \in seen[Top.level]
      <4> SUFFICES ASSUME b \notin seen[Top.level] PROVE FALSE
        OBVIOUS
      <4>1. stack' = Append(Moved(stack, "fold", 1), TypeFrame(b, Top.level))
        BY <2>1 DEF Enter
      <4>2. Moved(stack, "fold", 1) \in Seq(Frame) /\ Len(Moved(stack, "fold", 1)) = n
        BY <2>1, MovedTyped DEF TypeInv
      <4>3. Len(stack') = n + 1
        BY <4>1, <4>2
      <4> QED BY <1>0, <2>3, <4>3
    <3> QED BY <1>1, <3>1, <3>2 DEF Visited
  <2>6. base[b] = NoType \/ b = t
    <3>1. CASE pass = 2
      <4>1. PassTwo(V)
        BY <1>1 DEF Visited
      <4> QED BY <2>5, <3>1, <4>1 DEF PassTwo, Finished
    <3>2. CASE pass # 2
      <4>1. pass = 1 /\ PassOne(V)
        BY <1>0, <1>1, <3>2 DEF Visited, TypeOK
      <4>2. CASE Finished(b, V)
        BY <4>2 DEF Finished
      <4>3. CASE OnStack(b)
        <5>1. PICK i \in 1..n : stack[i].kind = "type" /\ stack[i].of = b
          BY <4>3 DEF OnStack
        <5>2. TypeCall(i, V)
          BY <1>1, <5>1 DEF Visited, Calls
        <5>3. CASE stack[i].phase = "derive"
          <6>1. ~(i < n)
            BY <5>1, <5>2, <5>3 DEF TypeCall
          <6>2. i = n
            BY <1>0, <6>1
          <6> QED BY <5>1, <6>2 DEF Top
        <5>4. CASE stack[i].phase # "derive"
          BY <5>1, <5>2, <5>4 DEF TypeCall
        <5> QED BY <5>3, <5>4
      <4> QED BY <2>5, <4>1, <4>2, <4>3 DEF PassOne
    <3> QED BY <3>1, <3>2
  <2>7. base' = [base EXCEPT ![t] = NoType]
    BY <1>2, WaitsForBase
  <2>8. base'[b] = NoType
    BY <1>0, <2>1, <2>6, <2>7
  <2> QED BY <1>0, <2>2, <2>4, <2>8
<1>3. CASE NoDerivation \/ SimpleBase \/ Fold \/ ExpandGroup \/ EndExpand \/ EndGroups
  <2>1. Proceeds
    BY <1>3, ProceedStep
  <2> QED BY <2>1 DEF Proceeds, Top
<1>4. CASE WalkElement
  <2>1. Len(stack') = n + 1 /\ \E e \in Element : stack'[n + 1] = ElementFrame(e, Top.level)
    BY <1>4, WalkElementStep
  <2> QED BY <2>1 DEF Top, ElementFrame
<1>5. CASE Alternative
  <2>1. /\ stack'[n].phase = "choose"
        /\ \/ Len(stack') = n
           \/ Len(stack') = n + 1 /\ stack'[n + 1] = TypeFrame(Head(Top.calls), Top.level + 1)
    BY <1>5, AlternativeStep
  <2> QED BY <2>1 DEF Top, TypeFrame
\* The caller of what is left is at the top.
<1>6. ASSUME n # 0, Len(stack') = n - 1, SameCall(stack'[n - 1], stack[n - 1]),
             stack'[n - 1].phase = stack[n - 1].phase, base' = base
      PROVE  Top.kind = "type" /\ schema.base[Top'.of] = Top.of
  <2>1. Top' = stack'[n - 1]
    BY <1>6 DEF Top
  <2>2. n - 1 # 0
    BY <1>6, <2>1
  <2>3. n - 1 \in 1..n /\ n \in 1..n /\ n - 1 < n /\ n = (n - 1) + 1
    BY <1>0, <1>6, <2>2
  <2>4. stack[n - 1].phase = "fold" /\ Top'.of = stack[n - 1].of
    BY <1>6, <2>1 DEF SameCall
  <2>5. stack[n - 1].kind = "type"
    BY <1>0, <2>3, <2>4, WaitingTyped
  <2> DEFINE i == n - 1
  <2>6. i \in 1..n /\ i < n /\ n = i + 1 /\ n \in 1..n /\ stack[i].phase = "fold" /\ stack[i].kind = "type"
    BY <2>3, <2>4, <2>5
  <2> HIDE DEF i
  <2>7. stack[n].kind = "type" /\ stack[n].of = BaseOf(i)
    BY <2>6 DEF Below
  <2> QED BY <2>4, <2>7 DEF i, BaseOf, Top
<1>7. CASE OwnType
  <2>1. stack # <<>> /\ Top.kind = "element" /\ base' = base
    BY <1>7 DEF OwnType, AtElement
  <2>2. /\ \A i \in 1..(n - 1) : SameCall(stack'[i], stack[i]) /\ stack'[i].phase = stack[i].phase
        /\ \/ Len(stack') = n - 1
           \/ Len(stack') = n /\ stack'[n] = TypeFrame(schema.type[Top.of], Top.level)
    BY <1>7, OwnTypeStep
  <2>3. CASE Len(stack') = n
    BY <1>0, <2>1, <2>2, <2>3 DEF Top, TypeFrame
  <2>4. CASE Len(stack') = n - 1
    <3>1. n # 0 /\ n - 1 # 0
      <4>1. stack' \in Seq(Frame)
        BY TypeStep DEF TypeInv, TypeOK
      <4> QED BY <1>0, <2>1, <2>4, <4>1
    <3>2. n - 1 \in 1..(n - 1)
      <4>1. n \in Nat
        BY <1>0
      <4> HIDE DEF n
      <4> QED BY <3>1, <4>1
    <3> QED BY <1>6, <2>1, <2>2, <2>4, <3>1, <3>2
  <2> QED BY <2>2, <2>3, <2>4
<1>8. CASE Return
  <2>1. stack # <<>> /\ Top.kind = "type" /\ Top.phase = "walk" /\ base' = base
    BY <1>8 DEF Return, AtType
  <2>2. Len(stack') = n - 1 /\ (\A i \in 1..Len(stack') : stack'[i] = stack[i]) /\ stack' \in Seq(Frame)
    BY <1>8, ReturnStep
  <2>3. n # 0 /\ n - 1 \in 1..(n - 1)
    BY <1>0, <2>1, <2>2
  <2>4. schema.base[Top'.of] = Top.of
    BY <1>6, <2>1, <2>2, <2>3 DEF SameCall
  <2>5. base[Top.of] = NoType
    BY <1>1, <2>1, TopCall
  <2> QED BY <1>0, <2>1, <2>4, <2>5
<1>9. CASE stack' = stack /\ base' = base
  BY <1>9 DEF Came, Top
<1>10. UNCHANGED vars \/ EndPass \/ RejectAlternative \/ RejectBase \/ RejectFold \/ RejectGroup \/ ApplyAttrGroup
         \/ RejectRef \/ RejectAttribute \/ Overflow \/ Done => stack' = stack /\ base' = base
  BY DEF vars, heap, EndPass, RejectAlternative, RejectBase, RejectFold, RejectGroup, ApplyAttrGroup,
     RejectRef, RejectAttribute, Reject, Overflow, Done
<1>11. CASE \/ \E e \in Element : BeginElement(e)
            \/ \E t \in Type : BeginType(t)
  <2>1. CASE \E e \in Element : BeginElement(e)
    BY <2>1 DEF BeginElement, ElementFrame, Top
  <2>2. CASE \E t \in Type : BeginType(t)
    BY <2>2 DEF BeginType, Enter, TypeFrame, Top
  <2> QED BY <1>11, <2>1, <2>2
<1> QED BY <1>2, <1>3, <1>4, <1>5, <1>7, <1>8, <1>9, <1>10, <1>11 DEF Next, Step

\* When a base is folded into a type, its own base was folded into it, unless
\* the types are tangled.
LEMMA BaseWasFolded ==
  ASSUME TypeInv, Origins, Below, Folding, Came, ~Tangled, Fold, NEW b \in Type, b = schema.base[Top.of],
         schema.base[b] \in Type
  PROVE  folds[b] # 0
<1> DEFINE t == Top.of
           n == Len(stack)
<1>1. stack # <<>> /\ Top.kind = "type" /\ Top.phase = "fold" /\ t \in Type /\ n \in Nat /\ n \in 1..n
  BY TopTyped DEF Fold, AtType, TypeInv
<1>2. base[b] = NoType
  BY <1>1 DEF Came, Origins
<1> SUFFICES ASSUME folds[b] = 0 PROVE FALSE
  OBVIOUS
<1>3. PICK i \in 1..n : stack[i].of = b /\ stack[i].phase = "fold"
  BY <1>2 DEF Folding
<1>4. stack[i].kind = "type"
  BY <1>3, WaitingTyped DEF TypeInv
<1>5. t \in {schema.base[b]} \cup Reached(schema.base[b])
  <2>1. CASE i = n
    BY <1>3, <2>1 DEF Top
  <2>2. CASE i # n
    <3>1. i < n
      BY <1>1, <1>3, <2>2
    <3>2. Stays(stack[n], {BaseOf(i)} \cup Reached(BaseOf(i)))
      BY <1>1, <1>3, <1>4, <3>1 DEF Below
    <3> QED BY <1>1, <1>3, <3>2 DEF Stays, BaseOf, Top
  <2> QED BY <2>1, <2>2
<1>6. Tangled
  BY <1>1, <1>5, TangledBy DEF TypeInv
<1> QED BY <1>6
-----------------------------------------------------------------------------
(***************************************************************************)
(* The chain of a type.  A type whose base was folded in holds what its    *)
(* base held then, so the elements of ancestors up to some level; k bases  *)
(* folded so far make no longer chain than k.  When the types are not      *)
(* tangled, a base was complete when it was folded in, and its chain ends  *)
(* with a type that has none.                                              *)
(***************************************************************************)
FoldedTypes == {u \in Type : folds[u] # 0}
FoldCount == Cardinality(FoldedTypes)
SomeOf(t, l, k) == \E n \in 0..k : l = FromAncestors(n, t)
AllOf(t, l, k) == \A n \in Nat : n >= k => l = FromAncestors(n, t)
Chains ==
  \A t \in Type :
    /\ SomeOf(t, Leaves(Spread(t)), FoldCount)
    /\ ~Tangled /\ (schema.base[t] \in Type => folds[t] # 0) => AllOf(t, Leaves(Spread(t)), FoldCount)

LEMMA FromAncestorsKept ==
  ASSUME schema' = schema
  PROVE  \A n, t : FromAncestors(n, t)' = FromAncestors(n, t)
BY SMT DEF FromAncestors, Own, WrittenOut, Inline

LEMMA ChainsKept ==
  ASSUME schema' = schema, NEW t, NEW l, NEW k
  PROVE  (SomeOf(t, l, k)' <=> SomeOf(t, l, k)) /\ (AllOf(t, l, k)' <=> AllOf(t, l, k))
BY FromAncestorsKept DEF SomeOf, AllOf

LEMMA TangledKept ==
  ASSUME schema' = schema
  PROVE  Tangled' <=> Tangled
<1>1. \A t : Ancestors(t)' = Ancestors(t)
  BY SMT DEF Ancestors, Deep
<1>2. \A t : Reached(t)' = Reached(t)
  BY ReachedKept
<1>3. Tangled' <=> \E d \in Type : /\ schema.base[d] \in Type
                                   /\ \E a \in Ancestors(schema.base[d]) : d \in Reached(a)'
  BY <1>1 DEF Tangled
<1> QED BY <1>2, <1>3 DEF Tangled

LEMMA FoldCountTyped ==
  ASSUME TypeInv
  PROVE  FoldCount \in Nat /\ IsFiniteSet(FoldedTypes) /\ FoldCount < Deep
<1>1. FoldedTypes \in SUBSET Type
  BY DEF FoldedTypes
<1> QED BY <1>1, DeepTyped, FS_Subset, FS_CardinalityType DEF FoldCount

LEMMA FoldCountStep ==
  ASSUME TypeInv, FoldInv, [Next]_vars
  PROVE  \/ FoldCount' = FoldCount /\ ~Fold /\ folds' = folds
         \/ FoldCount' = FoldCount + 1 /\ Fold /\ folds[Top.of] = 0 /\ folds' = [folds EXCEPT ![Top.of] = 1]
<1>1. CASE folds' = folds /\ ~Fold
  <2>1. FoldedTypes' = FoldedTypes
    BY <1>1 DEF FoldedTypes
  <2> QED BY <1>1, <2>1 DEF FoldCount
<1>2. CASE Fold /\ Top.of \in Type /\ folds' = [folds EXCEPT ![Top.of] = @ + 1]
  <2>1. folds[Top.of] = 0
    <3>1. stack # <<>> /\ Top.phase = "fold"
      BY <1>2 DEF Fold, AtType
    <3>2. Len(stack) \in 1..Len(stack)
      BY <3>1, TopTyped DEF TypeInv
    <3> QED BY <3>1, <3>2 DEF FoldInv, Waits, Top
  <2>2. folds' = [folds EXCEPT ![Top.of] = 1]
    BY <1>2, <2>1
  <2>3. FoldedTypes' = FoldedTypes \cup {Top.of} /\ Top.of \notin FoldedTypes
    BY <1>2, <2>1, <2>2 DEF FoldedTypes, TypeInv, TypeOK
  <2>4. FoldCount' = FoldCount + 1
    BY <2>3, FoldCountTyped, FS_AddElement DEF FoldCount
  <2> QED BY <1>2, <2>1, <2>2, <2>4
<1> QED BY <1>1, <1>2, FoldsCount

\* The base of a type is folded in: what it holds then, and what it held.
LEMMA ChainFold ==
  ASSUME schema \in Schemas, NEW t \in Type, NEW b \in Type, b = schema.base[t], NEW k \in Nat,
         NEW l \in Seq(Leaf), NEW d, d = IF Extends(t) THEN l \o OwnLeaves(t) ELSE OwnLeaves(t)
  PROVE  /\ SomeOf(b, l, k) => SomeOf(t, d, k + 1)
         /\ AllOf(b, l, k) => AllOf(t, d, k + 1)
<1>1. schema.method[t] = "extension" \/ schema.method[t] = "restriction"
  BY DerivationAssumption DEF Schema
<1>2. CASE ~Extends(t)
  <2>1. Alone(t) /\ d = OwnLeaves(t)
    BY <1>1, <1>2 DEF Extends, Alone
  <2>2. \A n \in Nat : FromAncestors(n, t) = d
    BY <2>1, InheritsNothing
  <2>3. 0 \in 0..(k + 1) /\ 0 \in Nat
    OBVIOUS
  <2> QED BY <2>2, <2>3 DEF SomeOf, AllOf
<1>3. CASE Extends(t)
  <2>1. ~Alone(t) /\ d = l \o OwnLeaves(t)
    BY <1>3 DEF Extends, Alone
  <2>2. \A n \in Nat : FromAncestors(n + 1, t) = FromAncestors(n, b) \o OwnLeaves(t)
    BY <2>1, InheritsFromBase
  <2>3. ASSUME SomeOf(b, l, k) PROVE SomeOf(t, d, k + 1)
    <3>1. PICK n \in 0..k : l = FromAncestors(n, b)
      BY <2>3 DEF SomeOf
    <3>2. n \in Nat /\ n + 1 \in 0..(k + 1)
      OBVIOUS
    <3>3. FromAncestors(n + 1, t) = l \o OwnLeaves(t)
      BY <2>2, <3>1, <3>2
    <3> QED BY <2>1, <3>2, <3>3 DEF SomeOf
  <2>4. ASSUME AllOf(b, l, k) PROVE AllOf(t, d, k + 1)
    <3> SUFFICES ASSUME NEW n \in Nat, n >= k + 1 PROVE d = FromAncestors(n, t)
      BY DEF AllOf
    <3>1. n - 1 \in Nat /\ n - 1 >= k /\ (n - 1) + 1 = n
      OBVIOUS
    <3>2. l = FromAncestors(n - 1, b)
      BY <2>4, <3>1 DEF AllOf
    <3>3. FromAncestors((n - 1) + 1, t) = FromAncestors(n - 1, b) \o OwnLeaves(t)
      BY <2>2, <3>1
    <3> QED BY <2>1, <3>1, <3>2, <3>3
  <2> QED BY <2>3, <2>4
<1> QED BY <1>2, <1>3

LEMMA ChainsInit ==
  ASSUME Init
  PROVE  Chains
<1>1. schema \in Schemas /\ (\A t \in Type : folds[t] = 0) /\ \A t \in Type : Spread(t) = Own(t)
  BY SpreadInit DEF Init
<1>2. FoldCount = 0
  <2>1. FoldedTypes = {}
    BY <1>1 DEF FoldedTypes
  <2> QED BY <2>1, FS_EmptySet DEF FoldCount
<1> SUFFICES ASSUME NEW t \in Type
             PROVE  /\ SomeOf(t, Leaves(Spread(t)), 0)
                    /\ (schema.base[t] \in Type => folds[t] # 0) => AllOf(t, Leaves(Spread(t)), 0)
  BY <1>2 DEF Chains
<1>3. Leaves(Spread(t)) = OwnLeaves(t)
  BY <1>1 DEF OwnLeaves
<1>4. FromAncestors(0, t) = OwnLeaves(t)
  BY <1>1, InheritsNothing
<1>5. SomeOf(t, OwnLeaves(t), 0)
  <2>1. 0 \in 0..0
    OBVIOUS
  <2> QED BY <1>4, <2>1 DEF SomeOf
<1>6. ASSUME schema.base[t] \notin Type PROVE AllOf(t, OwnLeaves(t), 0)
  <2>1. Alone(t)
    BY <1>6 DEF Alone
  <2> QED BY <1>1, <2>1, InheritsNothing DEF AllOf
<1> QED BY <1>1, <1>3, <1>5, <1>6

LEMMA ChainsStep ==
  ASSUME TypeInv, ResolveInv, FreshPaths, Origins, FoldInv, Sources, Below, Folding, Came, Chains, [Next]_vars
  PROVE  Chains'
<1>0. schema' = schema /\ schema \in Schemas /\ FoldCount \in Nat /\ folds \in [Type -> Nat]
  BY StepKeeps, FoldCountTyped DEF TypeInv, TypeOK
<1> SUFFICES ASSUME NEW t \in Type
             PROVE  /\ SomeOf(t, Leaves(Spread(t)), FoldCount)'
                    /\ ~Tangled' /\ (schema.base[t] \in Type => folds'[t] # 0)
                         => AllOf(t, Leaves(Spread(t)), FoldCount)'
  BY <1>0 DEF Chains
<1>1. PICK c, d, k, m : c = Spread(t) /\ d = Spread(t)' /\ k = FoldCount /\ m = FoldCount'
  OBVIOUS
<1>2. c \in Seq(Token) /\ d \in Seq(Token) /\ SourcesOf(t, c, folds[t])
  BY <1>1, SpreadTyped, SpreadTypedStep DEF Sources
<1>3. /\ SomeOf(t, Leaves(c), k)
      /\ ~Tangled /\ (schema.base[t] \in Type => folds[t] # 0) => AllOf(t, Leaves(c), k)
  BY <1>1 DEF Chains
<1>4. /\ SomeOf(t, Leaves(d), m)
      /\ ~Tangled /\ (schema.base[t] \in Type => folds'[t] # 0) => AllOf(t, Leaves(d), m)
  <2>1. CASE ~(Fold /\ t = Top.of)
    <3>1. Unlinked(d) = Unlinked(c)
      BY <1>1, <2>1, SpreadStep DEF Folds
    <3>2. Leaves(d) = Leaves(c)
      BY <1>2, <3>1, UnlinkedSame
    <3>3. folds'[t] = folds[t] /\ m \in Nat /\ k \in Nat /\ m >= k
      <4>1. (m = k /\ folds' = folds) \/ (m = k + 1 /\ Fold /\ folds' = [folds EXCEPT ![Top.of] = 1])
        BY <1>1, FoldCountStep
      <4> QED BY <1>0, <1>1, <2>1, <4>1
    <3>4. SomeOf(t, Leaves(c), k) => SomeOf(t, Leaves(c), m)
      <4>1. \A n \in 0..k : n \in 0..m
        BY <3>3
      <4> QED BY <4>1 DEF SomeOf
    <3>5. AllOf(t, Leaves(c), k) => AllOf(t, Leaves(c), m)
      <4>1. \A n \in Nat : n >= m => n >= k
        BY <3>3
      <4> QED BY <4>1 DEF AllOf
    <3> QED BY <1>3, <3>2, <3>3, <3>4, <3>5
  <2>2. CASE Fold /\ t = Top.of
    <3> DEFINE b == schema.base[t]
    <3>1. b \in Type /\ parent[t] = b
      BY <2>2, FoldBase DEF Origins
    <3>2. folds[t] = 0 /\ m = k + 1 /\ k \in Nat
      BY <1>0, <1>1, <2>2, FoldCountStep
    <3>3. Leaves(c) = OwnLeaves(t)
      <4>1. Unlinked(c) = Unlinked(Own(t)) /\ Own(t) \in Seq(Token)
        BY <1>0, <1>2, <3>2, OwnTyped DEF SourcesOf
      <4> QED BY <1>2, <4>1, UnlinkedSame DEF OwnLeaves
    <3>4. PICK l : l = Leaves(Spread(b))
      OBVIOUS
    <3>5. l \in Seq(Leaf) /\ SomeOf(b, l, k)
      BY <1>1, <3>1, <3>4, SpreadTyped, LeavesTyped DEF Chains
    <3>6. ~Tangled => AllOf(b, l, k)
      <4>1. ASSUME ~Tangled, schema.base[b] \in Type PROVE folds[b] # 0
        BY <2>2, <3>1, <4>1, BaseWasFolded
      <4> QED BY <1>1, <3>1, <3>4, <4>1 DEF Chains
    <3>7. Leaves(d) = IF Extends(t) THEN l \o OwnLeaves(t) ELSE OwnLeaves(t)
      <4>1. CASE Extends(t)
        <5>1. d = ConcatContent(Spread(b), c)
          BY <1>1, <2>2, <3>1, <4>1, SpreadStep DEF Folds
        <5>2. Spread(b) \in Seq(Token)
          BY <3>1, SpreadTyped
        <5>3. Leaves(d) = Leaves(Spread(b)) \o Leaves(c)
          BY <1>2, <5>1, <5>2, LeavesFold
        <5> QED BY <3>3, <3>4, <4>1, <5>3
      <4>2. CASE ~Extends(t)
        <5>1. Unlinked(d) = Unlinked(c)
          BY <1>1, <4>2, SpreadStep DEF Folds
        <5> QED BY <1>2, <3>3, <4>2, <5>1, UnlinkedSame
      <4> QED BY <4>1, <4>2
    <3>8. PICK e : e = Leaves(d)
      OBVIOUS
    <3> HIDE DEF b
    <3>9. /\ SomeOf(b, l, k) => SomeOf(t, e, k + 1)
          /\ AllOf(b, l, k) => AllOf(t, e, k + 1)
      BY <1>0, <3>1, <3>2, <3>5, <3>7, <3>8, ChainFold DEF b
    <3> QED BY <3>2, <3>5, <3>6, <3>8, <3>9
  <2> QED BY <2>1, <2>2
<1>5. Leaves(Spread(t))' = Leaves(d)
  BY <1>1 DEF Leaves, IsLeaf
<1>6. PICK e : e = Leaves(d)
  OBVIOUS
<1>7. /\ SomeOf(t, Leaves(Spread(t)), FoldCount)' <=> SomeOf(t, e, m)'
      /\ AllOf(t, Leaves(Spread(t)), FoldCount)' <=> AllOf(t, e, m)'
  BY <1>1, <1>5, <1>6 DEF SomeOf, AllOf
<1>8. (SomeOf(t, e, m)' <=> SomeOf(t, e, m)) /\ (AllOf(t, e, m)' <=> AllOf(t, e, m)) /\ (Tangled' <=> Tangled)
  BY <1>0, ChainsKept, TangledKept
<1> QED BY <1>4, <1>6, <1>7, <1>8

\* At the end every base of a named type was folded in.
LEMMA AllFolded ==
  ASSUME TypeInv, ResolveInv, AcceptedResolved, Folding, EndsLast, outcome = "ok",
         NEW t \in schema.named, schema.base[t] \in Type
  PROVE  folds[t] # 0
<1>1. t \in Type /\ base[t] = NoType
  BY SchemaTyped DEF TypeInv, AcceptedResolved, Finished
<1>2. \A i \in 1..Len(stack) : stack[i].phase # "fold"
  <2>1. pass = 2
    BY DEF EndsLast
  <2> QED BY <2>1 DEF ResolveInv, Visited, PassTwo
<1> QED BY <1>1, <1>2 DEF Folding

\* In whatever order the types and elements of a schema are resolved, a type
\* ends up with the elements of ancestors up to some level, each with all of
\* its own and in order, and with those of the whole chain of extensions when
\* no ancestor of its base leads back to it.
THEOREM ChainIsInherited == Spec => []ChainInherited
<1> DEFINE Order == Below /\ Folding /\ Came /\ Chains
<1>1. Init => Order /\ EndsLast
  <2> SUFFICES ASSUME Init PROVE Order /\ EndsLast
    OBVIOUS
  <2>1. stack = <<>> /\ base = schema.base /\ outcome = "running" /\ NoType \notin Type
    BY DerivationAssumption DEF Init
  <2>2. Below /\ Folding /\ Came /\ EndsLast
    BY <2>1 DEF Below, Folding, Came, EndsLast
  <2> QED BY <2>2, ChainsInit
<1>2. TypeInv /\ ResolveInv /\ FreshPaths /\ Origins /\ FoldInv /\ Sources /\ Order /\ [Next]_vars => Order'
  <2> SUFFICES ASSUME TypeInv, ResolveInv, FreshPaths, Origins, FoldInv, Sources, Order, [Next]_vars
               PROVE  Order'
    OBVIOUS
  <2>1. PICK m : Keeps(m) /\ Calling(m)
    BY StackShape
  <2>2. Below'
    BY <2>1, BelowStep, StepKeeps
  <2>3. Folding' /\ Came' /\ Chains'
    BY <2>1, FoldingStep, CameStep, ChainsStep
  <2> QED BY <2>2, <2>3
<1>3. TypeInv /\ EndsLast /\ [Next]_vars => EndsLast'
  BY EndsLastStep
<1>4. TypeInv /\ ResolveInv /\ AcceptedResolved /\ Order /\ EndsLast => ChainInherited
  <2> SUFFICES ASSUME TypeInv, ResolveInv, AcceptedResolved, Order, EndsLast, outcome = "ok",
                      NEW t \in schema.named
               PROVE  /\ ~Tangled => Leaves(content[t]) = FromAncestors(Deep, t)
                      /\ \E n \in 0..Deep : Leaves(content[t]) = FromAncestors(n, t)
    BY DEF ChainInherited, ContentInherited
  <2>1. t \in Type /\ Spread(t) = content[t]
    BY SchemaTyped, NothingToSpread DEF TypeInv
  <2>2. FoldCount \in Nat /\ FoldCount < Deep /\ Deep \in Nat
    BY FoldCountTyped, DeepTyped
  <2>3. SomeOf(t, Leaves(content[t]), FoldCount) /\ (~Tangled => AllOf(t, Leaves(content[t]), FoldCount))
    BY <2>1, AllFolded DEF Chains
  <2> QED BY <2>2, <2>3 DEF SomeOf, AllOf
<1> HIDE DEF Order
<1> QED BY <1>1, <1>2, <1>3, <1>4, TypeAlways, ResolveAlways, SpreadAlways, FoldAlways,
           SourcesAlways, AcceptedIsResolved, PTL DEF Spec
=============================================================================
