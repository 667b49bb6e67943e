------------------------- MODULE SubstitutionProofs -------------------------
(***************************************************************************)
(* Proofs about Substitution, for every set of elements and declarations:  *)
(* the variables keep their types, what closeSubstitutes gives a head is   *)
(* the least closed set of members, each once, a schema that is accepted   *)
(* has sound groups and one that is rejected has a faulty one.             *)
(***************************************************************************)
EXTENDS Substitution, FiniteSetTheorems, TLAPS

\* What ToSet makes of the sequence operations closeSubstitutes uses.
LEMMA ToSetOfAppend ==
  ASSUME NEW S, NEW s \in Seq(S), NEW x \in S
  PROVE  ToSet(Append(s, x)) = ToSet(s) \cup {x}
<1>1. ToSet(Append(s, x)) \subseteq ToSet(s) \cup {x}
  BY DEF ToSet
<1>2. x \in ToSet(Append(s, x))
  <2>1. Append(s, x)[Len(s) + 1] = x /\ Len(s) + 1 \in 1..Len(Append(s, x))
    OBVIOUS
  <2> QED BY <2>1 DEF ToSet
<1>3. ToSet(s) \subseteq ToSet(Append(s, x))
  <2> SUFFICES ASSUME NEW i \in 1..Len(s) PROVE s[i] \in ToSet(Append(s, x))
    BY DEF ToSet
  <2>1. Append(s, x)[i] = s[i] /\ i \in 1..Len(Append(s, x))
    OBVIOUS
  <2> QED BY <2>1 DEF ToSet
<1> QED BY <1>1, <1>2, <1>3

LEMMA ToSetOfConcat ==
  ASSUME NEW S, NEW s \in Seq(S), NEW t \in Seq(S)
  PROVE  ToSet(s \o t) = ToSet(s) \cup ToSet(t)
<1>1. ToSet(s \o t) \subseteq ToSet(s) \cup ToSet(t)
  <2> SUFFICES ASSUME NEW i \in 1..Len(s \o t)
               PROVE  (s \o t)[i] \in ToSet(s) \cup ToSet(t)
    BY DEF ToSet
  <2>1. CASE i <= Len(s)
    BY <2>1 DEF ToSet
  <2>2. CASE i > Len(s)
    <3>1. i - Len(s) \in 1..Len(t) /\ (s \o t)[i] = t[i - Len(s)]
      BY <2>2
    <3> QED BY <3>1 DEF ToSet
  <2> QED BY <2>1, <2>2
<1>2. ToSet(s) \subseteq ToSet(s \o t)
  <2> SUFFICES ASSUME NEW i \in 1..Len(s) PROVE s[i] \in ToSet(s \o t)
    BY DEF ToSet
  <2>1. (s \o t)[i] = s[i] /\ i \in 1..Len(s \o t)
    OBVIOUS
  <2> QED BY <2>1 DEF ToSet
<1>3. ToSet(t) \subseteq ToSet(s \o t)
  <2> SUFFICES ASSUME NEW i \in 1..Len(t) PROVE t[i] \in ToSet(s \o t)
    BY DEF ToSet
  <2>1. (s \o t)[Len(s) + i] = t[i] /\ Len(s) + i \in 1..Len(s \o t)
    OBVIOUS
  <2> QED BY <2>1 DEF ToSet
<1> QED BY <1>1, <1>2, <1>3

LEMMA ToSetOfTail ==
  ASSUME NEW S, NEW s \in Seq(S), s # <<>>
  PROVE  /\ Head(s) \in S /\ Tail(s) \in Seq(S)
         /\ ToSet(s) = {Head(s)} \cup ToSet(Tail(s))
<1>1. Head(s) \in S /\ Tail(s) \in Seq(S) /\ Len(Tail(s)) = Len(s) - 1 /\ Len(s) > 0
  OBVIOUS
<1>2. ToSet(s) \subseteq {Head(s)} \cup ToSet(Tail(s))
  <2> SUFFICES ASSUME NEW i \in 1..Len(s), i # 1 PROVE s[i] \in ToSet(Tail(s))
    BY DEF ToSet
  <2>1. Tail(s)[i - 1] = s[i] /\ i - 1 \in 1..Len(Tail(s))
    OBVIOUS
  <2> QED BY <2>1 DEF ToSet
<1>3. ToSet(Tail(s)) \subseteq ToSet(s)
  <2> SUFFICES ASSUME NEW i \in 1..Len(Tail(s)) PROVE Tail(s)[i] \in ToSet(s)
    BY DEF ToSet
  <2>1. Tail(s)[i] = s[i + 1] /\ i + 1 \in 1..Len(s)
    BY <1>1
  <2> QED BY <2>1 DEF ToSet
<1>4. Head(s) \in ToSet(s)
  <2>1. Head(s) = s[1] /\ 1 \in 1..Len(s)
    BY <1>1
  <2> QED BY <2>1 DEF ToSet
<1> QED BY <1>1, <1>2, <1>3, <1>4

LEMMA ToSetInRange ==
  ASSUME NEW S, NEW s \in Seq(S)
  PROVE  ToSet(s) \subseteq S
BY DEF ToSet

LEMMA ElementOfSeq ==
  ASSUME NEW S, NEW s \in Seq(S), NEW i \in 1..Len(s)
  PROVE  s[i] \in S
OBVIOUS

-----------------------------------------------------------------------------
\* A head that is found is an element of the schema that looks for it.
LEMMA HeadFound ==
  ASSUME NEW p, NEW e
  PROVE  /\ HeadIn(p, e) \in Element \cup {NoElement}
         /\ HeadIn(p, e) # NoElement => HeadIn(p, e) \in decls.passes[p].elements /\ HasGroup(e)
<1> DEFINE q == decls.group[e]
<1>1. Found(p, q) \subseteq decls.passes[p].elements
  BY DEF Found, Named, ByLocal
<1>2. Lookup(p, q) # NoElement => Lookup(p, q) \in Element /\ Found(p, q) = {Lookup(p, q)}
  <2> HIDE DEF q
  <2> QED BY DEF Lookup
<1>3. Lookup(p, q) # NoElement => Lookup(p, q) \in decls.passes[p].elements
  BY <1>1, <1>2
<1> QED BY <1>2, <1>3 DEF HeadIn

\* What the schemas of a pass and the lookups in them can be.
LEMMA PassTypes ==
  ASSUME TypeOK
  PROVE  /\ \A i \in 1..Len(decls.passes) : decls.passes[i].elements \subseteq Element
         /\ Elements \subseteq Element
         /\ \A e \in Element : HeadOf(e) \in Element \cup {NoElement}
         /\ Linked \subseteq Element
<1>1. decls.passes \in Seq(Pass) /\ pass \in 1..Len(decls.passes)
  BY DEF TypeOK, DeclarationSet
<1>2. \A i \in 1..Len(decls.passes) :
         decls.passes[i] \in Pass
  BY <1>1, ElementOfSeq
<1>3. \A i \in 1..Len(decls.passes) : decls.passes[i].elements \subseteq Element
  BY <1>2 DEF Pass
<1>4. Elements \subseteq Element
  BY <1>1, <1>3 DEF Elements
<1>5. \A e \in Element : HeadOf(e) \in Element \cup {NoElement}
  BY HeadFound DEF HeadOf
<1> QED BY <1>3, <1>4, <1>5 DEF Linked

LEMMA TypeInit == Init => TypeOK
<1> SUFFICES ASSUME Init PROVE TypeOK
  OBVIOUS
<1>1. decls \in DeclarationSet /\ decls.passes # <<>>
  BY DeclarationsAssumption DEF Init
<1>2. decls.passes \in Seq(Pass)
  BY <1>1 DEF DeclarationSet
<1>3. 1 \in 1..Len(decls.passes)
  BY <1>1, <1>2
<1>4. decls.passes[1] \in Pass
  BY <1>2, <1>3, ElementOfSeq
<1>5. decls.passes[1].elements \subseteq Element
  BY <1>4 DEF Pass
<1> QED BY <1>1, <1>3, <1>5 DEF Init, TypeOK

LEMMA TypeStep == TypeOK /\ [Next]_vars => TypeOK'
<1> SUFFICES ASSUME TypeOK, [Next]_vars PROVE TypeOK'
  OBVIOUS
<1> USE PassTypes
<1>1. ASSUME NEW e \in Element, SkipElement(e) PROVE TypeOK'
  BY <1>1 DEF SkipElement, TypeOK, walk, close
<1>2. ASSUME NEW e \in Element, RejectElement(e) PROVE TypeOK'
  BY <1>2 DEF RejectElement, Stop, TypeOK, walk, close
<1>3. ASSUME NEW e \in Element, PanicOnElement(e) PROVE TypeOK'
  BY <1>3 DEF PanicOnElement, Stop, TypeOK, walk, close
<1>4. ASSUME NEW e \in Element, LinkElement(e) PROVE TypeOK'
  <2>1. HeadOf(e) \in Element
    BY <1>4 DEF LinkElement
  <2>2. Append(heads[HeadOf(e)], e) \in Seq(Element)
    BY <2>1 DEF TypeOK
  <2>3. heads' \in [Element -> Seq(Element)]
    BY <1>4, <2>1, <2>2 DEF LinkElement, TypeOK
  <2> QED BY <1>4, <2>3 DEF LinkElement, TypeOK, walk, close
<1>5. ASSUME NEW h \in Element, BeginWalk(h) PROVE TypeOK'
  BY <1>5 DEF BeginWalk, TypeOK, close
<1>6. ASSUME NEW h \in Element, SkipBlocked(h) PROVE TypeOK'
  BY <1>6 DEF SkipBlocked, TypeOK, walk, close
<1>7. ASSUME NEW h \in Element, BeginExpand(h) PROVE TypeOK'
  BY <1>7 DEF BeginExpand, TypeOK, walk
<1>8. CASE EndPass
  <2>1. CASE pass < Len(decls.passes)
    <3>1. pass + 1 \in 1..Len(decls.passes)
      BY <2>1 DEF TypeOK
    <3>2. decls.passes[pass + 1].elements \subseteq Element
      BY <3>1
    <3>3. /\ pass' = pass + 1 /\ phase' = "link"
          /\ todo' = decls.passes[pass + 1].elements
          /\ heads' = [e \in Element |-> <<>>]
          /\ UNCHANGED <<decls, walk, close, substitutes, outcome>>
      BY <1>8, <2>1 DEF EndPass
    <3>4. heads' \in [Element -> Seq(Element)]
      BY <3>3
    <3>5. pass' \in 1..Len(decls'.passes) /\ todo' \subseteq Element
      BY <3>1, <3>2, <3>3
    <3> QED BY <3>3, <3>4, <3>5 DEF TypeOK, walk, close
  <2>2. CASE ~(pass < Len(decls.passes))
    BY <1>8, <2>2 DEF EndPass, TypeOK, walk, close
  <2> QED BY <2>1, <2>2
<1>9. CASE BeginCheck
  BY <1>9 DEF BeginCheck, TypeOK, walk, close
<1>10. CASE Walk
  <2>1. cur \in Element
    BY <1>10 DEF Walk, TypeOK
  <2>2. HeadOf(cur) \in Element \cup {NoElement}
    BY <2>1
  <2> QED BY <1>10, <2>1, <2>2 DEF Walk, TypeOK, close
<1>11. CASE RejectCycle
  BY <1>11 DEF RejectCycle, Stop, TypeOK, walk, close
<1>12. CASE EndWalk
  BY <1>12 DEF EndWalk, TypeOK, walk, close
<1>13. CASE BeginClose
  BY <1>13 DEF BeginClose, TypeOK, walk, close
<1>14. CASE Expand
  <2>1. Head(queue) \in Element /\ Tail(queue) \in Seq(Element)
    BY <1>14, ToSetOfTail DEF Expand, TypeOK
  <2>2. heads[Head(queue)] \in Seq(Element)
    BY <2>1 DEF TypeOK
  <2>3. /\ Tail(queue) \o heads[Head(queue)] \in Seq(Element)
        /\ Append(out, Head(queue)) \in Seq(Element)
    BY <2>1, <2>2 DEF TypeOK
  <2>4. queue' \in {Tail(queue), Tail(queue) \o heads[Head(queue)]}
    BY <1>14 DEF Expand
  <2>5. /\ out' \in {out, Append(out, Head(queue))}
        /\ seen' \in {seen, seen \cup {Head(queue)}}
    BY <1>14 DEF Expand
  <2>6. queue' \in Seq(Element) /\ out' \in Seq(Element) /\ seen' \subseteq Element
    BY <2>1, <2>3, <2>4, <2>5 DEF TypeOK
  <2> QED BY <1>14, <2>6 DEF Expand, TypeOK, walk
<1>15. CASE EndExpand
  BY <1>15 DEF EndExpand, TypeOK, walk, close
<1>16. CASE UNCHANGED vars
  BY <1>16 DEF TypeOK, vars, walk, close
<1> QED
  BY <1>1, <1>2, <1>3, <1>4, <1>5, <1>6, <1>7, <1>8, <1>9, <1>10, <1>11,
     <1>12, <1>13, <1>14, <1>15, <1>16 DEF Next, Step, Done

\* The variables keep their types, whatever the declarations and the order in
\* which the maps are visited.
THEOREM TypeCorrect == Spec => []TypeOK
BY TypeInit, TypeStep, PTL DEF Spec

-----------------------------------------------------------------------------
\* The loop of closeSubstitutes: what is out is what was seen; the members of
\* all that was seen are seen or queued; nothing is seen or queued that a
\* closed set could lack.
CloseInv ==
  phase = "expand" =>
    /\ head \in Element
    /\ seen = ToSet(out)
    /\ Len(out) = Cardinality(seen)
    /\ ToSet(heads[head]) \subseteq seen \cup ToSet(queue)
    /\ \A m \in seen : ToSet(heads[m]) \subseteq seen \cup ToSet(queue)
    /\ \A S \in SUBSET Element : Closed(S, head) => seen \cup ToSet(queue) \subseteq S

LEMMA EmptyToSet == ToSet(<<>>) = {}
BY DEF ToSet

LEMMA CloseStep == TypeOK /\ CloseInv /\ [Next]_vars => CloseInv'
<1> SUFFICES ASSUME TypeOK, CloseInv, [Next]_vars, phase' = "expand"
             PROVE  CloseInv'
  BY DEF CloseInv
<1>1. ASSUME NEW h \in Element, BeginExpand(h) PROVE CloseInv'
  <2>1. /\ head' = h /\ out' = <<>> /\ seen' = {} /\ queue' = heads[h] /\ heads' = heads
    BY <1>1 DEF BeginExpand
  <2>2. seen' = ToSet(out') /\ Len(out') = 0 /\ Cardinality(seen') = 0
    BY <2>1, EmptyToSet, FS_EmptySet
  <2>3. \A S \in SUBSET Element : Closed(S, head)' => ToSet(queue') \subseteq S
    BY <2>1 DEF Closed
  <2> QED BY <2>1, <2>2, <2>3 DEF CloseInv
<1>2. CASE Expand
  <2> DEFINE m == Head(queue)
             rest == Tail(queue)
  <2>1. phase = "expand"
    BY <1>2 DEF Expand, Running
  <2>2. m \in Element /\ rest \in Seq(Element) /\ ToSet(queue) = {m} \cup ToSet(rest)
    BY <1>2, ToSetOfTail DEF Expand, TypeOK
  <2>3. UNCHANGED <<heads, head>>
    BY <1>2 DEF Expand
  <2>4. CASE m \in seen
    <3>1. queue' = rest /\ seen' = seen /\ out' = out
      BY <1>2, <2>4 DEF Expand
    <3>2. seen' \cup ToSet(queue') = seen \cup ToSet(queue)
      BY <2>2, <2>4, <3>1
    <3>3. \A S \in SUBSET Element : Closed(S, head)' <=> Closed(S, head)
      BY <2>3 DEF Closed
    <3> QED BY <2>1, <2>3, <3>1, <3>2, <3>3 DEF CloseInv
  <2>5. CASE m \notin seen
    <3>1. queue' = rest \o heads[m] /\ seen' = seen \cup {m} /\ out' = Append(out, m)
      BY <1>2, <2>5 DEF Expand
    <3>2. heads[m] \in Seq(Element)
      BY <2>2 DEF TypeOK
    <3>3. ToSet(queue') = ToSet(rest) \cup ToSet(heads[m])
      <4>1. ToSet(rest \o heads[m]) = ToSet(rest) \cup ToSet(heads[m])
        <5> HIDE DEF m, rest
        <5> QED BY <2>2, <3>2, ToSetOfConcat
      <4> QED BY <3>1, <4>1
    <3>4. seen' \cup ToSet(queue') = seen \cup ToSet(queue) \cup ToSet(heads[m])
      BY <2>2, <3>1, <3>3
    <3>5. seen' = ToSet(out')
      BY <2>1, <2>2, <3>1, ToSetOfAppend DEF CloseInv, TypeOK
    <3>6. Len(out') = Cardinality(seen')
      <4>1. IsFiniteSet(seen)
        BY SubstitutionAssumption, FS_Subset DEF TypeOK
      <4>2. Cardinality(seen') = Cardinality(seen) + 1
        BY <2>5, <3>1, <4>1, FS_AddElement
      <4>3. Len(out') = Len(out) + 1
        BY <2>2, <3>1 DEF TypeOK
      <4> QED BY <2>1, <4>2, <4>3 DEF CloseInv
    <3>7. ToSet(heads'[head']) \subseteq seen' \cup ToSet(queue')
      BY <2>1, <2>3, <3>4 DEF CloseInv
    <3>8. \A x \in seen' : ToSet(heads'[x]) \subseteq seen' \cup ToSet(queue')
      BY <2>1, <2>3, <3>1, <3>4 DEF CloseInv
    <3>9. \A S \in SUBSET Element : Closed(S, head)' => seen' \cup ToSet(queue') \subseteq S
      <4> SUFFICES ASSUME NEW S \in SUBSET Element, Closed(S, head)
                   PROVE  seen' \cup ToSet(queue') \subseteq S
        BY <2>3 DEF Closed
      <4>1. seen \cup ToSet(queue) \subseteq S
        BY <2>1 DEF CloseInv
      <4>2. ToSet(heads[m]) \subseteq S
        BY <4>1, <2>2 DEF Closed
      <4> QED BY <4>1, <4>2, <3>4
    <3> QED BY <2>1, <2>3, <3>5, <3>6, <3>7, <3>8, <3>9 DEF CloseInv
  <2> QED BY <2>4, <2>5
\* No other step changes what the loop reads while it runs.
<1>3. CASE UNCHANGED <<phase, heads, close>>
  BY <1>3 DEF CloseInv, Closed, close
<1>4. ASSUME NEW e \in Element,
             SkipElement(e) \/ RejectElement(e) \/ PanicOnElement(e) \/ LinkElement(e)
               \/ SkipBlocked(e)
      PROVE  CloseInv'
  <2>1. CASE SkipElement(e)
    BY <1>3, <2>1 DEF SkipElement
  <2>2. CASE RejectElement(e)
    BY <1>3, <2>2 DEF RejectElement, Stop
  <2>3. CASE PanicOnElement(e)
    BY <1>3, <2>3 DEF PanicOnElement, Stop
  <2>4. CASE LinkElement(e)
    BY <2>4 DEF LinkElement, Running
  <2>5. CASE SkipBlocked(e)
    BY <1>3, <2>5 DEF SkipBlocked
  <2> QED BY <1>4, <2>1, <2>2, <2>3, <2>4, <2>5
<1>5. ASSUME NEW h \in Element, BeginWalk(h) PROVE CloseInv'
  BY <1>5 DEF BeginWalk
<1>6. CASE EndPass
  BY <1>6 DEF EndPass, Running
<1>7. CASE BeginCheck \/ EndWalk \/ BeginClose \/ EndExpand
  BY <1>7 DEF BeginCheck, EndWalk, BeginClose, EndExpand
<1>8. CASE Walk \/ RejectCycle
  BY <1>3, <1>8 DEF Walk, RejectCycle, Stop
<1>9. CASE UNCHANGED vars
  BY <1>3, <1>9 DEF vars
<1> QED
  BY <1>1, <1>2, <1>4, <1>5, <1>6, <1>7, <1>8, <1>9 DEF Next, Step, Done

LEMMA CloseInvGivesClosesOnce == CloseInv => ClosesOnce
<1> SUFFICES ASSUME CloseInv, Running("expand"), queue = <<>>
             PROVE  /\ Closed(ToSet(out), head)
                    /\ \A S \in SUBSET Element : Closed(S, head) => ToSet(out) \subseteq S
                    /\ Len(out) = Cardinality(ToSet(out))
  BY DEF ClosesOnce
<1>1. phase = "expand" /\ ToSet(queue) = {}
  BY EmptyToSet DEF Running
<1> QED BY <1>1 DEF CloseInv, Closed

\* Every head gets the least set that has its direct members and is closed
\* under membership, each element once (closeSubstitutes), for any groups.
THEOREM SubstitutesClosed == Spec => []ClosesOnce
<1>1. Init => CloseInv
  BY DEF Init, CloseInv
<1> QED BY <1>1, TypeCorrect, CloseStep, CloseInvGivesClosesOnce, PTL DEF Spec
-----------------------------------------------------------------------------
(***************************************************************************)
(* The chain of heads above an element.  Above is an intersection of sets, *)
(* so these lemmas need no induction: what has to be shown to be above an  *)
(* element, or not to be, is put into a set that has all its heads.        *)
(***************************************************************************)
ClosedUp(S) == \A x \in S : HeadOf(x) \in S \cup {NoElement}

LEMMA HeadTyped ==
  ASSUME TypeOK, NEW e \in Element
  PROVE  /\ HeadOf(e) \in Element \cup {NoElement}
         /\ HeadOf(e) # NoElement => HeadOf(e) \in Elements /\ HasGroup(e)
BY HeadFound DEF HeadOf, Elements

LEMMA AboveClosed ==
  ASSUME TypeOK, NEW e \in Element
  PROVE  /\ Above(e) \subseteq Element
         /\ HeadOf(e) \in Above(e) \cup {NoElement}
         /\ ClosedUp(Above(e))
<1>1. ASSUME NEW x \in Above(e) \cup {e} PROVE HeadOf(x) \in Above(e) \cup {NoElement}
  <2>1. HeadOf(x) \in Element \cup {NoElement}
    BY HeadTyped DEF Above
  <2>2. ASSUME NEW S \in SUBSET Element, HasHeads(S, e), HeadOf(x) # NoElement
        PROVE  HeadOf(x) \in S
    BY <2>2 DEF Above, HasHeads
  <2> QED BY <2>1, <2>2 DEF Above
<1>2. Above(e) \subseteq Element
  BY DEF Above
<1> QED BY <1>1, <1>2 DEF ClosedUp

LEMMA AboveLeast ==
  ASSUME NEW e, NEW S \in SUBSET Element, ClosedUp(S),
         HeadOf(e) \in S \cup {NoElement}
  PROVE  Above(e) \subseteq S
BY DEF Above, ClosedUp, HasHeads

LEMMA AboveHeadless ==
  ASSUME NEW e, HeadOf(e) = NoElement
  PROVE  Above(e) = {}
<1>1. ClosedUp({}) /\ HeadOf(e) \in {} \cup {NoElement} /\ {} \in SUBSET Element
  BY DEF ClosedUp
<1> QED BY <1>1, AboveLeast

\* What is above an element is its head and what is above that.
LEMMA AboveUnfold ==
  ASSUME TypeOK, NEW e \in Element, HeadOf(e) # NoElement
  PROVE  Above(e) = {HeadOf(e)} \cup Above(HeadOf(e))
<1> DEFINE h == HeadOf(e)
           S == {h} \cup Above(h)
<1>1. h \in Element
  BY HeadTyped
<1>2. Above(e) \subseteq S
  <2>1. ClosedUp(S) /\ S \in SUBSET Element
    BY <1>1, AboveClosed DEF ClosedUp
  <2> QED BY <2>1, AboveLeast
<1>3. h \in Above(e) /\ ClosedUp(Above(e)) /\ Above(e) \in SUBSET Element
  BY AboveClosed
<1>4. HeadOf(h) \in Above(e) \cup {NoElement}
  BY <1>3 DEF ClosedUp
<1>5. Above(h) \subseteq Above(e)
  BY <1>3, <1>4, AboveLeast
<1> QED BY <1>2, <1>3, <1>5

LEMMA AboveInElements ==
  ASSUME TypeOK, NEW e \in Element
  PROVE  Above(e) \subseteq Elements
<1>1. ClosedUp(Elements) /\ HeadOf(e) \in Elements \cup {NoElement}
      /\ Elements \in SUBSET Element
  BY PassTypes, HeadTyped DEF ClosedUp
<1> QED BY <1>1, AboveLeast

\* Above a circular element the chain never ends.
LEMMA CircularNeverEnds ==
  ASSUME TypeOK, NEW x \in Element, Circular(x)
  PROVE  \A y \in Above(x) : HeadOf(y) \in Above(x)
<1> DEFINE Z == {z \in Above(x) : x \in Above(z)}
<1>1. Above(x) \subseteq Element /\ x \in Above(x) /\ ClosedUp(Above(x))
  BY AboveClosed DEF Circular
<1>2. ASSUME NEW z \in Z PROVE HeadOf(z) # NoElement /\ HeadOf(z) \in Z
  <2>1. z \in Element /\ x \in Above(z)
    BY <1>1
  <2>2. HeadOf(z) # NoElement
    BY <2>1, AboveHeadless
  <2>3. HeadOf(z) \in Above(x)
    BY <1>1, <2>2 DEF ClosedUp
  <2>4. x \in Above(HeadOf(z))
    BY <1>1, <2>1, <2>2, AboveUnfold
  <2> QED BY <2>2, <2>3, <2>4
<1>3. ClosedUp(Z) /\ HeadOf(x) \in Z \cup {NoElement} /\ Z \in SUBSET Element
  BY <1>1, <1>2 DEF ClosedUp
<1>4. Above(x) \subseteq Z
  BY <1>3, AboveLeast
<1> QED BY <1>2, <1>4

\* A circular element is the head of another one, or of itself.
LEMMA CircularIsHead ==
  ASSUME TypeOK, NEW x \in Element, Circular(x)
  PROVE  \E y \in Elements : HeadOf(y) = x
<1> SUFFICES ASSUME \A y \in Elements : HeadOf(y) # x PROVE FALSE
  OBVIOUS
<1> DEFINE S == Above(x) \ {x}
<1>1. /\ Above(x) \subseteq Element /\ x \in Above(x) /\ ClosedUp(Above(x))
      /\ HeadOf(x) \in Above(x) \cup {NoElement} /\ Above(x) \subseteq Elements
  BY AboveClosed, AboveInElements DEF Circular
<1>2. ClosedUp(S) /\ HeadOf(x) \in S \cup {NoElement} /\ S \in SUBSET Element
  BY <1>1 DEF ClosedUp
<1> QED BY <1>1, <1>2, AboveLeast

\* The members below a head.
Below(h) == {e \in Elements : h \in Above(e)}
DirectMembers(h) == {e \in Elements : HeadOf(e) = h}

\* They are the least set that has the head's direct members and theirs.
LEMMA BelowIsLeast ==
  ASSUME TypeOK, NEW h \in Element,
         NEW S \in SUBSET Element,
         DirectMembers(h) \subseteq S,
         \A m \in S : DirectMembers(m) \subseteq S,
         \A T \in SUBSET Element :
            /\ DirectMembers(h) \subseteq T
            /\ \A m \in T : DirectMembers(m) \subseteq T
            => S \subseteq T
  PROVE  S = Below(h)
<1>1. Elements \subseteq Element
  BY PassTypes
<1>2. S \subseteq Below(h)
  <2>1. DirectMembers(h) \subseteq Below(h)
    <3> SUFFICES ASSUME NEW e \in Elements, HeadOf(e) = h PROVE h \in Above(e)
      BY DEF DirectMembers, Below
    <3> QED BY <1>1, AboveClosed, SubstitutionAssumption
  <2>2. \A m \in Below(h) : DirectMembers(m) \subseteq Below(h)
    <3> SUFFICES ASSUME NEW m \in Below(h), NEW e \in Elements, HeadOf(e) = m
                 PROVE  h \in Above(e)
      BY DEF DirectMembers, Below
    <3>1. m \in Element /\ e \in Element /\ HeadOf(e) # NoElement /\ h \in Above(m)
      BY <1>1, SubstitutionAssumption DEF Below
    <3> QED BY <3>1, AboveUnfold
  <2>3. Below(h) \in SUBSET Element
    BY <1>1 DEF Below
  <2> QED BY <2>1, <2>2, <2>3
<1>3. Below(h) \subseteq S
  <2> SUFFICES ASSUME NEW e \in Elements, h \in Above(e), e \notin S PROVE FALSE
    BY DEF Below
  <2> DEFINE T == {x \in Elements : x \notin S /\ x # h}
  <2>1. ASSUME NEW x \in Elements, x \notin S PROVE HeadOf(x) \in T \cup {NoElement}
    <3>1. x \in Element
      BY <1>1
    <3>2. HeadOf(x) # h /\ HeadOf(x) \notin S
      BY <2>1 DEF DirectMembers
    <3> QED BY <3>1, <3>2, HeadTyped
  <2>2. ClosedUp(T) /\ HeadOf(e) \in T \cup {NoElement} /\ T \in SUBSET Element
    BY <1>1, <2>1 DEF ClosedUp
  <2> QED BY <2>2, AboveLeast
<1> QED BY <1>2, <1>3
-----------------------------------------------------------------------------
(***************************************************************************)
(* The three loops of resolveSubstitutionGroups.  Each leaves behind it    *)
(* what the next one needs: the first the direct members of every head,    *)
(* checked; the second heads of which none is circular; the third heads    *)
(* with all that is below them.                                            *)
(***************************************************************************)
Unlinked == IF phase = "link" THEN todo ELSE {}

LinkInv ==
  /\ phase = "link" => todo \subseteq Elements
  /\ \A h \in Element : ToSet(heads[h]) = DirectMembers(h) \ Unlinked
  /\ \A e \in Elements \ Unlinked : HasGroup(e) =>
        HeadOf(e) \notin {NoElement, e} /\ TypeCheck(e, HeadOf(e)) = "ok"

\* The walk: every element of the path has the current one above it, and if
\* one of them is circular the walk has not left its circle.
CheckInv ==
  /\ phase \in {"check", "walk"} => todo \subseteq Linked
  /\ phase = "check" => \A h \in Linked \ todo : ~Circular(h)
  /\ phase = "walk" =>
       /\ path \cup {cur} \subseteq Elements \cup {NoElement}
       /\ path \subseteq Elements
       /\ \A h \in Linked \ todo : ~Circular(h) \/ h \in path \cup {cur}
       /\ \A x \in path : cur \in Above(x) \cup {NoElement}
       /\ \A x \in path : Circular(x) => cur \in Above(x)
  /\ phase \in {"close", "expand"} => \A h \in Linked : ~Circular(h)

\* The members of a head, and those it was left with by an earlier pass.
StoreInv ==
  /\ phase \in {"close", "expand"} =>
       /\ todo \subseteq Linked
       /\ \A h \in Linked \ todo : \/ Blocks(h)
                                   \/ phase = "expand" /\ h = head
                                   \/ ToSet(substitutes[h]) = Below(h)
  /\ phase = "expand" => head \in Linked
  /\ \A h \in Element : substitutes[h] # <<>> =>
       \E i \in 1..pass : \E e \in decls.passes[i].elements :
          HeadIn(i, e) = h

ResolveInv == /\ TypeOK
              /\ CloseInv
              /\ LinkInv
              /\ CheckInv
              /\ StoreInv
              /\ RejectsOnlyFaults
              /\ GroupsSound

\* What a schema finds depends on the declarations alone.
LEMMA SameHeads ==
  ASSUME decls' = decls
  PROVE  /\ \A e : HasGroup(e)' = HasGroup(e)
         /\ \A p, e : HeadIn(p, e)' = HeadIn(p, e)
<1>1. \A e : HasGroup(e)' = HasGroup(e)
  BY DEF HasGroup
<1>2. ASSUME NEW p, NEW q PROVE Named(p, q)' = Named(p, q) /\ ByLocal(p, q)' = ByLocal(p, q)
  BY DEF Named, ByLocal
<1>3. ASSUME NEW p, NEW q PROVE Found(p, q)' = Found(p, q)
  BY <1>2 DEF Found
<1>4. ASSUME NEW p, NEW q PROVE Lookup(p, q)' = Lookup(p, q)
  BY <1>3 DEF Lookup
<1>5. ASSUME NEW p, NEW e PROVE HeadIn(p, e)' = HeadIn(p, e)
  BY <1>1, <1>4 DEF HeadIn
<1> QED BY <1>1, <1>5

\* Within a pass the declarations and what is read from them stay.
LEMMA SamePass ==
  ASSUME UNCHANGED <<decls, pass>>
  PROVE  /\ Elements' = Elements
         /\ \A e : HeadOf(e)' = HeadOf(e)
         /\ \A e : HasGroup(e)' = HasGroup(e)
         /\ \A e, h : TypeCheck(e, h)' = TypeCheck(e, h)
         /\ \A h : Blocks(h)' = Blocks(h)
         /\ \A e : Above(e)' = Above(e)
         /\ \A e : Circular(e)' = Circular(e)
         /\ \A h : DirectMembers(h)' = DirectMembers(h)
         /\ \A h : Below(h)' = Below(h)
<1>1. Elements' = Elements
  BY DEF Elements
<1>2. ASSUME NEW e PROVE HeadOf(e)' = HeadOf(e) /\ HasGroup(e)' = HasGroup(e)
  BY SameHeads DEF HeadOf
<1>3. ASSUME NEW e, NEW h PROVE TypeCheck(e, h)' = TypeCheck(e, h)
  BY DEF TypeCheck
<1>4. ASSUME NEW h PROVE Blocks(h)' = Blocks(h)
  BY DEF Blocks
<1>5. ASSUME NEW e PROVE Above(e)' = Above(e)
  BY <1>2 DEF Above, HasHeads
<1>6. ASSUME NEW e PROVE Circular(e)' = Circular(e)
  BY <1>5 DEF Circular
<1>7. ASSUME NEW h PROVE DirectMembers(h)' = DirectMembers(h) /\ Below(h)' = Below(h)
  BY <1>1, <1>2, <1>5 DEF DirectMembers, Below
<1> QED BY <1>1, <1>2, <1>3, <1>4, <1>5, <1>6, <1>7

\* A head is linked exactly when it has a direct member.
LEMMA LinkedHasMember ==
  ASSUME TypeOK, NEW h \in Element
  PROVE  h \in Linked <=> ToSet(heads[h]) # {}
<1>1. heads[h] \in Seq(Element)
  BY DEF TypeOK
<1>2. heads[h] # <<>> => heads[h][1] \in ToSet(heads[h])
  BY <1>1 DEF ToSet
<1> QED BY <1>2, EmptyToSet DEF Linked

LEMMA LinkedIsHead ==
  ASSUME TypeOK, LinkInv
  PROVE  /\ \A h \in Linked : h \in Elements /\ \E e \in Elements : HeadOf(e) = h
         /\ phase # "link" => \A e \in Elements : HeadOf(e) # NoElement => HeadOf(e) \in Linked
<1>1. ASSUME NEW h \in Linked PROVE h \in Elements /\ \E e \in Elements : HeadOf(e) = h
  <2>1. h \in Element /\ DirectMembers(h) # {}
    BY PassTypes, LinkedHasMember DEF LinkInv
  <2>2. PICK e \in Elements : HeadOf(e) = h
    BY <2>1 DEF DirectMembers
  <2> QED BY <2>1, <2>2, HeadTyped, PassTypes, SubstitutionAssumption
<1>2. ASSUME phase # "link", NEW e \in Elements, HeadOf(e) # NoElement
      PROVE  HeadOf(e) \in Linked
  <2>1. HeadOf(e) \in Element
    BY <1>2, HeadTyped, PassTypes
  <2>2. e \in ToSet(heads[HeadOf(e)])
    BY <1>2, <2>1 DEF LinkInv, Unlinked, DirectMembers
  <2> QED BY <2>1, <2>2, LinkedHasMember
<1> QED BY <1>1, <1>2

\* A step that links nothing and goes on with the same pass.
LEMMA LinkKept ==
  ASSUME LinkInv, UNCHANGED <<decls, pass, heads>>, Unlinked' = Unlinked,
         phase' = "link" => todo' \subseteq Elements
  PROVE  LinkInv'
BY SamePass DEF LinkInv

LEMMA LinkStep == TypeOK /\ LinkInv /\ [Next]_vars => LinkInv'
<1> SUFFICES ASSUME TypeOK, LinkInv, [Next]_vars PROVE LinkInv'
  OBVIOUS
<1>1. ASSUME NEW e \in Element, SkipElement(e) PROVE LinkInv'
  <2>1. /\ UNCHANGED <<decls, pass, heads, phase>> /\ phase = "link" /\ ~HasGroup(e)
        /\ e \in todo /\ todo' = todo \ {e}
    BY <1>1 DEF SkipElement, Running
  <2>2. Unlinked' = Unlinked \ {e} /\ Unlinked = todo
    BY <2>1 DEF Unlinked
  <2>3. HeadOf(e) = NoElement
    BY <2>1, HeadTyped
  <2>4. \A h \in Element : DirectMembers(h) \ Unlinked' = DirectMembers(h) \ Unlinked
    BY <2>2, <2>3, SubstitutionAssumption DEF DirectMembers
  <2>5. \A h \in Element : ToSet(heads[h]) = DirectMembers(h) \ Unlinked'
    BY <2>4 DEF LinkInv
  <2>6. \A x \in Elements \ Unlinked' : HasGroup(x) =>
          HeadOf(x) \notin {NoElement, x} /\ TypeCheck(x, HeadOf(x)) = "ok"
    BY <2>1, <2>2 DEF LinkInv
  <2>7. todo' \subseteq Elements
    BY <2>1 DEF LinkInv
  <2> QED BY <2>1, <2>5, <2>6, <2>7, SamePass DEF LinkInv
<1>2. ASSUME NEW e \in Element, LinkElement(e) PROVE LinkInv'
  <2> DEFINE h == HeadOf(e)
  <2>1. /\ UNCHANGED <<decls, pass, phase>> /\ phase = "link" /\ HasGroup(e)
        /\ h \notin {NoElement, e} /\ TypeCheck(e, h) = "ok"
        /\ e \in todo /\ todo' = todo \ {e}
        /\ heads' = [heads EXCEPT ![h] = Append(@, e)]
    BY <1>2 DEF LinkElement, Running
  <2>2. Unlinked' = Unlinked \ {e} /\ Unlinked = todo /\ e \in Elements
    BY <2>1 DEF Unlinked, LinkInv
  <2>3. h \in Element /\ heads \in [Element -> Seq(Element)]
    BY <2>1, HeadTyped DEF TypeOK
  <2>4. \A x \in Element : ToSet(heads'[x]) = DirectMembers(x) \ Unlinked'
    <3> TAKE x \in Element
    <3>1. ToSet(heads[x]) = DirectMembers(x) \ Unlinked
      BY DEF LinkInv
    <3>2. CASE x = h
      <4>1. heads'[x] = Append(heads[x], e)
        BY <2>1, <2>3, <3>2
      <4>2. ToSet(heads'[x]) = ToSet(heads[x]) \cup {e}
        BY <2>3, <4>1, ToSetOfAppend
      <4>3. e \in DirectMembers(x)
        BY <2>2, <3>2 DEF DirectMembers
      <4> QED BY <2>2, <3>1, <4>2, <4>3
    <3>3. CASE x # h
      <4>1. heads'[x] = heads[x] /\ e \notin DirectMembers(x)
        BY <2>1, <2>3, <3>3 DEF DirectMembers
      <4> QED BY <2>2, <3>1, <4>1
    <3> QED BY <3>2, <3>3
  <2>5. \A x \in Elements \ Unlinked' : HasGroup(x) =>
          HeadOf(x) \notin {NoElement, x} /\ TypeCheck(x, HeadOf(x)) = "ok"
    BY <2>1, <2>2 DEF LinkInv
  <2>6. todo' \subseteq Elements
    BY <2>1 DEF LinkInv
  <2> QED BY <2>1, <2>4, <2>5, <2>6, SamePass DEF LinkInv
<1>3. CASE EndPass
  <2>1. CASE pass < Len(decls.passes)
    <3>1. /\ phase' = "link" /\ todo' = decls.passes[pass + 1].elements
          /\ pass' = pass + 1 /\ decls' = decls
          /\ heads' = [e \in Element |-> <<>>]
      BY <1>3, <2>1 DEF EndPass
    <3>2. Elements' = todo' /\ Unlinked' = todo'
      BY <3>1 DEF Elements, Unlinked
    <3>3. \A h : DirectMembers(h)' \subseteq Elements'
      BY DEF DirectMembers
    <3>4. \A h \in Element : ToSet(heads'[h]) = {}
      BY <3>1, EmptyToSet
    <3> QED BY <3>1, <3>2, <3>3, <3>4 DEF LinkInv
  <2>2. CASE ~(pass < Len(decls.passes))
    <3>1. UNCHANGED <<decls, pass, heads, phase, todo>>
      BY <1>3, <2>2 DEF EndPass
    <3> QED BY <3>1, LinkKept DEF Unlinked, LinkInv
  <2> QED BY <2>1, <2>2
<1>4. CASE BeginCheck
  BY <1>4, LinkKept DEF BeginCheck, Running, Unlinked
<1>5. ASSUME NEW h \in Element, BeginWalk(h) \/ SkipBlocked(h) \/ BeginExpand(h) PROVE LinkInv'
  BY <1>5, LinkKept DEF BeginWalk, SkipBlocked, BeginExpand, Running, Unlinked
<1>6. CASE EndWalk \/ BeginClose \/ EndExpand
  BY <1>6, LinkKept DEF EndWalk, BeginClose, EndExpand, Running, Unlinked
<1>7. ASSUME UNCHANGED <<decls, pass, heads, phase, todo>> PROVE LinkInv'
  BY <1>7, LinkKept DEF Unlinked, LinkInv
<1>8. CASE Walk \/ RejectCycle \/ Expand
  <2>1. UNCHANGED <<decls, pass, heads, phase, todo>>
    BY <1>8 DEF Walk, RejectCycle, Stop, Expand
  <2> QED BY <1>7, <2>1
<1>9. ASSUME NEW e \in Element, RejectElement(e) \/ PanicOnElement(e) PROVE LinkInv'
  BY <1>7, <1>9 DEF RejectElement, PanicOnElement, Stop
<1>10. CASE UNCHANGED vars
  BY <1>7, <1>10 DEF vars
<1> QED BY <1>1, <1>2, <1>3, <1>4, <1>5, <1>6, <1>8, <1>9, <1>10 DEF Next, Step, Done

LEMMA LinkInit == Init => LinkInv
<1> SUFFICES ASSUME Init PROVE LinkInv
  OBVIOUS
<1>1. Elements = todo /\ Unlinked = todo
  BY DEF Init, Elements, Unlinked
<1>2. \A h : DirectMembers(h) \subseteq Elements
  BY DEF DirectMembers
<1>3. \A h \in Element : ToSet(heads[h]) = {}
  BY EmptyToSet DEF Init
<1> QED BY <1>1, <1>2, <1>3 DEF LinkInv
-----------------------------------------------------------------------------
LEMMA CheckKept ==
  ASSUME CheckInv, UNCHANGED <<decls, pass, phase, todo, heads, walk>>
  PROVE  CheckInv'
<1>1. Linked' = Linked
  BY DEF Linked
<1> QED BY <1>1, SamePass DEF CheckInv, walk

\* When a walk ends, nothing it passed is circular.
LEMMA WalkEnds ==
  ASSUME TypeOK, LinkInv, CheckInv, EndWalk
  PROVE  \A h \in Linked \ todo : ~Circular(h)
<1>1. /\ phase = "walk" /\ (cur = NoElement \/ ~HasGroup(cur))
      /\ path \subseteq Elements /\ path \cup {cur} \subseteq Elements \cup {NoElement}
  BY DEF EndWalk, Running, CheckInv
<1>2. ASSUME NEW x \in path PROVE ~Circular(x)
  <2> SUFFICES ASSUME Circular(x) PROVE FALSE
    OBVIOUS
  <2>1. x \in Element /\ cur \in Above(x)
    BY <1>1, PassTypes DEF CheckInv
  <2>2. cur \in Element /\ HeadOf(cur) \in Above(x) /\ HeadOf(cur) \in Element
    BY <2>1, CircularNeverEnds, AboveClosed
  <2> QED BY <1>1, <2>2, HeadTyped, SubstitutionAssumption
<1>3. ASSUME cur \in Linked PROVE ~Circular(cur)
  <2>1. cur \in Element
    BY <1>3, PassTypes
  <2>2. HeadOf(cur) = NoElement
    BY <1>1, <2>1, HeadTyped, SubstitutionAssumption
  <2> QED BY <2>2, AboveHeadless DEF Circular
<1> QED BY <1>1, <1>2, <1>3 DEF CheckInv

LEMMA CheckStep == TypeOK /\ LinkInv /\ CheckInv /\ [Next]_vars => CheckInv'
<1> SUFFICES ASSUME TypeOK, LinkInv, CheckInv, [Next]_vars PROVE CheckInv'
  OBVIOUS
<1>0. Linked \subseteq Elements /\ Elements \subseteq Element
  BY PassTypes, LinkedIsHead
<1>1. ASSUME phase' = "link" PROVE CheckInv'
  BY <1>1 DEF CheckInv
<1>2. ASSUME UNCHANGED <<decls, pass, heads>>
      PROVE  /\ Linked' = Linked /\ Elements' = Elements
             /\ \A e : Circular(e)' = Circular(e)
             /\ \A e : Above(e)' = Above(e)
  BY <1>2, SamePass DEF Linked
<1>3. CASE BeginCheck
  BY <1>2, <1>3 DEF BeginCheck, CheckInv
<1>4. ASSUME NEW h \in Element, BeginWalk(h) PROVE CheckInv'
  <2>1. /\ UNCHANGED <<decls, pass, heads>> /\ phase = "check" /\ phase' = "walk"
        /\ h \in todo /\ todo' = todo \ {h} /\ cur' = h /\ path' = {}
    BY <1>4 DEF BeginWalk, Running
  <2>2. h \in Elements /\ todo' \subseteq Linked
    BY <1>0, <2>1 DEF CheckInv
  <2>3. \A x \in Linked \ todo' : ~Circular(x) \/ x \in path' \cup {cur'}
    BY <2>1 DEF CheckInv
  <2> QED BY <1>2, <2>1, <2>2, <2>3 DEF CheckInv
<1>5. CASE Walk
  <2>1. /\ UNCHANGED <<decls, pass, heads, phase, todo>> /\ phase = "walk"
        /\ cur # NoElement /\ path' = path \cup {cur} /\ cur' = HeadOf(cur)
    BY <1>5 DEF Walk, Running
  <2>2. cur \in Elements /\ cur \in Element /\ path \subseteq Element
    BY <1>0, <2>1 DEF CheckInv
  <2>3. cur' \in Elements \cup {NoElement}
    BY <2>1, <2>2, HeadTyped
  <2>4. \A x \in path' : cur' \in Above(x) \cup {NoElement}
    <3>1. cur' \in Above(cur) \cup {NoElement}
      BY <2>1, <2>2, AboveClosed
    <3>2. ASSUME NEW x \in path PROVE cur' \in Above(x) \cup {NoElement}
      <4>1. cur \in Above(x) /\ x \in Element
        BY <2>1, <2>2 DEF CheckInv
      <4> QED BY <2>1, <4>1, AboveClosed DEF ClosedUp
    <3> QED BY <2>1, <3>1, <3>2
  <2>5. \A x \in path' : Circular(x) => cur' \in Above(x)
    <3>1. ASSUME NEW x \in Element, Circular(x), cur \in Above(x) PROVE cur' \in Above(x)
      BY <2>1, <3>1, CircularNeverEnds
    <3>2. Circular(cur) => cur \in Above(cur)
      BY DEF Circular
    <3> QED BY <2>1, <2>2, <3>1, <3>2 DEF CheckInv
  <2>6. \A h \in Linked \ todo : ~Circular(h) \/ h \in path' \cup {cur'}
    BY <2>1 DEF CheckInv
  <2>7. path' \subseteq Elements /\ path' \cup {cur'} \subseteq Elements \cup {NoElement}
    BY <2>1, <2>2, <2>3 DEF CheckInv
  <2> QED BY <1>2, <2>1, <2>4, <2>5, <2>6, <2>7 DEF CheckInv
<1>6. CASE EndWalk
  <2>1. UNCHANGED <<decls, pass, heads, todo>> /\ phase = "walk" /\ phase' = "check"
    BY <1>6 DEF EndWalk, Running
  <2> QED BY <1>2, <1>6, <2>1, WalkEnds DEF CheckInv
<1>7. CASE BeginClose
  <2>1. UNCHANGED <<decls, pass, heads>> /\ phase = "check" /\ todo = {} /\ phase' = "close"
    BY <1>7 DEF BeginClose, Running
  <2> QED BY <1>2, <2>1 DEF CheckInv
<1>8. ASSUME UNCHANGED <<decls, pass, heads>>,
             phase \in {"close", "expand"}, phase' \in {"close", "expand"}
      PROVE  CheckInv'
  BY <1>2, <1>8 DEF CheckInv
<1>9. ASSUME NEW h \in Element, SkipBlocked(h) \/ BeginExpand(h) PROVE CheckInv'
  BY <1>8, <1>9 DEF SkipBlocked, BeginExpand, Running
<1>10. CASE EndExpand \/ Expand
  BY <1>8, <1>10 DEF EndExpand, Expand, Running
<1>11. CASE EndPass
  <2>1. CASE pass < Len(decls.passes)
    BY <1>1, <1>11, <2>1 DEF EndPass
  <2>2. CASE ~(pass < Len(decls.passes))
    BY <1>11, <2>2, CheckKept DEF EndPass
  <2> QED BY <2>1, <2>2
<1>12. ASSUME NEW e \in Element, SkipElement(e) \/ LinkElement(e) PROVE CheckInv'
  BY <1>1, <1>12 DEF SkipElement, LinkElement, Running
<1>13. ASSUME NEW e \in Element, RejectElement(e) \/ PanicOnElement(e) PROVE CheckInv'
  BY <1>13, CheckKept DEF RejectElement, PanicOnElement, Stop
<1>14. CASE RejectCycle \/ UNCHANGED vars
  BY <1>14, CheckKept DEF RejectCycle, Stop, vars
<1> QED BY <1>3, <1>4, <1>5, <1>6, <1>7, <1>9, <1>10, <1>11, <1>12, <1>13, <1>14
        DEF Next, Step, Done
-----------------------------------------------------------------------------
\* A step that keeps what earlier passes stored, and no store of its own.
LEMMA StoredBefore ==
  ASSUME TypeOK, StoreInv, decls' = decls, substitutes' = substitutes,
         pass' \in {pass, pass + 1}
  PROVE  \A h \in Element : substitutes'[h] # <<>> =>
           \E i \in 1..pass' : \E e \in decls'.passes[i].elements :
              HeadIn(i, e)' = h
<1>1. pass \in Nat
  BY DEF TypeOK
<1>2. 1..pass \subseteq 1..pass'
  BY <1>1
<1> QED BY <1>2, SameHeads DEF StoreInv

LEMMA StoreStep ==
  TypeOK /\ CloseInv /\ LinkInv /\ StoreInv /\ [Next]_vars => StoreInv'
<1> SUFFICES ASSUME TypeOK, CloseInv, LinkInv, StoreInv, [Next]_vars PROVE StoreInv'
  OBVIOUS
<1>0. Linked \subseteq Elements /\ Elements \subseteq Element
  BY PassTypes, LinkedIsHead
<1>1. ASSUME UNCHANGED <<decls, pass, heads>>
      PROVE  /\ Linked' = Linked
             /\ \A h : Blocks(h)' = Blocks(h)
             /\ \A h : Below(h)' = Below(h)
  BY <1>1, SamePass DEF Linked
<1>2. ASSUME decls' = decls, substitutes' = substitutes, pass' \in {pass, pass + 1},
             phase' \notin {"close", "expand"}
      PROVE  StoreInv'
  BY <1>2, StoredBefore DEF StoreInv
<1>3. ASSUME UNCHANGED <<decls, pass, heads, phase, todo, head, substitutes>>
      PROVE  StoreInv'
  BY <1>1, <1>3, StoredBefore DEF StoreInv
<1>4. CASE BeginClose
  <2>1. /\ UNCHANGED <<decls, pass, heads, substitutes>>
        /\ phase' = "close" /\ todo' = Linked
    BY <1>4 DEF BeginClose
  <2> QED BY <1>1, <2>1, StoredBefore DEF StoreInv
<1>5. ASSUME NEW h \in Element, SkipBlocked(h) PROVE StoreInv'
  <2>1. /\ UNCHANGED <<decls, pass, heads, phase, head, substitutes>> /\ phase = "close"
        /\ todo' = todo \ {h} /\ Blocks(h)
    BY <1>5 DEF SkipBlocked, Running, close
  <2> QED BY <1>1, <2>1, StoredBefore DEF StoreInv
<1>6. ASSUME NEW h \in Element, BeginExpand(h) PROVE StoreInv'
  <2>1. /\ UNCHANGED <<decls, pass, heads, substitutes>>
        /\ phase = "close" /\ phase' = "expand"
        /\ h \in todo /\ todo' = todo \ {h} /\ head' = h
    BY <1>6 DEF BeginExpand, Running
  <2> QED BY <1>1, <2>1, StoredBefore DEF StoreInv
<1>7. CASE EndExpand
  <2>1. /\ UNCHANGED <<decls, pass, heads, todo>>
        /\ phase = "expand" /\ phase' = "close" /\ queue = <<>>
        /\ substitutes' = [substitutes EXCEPT ![head] = out]
    BY <1>7 DEF EndExpand, Running
  <2>2. head \in Linked /\ head \in Element /\ head \in Elements
    BY <1>0, <2>1 DEF StoreInv
  <2>3. ToSet(out) = Below(head)
    <3>1. /\ ToSet(heads[head]) \subseteq ToSet(out)
          /\ \A m \in ToSet(out) : ToSet(heads[m]) \subseteq ToSet(out)
          /\ \A S \in SUBSET Element : Closed(S, head) => ToSet(out) \subseteq S
      BY <2>1, EmptyToSet DEF CloseInv
    <3>2. \A h \in Element : ToSet(heads[h]) = DirectMembers(h)
      BY <2>1 DEF LinkInv, Unlinked
    <3>3. ToSet(out) \in SUBSET Element
      BY ToSetInRange DEF TypeOK
    <3>4. \A S \in SUBSET Element :
             /\ DirectMembers(head) \subseteq S
             /\ \A m \in S : DirectMembers(m) \subseteq S
             => ToSet(out) \subseteq S
      BY <2>2, <3>1, <3>2 DEF Closed
    <3>5. /\ DirectMembers(head) \subseteq ToSet(out)
          /\ \A m \in ToSet(out) : DirectMembers(m) \subseteq ToSet(out)
      BY <2>2, <3>1, <3>2, <3>3
    <3> QED BY <2>2, <3>3, <3>4, <3>5, BelowIsLeast
  <2>4. \A h \in Element : substitutes'[h] = IF h = head THEN out ELSE substitutes[h]
    BY <2>1 DEF TypeOK
  <2>5. \A h \in Linked \ todo : Blocks(h) \/ ToSet(substitutes'[h]) = Below(h)
    BY <1>0, <2>1, <2>2, <2>3, <2>4 DEF StoreInv
  <2>6. \E e \in decls.passes[pass].elements : HeadIn(pass, e) = head
    <3>1. PICK e \in Elements : HeadOf(e) = head
      BY <2>2, LinkedIsHead
    <3> QED BY <3>1 DEF HeadOf, Elements
  <2>7. pass \in 1..pass
    BY DEF TypeOK
  <2>8. \A h \in Element : substitutes'[h] # <<>> =>
           \E i \in 1..pass : \E e \in decls.passes[i].elements : HeadIn(i, e) = h
    BY <2>4, <2>6, <2>7 DEF StoreInv
  <2> QED BY <1>1, <2>1, <2>5, <2>8, SameHeads DEF StoreInv
<1>8. CASE EndPass
  <2>1. CASE pass < Len(decls.passes)
    BY <1>2, <1>8, <2>1 DEF EndPass
  <2>2. CASE ~(pass < Len(decls.passes))
    BY <1>3, <1>8, <2>2 DEF EndPass, close
  <2> QED BY <2>1, <2>2
<1>9. ASSUME NEW e \in Element, SkipElement(e) \/ LinkElement(e) \/ BeginWalk(e)
      PROVE  StoreInv'
  BY <1>2, <1>9 DEF SkipElement, LinkElement, BeginWalk, Running
<1>10. CASE BeginCheck \/ EndWalk \/ Walk
  BY <1>2, <1>10 DEF BeginCheck, EndWalk, Walk, Running
<1>11. ASSUME NEW e \in Element, RejectElement(e) \/ PanicOnElement(e) PROVE StoreInv'
  BY <1>3, <1>11 DEF RejectElement, PanicOnElement, Stop, close
<1>12. CASE RejectCycle \/ Expand \/ UNCHANGED vars
  BY <1>3, <1>12 DEF RejectCycle, Stop, Expand, vars, close
<1> QED BY <1>4, <1>5, <1>6, <1>7, <1>8, <1>9, <1>10, <1>11, <1>12 DEF Next, Step, Done
-----------------------------------------------------------------------------
\* A rejected schema has a fault.
LEMMA FaultStep ==
  TypeOK /\ LinkInv /\ CheckInv /\ RejectsOnlyFaults /\ [Next]_vars => RejectsOnlyFaults'
<1> SUFFICES ASSUME TypeOK, LinkInv, CheckInv, RejectsOnlyFaults, [Next]_vars,
                    outcome' = "error"
             PROVE  RejectsOnlyFaults'
  BY DEF RejectsOnlyFaults
<1>0. Linked \subseteq Elements /\ Elements \subseteq Element
  BY PassTypes, LinkedIsHead
<1> DEFINE Fault(e) == /\ HasGroup(e)
                       /\ \/ HeadOf(e) = NoElement
                          \/ Circular(e)
                          \/ TypeCheck(e, HeadOf(e)) = "error"
<1>1. ASSUME UNCHANGED <<decls, pass>>, \E e \in Elements : Fault(e)
      PROVE  RejectsOnlyFaults'
  BY <1>1, SamePass DEF RejectsOnlyFaults
<1>2. ASSUME NEW e \in Element, RejectElement(e) PROVE RejectsOnlyFaults'
  <2>1. /\ phase = "link" /\ e \in todo /\ HasGroup(e) /\ UNCHANGED <<decls, pass>>
        /\ \/ HeadOf(e) \in {NoElement, e}
           \/ HeadOf(e) # NoElement /\ TypeCheck(e, HeadOf(e)) = "error"
    BY <1>2 DEF RejectElement, Running, Stop
  <2>2. e \in Elements
    BY <2>1 DEF LinkInv
  <2>3. HeadOf(e) = e => Circular(e)
    BY AboveClosed, SubstitutionAssumption DEF Circular
  <2> QED BY <1>1, <2>1, <2>2, <2>3
<1>3. CASE RejectCycle
  <2>1. /\ phase = "walk" /\ HasGroup(cur) /\ cur \in path /\ UNCHANGED <<decls, pass>>
        /\ cur # NoElement
    BY <1>3 DEF RejectCycle, Running, Stop
  <2>2. cur \in Elements /\ cur \in Above(cur)
    BY <2>1 DEF CheckInv
  <2> QED BY <1>1, <2>1, <2>2 DEF Circular
<1>4. CASE outcome = "error"
  <2>1. UNCHANGED vars
    BY <1>4 DEF Next, Step, Done, vars, SkipElement, RejectElement, PanicOnElement,
       LinkElement, BeginWalk, SkipBlocked, BeginExpand, EndPass, BeginCheck, Walk,
       RejectCycle, EndWalk, BeginClose, Expand, EndExpand, Running
  <2> QED BY <1>1, <1>4, <2>1 DEF vars, RejectsOnlyFaults
<1>5. CASE outcome # "error" /\ ~RejectCycle /\ ~\E e \in Element : RejectElement(e)
  BY <1>5 DEF Next, Step, Done, vars, SkipElement, PanicOnElement, LinkElement,
     BeginWalk, SkipBlocked, BeginExpand, EndPass, BeginCheck, Walk, EndWalk,
     BeginClose, Expand, EndExpand, Stop
<1> QED BY <1>2, <1>3, <1>4, <1>5

\* The end of the last pass: no member waits to be linked, no head to be
\* checked, none to be closed.
PassEnds == /\ \/ Running("link") /\ todo = {} /\ Linked = {}
               \/ Running("close") /\ todo = {}
            /\ pass = Len(decls.passes)

LEMMA NothingPending ==
  ASSUME TypeOK, LinkInv, CheckInv, StoreInv, PassEnds
  PROVE  /\ Unlinked = {}
         /\ \A h \in Linked : ~Circular(h)
         /\ \A h \in Linked : Blocks(h) \/ ToSet(substitutes[h]) = Below(h)
BY DEF PassEnds, Running, Unlinked, CheckInv, StoreInv

\* A head without direct members has nobody below it, and no substitutes
\* either if this pass finds the heads that the earlier ones found.
LEMMA UnlinkedHead ==
  ASSUME TypeOK, LinkInv, StoreInv, PassEnds, Unlinked = {},
         NEW h \in Elements, h \notin Linked
  PROVE  /\ Below(h) = {}
         /\ HeadsStay => ToSet(substitutes[h]) = {}
         /\ ~\E e \in Elements : HeadOf(e) = h
<1>1. Elements \subseteq Element /\ h \in Element
  BY PassTypes
<1>2. DirectMembers(h) = {}
  BY <1>1, LinkedHasMember DEF LinkInv
<1>3. {} = Below(h)
  BY <1>1, <1>2, BelowIsLeast
<1>4. ASSUME HeadsStay PROVE substitutes[h] = <<>>
  <2> SUFFICES ASSUME substitutes[h] # <<>> PROVE FALSE
    OBVIOUS
  <2>1. PICK i \in 1..pass : \E e \in decls.passes[i].elements : HeadIn(i, e) = h
    BY <1>1 DEF StoreInv
  <2>2. PICK e \in decls.passes[i].elements : HeadIn(i, e) = h
    BY <2>1
  <2>3. e \in Elements /\ HeadOf(e) = h
    BY <1>1, <1>4, <2>2, SubstitutionAssumption DEF HeadsStay
  <2>4. e \in DirectMembers(h)
    BY <2>3 DEF DirectMembers
  <2> QED BY <1>2, <2>4
<1>5. ~\E e \in Elements : HeadOf(e) = h
  BY <1>2 DEF DirectMembers
<1> QED BY <1>3, <1>4, <1>5, EmptyToSet

\* What the elements are, and what GroupsSound says of them.
Resolved ==
  /\ \A e \in Elements : ~Circular(e)
  /\ \A e \in Elements : HasGroup(e) =>
       HeadOf(e) # NoElement /\ TypeCheck(e, HeadOf(e)) = "ok"
  /\ \A h \in Elements : ~Blocks(h) =>
       /\ Below(h) \subseteq ToSet(substitutes[h])
       /\ HeadsStay \/ (\E e \in Elements : HeadOf(e) = h) => ToSet(substitutes[h]) = Below(h)

LEMMA LastPassSound ==
  ASSUME TypeOK, LinkInv, CheckInv, StoreInv, PassEnds
  PROVE  Resolved
<1>1. /\ Unlinked = {}
      /\ \A h \in Linked : ~Circular(h)
      /\ \A h \in Linked : Blocks(h) \/ ToSet(substitutes[h]) = Below(h)
  BY NothingPending
<1>2. Elements \subseteq Element
  BY PassTypes
<1>3. ASSUME NEW e \in Elements, Circular(e) PROVE FALSE
  <2>1. PICK y \in Elements : HeadOf(y) = e
    BY <1>2, <1>3, CircularIsHead
  <2>2. y \in ToSet(heads[e])
    BY <1>1, <1>2, <2>1 DEF LinkInv, DirectMembers
  <2>3. e \in Linked
    BY <1>2, <2>2, LinkedHasMember
  <2> QED BY <1>1, <1>3, <2>3
<1>4. \A e \in Elements : HasGroup(e) =>
        HeadOf(e) # NoElement /\ TypeCheck(e, HeadOf(e)) = "ok"
  BY <1>1 DEF LinkInv
<1>5. ASSUME NEW h \in Elements, ~Blocks(h)
      PROVE  /\ Below(h) \subseteq ToSet(substitutes[h])
             /\ HeadsStay \/ (\E e \in Elements : HeadOf(e) = h) => ToSet(substitutes[h]) = Below(h)
  <2>1. CASE h \in Linked
    BY <1>1, <1>5, <2>1
  <2>2. CASE h \notin Linked
    BY <1>1, <2>2, UnlinkedHead
  <2> QED BY <2>1, <2>2
<1> QED BY <1>3, <1>4, <1>5 DEF Resolved

LEMMA SameResolved ==
  ASSUME UNCHANGED <<decls, pass, substitutes>>, Resolved
  PROVE  Resolved'
<1>1. HeadsStay' <=> HeadsStay
  BY SamePass, SameHeads DEF HeadsStay
<1> QED BY <1>1, SamePass DEF Resolved

LEMMA SoundStep == ResolveInv /\ [Next]_vars => GroupsSound'
<1> SUFFICES ASSUME ResolveInv, [Next]_vars, outcome' = "ok"
             PROVE  Resolved'
  BY DEF GroupsSound, Resolved, Below
<1> USE DEF ResolveInv
<1>1. CASE EndPass
  <2>1. PassEnds /\ UNCHANGED <<decls, pass, substitutes>>
    BY <1>1 DEF EndPass, PassEnds, TypeOK, Running
  <2> QED BY <2>1, LastPassSound, SameResolved
<1>2. CASE outcome = "ok"
  <2>1. UNCHANGED vars
    BY <1>2 DEF Next, Step, Done, vars, SkipElement, RejectElement, PanicOnElement,
       LinkElement, BeginWalk, SkipBlocked, BeginExpand, EndPass, BeginCheck, Walk,
       RejectCycle, EndWalk, BeginClose, Expand, EndExpand, Running
  <2>2. UNCHANGED <<decls, pass, substitutes>>
    BY <2>1 DEF vars
  <2>3. Resolved
    BY <1>2 DEF GroupsSound, Resolved, Below
  <2> QED BY <2>2, <2>3, SameResolved
<1>3. CASE outcome # "ok" /\ ~EndPass
  BY <1>3 DEF Next, Step, Done, vars, SkipElement, RejectElement, PanicOnElement,
     LinkElement, BeginWalk, SkipBlocked, BeginExpand, BeginCheck, Walk, RejectCycle,
     EndWalk, BeginClose, Expand, EndExpand, Stop
<1> QED BY <1>1, <1>2, <1>3

LEMMA ResolveAlways == Spec => []ResolveInv
<1>1. Init => ResolveInv
  <2>1. Init => /\ CloseInv /\ CheckInv /\ StoreInv /\ RejectsOnlyFaults
                /\ outcome # "ok"
    BY DEF Init, CloseInv, CheckInv, StoreInv, RejectsOnlyFaults
  <2> QED BY <2>1, TypeInit, LinkInit DEF ResolveInv, GroupsSound
<1>2. ResolveInv /\ [Next]_vars => ResolveInv'
  BY TypeStep, CloseStep, LinkStep, CheckStep, StoreStep, FaultStep, SoundStep
     DEF ResolveInv
<1> QED BY <1>1, <1>2, PTL DEF Spec

\* Whatever order the maps are visited in and however often a declaration is
\* resolved again by an importing schema, with that schema's names: a schema
\* that is accepted has no circular group and no member of another type, and
\* every head that does not refuse has the elements below it as substitutes,
\* and no others if it has a member or no earlier schema found another head.
THEOREM GroupsAlwaysSound == Spec => []GroupsSound
<1>1. ResolveInv => GroupsSound
  BY DEF ResolveInv
<1> QED BY <1>1, ResolveAlways, PTL

\* A schema that is rejected has a circular group, a head that is not there or
\* a member of another type.
THEOREM NoSoundGroupRejected == Spec => []RejectsOnlyFaults
<1>1. ResolveInv => RejectsOnlyFaults
  BY DEF ResolveInv
<1> QED BY <1>1, ResolveAlways, PTL
=============================================================================
