--------------------------- MODULE SchemaLoadProofs ---------------------------
(***************************************************************************)
(* Proofs about SchemaLoad, for every set of documents.                    *)
(***************************************************************************)
EXTENDS SchemaLoad, FiniteSetTheorems, FunctionTheorems, TLAPS

\* The load keeps its documents, and every frame parses one that exists, the
\* outermost the top-level one.
FramesKnown ==
  /\ corpus \in Corpora
  /\ stack[1].key = TopKey
  /\ \A i \in 2..Len(stack) : stack[i].key \in Key /\ stack[i].key.loc \in DOMAIN corpus

TypeInv == TypeOK /\ FramesKnown

\* TopKey is the key of no reference.
LEMMA TopKeyIsNoKey == TopKey \notin Key
BY LoadAssumption DEF TopKey, Key

\* The document of every frame is a document.
LEMMA FrameDocument ==
  ASSUME TypeInv, NEW i \in 1..Len(stack)
  PROVE  DocOf(stack[i].key) \in Document
<1>1. CASE stack[i].key = TopKey
  BY <1>1, CorporaAssumption DEF TypeInv, FramesKnown, DocOf
<1>2. CASE stack[i].key # TopKey
  <2>1. i \in 2..Len(stack)
    BY <1>2 DEF TypeInv, TypeOK, FramesKnown
  <2>2. stack[i].key.loc \in DOMAIN corpus
    BY <2>1 DEF TypeInv, FramesKnown
  <2> QED BY <1>2, <2>2, CorporaAssumption DEF TypeInv, FramesKnown, DocOf
<1> QED BY <1>1, <1>2

LEMMA FramesTyped ==
  ASSUME TypeInv
  PROVE  \A i \in 1..Len(stack) : /\ stack[i].pc \in Nat
                                 /\ DocOf(stack[i].key) \in Document
<1>1. stack \in Seq(Frame)
  BY DEF TypeInv, TypeOK
<1>2. \A i \in 1..Len(stack) : stack[i] \in Frame
  BY <1>1
<1> QED BY <1>2, FrameDocument DEF Frame

LEMMA CurrentTyped ==
  ASSUME TypeInv
  PROVE  /\ Len(stack) \in Nat \ {0}
         /\ Current \in Frame
         /\ CurrentDoc \in Document
         /\ DocOf(Current.key) \in Document
         /\ HasItem => CurrentItem \in Item
<1>1. Len(stack) \in Nat \ {0} /\ Current \in Frame
  BY DEF TypeInv, TypeOK, Current
<1>2. DocOf(Current.key) \in Document
  BY <1>1, FrameDocument DEF Current
<1>3. HasItem => CurrentItem \in Item
  BY <1>1, <1>2 DEF HasItem, CurrentItem, Document, Frame
<1> QED BY <1>1, <1>2, <1>3 DEF CurrentDoc

\* A reference that reaches the visited check has a key.
LEMMA ReferenceKey ==
  ASSUME TypeInv, AtReference
  PROVE  CurrentKey \in Key
<1>1. /\ Current \in Frame
      /\ HasItem
      /\ CurrentItem \in Item
      /\ CurrentItem.kind \in {"import", "include"}
      /\ CurrentItem.hint # NoHint
  BY CurrentTyped DEF AtReference, At
<1>2. CurrentItem.ns \in Namespace /\ CurrentItem.hint \in Hint
  BY <1>1 DEF Item
<1>3. Current.key.loc \in Location \cup {NoLocation}
  BY <1>1 DEF Frame, Key, TopKey
<1>4. ResolveLocation(Current.key.loc, CurrentItem.hint) \in Location
  BY <1>1, <1>2, <1>3, LoadAssumption
<1> QED BY <1>1, <1>2, <1>4, LoadAssumption
        DEF CurrentKey, KeyAt, CurrentItem, Key

\* Moving the current call to its next child keeps the frames.
LEMMA AdvancedTyped ==
  ASSUME NEW s \in Seq(Frame), s # <<>>
  PROVE  /\ Advanced(s) \in Seq(Frame)
         /\ Len(Advanced(s)) = Len(s)
         /\ \A i \in 1..Len(s) : Advanced(s)[i].key = s[i].key
         /\ \A i \in 1..(Len(s) - 1) : Advanced(s)[i].pc = s[i].pc
         /\ Advanced(s)[Len(s)].pc = s[Len(s)].pc + 1
         /\ \A i \in 1..Len(s) : Advanced(s)[i].decls = s[i].decls
<1> DEFINE n == Len(s)
           f == [s[n] EXCEPT !.pc = @ + 1]
<1>1. n \in 1..Len(s) /\ s[n] \in Frame
  OBVIOUS
<1>2. f \in Frame /\ f.key = s[n].key /\ f.pc = s[n].pc + 1 /\ f.decls = s[n].decls
  BY <1>1 DEF Frame
<1>3. Advanced(s) = [s EXCEPT ![n] = f]
  BY DEF Advanced
<1> HIDE DEF f
<1>4. Advanced(s) \in Seq(Frame) /\ Len(Advanced(s)) = n
  BY <1>1, <1>2, <1>3
<1>5. \A i \in 1..Len(s) : Advanced(s)[i] = IF i = n THEN f ELSE s[i]
  BY <1>3
<1> QED BY <1>1, <1>2, <1>4, <1>5

\* A pass over declarations yields links.
LEMMA LinksTyped ==
  ASSUME TypeInv, NEW decls \in SUBSET Decl, NEW doc
  PROVE  LinksAfter(decls, doc) \subseteq Link
<1>1. \A p \in Pending(decls) : p[1] \in Decl /\ p[2] \in Use
  BY DEF Pending, Decl
<1>2. \A p \in Pending(decls), t \in decls :
         [from |-> p[1].id, use |-> p[2], to |-> t.id] \in Link
  BY <1>1 DEF Link, Decl
<1>3. \A p \in Pending(decls) :
         [from |-> p[1].id, use |-> p[2], to |-> Unlinked] \in Link
  BY <1>1 DEF Link, Decl
<1>4. links \subseteq Link
  BY DEF TypeInv, TypeOK
<1> QED BY <1>2, <1>3, <1>4 DEF LinksAfter
-----------------------------------------------------------------------------
\* The two shapes of a step that goes on: the current call moves to its next
\* child, or it returns and its caller moves to its own next child.
MovesOn ==
  /\ Len(stack') = Len(stack)
  /\ \A i \in 1..Len(stack) : stack'[i].key = stack[i].key
  /\ \A i \in 1..(Len(stack) - 1) : stack'[i].pc = stack[i].pc
  /\ stack'[Len(stack)].pc = stack[Len(stack)].pc + 1

Leaves ==
  /\ Len(stack) > 1
  /\ Len(stack') = Len(stack) - 1
  /\ \A i \in 1..Len(stack') : stack'[i].key = stack[i].key
  /\ \A i \in 1..(Len(stack') - 1) : stack'[i].pc = stack[i].pc
  /\ stack'[Len(stack')].pc = stack[Len(stack')].pc + 1

\* The declarations of the outer n calls stay as they are.
KeepsDecls(n) == \A i \in 1..n : stack'[i].decls = stack[i].decls

LEMMA AdvanceStep ==
  ASSUME TypeInv, stack' = Advanced(stack), corpus' = corpus
  PROVE  /\ stack' \in Seq(Frame) /\ stack' # <<>>
         /\ FramesKnown'
         /\ MovesOn
         /\ KeepsDecls(Len(stack))
<1>1. stack \in Seq(Frame) /\ stack # <<>>
  BY DEF TypeInv, TypeOK
<1>2. /\ stack' \in Seq(Frame)
      /\ MovesOn
      /\ KeepsDecls(Len(stack))
  BY <1>1, AdvancedTyped DEF MovesOn, KeepsDecls
<1> QED BY <1>1, <1>2 DEF TypeInv, FramesKnown, MovesOn

\* The declaration a child makes is one.
LEMMA DeclaredTyped ==
  ASSUME TypeInv, At("declare")
  PROVE  Declared \in Decl
<1>1. /\ CurrentItem \in Item /\ CurrentItem.kind = "declare" /\ CurrentDoc \in Document
      /\ Current \in Frame
  BY CurrentTyped DEF At
<1>2. CurrentItem.table \in Table /\ CurrentItem.name \in Name
      /\ CurrentItem.uses \in SUBSET Use
  BY <1>1 DEF Item
<1>3. CurrentDoc.tns \in Namespace
  BY <1>1 DEF Document
<1>4. <<Current.key, Current.pc>> \in DeclId
  BY <1>1 DEF Frame, DeclId
<1> QED BY <1>2, <1>3, <1>4, LoadAssumption DEF Declared, Decl

\* A declaration changes the current frame's table and moves on.
LEMMA DeclareStep ==
  ASSUME TypeInv, Declare
  PROVE  /\ stack' \in Seq(Frame) /\ stack' # <<>>
         /\ FramesKnown'
         /\ MovesOn
         /\ KeepsDecls(Len(stack) - 1)
         /\ stack'[Len(stack)].decls =
              {e \in Current.decls : ~SameKey(Declared, e)} \cup {Declared}
<1> DEFINE n == Len(stack)
           new == {e \in Current.decls : ~SameKey(Declared, e)} \cup {Declared}
           m == [stack EXCEPT ![n].decls = new]
           f == [stack[n] EXCEPT !.decls = new]
<1>0. stack \in Seq(Frame)
  BY DEF TypeInv, TypeOK
<1>1. Current \in Frame /\ n \in Nat \ {0}
  BY CurrentTyped
<1>2. Declared \in Decl
  BY DeclaredTyped DEF Declare
<1>3. stack' = Advanced(m) /\ corpus' = corpus
  BY DEF Declare
<1>4. n \in 1..Len(stack) /\ stack[n] \in Frame /\ stack[n] = Current
  BY <1>1 DEF Current
<1>5. new \in SUBSET Decl
  BY <1>1, <1>2 DEF Frame
<1> HIDE DEF new
<1>6. f \in Frame /\ f.key = stack[n].key /\ f.pc = stack[n].pc /\ f.decls = new
  BY <1>4, <1>5 DEF Frame
<1>7. m = [stack EXCEPT ![n] = f]
  OBVIOUS
<1> HIDE DEF f, m
<1>8. m \in Seq(Frame) /\ Len(m) = n
  BY <1>0, <1>4, <1>6, <1>7
<1>9. \A i \in 1..n : m[i] = IF i = n THEN f ELSE stack[i]
  BY <1>0, <1>4, <1>7
<1>10. m # <<>>
  BY <1>1, <1>8
<1>11. /\ Advanced(m) \in Seq(Frame)
       /\ Len(Advanced(m)) = Len(m)
       /\ \A i \in 1..Len(m) : Advanced(m)[i].key = m[i].key
       /\ \A i \in 1..(Len(m) - 1) : Advanced(m)[i].pc = m[i].pc
       /\ Advanced(m)[Len(m)].pc = m[Len(m)].pc + 1
       /\ \A i \in 1..Len(m) : Advanced(m)[i].decls = m[i].decls
  BY <1>8, <1>10, AdvancedTyped
<1>12. MovesOn
  BY <1>3, <1>4, <1>6, <1>8, <1>9, <1>11 DEF MovesOn
<1>13. KeepsDecls(n - 1) /\ stack'[n].decls = new
  BY <1>3, <1>4, <1>6, <1>8, <1>9, <1>11 DEF KeepsDecls
<1> QED BY <1>1, <1>3, <1>8, <1>11, <1>12, <1>13
        DEF TypeInv, FramesKnown, MovesOn, new

\* What merging a finished document into its caller does to the frames.
LEMMA MergeStep ==
  ASSUME TypeInv, NEW decls \in SUBSET Decl, Len(stack) > 1, Merge(decls),
         corpus' = corpus
  PROVE  /\ stack' \in Seq(Frame) /\ stack' # <<>>
         /\ FramesKnown'
         /\ Leaves
         /\ KeepsDecls(Len(stack) - 2)
         /\ stack'[Len(stack) - 1].decls = Caller.decls \cup decls
<1> DEFINE n == Len(stack) - 1
           s == SubSeq(stack, 1, n)
           m == [s EXCEPT ![n].decls = @ \cup decls]
<1>1. stack \in Seq(Frame)
  BY DEF TypeInv, TypeOK
<1>2. Len(stack) \in Nat
  BY <1>1
<1>3. n \in Nat \ {0} /\ n < Len(stack)
  BY <1>2
<1>4. s \in Seq(Frame) /\ Len(s) = n /\ \A i \in 1..n : s[i] = stack[i]
  BY <1>1, <1>3
<1>5. s[n] \in Frame /\ n \in 1..n
  BY <1>3, <1>4
<1> DEFINE f == [s[n] EXCEPT !.decls = @ \cup decls]
<1>6. f \in Frame /\ f.key = s[n].key /\ f.pc = s[n].pc
  BY <1>5 DEF Frame
<1>7. f.decls = s[n].decls \cup decls
  BY <1>5 DEF Frame
<1>8. m = [s EXCEPT ![n] = f]
  OBVIOUS
<1>9. stack' = Advanced(m)
  BY DEF Merge
<1> HIDE DEF s, f, m
<1>10. m \in Seq(Frame) /\ Len(m) = n /\ m # <<>>
  BY <1>3, <1>4, <1>5, <1>6, <1>8
<1>11. \A i \in 1..n : m[i] = IF i = n THEN f ELSE s[i]
  BY <1>4, <1>5, <1>8
<1>12. /\ Advanced(m) \in Seq(Frame)
       /\ Len(Advanced(m)) = Len(m)
       /\ \A i \in 1..Len(m) : Advanced(m)[i].key = m[i].key
       /\ \A i \in 1..(Len(m) - 1) : Advanced(m)[i].pc = m[i].pc
       /\ Advanced(m)[Len(m)].pc = m[Len(m)].pc + 1
       /\ \A i \in 1..Len(m) : Advanced(m)[i].decls = m[i].decls
  BY <1>10, AdvancedTyped
<1>13. /\ stack' \in Seq(Frame) /\ Len(stack') = n /\ stack' # <<>>
       /\ \A i \in 1..n : stack'[i].key = m[i].key
       /\ \A i \in 1..(n - 1) : stack'[i].pc = m[i].pc
       /\ stack'[n].pc = m[n].pc + 1
       /\ \A i \in 1..n : stack'[i].decls = m[i].decls
  BY <1>3, <1>9, <1>10, <1>12
<1>14. /\ \A i \in 1..n : m[i].key = stack[i].key /\ m[i].pc = stack[i].pc
       /\ \A i \in 1..(n - 1) : i \in 1..n /\ m[i] = stack[i]
  BY <1>3, <1>4, <1>6, <1>11
<1>15. Leaves
  BY <1>3, <1>5, <1>13, <1>14 DEF Leaves
<1>16. KeepsDecls(n - 1)
  BY <1>13, <1>14 DEF KeepsDecls
<1>17. stack'[n].decls = Caller.decls \cup decls
  <2>1. m[n] = f /\ s[n] = Caller
    BY <1>4, <1>5, <1>11 DEF Caller
  <2> QED BY <1>5, <1>7, <1>13, <2>1
<1>18. n - 1 = Len(stack) - 2
  BY <1>2
<1>19. FramesKnown'
  <2>1. 1 \in 1..n /\ \A i \in 2..n : i \in 1..n /\ i \in 2..Len(stack)
    BY <1>2, <1>3
  <2> QED BY <1>13, <1>14, <2>1 DEF TypeInv, FramesKnown
<1> QED BY <1>13, <1>15, <1>16, <1>17, <1>18, <1>19

\* The declarations a chameleon include hands over are declarations.
LEMMA AdoptionsTyped ==
  ASSUME TypeInv, Len(stack) > 1, NEW D \in SUBSET Decl
  PROVE  Adoptions(D) \subseteq SUBSET Decl
<1>1. Len(stack) - 1 \in 1..Len(stack)
  BY DEF TypeInv, TypeOK
<1>2. CallerDoc.tns \in Namespace
  BY <1>1, FrameDocument DEF CallerDoc, Caller, Document
<1>3. \A d \in D : Stamped(d, CallerDoc.tns) \in Decl
  BY <1>2 DEF Stamped, Decl
<1> QED BY <1>3 DEF Adoptions, Restamped

\* What a return hands to its caller: the declarations D, none of which the
\* caller has under the same name.
HandsOver(D) ==
  /\ ~Clash(Caller.decls, D)
  /\ KeepsDecls(Len(stack) - 2)
  /\ stack'[Len(stack) - 1].decls = Caller.decls \cup D

\* An import hands over the declarations as they are; an include may stamp them.
ReturnsDecls ==
  \/ Returning("import") /\ HandsOver(Current.decls)
  \/ /\ Returning("include")
     /\ ~MismatchedInclude
     /\ \E D \in Adoptions(Current.decls) : HandsOver(D)

\* A call that returns leaves its frame, whatever it was called for.
LEMMA ReturnStep ==
  ASSUME TypeInv, ReturnImport \/ ReturnInclude
  PROVE  /\ stack' \in Seq(Frame) /\ stack' # <<>>
         /\ FramesKnown'
         /\ Leaves
         /\ ReturnsDecls
         /\ links' \subseteq Link
         /\ AtEnd
         /\ UNCHANGED <<corpus, visited, outcome, fetched, loaded>>
<1>1. Current.decls \in SUBSET Decl
  BY CurrentTyped DEF Frame
<1>2. /\ Len(stack) > 1 /\ Resolved /\ AtEnd
      /\ UNCHANGED <<corpus, visited, outcome, fetched, loaded>>
  BY DEF ReturnImport, ReturnInclude, Returning
<1>3. links' \subseteq Link
  BY <1>1, <1>2, LinksTyped DEF Resolved
<1>4. ASSUME NEW D \in SUBSET Decl, Merge(D)
      PROVE  /\ stack' \in Seq(Frame) /\ stack' # <<>>
             /\ FramesKnown' /\ Leaves /\ HandsOver(D)
  BY <1>2, <1>4, MergeStep DEF Merge, HandsOver
<1>5. CASE ReturnImport
  <2>1. Merge(Current.decls) /\ Returning("import")
    BY <1>5 DEF ReturnImport
  <2> QED BY <1>1, <1>2, <1>3, <1>4, <2>1 DEF ReturnsDecls
<1>6. CASE ReturnInclude
  <2>1. /\ Returning("include") /\ ~MismatchedInclude
        /\ \E D \in Adoptions(Current.decls) : Merge(D)
    BY <1>6 DEF ReturnInclude
  <2>2. PICK D \in Adoptions(Current.decls) : Merge(D)
    BY <2>1
  <2>3. D \in SUBSET Decl
    BY <1>1, <1>2, <2>2, AdoptionsTyped
  <2> QED BY <1>2, <1>3, <1>4, <2>1, <2>2, <2>3 DEF ReturnsDecls
<1> QED BY <1>5, <1>6

LEMMA TypeStep == TypeInv /\ [Next]_vars => TypeInv'
<1> SUFFICES ASSUME TypeInv, [Next]_vars PROVE TypeInv'
  OBVIOUS
<1> USE DEF TypeInv
<1>0. /\ corpus \in Corpora /\ stack \in Seq(Frame) /\ stack # <<>>
      /\ visited \subseteq Key /\ links \subseteq Link
      /\ fetched \in [Key -> Nat] /\ loaded \subseteq Key \cup {TopKey}
  BY DEF TypeOK, FramesKnown
<1>1. Current \in Frame /\ Current.decls \in SUBSET Decl /\ Len(stack) \in Nat \ {0}
  BY CurrentTyped DEF Frame
<1>2. CASE RejectItem
  BY <1>2 DEF RejectItem, Abort, TypeOK, FramesKnown
<1>3. CASE Declare
  BY <1>3, DeclareStep DEF Declare, TypeOK
<1>4. CASE SkipImport
  BY <1>4, AdvanceStep DEF SkipImport, TypeOK
<1>5. CASE RejectReference
  BY <1>5 DEF RejectReference, Abort, TypeOK, FramesKnown
<1>6. CASE AlreadyVisited
  BY <1>6, AdvanceStep DEF AlreadyVisited, TypeOK
<1>7. CallResolver => /\ CurrentKey \in Key
                      /\ visited' \subseteq Key
                      /\ fetched' \in [Key -> Nat]
  BY <1>0, ReferenceKey DEF CallResolver
<1>8. CASE ResolverFails
  BY <1>7, <1>8 DEF ResolverFails, Abort, TypeOK, FramesKnown
<1>9. CASE ResolverHasNone
  BY <1>7, <1>9, AdvanceStep DEF ResolverHasNone, TypeOK
<1>10. CASE ResolverReturnsDocument
  <2> DEFINE f == [key |-> CurrentKey, pc |-> 1, decls |-> {}]
  <2>1. /\ CurrentKey \in Key /\ CurrentKey.loc \in DOMAIN corpus
        /\ visited' \subseteq Key /\ fetched' \in [Key -> Nat]
        /\ stack' = Append(stack, f)
        /\ loaded' = loaded \cup {CurrentKey}
        /\ UNCHANGED <<corpus, links, outcome>>
    BY <1>7, <1>10 DEF ResolverReturnsDocument
  <2>2. f \in Frame /\ f.key = CurrentKey
    BY <2>1 DEF Frame
  <2> HIDE DEF f
  <2>3. stack' \in Seq(Frame) /\ Len(stack') = Len(stack) + 1
    BY <1>0, <2>1, <2>2
  <2>4. \A i \in 1..Len(stack') : stack'[i] = IF i = Len(stack) + 1 THEN f ELSE stack[i]
    BY <1>0, <2>1, <2>2
  <2>5. FramesKnown'
    BY <1>1, <2>1, <2>2, <2>3, <2>4 DEF FramesKnown
  <2> QED BY <1>0, <1>1, <2>1, <2>3, <2>5 DEF TypeOK
<1>11. Resolved => links' \subseteq Link
  BY <1>1, LinksTyped DEF Resolved
<1>12. CASE ReturnImport
  BY <1>12, ReturnStep DEF TypeOK
<1>13. CASE ReturnInclude
  BY <1>13, ReturnStep DEF TypeOK
<1>14. CASE RejectDocument
  BY <1>14 DEF RejectDocument, Abort, TypeOK, FramesKnown
<1>15. CASE Finish
  BY <1>11, <1>15 DEF Finish, TypeOK, FramesKnown
<1>16. CASE UNCHANGED vars
  BY <1>16 DEF vars, TypeOK, FramesKnown
<1> QED BY <1>2, <1>3, <1>4, <1>5, <1>6, <1>8, <1>9, <1>10, <1>12, <1>13,
           <1>14, <1>15, <1>16 DEF Next, Step, Done

LEMMA TypeInit == Init => TypeInv
<1> SUFFICES ASSUME Init PROVE TypeInv
  OBVIOUS
<1> DEFINE f == [key |-> TopKey, pc |-> 1, decls |-> {}]
<1>1. f \in Frame /\ f.key = TopKey
  BY DEF Frame
<1>2. stack = <<f>>
  BY DEF Init
<1> HIDE DEF f
<1>3. stack \in Seq(Frame) /\ Len(stack) = 1 /\ stack[1] = f
  BY <1>1, <1>2
<1> QED BY <1>1, <1>3 DEF Init, TypeInv, TypeOK, FramesKnown

\* Type correctness, for any set of documents and any resolver.
THEOREM TypeCorrect == Spec => []TypeOK
<1>1. TypeInv => TypeOK
  BY DEF TypeInv
<1> QED BY <1>1, TypeInit, TypeStep, PTL DEF Spec
-----------------------------------------------------------------------------
(***************************************************************************)
(* The visited set.  It is what every frame but the outermost was opened   *)
(* for, and a key is in it exactly when the resolver was called for it.    *)
(***************************************************************************)
VisitedInv ==
  /\ \A k \in Key : fetched[k] = IF k \in visited THEN 1 ELSE 0
  /\ \A i \in 2..Len(stack) : stack[i].key \in visited
  /\ NoReentry

\* What a call of the resolver changes, and where a document it returns goes.
LEMMA ResolverStep ==
  ASSUME TypeInv, CallResolver
  PROVE  /\ CurrentKey \in Key \ visited
         /\ visited' = visited \cup {CurrentKey}
         /\ fetched' = [fetched EXCEPT ![CurrentKey] = @ + 1]
         /\ fetched \in [Key -> Nat]
BY ReferenceKey DEF CallResolver, TypeInv, TypeOK

LEMMA PushStep ==
  ASSUME TypeInv, ResolverReturnsDocument
  PROVE  /\ stack \in Seq(Frame)
         /\ Len(stack) \in Nat \ {0}
         /\ Len(stack') = Len(stack) + 1
         /\ \A i \in 1..Len(stack) : stack'[i] = stack[i]
         /\ stack'[Len(stack) + 1] = [key |-> CurrentKey, pc |-> 1, decls |-> {}]
<1> DEFINE f == [key |-> CurrentKey, pc |-> 1, decls |-> {}]
<1>1. CurrentKey \in Key /\ stack \in Seq(Frame) /\ stack' = Append(stack, f)
  BY ResolverStep DEF ResolverReturnsDocument, TypeInv, TypeOK
<1>2. f \in Frame
  BY <1>1 DEF Frame
<1> HIDE DEF f
<1>3. /\ Len(stack) \in Nat \ {0}
      /\ Len(stack') = Len(stack) + 1
      /\ \A i \in 1..Len(stack) : stack'[i] = stack[i]
      /\ stack'[Len(stack) + 1] = f
  BY <1>1, <1>2, CurrentTyped
<1> QED BY <1>1, <1>3 DEF f

\* A step that opens no frame and calls no resolver keeps the invariant.
LEMMA VisitedKept ==
  ASSUME TypeInv, VisitedInv, UNCHANGED <<visited, fetched>>,
         MovesOn \/ Leaves \/ stack' = stack
  PROVE  VisitedInv'
<1>1. Len(stack) \in Nat \ {0}
  BY CurrentTyped
<1>2. /\ Len(stack') \in Nat
      /\ Len(stack') <= Len(stack)
      /\ \A i \in 1..Len(stack') : stack'[i].key = stack[i].key
  BY <1>1 DEF MovesOn, Leaves
<1>3. \A i \in 1..Len(stack') : i \in 1..Len(stack)
  BY <1>1, <1>2
<1>4. \A i \in 2..Len(stack') : i \in 1..Len(stack') /\ i \in 2..Len(stack)
  BY <1>1, <1>2
<1>5. NoReentry'
  BY <1>2, <1>3 DEF VisitedInv, NoReentry
<1>6. \A i \in 2..Len(stack') : stack'[i].key \in visited'
  BY <1>2, <1>4 DEF VisitedInv
<1> QED BY <1>5, <1>6 DEF VisitedInv

\* A resolver call counts the key it remembers.
LEMMA FetchCounted ==
  ASSUME TypeInv, VisitedInv, CallResolver
  PROVE  \A k \in Key : fetched'[k] = IF k \in visited' THEN 1 ELSE 0
BY ResolverStep DEF VisitedInv

LEMMA VisitedStep == TypeInv /\ VisitedInv /\ [Next]_vars => VisitedInv'
<1> SUFFICES ASSUME TypeInv, VisitedInv, [Next]_vars PROVE VisitedInv'
  OBVIOUS
<1>0. Len(stack) \in Nat \ {0}
  BY CurrentTyped
<1>1. CASE RejectItem \/ RejectReference \/ RejectDocument \/ Finish
  BY <1>1, VisitedKept DEF RejectItem, RejectReference, RejectDocument, Finish, Abort
<1>2. CASE Declare
  BY <1>2, DeclareStep, VisitedKept DEF Declare
<1>3. CASE SkipImport
  BY <1>3, AdvanceStep, VisitedKept DEF SkipImport
<1>4. CASE AlreadyVisited
  BY <1>4, AdvanceStep, VisitedKept DEF AlreadyVisited
<1>5. CASE ResolverFails
  <2>1. UNCHANGED stack /\ visited \subseteq visited'
    BY <1>5, ResolverStep DEF ResolverFails, Abort
  <2> QED BY <1>5, <2>1, FetchCounted DEF ResolverFails, VisitedInv, NoReentry
<1>6. CASE ResolverHasNone
  <2>1. MovesOn /\ visited \subseteq visited'
    BY <1>6, AdvanceStep, ResolverStep DEF ResolverHasNone
  <2>2. \A i \in 2..Len(stack') : i \in 1..Len(stack)
    BY <1>0, <2>1 DEF MovesOn
  <2> QED BY <1>6, <2>1, <2>2, FetchCounted
          DEF ResolverHasNone, VisitedInv, NoReentry, MovesOn
<1>7. CASE ResolverReturnsDocument
  <2> DEFINE n == Len(stack)
  <2>1. /\ CurrentKey \in Key \ visited
        /\ visited' = visited \cup {CurrentKey}
        /\ \A k \in Key : fetched'[k] = IF k \in visited' THEN 1 ELSE 0
    BY <1>7, ResolverStep, FetchCounted DEF ResolverReturnsDocument
  <2>2. /\ Len(stack') = n + 1
        /\ \A i \in 1..n : stack'[i].key = stack[i].key
        /\ stack'[n + 1].key = CurrentKey
    BY <1>7, PushStep
  <2>3. \A i \in 1..n : stack[i].key # CurrentKey
    <3>1. stack[1].key # CurrentKey
      BY <2>1, TopKeyIsNoKey DEF TypeInv, FramesKnown
    <3>2. \A i \in 2..n : stack[i].key # CurrentKey
      BY <2>1 DEF VisitedInv
    <3>3. \A i \in 1..n : i = 1 \/ i \in 2..n
      BY <1>0
    <3> QED BY <3>1, <3>2, <3>3
  <2>4. \A i \in 1..(n + 1) : i = n + 1 \/ i \in 1..n
    BY <1>0
  <2>5. NoReentry'
    BY <2>2, <2>3, <2>4 DEF VisitedInv, NoReentry
  <2>6. \A i \in 2..(n + 1) : i = n + 1 \/ (i \in 1..n /\ i \in 2..n)
    BY <1>0
  <2>7. \A i \in 2..Len(stack') : stack'[i].key \in visited'
    BY <2>1, <2>2, <2>6 DEF VisitedInv
  <2> QED BY <2>1, <2>5, <2>7 DEF VisitedInv
<1>8. CASE ReturnImport \/ ReturnInclude
  BY <1>8, ReturnStep, VisitedKept
<1>9. CASE UNCHANGED vars
  BY <1>9, VisitedKept DEF vars
<1> QED BY <1>1, <1>2, <1>3, <1>4, <1>5, <1>6, <1>7, <1>8, <1>9
        DEF Next, Step, Done

LEMMA VisitedInit == Init => VisitedInv
<1> SUFFICES ASSUME Init PROVE VisitedInv
  OBVIOUS
<1>1. Len(stack) = 1
  BY DEF Init
<1> QED BY <1>1 DEF Init, VisitedInv, NoReentry

LEMMA VisitedAlways == Spec => [](TypeInv /\ VisitedInv)
BY TypeInit, TypeStep, VisitedInit, VisitedStep, PTL DEF Spec

\* However the documents refer to each other, the resolver is called at most
\* once for every key.
THEOREM ResolverCalledOnce == Spec => []FetchedOnce
<1>1. VisitedInv => FetchedOnce
  BY DEF VisitedInv, FetchedOnce
<1> QED BY <1>1, VisitedAlways, PTL

\* No document is parsed inside itself under the same key.
THEOREM NeverReentered == Spec => []NoReentry
<1>1. VisitedInv => NoReentry
  BY DEF VisitedInv
<1> QED BY <1>1, VisitedAlways, PTL

\* The recursion is never deeper than the number of keys, so the guard on
\* MaxDepth in ResolverReturnsDocument never blocks a document.
DepthBounded == Len(stack) <= Cardinality(Key) + 1

LEMMA DepthFromVisited == TypeInv /\ VisitedInv => DepthBounded
<1> SUFFICES ASSUME TypeInv, VisitedInv PROVE DepthBounded
  OBVIOUS
<1> DEFINE n == Len(stack)
           f == [i \in 2..n |-> stack[i].key]
<1>1. n \in Nat \ {0}
  BY CurrentTyped
<1>2. f \in Injection(2..n, Key)
  <2>1. f \in [2..n -> Key]
    BY DEF TypeInv, FramesKnown
  <2>2. \A i \in 2..n : i \in 1..n
    BY <1>1
  <2>3. \A i, j \in 2..n : f[i] = f[j] => i = j
    BY <2>2 DEF VisitedInv, NoReentry
  <2> QED BY <2>1, <2>3 DEF Injection, IsInjective
<1>3. Cardinality(2..n) <= Cardinality(Key)
  BY <1>2, DepthAssumption, FS_Injection
<1>4. Cardinality(2..n) = IF 2 > n THEN 0 ELSE n - 2 + 1
  BY <1>1, FS_Interval
<1>5. Cardinality(Key) \in Nat
  BY DepthAssumption, FS_CardinalityType
<1> QED BY <1>1, <1>3, <1>4, <1>5 DEF DepthBounded

THEOREM RecursionBounded == Spec => []DepthBounded
BY VisitedAlways, DepthFromVisited, PTL
-----------------------------------------------------------------------------
\* Every step visits a new key, leaves a document, moves on or ends the load.
LEMMA StepProgresses ==
  ASSUME TypeInv, [Next]_vars
  PROVE  [ \/ visited # visited' /\ visited \subseteq visited'
           \/ Len(stack') < Len(stack)
           \/ /\ Len(stack') = Len(stack)
              /\ stack'[Len(stack)].pc > Current.pc
           \/ outcome' # "running" ]_<<stack, visited, outcome>>
<1>0. Len(stack) \in Nat \ {0} /\ Current.pc \in Nat /\ Current = stack[Len(stack)]
  BY CurrentTyped DEF Frame, Current
<1>1. CASE RejectItem \/ RejectReference \/ RejectDocument \/ Finish
  BY <1>1 DEF RejectItem, RejectReference, RejectDocument, Finish, Abort
<1>2. CASE Declare
  BY <1>0, <1>2, DeclareStep DEF MovesOn
<1>3. CASE SkipImport \/ AlreadyVisited
  BY <1>0, <1>3, AdvanceStep DEF SkipImport, AlreadyVisited, MovesOn
<1>4. CASE ResolverFails \/ ResolverHasNone \/ ResolverReturnsDocument
  <2>1. CallResolver
    BY <1>4 DEF ResolverFails, ResolverHasNone, ResolverReturnsDocument
  <2> QED BY <2>1, ResolverStep
<1>5. CASE ReturnImport \/ ReturnInclude
  <2>1. Leaves
    BY <1>5, ReturnStep
  <2> QED BY <1>0, <2>1 DEF Leaves
<1>6. CASE UNCHANGED vars
  BY <1>6 DEF vars
<1> QED BY <1>1, <1>2, <1>3, <1>4, <1>5, <1>6 DEF Next, Step, Done

\* Loading always makes progress: with visited bounded by the finite set of
\* keys, no behaviour can take infinitely many steps.
THEOREM AlwaysProgresses == Spec => Progress
<1>1. TypeInv /\ [Next]_vars =>
        [ \/ visited # visited' /\ visited \subseteq visited'
          \/ Len(stack') < Len(stack)
          \/ /\ Len(stack') = Len(stack)
             /\ stack'[Len(stack)].pc > Current.pc
          \/ outcome' # "running" ]_<<stack, visited, outcome>>
  BY StepProgresses
<1> QED BY <1>1, TypeInit, TypeStep, PTL DEF Spec, Progress
-----------------------------------------------------------------------------
(***************************************************************************)
(* Nothing is left out.  Of every document being parsed, the references    *)
(* before the current child were followed, and every reference that is     *)
(* being followed is one of its caller's; a loaded document that is no     *)
(* longer on the stack has all its references in visited.                  *)
(***************************************************************************)
FollowedUpTo(key, pc, seen) ==
  \A j \in 1..Len(DocOf(key).items) :
     j < pc /\ IsReference(DocOf(key).items[j]) => KeyAt(key, j) \in seen

FollowedInv ==
  /\ \A k \in loaded : k = TopKey \/ k.loc \in DOMAIN corpus
  /\ \A i \in 1..Len(stack) : stack[i].key \in loaded
  /\ \A i \in 1..Len(stack) : FollowedUpTo(stack[i].key, stack[i].pc, visited)
  /\ \A i \in 1..(Len(stack) - 1) :
        KeyAt(stack[i].key, stack[i].pc) = stack[i + 1].key
  /\ \A k \in loaded : \/ \E i \in 1..Len(stack) : stack[i].key = k
                       \/ KeysNamedBy(k) \subseteq visited

\* Documents are read, never written: what they name does not change, and the
\* invariant of the next state is one about the documents of this state.
LEMMA DocumentsFixed ==
  ASSUME corpus' = corpus,
         \A k \in loaded' : k = TopKey \/ k.loc \in DOMAIN corpus,
         \A i \in 1..Len(stack') : stack'[i].key \in loaded',
         \A i \in 1..Len(stack') : FollowedUpTo(stack'[i].key, stack'[i].pc, visited'),
         \A i \in 1..(Len(stack') - 1) :
            KeyAt(stack'[i].key, stack'[i].pc) = stack'[i + 1].key,
         \A k \in loaded' : \/ \E i \in 1..Len(stack') : stack'[i].key = k
                            \/ KeysNamedBy(k) \subseteq visited'
  PROVE  FollowedInv'
<1>1. (\A k \in loaded : k = TopKey \/ k.loc \in DOMAIN corpus)'
  OBVIOUS
<1>2. (\A i \in 1..Len(stack) : stack[i].key \in loaded)'
  OBVIOUS
<1>3. (\A i \in 1..Len(stack) :
          FollowedUpTo(stack[i].key, stack[i].pc, visited))'
  BY DEF FollowedUpTo, DocOf, KeyAt
<1>4. (\A i \in 1..(Len(stack) - 1) :
          KeyAt(stack[i].key, stack[i].pc) = stack[i + 1].key)'
  BY DEF DocOf, KeyAt
<1>5. (\A k \in loaded : \/ \E i \in 1..Len(stack) : stack[i].key = k
                         \/ KeysNamedBy(k) \subseteq visited)'
  <2>1. ASSUME NEW k PROVE KeysNamedBy(k)' = KeysNamedBy(k)
    BY DEF DocOf, KeyAt, KeysNamedBy
  <2> QED BY <2>1
<1> QED BY <1>1, <1>2, <1>3, <1>4, <1>5 DEF FollowedInv

\* The keys a document names are keys.
LEMMA KeysTyped ==
  ASSUME corpus \in Corpora, NEW k \in Key \cup {TopKey},
         k = TopKey \/ k.loc \in DOMAIN corpus
  PROVE  KeysNamedBy(k) \subseteq Key
<1>1. DocOf(k) \in Document
  BY CorporaAssumption DEF DocOf
<1>2. k.loc \in Location \cup {NoLocation}
  BY DEF Key, TopKey
<1>3. ASSUME NEW i \in 1..Len(DocOf(k).items), IsReference(DocOf(k).items[i])
      PROVE  KeyAt(k, i) \in Key
  <2> DEFINE item == DocOf(k).items[i]
  <2>1. item \in Item /\ item.kind \in {"import", "include"} /\ item.hint # NoHint
    BY <1>1, <1>3 DEF Document, IsReference
  <2>2. item.ns \in Namespace /\ item.hint \in Hint
    BY <2>1 DEF Item
  <2>3. ResolveLocation(k.loc, item.hint) \in Location
    BY <1>2, <2>1, <2>2, LoadAssumption
  <2> QED BY <2>2, <2>3, LoadAssumption DEF KeyAt, Key
<1> QED BY <1>3 DEF KeysNamedBy

\* A document all of whose references were followed names only visited keys.
LEMMA FollowedToTheEnd ==
  ASSUME NEW k, NEW pc \in Nat, NEW seen, DocOf(k) \in Document,
         ~(pc <= Len(DocOf(k).items)), FollowedUpTo(k, pc, seen)
  PROVE  KeysNamedBy(k) \subseteq seen
<1>1. Len(DocOf(k).items) \in Nat
  BY DEF Document
<1>2. \A j \in 1..Len(DocOf(k).items) : j < pc
  BY <1>1
<1> QED BY <1>2 DEF FollowedUpTo, KeysNamedBy

\* Moving on past a child that is no reference, or whose key is visited now.
LEMMA FollowedOneMore ==
  ASSUME NEW k, NEW pc \in Nat, NEW seen, NEW more, DocOf(k) \in Document,
         FollowedUpTo(k, pc, seen), seen \subseteq more,
         IsReference(DocOf(k).items[pc]) => KeyAt(k, pc) \in more
  PROVE  FollowedUpTo(k, pc + 1, more)
<1>1. Len(DocOf(k).items) \in Nat
  BY DEF Document
<1>2. \A j \in 1..Len(DocOf(k).items) : j < pc + 1 => j = pc \/ j < pc
  BY <1>1
<1> QED BY <1>2 DEF FollowedUpTo

LEMMA FollowedMonotone ==
  ASSUME NEW k, NEW pc, NEW seen, NEW more,
         FollowedUpTo(k, pc, seen), seen \subseteq more
  PROVE  FollowedUpTo(k, pc, more)
BY DEF FollowedUpTo

\* Moving on in the current document.
LEMMA FollowedMovesOn ==
  ASSUME TypeInv, FollowedInv, MovesOn, corpus' = corpus, loaded' = loaded,
         visited \subseteq visited',
         IsReference(CurrentItem) => CurrentKey \in visited'
  PROVE  FollowedInv'
<1> DEFINE n == Len(stack)
<1>1. n \in Nat \ {0} /\ n \in 1..n /\ \A i \in 1..n : i = n \/ i \in 1..(n - 1)
  BY CurrentTyped
<1>2. \A i \in 1..n : stack[i].pc \in Nat /\ DocOf(stack[i].key) \in Document
  BY FramesTyped
<1>3. /\ Len(stack') = n
      /\ \A i \in 1..n : stack'[i].key = stack[i].key
      /\ \A i \in 1..(n - 1) : stack'[i].pc = stack[i].pc
      /\ stack'[n].pc = stack[n].pc + 1
  BY DEF MovesOn
<1>4. ASSUME NEW i \in 1..n
      PROVE  FollowedUpTo(stack'[i].key, stack'[i].pc, visited')
  <2>1. FollowedUpTo(stack[i].key, stack[i].pc, visited)
    BY DEF FollowedInv
  <2>2. CASE i = n
    <3>1. IsReference(DocOf(stack[n].key).items[stack[n].pc])
            => KeyAt(stack[n].key, stack[n].pc) \in visited'
      BY DEF CurrentItem, CurrentKey, Current
    <3>2. FollowedUpTo(stack[n].key, stack[n].pc + 1, visited')
      BY <1>1, <1>2, <2>1, <2>2, <3>1, FollowedOneMore
    <3> QED BY <1>1, <1>3, <2>2, <3>2
  <2>3. CASE i \in 1..(n - 1)
    BY <1>3, <2>1, <2>3, FollowedMonotone
  <2> QED BY <1>1, <2>2, <2>3
<1>5. \A i \in 1..(n - 1) : i \in 1..n /\ i + 1 \in 1..n
  BY <1>1
<1>6. \A i \in 1..(n - 1) : KeyAt(stack'[i].key, stack'[i].pc) = stack'[i + 1].key
  BY <1>3, <1>5 DEF FollowedInv
<1>7. \A k \in loaded' : \/ \E i \in 1..n : stack'[i].key = k
                         \/ KeysNamedBy(k) \subseteq visited'
  BY <1>3 DEF FollowedInv
<1>8. \A i \in 1..n : stack'[i].key \in loaded'
  BY <1>3 DEF FollowedInv
<1>9. \A k \in loaded' : k = TopKey \/ k.loc \in DOMAIN corpus
  BY DEF FollowedInv
<1> QED BY <1>3, <1>4, <1>6, <1>7, <1>8, <1>9, DocumentsFixed

\* Opening a document: its caller waits at the reference that names it.
LEMMA FollowedPush ==
  ASSUME TypeInv, FollowedInv, ResolverReturnsDocument
  PROVE  FollowedInv'
<1> DEFINE n == Len(stack)
<1>1. /\ n \in Nat \ {0}
      /\ Len(stack') = n + 1
      /\ \A i \in 1..n : stack'[i] = stack[i]
      /\ stack'[n + 1].key = CurrentKey
      /\ stack'[n + 1].pc = 1
  BY PushStep
<1>2. /\ corpus' = corpus /\ loaded' = loaded \cup {CurrentKey}
      /\ visited \subseteq visited' /\ CurrentKey.loc \in DOMAIN corpus
      /\ CurrentKey \in Key
  BY ResolverStep DEF ResolverReturnsDocument
<1>3. \A i \in 1..(n + 1) : i = n + 1 \/ i \in 1..n
  BY <1>1
<1>4. ASSUME NEW i \in 1..(n + 1)
      PROVE  FollowedUpTo(stack'[i].key, stack'[i].pc, visited')
  <2>1. CASE i \in 1..n
    BY <1>1, <1>2, <2>1, FollowedMonotone DEF FollowedInv
  <2>2. CASE i = n + 1
    <3>1. DocOf(CurrentKey) \in Document
      BY <1>2, TopKeyIsNoKey, CorporaAssumption DEF DocOf, TypeInv, TypeOK, FramesKnown
    <3>2. \A j \in 1..Len(DocOf(CurrentKey).items) : ~(j < 1)
      BY <3>1 DEF Document
    <3> QED BY <1>1, <2>2, <3>2 DEF FollowedUpTo
  <2> QED BY <1>3, <2>1, <2>2
<1>5. ASSUME NEW i \in 1..n
      PROVE  KeyAt(stack'[i].key, stack'[i].pc) = stack'[i + 1].key
  <2>1. CASE i = n
    BY <1>1, <2>1 DEF CurrentKey, Current
  <2>2. CASE i # n
    <3>1. i \in 1..(n - 1) /\ i + 1 \in 1..n
      BY <1>1, <2>2
    <3> QED BY <1>1, <3>1 DEF FollowedInv
  <2> QED BY <2>1, <2>2
<1>6. \A i \in 1..(n + 1) : stack'[i].key \in loaded'
  BY <1>1, <1>2, <1>3 DEF FollowedInv
<1>7. \A k \in loaded' : k = TopKey \/ k.loc \in DOMAIN corpus
  BY <1>2 DEF FollowedInv
<1>8. \A k \in loaded' : \/ \E i \in 1..(n + 1) : stack'[i].key = k
                         \/ KeysNamedBy(k) \subseteq visited'
  <2>1. n + 1 \in 1..(n + 1) /\ \A i \in 1..n : i \in 1..(n + 1)
    BY <1>1
  <2> QED BY <1>1, <1>2, <2>1 DEF FollowedInv
<1>9. Len(stack') - 1 = n
  BY <1>1
<1> QED BY <1>1, <1>2, <1>4, <1>5, <1>6, <1>7, <1>8, <1>9, DocumentsFixed

\* Leaving a document: all it names was followed, and so was its own key.
LEMMA FollowedLeaves ==
  ASSUME TypeInv, VisitedInv, FollowedInv, AtEnd, Leaves,
         UNCHANGED <<corpus, visited, loaded>>
  PROVE  FollowedInv'
<1> DEFINE n == Len(stack)
           c == Len(stack) - 1
<1>1. /\ n \in Nat \ {0} /\ c \in Nat \ {0} /\ n = c + 1 /\ c \in 1..n
      /\ n \in 2..n /\ n \in 1..n /\ c \in 1..c
      /\ \A i \in 1..c : i \in 1..n /\ (i = c \/ i \in 1..(c - 1))
      /\ \A i \in 1..(c - 1) : i \in 1..c /\ i + 1 \in 1..c
      /\ \A i \in 1..n : i = n \/ i \in 1..c
  BY CurrentTyped DEF Leaves
<1>2. /\ Len(stack') = c
      /\ \A i \in 1..c : stack'[i].key = stack[i].key
      /\ \A i \in 1..(c - 1) : stack'[i].pc = stack[i].pc
      /\ stack'[c].pc = stack[c].pc + 1
  BY DEF Leaves
<1>3. \A i \in 1..n : stack[i].pc \in Nat /\ DocOf(stack[i].key) \in Document
  BY FramesTyped
<1>4. KeysNamedBy(stack[n].key) \subseteq visited
  <2>1. ~(stack[n].pc <= Len(DocOf(stack[n].key).items))
    BY DEF AtEnd, HasItem, Current
  <2>2. FollowedUpTo(stack[n].key, stack[n].pc, visited)
    BY <1>1 DEF FollowedInv
  <2>3. stack[n].pc \in Nat /\ DocOf(stack[n].key) \in Document
    BY <1>1, <1>3
  <2> QED BY <2>1, <2>2, <2>3, FollowedToTheEnd
<1>5. KeyAt(stack[c].key, stack[c].pc) \in visited
  <2>1. c \in 1..(n - 1) /\ c + 1 = n
    BY <1>1
  <2>2. KeyAt(stack[c].key, stack[c].pc) = stack[n].key
    BY <2>1 DEF FollowedInv
  <2>3. stack[n].key \in visited
    BY <1>1 DEF VisitedInv
  <2> QED BY <2>2, <2>3
<1>6. ASSUME NEW i \in 1..c
      PROVE  FollowedUpTo(stack'[i].key, stack'[i].pc, visited)
  <2>1. FollowedUpTo(stack[i].key, stack[i].pc, visited)
    BY <1>1 DEF FollowedInv
  <2>2. CASE i = c
    <3>1. FollowedUpTo(stack[c].key, stack[c].pc + 1, visited)
      BY <1>1, <1>3, <1>5, <2>1, <2>2, FollowedOneMore
    <3> QED BY <1>1, <1>2, <2>2, <3>1
  <2>3. CASE i \in 1..(c - 1)
    BY <1>2, <2>1, <2>3
  <2> QED BY <1>1, <2>2, <2>3
<1>7. \A i \in 1..(c - 1) : KeyAt(stack'[i].key, stack'[i].pc) = stack'[i + 1].key
  BY <1>1, <1>2 DEF FollowedInv
<1>8. \A k \in loaded : \/ \E i \in 1..c : stack'[i].key = k
                        \/ KeysNamedBy(k) \subseteq visited
  BY <1>1, <1>2, <1>4 DEF FollowedInv
<1>9. \A i \in 1..c : stack'[i].key \in loaded
  BY <1>1, <1>2 DEF FollowedInv
<1>10. \A k \in loaded : k = TopKey \/ k.loc \in DOMAIN corpus
  BY DEF FollowedInv
<1> QED BY <1>2, <1>6, <1>7, <1>8, <1>9, <1>10, DocumentsFixed

LEMMA FollowedInit == Init => FollowedInv
<1> SUFFICES ASSUME Init PROVE FollowedInv
  OBVIOUS
<1>1. Len(stack) = 1 /\ stack[1].key = TopKey /\ stack[1].pc = 1 /\ loaded = {TopKey}
  BY DEF Init
<1>2. DocOf(TopKey) \in Document
  BY CorporaAssumption DEF Init, DocOf
<1>3. \A j \in 1..Len(DocOf(TopKey).items) : ~(j < 1)
  BY <1>2 DEF Document
<1> QED BY <1>1, <1>3 DEF FollowedInv, FollowedUpTo

LEMMA FollowedStep == TypeInv /\ VisitedInv /\ FollowedInv /\ [Next]_vars => FollowedInv'
<1> SUFFICES ASSUME TypeInv, VisitedInv, FollowedInv, [Next]_vars PROVE FollowedInv'
  OBVIOUS
<1> DEFINE Same == UNCHANGED <<corpus, stack, loaded>>
<1>1. ASSUME Same, visited \subseteq visited' PROVE FollowedInv'
  BY <1>1, FollowedMonotone, DocumentsFixed DEF FollowedInv
<1>2. CASE RejectItem \/ RejectReference \/ RejectDocument \/ Finish
  BY <1>1, <1>2 DEF RejectItem, RejectReference, RejectDocument, Finish, Abort
<1>3. CASE Declare
  <2>1. ~IsReference(CurrentItem)
    BY <1>3 DEF Declare, At, IsReference
  <2> QED BY <1>3, <2>1, DeclareStep, FollowedMovesOn DEF Declare
<1>4. CASE SkipImport
  <2>1. ~IsReference(CurrentItem)
    BY <1>4 DEF SkipImport, NoHintGiven, IsReference
  <2> QED BY <1>4, <2>1, AdvanceStep, FollowedMovesOn DEF SkipImport
<1>5. CASE AlreadyVisited
  BY <1>5, AdvanceStep, FollowedMovesOn DEF AlreadyVisited
<1>6. CASE ResolverFails
  BY <1>1, <1>6, ResolverStep DEF ResolverFails, Abort
<1>7. CASE ResolverHasNone
  <2>1. visited \subseteq visited' /\ CurrentKey \in visited'
    BY <1>7, ResolverStep DEF ResolverHasNone
  <2> QED BY <1>7, <2>1, AdvanceStep, FollowedMovesOn DEF ResolverHasNone
<1>8. CASE ResolverReturnsDocument
  BY <1>8, FollowedPush
<1>9. CASE ReturnImport \/ ReturnInclude
  BY <1>9, ReturnStep, FollowedLeaves
<1>10. CASE UNCHANGED vars
  BY <1>1, <1>10 DEF vars
<1> QED BY <1>2, <1>3, <1>4, <1>5, <1>6, <1>7, <1>8, <1>9, <1>10
        DEF Next, Step, Done
-----------------------------------------------------------------------------
\* The mapping of a load onto SchemaClosure, step by step.
Inv == TypeInv /\ VisitedInv /\ FollowedInv

\* The keys each document names, as SchemaClosure keeps them.
Refs == [k \in Key \cup {TopKey} |->
           IF k = TopKey \/ k.loc \in DOMAIN corpus THEN KeysNamedBy(k) ELSE {}]

LEMMA RefsTyped ==
  ASSUME corpus \in Corpora
  PROVE  Refs \in [Key \cup {TopKey} -> SUBSET Key]
BY KeysTyped DEF Refs

\* A key being followed for the first time is one SchemaClosure may ask for.
LEMMA CallIsUnasked ==
  ASSUME Inv, CallResolver
  PROVE  CurrentKey \in Closure!Unasked
<1> DEFINE k == Current.key
<1>1. /\ Current \in Frame /\ HasItem /\ Len(stack) \in 1..Len(stack)
      /\ DocOf(k) \in Document
  BY CurrentTyped DEF Inv, CallResolver, AtReference, At
<1>2. k \in loaded /\ k \in Key \cup {TopKey} /\ (k = TopKey \/ k.loc \in DOMAIN corpus)
  BY <1>1 DEF Inv, FollowedInv, Current, Frame
<1>3. Current.pc \in 1..Len(DocOf(k).items) /\ IsReference(DocOf(k).items[Current.pc])
  BY <1>1 DEF CallResolver, AtReference, At, HasItem, CurrentItem, IsReference, Frame, Document
<1>4. CurrentKey \in KeysNamedBy(k)
  BY <1>3 DEF KeysNamedBy, CurrentKey
<1>5. CurrentKey \notin visited
  BY DEF CallResolver
<1> QED BY <1>2, <1>4, <1>5 DEF Closure!Unasked

\* When the top-level document ends, nothing loaded names an unfollowed key.
LEMMA FinishedIsClosed ==
  ASSUME Inv, Finish
  PROVE  Closure!Unasked = {}
<1>1. /\ Len(stack) = 1 /\ stack[1].key = TopKey
      /\ stack[1].pc \in Nat /\ DocOf(TopKey) \in Document
      /\ ~(stack[1].pc <= Len(DocOf(TopKey).items))
  <2>1. Len(stack) = 1 /\ stack[1].key = TopKey
    BY DEF Inv, Finish, TypeInv, FramesKnown
  <2>2. stack[1].pc \in Nat /\ DocOf(TopKey) \in Document
    BY <2>1, FramesTyped DEF Inv
  <2> QED BY <2>1, <2>2 DEF Finish, AtEnd, HasItem, Current
<1>2. KeysNamedBy(TopKey) \subseteq visited
  <2>1. FollowedUpTo(TopKey, stack[1].pc, visited)
    BY <1>1 DEF Inv, FollowedInv
  <2> QED BY <1>1, <2>1, FollowedToTheEnd
<1>3. \A k \in loaded : KeysNamedBy(k) \subseteq visited
  BY <1>1, <1>2 DEF Inv, FollowedInv
<1>4. loaded \subseteq Key \cup {TopKey}
  BY DEF Inv, TypeInv, TypeOK
<1> QED BY <1>3, <1>4 DEF Closure!Unasked

LEMMA ClosureInit == Init => Closure!Init
<1> SUFFICES ASSUME Init PROVE Closure!Init
  OBVIOUS
<1>1. Refs \in [Key \cup {TopKey} -> SUBSET Key]
  BY RefsTyped DEF Init
<1> QED BY <1>1 DEF Init, Closure!Init, Refs

LEMMA ClosureStep == Inv /\ [Next]_vars => [Closure!Next]_Closure!vars
<1> SUFFICES ASSUME Inv, [Next]_vars PROVE [Closure!Next]_Closure!vars
  OBVIOUS
<1>1. UNCHANGED corpus => UNCHANGED Refs
  BY DEF Refs, KeysNamedBy, KeyAt, DocOf
<1>2. CASE RejectItem \/ RejectReference \/ RejectDocument
  <2>1. Closure!Fail
    BY <1>1, <1>2 DEF RejectItem, RejectReference, RejectDocument, Abort, Refs,
       Closure!Fail, At, NoHintGiven, AtEnd, Running
  <2> QED BY <2>1 DEF Closure!Next
<1>3. CASE Declare \/ SkipImport \/ AlreadyVisited
  BY <1>1, <1>3 DEF Declare, SkipImport, AlreadyVisited, Refs, Closure!vars
<1>4. CASE ResolverFails
  <2>1. Closure!Fail
    BY <1>1, <1>4, CallIsUnasked DEF ResolverFails, CallResolver, AtReference, At,
       Running, Abort, Refs, Closure!Fail
  <2> QED BY <2>1 DEF Closure!Next
<1>5. CASE ResolverHasNone \/ ResolverReturnsDocument
  <2>1. CurrentKey \in Key
    BY <1>5, ResolverStep DEF Inv, ResolverHasNone, ResolverReturnsDocument
  <2>2. Closure!Ask(CurrentKey)
    BY <1>1, <1>5, CallIsUnasked DEF ResolverHasNone, ResolverReturnsDocument,
       CallResolver, AtReference, At, Running, Refs, Closure!Ask
  <2> QED BY <2>1, <2>2 DEF Closure!Next
<1>6. CASE ReturnImport \/ ReturnInclude
  <2>1. UNCHANGED <<corpus, visited, outcome, loaded>>
    BY <1>6, ReturnStep DEF Inv
  <2> QED BY <1>1, <2>1 DEF Refs, Closure!vars
<1>7. CASE Finish
  <2>1. Closure!Finish
    BY <1>1, <1>7, FinishedIsClosed DEF Finish, AtEnd, Running, Refs, Closure!Finish
  <2> QED BY <2>1 DEF Closure!Next
<1>8. CASE UNCHANGED vars
  BY <1>1, <1>8 DEF vars, Refs, Closure!vars
<1> QED BY <1>2, <1>3, <1>4, <1>5, <1>6, <1>7, <1>8 DEF Next, Step, Done

\* Loading implements SchemaClosure: it fetches only what loaded documents
\* name, and succeeds only when nothing they name was left out.
THEOREM LoadImplementsClosure == Spec => ClosureSpec
<1>1. Init => Inv
  BY TypeInit, VisitedInit, FollowedInit DEF Inv
<1>2. Inv /\ [Next]_vars => Inv'
  BY TypeStep, VisitedStep, FollowedStep DEF Inv
<1> QED BY <1>1, <1>2, ClosureInit, ClosureStep, PTL
        DEF Spec, ClosureSpec, Closure!Spec
-----------------------------------------------------------------------------
\* A call that waits for a document it refers to is at a child of its own.
CallersWait ==
  \A i \in 1..(Len(stack) - 1) : stack[i].pc <= Len(DocOf(stack[i].key).items)

\* What the proofs below know of a state.
LoadInv == Inv /\ CallersWait

LEMMA DocsFixed == corpus' = corpus => \A k : DocOf(k)' = DocOf(k)
BY DEF DocOf

LEMMA CallersWaitStep == Inv /\ CallersWait /\ [Next]_vars => CallersWait'
<1> SUFFICES ASSUME Inv, CallersWait, [Next]_vars PROVE CallersWait'
  OBVIOUS
<1> USE DEF Inv
<1>0. Len(stack) \in Nat \ {0}
  BY CurrentTyped
<1>1. ASSUME UNCHANGED <<corpus, stack>> PROVE CallersWait'
  BY <1>1, DocsFixed DEF CallersWait
<1>2. ASSUME corpus' = corpus, MovesOn PROVE CallersWait'
  <2>1. \A i \in 1..(Len(stack) - 1) : i \in 1..Len(stack)
    BY <1>0
  <2> QED BY <1>2, <2>1, DocsFixed DEF CallersWait, MovesOn
<1>3. CASE RejectItem \/ RejectReference \/ RejectDocument \/ Finish
  BY <1>1, <1>3 DEF RejectItem, RejectReference, RejectDocument, Finish, Abort
<1>4. CASE Declare
  BY <1>2, <1>4, DeclareStep DEF Declare
<1>5. CASE SkipImport \/ AlreadyVisited \/ ResolverHasNone
  BY <1>2, <1>5, AdvanceStep DEF SkipImport, AlreadyVisited, ResolverHasNone
<1>6. CASE ResolverFails
  BY <1>1, <1>6 DEF ResolverFails, Abort
<1>7. CASE ResolverReturnsDocument
  <2>1. /\ Len(stack') = Len(stack) + 1 /\ corpus' = corpus
        /\ \A i \in 1..Len(stack) : stack'[i] = stack[i]
    BY <1>7, PushStep DEF ResolverReturnsDocument
  <2>2. Current.pc <= Len(DocOf(Current.key).items)
    BY <1>7 DEF ResolverReturnsDocument, CallResolver, AtReference, At, HasItem
  <2>3. \A i \in 1..Len(stack) : i = Len(stack) \/ i \in 1..(Len(stack) - 1)
    BY <1>0
  <2>4. Len(stack') - 1 = Len(stack)
    BY <1>0, <2>1
  <2> QED BY <2>1, <2>2, <2>3, <2>4, DocsFixed DEF CallersWait, Current
<1>8. CASE ReturnImport \/ ReturnInclude
  <2>1. /\ Leaves /\ corpus' = corpus
    BY <1>8, ReturnStep
  <2>2. \A i \in 1..(Len(stack') - 1) : i \in 1..Len(stack') /\ i \in 1..(Len(stack) - 1)
    BY <1>0, <2>1 DEF Leaves
  <2> QED BY <2>1, <2>2, DocsFixed DEF CallersWait, Leaves
<1>9. CASE UNCHANGED vars
  BY <1>1, <1>9 DEF vars
<1> QED BY <1>3, <1>4, <1>5, <1>6, <1>7, <1>8, <1>9 DEF Next, Step, Done

LEMMA LoadAlways == Spec => []LoadInv
<1>1. Init => LoadInv
  <2>1. Init => CallersWait
    BY DEF Init, CallersWait
  <2> QED BY <2>1, TypeInit, VisitedInit, FollowedInit DEF Inv, LoadInv
<1>2. LoadInv /\ [Next]_vars => LoadInv'
  BY TypeStep, VisitedStep, FollowedStep, CallersWaitStep DEF Inv, LoadInv
<1> QED BY <1>1, <1>2, PTL DEF Spec

\* The document of a frame is loaded, and stays so.
LEMMA FramesLoaded ==
  ASSUME LoadInv
  PROVE  /\ \A i \in 1..Len(stack) : stack[i].key \in loaded
         /\ Len(stack) \in Nat \ {0}
         /\ Current = stack[Len(stack)]
BY CurrentTyped DEF LoadInv, Inv, FollowedInv, Current

LEMMA LoadedGrows == [Next]_vars => corpus' = corpus /\ loaded \subseteq loaded'
BY DEF Next, Step, Done, vars, RejectItem, RejectReference, RejectDocument, Finish,
       Abort, Declare, SkipImport, AlreadyVisited, ResolverFails, ResolverHasNone,
       ResolverReturnsDocument, ReturnImport, ReturnInclude

\* The calls on both sides of a return.
LEMMA ReturningFrames ==
  ASSUME LoadInv, Len(stack) > 1
  PROVE  /\ Len(stack) - 1 \in 1..Len(stack)
         /\ Caller = stack[Len(stack) - 1]
         /\ Caller.key \in loaded /\ Current.key \in loaded
         /\ CallerDoc \in Document
         /\ Caller.pc \in 1..Len(CallerDoc.items)
         /\ Current.decls \in SUBSET Decl
<1>1. Len(stack) \in Nat /\ Len(stack) - 1 \in 1..Len(stack)
      /\ Len(stack) - 1 \in 1..(Len(stack) - 1) /\ Len(stack) \in 1..Len(stack)
  BY CurrentTyped DEF LoadInv, Inv
<1>2. Caller = stack[Len(stack) - 1] /\ Current = stack[Len(stack)]
  BY DEF Caller, Current
<1>3. Caller \in Frame /\ Current \in Frame
  BY <1>1, <1>2 DEF LoadInv, Inv, TypeInv, TypeOK
<1>4. CallerDoc \in Document
  BY <1>1, <1>2, FrameDocument DEF CallerDoc, LoadInv, Inv
<1>5. Caller.pc <= Len(CallerDoc.items)
  BY <1>1, <1>2 DEF LoadInv, CallersWait, CallerDoc
<1>6. Caller.pc \in 1..Len(CallerDoc.items)
  BY <1>3, <1>4, <1>5 DEF Frame, Document
<1> QED BY <1>1, <1>2, <1>3, <1>4, <1>6, FramesLoaded DEF Frame
-----------------------------------------------------------------------------
(***************************************************************************)
(* Namespaces.  While only includes were followed, what a call has         *)
(* collected is in the namespace of the document it parses, an included    *)
(* document without one of its own having adopted the includer's.          *)
(***************************************************************************)
InNamespace(decls, ns) == \A d \in decls : d.table \in Qualified => d.ns = ns
FramesShareNamespace ==
  OnlyIncludes =>
    \A i \in 1..Len(stack) : InNamespace(stack[i].decls, DocOf(stack[i].key).tns)

\* What an include hands over is in the includer's namespace.
LEMMA AdoptedNamespace ==
  ASSUME ~MismatchedInclude, InNamespace(Current.decls, CurrentDoc.tns),
         Current.decls \in SUBSET Decl,
         NEW D \in Adoptions(Current.decls)
  PROVE  InNamespace(D, CallerDoc.tns)
<1>1. CASE IsChameleon
  <2>1. D \subseteq {Stamped(d, CallerDoc.tns) : d \in Current.decls}
    BY <1>1 DEF Adoptions, Restamped
  <2>2. ASSUME NEW d \in Current.decls, Stamped(d, CallerDoc.tns).table \in Qualified
        PROVE  Stamped(d, CallerDoc.tns).ns = CallerDoc.tns
    BY <2>2 DEF Stamped, Decl
  <2> QED BY <2>1, <2>2 DEF InNamespace
<1>2. CASE ~IsChameleon
  BY <1>2 DEF Adoptions, IsChameleon, MismatchedInclude
<1> QED BY <1>1, <1>2

LEMMA NamespaceStep ==
  LoadInv /\ FramesShareNamespace /\ [Next]_vars => FramesShareNamespace'
<1> SUFFICES ASSUME LoadInv, FramesShareNamespace, [Next]_vars
             PROVE  FramesShareNamespace'
  OBVIOUS
<1>a. corpus' = corpus
  BY LoadedGrows
<1> SUFFICES ASSUME OnlyIncludes'
             PROVE  \A i \in 1..Len(stack') :
                      InNamespace(stack'[i].decls, DocOf(stack'[i].key).tns)
  BY <1>a DEF FramesShareNamespace, InNamespace, DocOf
<1> DEFINE n == Len(stack)
<1>0. TypeInv /\ Inv
  BY DEF LoadInv, Inv
<1>1. OnlyIncludes
  BY LoadedGrows, DocsFixed DEF OnlyIncludes
<1>2. \A i \in 1..n : InNamespace(stack[i].decls, DocOf(stack[i].key).tns)
  BY <1>1 DEF FramesShareNamespace
<1>3. n \in Nat \ {0} /\ \A i \in 1..n : i = n \/ i \in 1..(n - 1)
  BY FramesLoaded
<1>4. CASE stack' = stack
  BY <1>2, <1>4
<1>5. ASSUME MovesOn, KeepsDecls(n)
      PROVE  \A i \in 1..Len(stack') :
               InNamespace(stack'[i].decls, DocOf(stack'[i].key).tns)
  BY <1>2, <1>5 DEF MovesOn, KeepsDecls
<1>6. CASE Declare
  <2>1. /\ MovesOn /\ KeepsDecls(n - 1)
        /\ stack'[n].decls = {e \in Current.decls : ~SameKey(Declared, e)} \cup {Declared}
    BY <1>0, <1>6, DeclareStep
  <2>2. InNamespace({Declared}, DocOf(stack[n].key).tns)
    BY DEF InNamespace, Declared, CurrentDoc, Current
  <2>3. InNamespace(stack'[n].decls, DocOf(stack[n].key).tns)
    BY <1>2, <1>3, <2>1, <2>2 DEF InNamespace, Current
  <2> QED BY <1>2, <1>3, <2>1, <2>3 DEF MovesOn, KeepsDecls
<1>7. CASE SkipImport \/ AlreadyVisited \/ ResolverHasNone
  BY <1>0, <1>5, <1>7, AdvanceStep DEF SkipImport, AlreadyVisited, ResolverHasNone
<1>8. CASE ResolverReturnsDocument
  <2>1. /\ Len(stack') = n + 1
        /\ \A i \in 1..n : stack'[i] = stack[i]
        /\ stack'[n + 1].decls = {}
    BY <1>0, <1>8, PushStep
  <2>2. \A i \in 1..(n + 1) : i = n + 1 \/ i \in 1..n
    BY <1>3
  <2> QED BY <1>2, <2>1, <2>2 DEF InNamespace
<1>9. CASE ReturnImport \/ ReturnInclude
  <2> DEFINE c == n - 1
  <2>1. Leaves /\ ReturnsDecls /\ Len(stack) > 1
    BY <1>0, <1>9, ReturnStep DEF Leaves
  <2>2. /\ Caller = stack[c] /\ c \in 1..n /\ Current = stack[n]
        /\ Caller.key \in loaded
        /\ Caller.pc \in 1..Len(CallerDoc.items)
        /\ Current.decls \in SUBSET Decl
    BY <2>1, ReturningFrames DEF Current
  <2>3. ~Returning("import")
    BY <1>1, <2>2 DEF OnlyIncludes, Returning, CallerItem, CallerDoc
  <2>4. PICK D \in Adoptions(Current.decls) : HandsOver(D)
    BY <2>1, <2>3 DEF ReturnsDecls
  <2>5. InNamespace(D, CallerDoc.tns)
    <3>1. InNamespace(Current.decls, CurrentDoc.tns)
      BY <1>2, <1>3, <2>2 DEF CurrentDoc
    <3>2. ~MismatchedInclude
      BY <2>1, <2>3 DEF ReturnsDecls
    <3> QED BY <2>2, <3>1, <3>2, AdoptedNamespace
  <2>6. InNamespace(stack'[c].decls, DocOf(stack[c].key).tns)
    BY <1>2, <2>2, <2>4, <2>5 DEF HandsOver, InNamespace, CallerDoc
  <2>7. \A i \in 1..c : i \in 1..n /\ (i = c \/ i \in 1..(n - 2))
    BY <1>3, <2>1
  <2> QED BY <1>2, <2>1, <2>4, <2>6, <2>7 DEF HandsOver, KeepsDecls, Leaves
<1>10. CASE RejectItem \/ RejectReference \/ RejectDocument \/ Finish \/ ResolverFails
            \/ UNCHANGED vars
  BY <1>4, <1>10 DEF RejectItem, RejectReference, RejectDocument, Finish, ResolverFails,
                     Abort, vars
<1> QED BY <1>6, <1>7, <1>8, <1>9, <1>10, <1>5 DEF Next, Step, Done

\* Documents joined by xs:include alone make one namespace, chameleon includes
\* of any depth among them.
THEOREM OneNamespace == Spec => []IncludesShareNamespace
<1>1. Init => FramesShareNamespace
  BY DEF Init, FramesShareNamespace, InNamespace
<1>2. LoadInv /\ FramesShareNamespace => IncludesShareNamespace
  <2> SUFFICES ASSUME LoadInv, FramesShareNamespace, OnlyIncludes
               PROVE  InNamespace(Schema, DocOf(TopKey).tns)
    BY DEF IncludesShareNamespace, InNamespace
  <2>1. 1 \in 1..Len(stack) /\ stack[1].key = TopKey
    BY FramesLoaded DEF LoadInv, Inv, TypeInv, FramesKnown
  <2> QED BY <2>1 DEF FramesShareNamespace, Schema
<1> QED BY <1>1, <1>2, LoadAlways, NamespaceStep, PTL DEF Spec
-----------------------------------------------------------------------------
(***************************************************************************)
(* The links.  The last pass is over the schema that is returned, and      *)
(* looks up every reference that is re-linked in each pass.                *)
(***************************************************************************)
LEMMA PassRelinks ==
  ASSUME NEW D, NEW doc, ~Unresolvable(D, doc),
         NEW d \in D, NEW u \in d.uses, u.role \in Relinked
  PROVE  \E t \in D : /\ [from |-> d.id, use |-> u, to |-> t.id] \in LinksAfter(D, doc)
                      /\ t.table = TableOf(u.role) /\ t.name = u.name
<1>1. <<d, u>> \in Pending(D)
  BY DEF Pending
<1>2. Lookup(D, doc, u) # {}
  BY <1>1 DEF Unresolvable, Required
<1>3. PICK t \in Lookup(D, doc, u) : TRUE
  BY <1>2
<1>4. t \in D /\ t.table = TableOf(u.role) /\ t.name = u.name
  BY <1>3 DEF Lookup
<1> DEFINE p == <<d, u>>
           k == [from |-> d.id, use |-> u, to |-> t.id]
           found == {[from |-> q[1].id, use |-> q[2], to |-> e.id] : q \in Pending(D), e \in D}
<1>5. k \in found
  <2>1. k = [from |-> p[1].id, use |-> p[2], to |-> t.id]
    OBVIOUS
  <2> QED BY <1>1, <1>4, <2>1
<1>6. p \in Pending(D) /\ k.from = p[1].id /\ k.use = p[2]
      /\ \E e \in Lookup(D, doc, p[2]) : k.to = e.id
  BY <1>1, <1>3
<1>7. k \in LinksAfter(D, doc)
  <2> HIDE DEF k, p
  <2> QED BY <1>5, <1>6 DEF LinksAfter
<1> QED BY <1>4, <1>7

LEMMA LinksStep == LoadInv /\ LinksCurrent /\ [Next]_vars => LinksCurrent'
<1> SUFFICES ASSUME LoadInv, LinksCurrent, [Next]_vars PROVE LinksCurrent'
  OBVIOUS
<1>1. CASE outcome' # "ok"
  BY <1>1 DEF LinksCurrent, Succeeded
<1>2. CASE Finish
  <2>1. /\ Schema' = Current.decls
        /\ ~Unresolvable(Current.decls, CurrentDoc)
        /\ links' = LinksAfter(Current.decls, CurrentDoc)
    BY <1>2 DEF Finish, Resolved, Schema, Current
  <2>2. ASSUME NEW d \in Schema', NEW u \in d.uses, u.role \in Relinked
        PROVE  \E t \in Schema' : /\ [from |-> d.id, use |-> u, to |-> t.id] \in links'
                                  /\ t.table = TableOf(u.role) /\ t.name = u.name
    BY <2>1, <2>2, PassRelinks
  <2> QED BY <2>2 DEF LinksCurrent
<1>3. CASE outcome' = "ok" /\ ~Finish
  <2>1. UNCHANGED vars
    BY <1>3 DEF Next, Step, Done, vars, RejectItem, RejectReference, RejectDocument,
       Abort, Declare, SkipImport, AlreadyVisited, ResolverFails, ResolverHasNone,
       ResolverReturnsDocument, ReturnImport, ReturnInclude, At, NoHintGiven,
       CallResolver, AtReference, Returning, AtEnd, Running
  <2> QED BY <2>1 DEF vars, LinksCurrent, Succeeded, Schema
<1> QED BY <1>1, <1>2, <1>3

\* However often a reference was linked while documents were merged, in the
\* schema that is returned it points at a declaration of that schema.
THEOREM ReferencesCurrent == Spec => []LinksCurrent
<1>1. Init => LinksCurrent
  BY DEF Init, LinksCurrent, Succeeded
<1> QED BY <1>1, LoadAlways, LinksStep, PTL DEF Spec
-----------------------------------------------------------------------------
(***************************************************************************)
(* Merging.  While every loaded document declares before it refers, and    *)
(* nothing twice, a call holds its own declarations up to its current      *)
(* child and nothing else until it refers to a document, and those of a    *)
(* document that was left are with the calls still in progress.            *)
(***************************************************************************)
Tidy == \A k \in loaded : /\ DeclaresFirst(DocOf(k))
                          /\ DeclaresOnce(DocOf(k))
                          /\ DocOf(k).tns # NoNS

Declares(k, j) == DocOf(k).items[j].kind = "declare"
WrittenBefore(k, pc) ==
  {<<k, j>> : j \in {i \in 1..Len(DocOf(k).items) : i < pc /\ Declares(k, i)}}
WrittenIn(k) ==
  {<<k, j>> : j \in {i \in 1..Len(DocOf(k).items) : Declares(k, i)}}
Held == UNION {Ids(stack[i].decls) : i \in 1..Len(stack)}

\* The declarations decls are those of the children before pc.
OwnOnly(decls, k, pc) ==
  \A d \in decls : \E j \in 1..Len(DocOf(k).items) :
     j < pc /\ Declares(k, j)
       /\ d.table = DocOf(k).items[j].table /\ d.name = DocOf(k).items[j].name
NoReferenceBefore(k, pc) ==
  \A j \in 1..Len(DocOf(k).items) : j < pc => Declares(k, j)

FrameHolds(frame) ==
  /\ WrittenBefore(frame.key, frame.pc) \subseteq Ids(frame.decls)
  /\ NoReferenceBefore(frame.key, frame.pc) => OwnOnly(frame.decls, frame.key, frame.pc)

MergeInv ==
  Tidy => /\ \A i \in 1..Len(stack) : FrameHolds(stack[i])
          /\ \A k \in loaded : \/ \E i \in 1..Len(stack) : stack[i].key = k
                               \/ WrittenIn(k) \subseteq Held
          /\ Succeeded => Len(stack) = 1 /\ ~HasItem

\* Documents do not change: MergeInv of the next state is about these ones.
LEMMA MergeIntro ==
  ASSUME corpus' = corpus,
         \A i \in 1..Len(stack') : FrameHolds(stack'[i]),
         \A k \in loaded' : \/ \E i \in 1..Len(stack') : stack'[i].key = k
                            \/ WrittenIn(k) \subseteq Held',
         outcome' = "ok" => Len(stack') = 1 /\ ~HasItem'
  PROVE  MergeInv'
<1>1. (\A i \in 1..Len(stack) : FrameHolds(stack[i]))'
  BY DEF FrameHolds, WrittenBefore, NoReferenceBefore, OwnOnly, Declares, DocOf, Ids
<1>2. (\A k \in loaded : \/ \E i \in 1..Len(stack) : stack[i].key = k
                         \/ WrittenIn(k) \subseteq Held)'
  <2>1. ASSUME NEW k PROVE WrittenIn(k)' = WrittenIn(k)
    BY DEF WrittenIn, Declares, DocOf
  <2> QED BY <2>1
<1> QED BY <1>1, <1>2 DEF MergeInv, Succeeded

\* Tidiness is about every loaded document, so it held before if it holds now.
LEMMA TidyBefore == [Next]_vars /\ Tidy' => Tidy
BY LoadedGrows DEF Tidy, DocOf, DeclaresFirst, DeclaresOnce

\* What the frames hold, some of the frames growing.
LEMMA HeldGrows ==
  ASSUME NEW k, WrittenIn(k) \subseteq Held,
         \A i \in 1..Len(stack) : \E j \in 1..Len(stack') :
            stack[i].decls \subseteq stack'[j].decls
  PROVE  WrittenIn(k) \subseteq Held'
BY DEF Held, Ids

\* Passing a child that declares nothing.
LEMMA HoldsPastReference ==
  ASSUME NEW frame, NEW next, DocOf(frame.key) \in Document,
         FrameHolds(frame), frame.pc \in 1..Len(DocOf(frame.key).items),
         ~Declares(frame.key, frame.pc),
         next.key = frame.key, next.pc = frame.pc + 1,
         frame.decls \subseteq next.decls
  PROVE  FrameHolds(next)
<1> DEFINE k == frame.key
           N == 1..Len(DocOf(k).items)
<1>1. \A j \in N : j < frame.pc + 1 => j = frame.pc \/ j < frame.pc
  BY DEF Document
<1>2. WrittenBefore(k, frame.pc + 1) \subseteq WrittenBefore(k, frame.pc)
  BY <1>1 DEF WrittenBefore
<1>3. Ids(frame.decls) \subseteq Ids(next.decls)
  BY DEF Ids
<1>4. frame.pc < frame.pc + 1
  BY DEF Document
<1>5. ~NoReferenceBefore(k, frame.pc + 1)
  BY <1>4 DEF NoReferenceBefore
<1> QED BY <1>2, <1>3, <1>5 DEF FrameHolds

\* A declaration replaces none of its document's own.
LEMMA HoldsDeclared ==
  ASSUME NEW frame, NEW next, NEW d, DocOf(frame.key) \in Document,
         DeclaresFirst(DocOf(frame.key)), DeclaresOnce(DocOf(frame.key)),
         FrameHolds(frame), frame.pc \in 1..Len(DocOf(frame.key).items),
         Declares(frame.key, frame.pc),
         d.id = <<frame.key, frame.pc>>,
         d.table = DocOf(frame.key).items[frame.pc].table,
         d.name = DocOf(frame.key).items[frame.pc].name,
         next.key = frame.key, next.pc = frame.pc + 1,
         next.decls = {e \in frame.decls : ~SameKey(d, e)} \cup {d}
  PROVE  FrameHolds(next) /\ frame.decls \subseteq next.decls
<1> DEFINE k == frame.key
           doc == DocOf(k)
           N == 1..Len(doc.items)
<1>1. \A j \in N : /\ j < frame.pc + 1 => j = frame.pc \/ j < frame.pc
                   /\ j < frame.pc => j # frame.pc /\ j < frame.pc + 1
                   /\ ~(j < frame.pc /\ frame.pc < j)
  BY DEF Document
<1>2. frame.pc < frame.pc + 1
  BY DEF Document
<1>3. NoReferenceBefore(k, frame.pc)
  BY <1>1 DEF NoReferenceBefore, DeclaresFirst, Declares
<1>4. OwnOnly(frame.decls, k, frame.pc)
  BY <1>3 DEF FrameHolds
<1>5. ASSUME NEW e \in frame.decls PROVE ~SameKey(d, e)
  <2>1. PICK j \in N : /\ j < frame.pc /\ Declares(k, j)
                       /\ e.table = doc.items[j].table /\ e.name = doc.items[j].name
    BY <1>4 DEF OwnOnly
  <2> QED BY <1>1, <2>1 DEF SameKey, DeclaresOnce, Declares
<1>6. next.decls = frame.decls \cup {d}
  BY <1>5
<1>7. OwnOnly(next.decls, k, frame.pc + 1)
  BY <1>1, <1>2, <1>4, <1>6 DEF OwnOnly
<1>8. WrittenBefore(k, frame.pc + 1) \subseteq Ids(next.decls)
  <2>1. WrittenBefore(k, frame.pc + 1) \subseteq
          WrittenBefore(k, frame.pc) \cup {<<k, frame.pc>>}
    BY <1>1 DEF WrittenBefore
  <2>2. WrittenBefore(k, frame.pc) \subseteq Ids(frame.decls)
    BY DEF FrameHolds
  <2> QED BY <1>6, <2>1, <2>2 DEF Ids
<1> QED BY <1>6, <1>7, <1>8 DEF FrameHolds

\* A document that ends has made all its declarations.
LEMMA AllWritten ==
  ASSUME NEW frame, DocOf(frame.key) \in Document, frame.pc \in Nat,
         ~(frame.pc <= Len(DocOf(frame.key).items)), FrameHolds(frame)
  PROVE  WrittenIn(frame.key) \subseteq Ids(frame.decls)
<1>1. \A j \in 1..Len(DocOf(frame.key).items) : j < frame.pc
  BY DEF Document
<1> QED BY <1>1 DEF WrittenIn, WrittenBefore, FrameHolds

\* Moving on: the frames below the current one stay, and what the current one
\* holds it goes on holding.
LEMMA MergeMovesOn ==
  ASSUME LoadInv, MergeInv, Tidy, Running, outcome' = outcome, corpus' = corpus,
         loaded' = loaded, MovesOn,
         KeepsDecls(Len(stack) - 1),
         FrameHolds(stack'[Len(stack)]),
         Current.decls \subseteq stack'[Len(stack)].decls,
         stack' \in Seq(Frame), stack \in Seq(Frame)
  PROVE  MergeInv'
<1> DEFINE n == Len(stack)
<1>1. n \in Nat \ {0} /\ Current = stack[n] /\ n \in 1..n
      /\ \A i \in 1..n : i = n \/ i \in 1..(n - 1)
  BY FramesLoaded
<1>2. /\ Len(stack') = n
      /\ \A i \in 1..n : stack'[i].key = stack[i].key
      /\ \A i \in 1..(n - 1) : stack'[i].pc = stack[i].pc
      /\ \A i \in 1..(n - 1) : stack'[i].decls = stack[i].decls
  BY DEF MovesOn, KeepsDecls
<1>3. \A i \in 1..n : FrameHolds(stack[i])
  BY DEF MergeInv
<1>4. ASSUME NEW i \in 1..n PROVE FrameHolds(stack'[i])
  <2>1. CASE i = n
    BY <2>1
  <2>2. CASE i \in 1..(n - 1)
    BY <1>2, <1>3, <2>2 DEF FrameHolds
  <2> QED BY <1>1, <2>1, <2>2
<1>5. \A i \in 1..n : stack[i].decls \subseteq stack'[i].decls
  BY <1>1, <1>2
<1>6. \A k \in loaded : \/ \E i \in 1..n : stack'[i].key = k
                        \/ WrittenIn(k) \subseteq Held'
  BY <1>2, <1>5, HeldGrows DEF MergeInv
<1> QED BY <1>2, <1>4, <1>6, MergeIntro DEF Running

\* Returning: what the document holds goes to its caller, which is past a
\* reference from then on.
LEMMA MergeLeaves ==
  ASSUME LoadInv, MergeInv, Tidy, Running, AtEnd, Leaves, ReturnsDecls,
         UNCHANGED <<corpus, outcome, loaded>>
  PROVE  MergeInv'
<1> DEFINE n == Len(stack)
           c == n - 1
<1>1. /\ n \in Nat \ {0} /\ Current = stack[n] /\ n \in 1..n /\ c \in 1..c /\ c \in 1..n
      /\ \A i \in 1..c : i \in 1..n /\ (i = c \/ i \in 1..(n - 2))
      /\ \A i \in 1..n : i = n \/ i \in 1..c
      /\ n > 1 /\ n - 2 = c - 1
  BY FramesLoaded DEF Leaves
<1>2. /\ Caller = stack[c] /\ CallerDoc \in Document
      /\ Caller.pc \in 1..Len(CallerDoc.items)
      /\ Current.key \in loaded
  BY <1>1, ReturningFrames
<1>3. /\ Len(stack') = c
      /\ \A i \in 1..c : stack'[i].key = stack[i].key
      /\ \A i \in 1..(n - 2) : stack'[i].pc = stack[i].pc
      /\ stack'[c].pc = stack[c].pc + 1
  BY <1>1 DEF Leaves
<1>4. HandsOver(Current.decls)
  <2>1. CurrentDoc.tns # NoNS
    BY <1>2 DEF Tidy, CurrentDoc
  <2> QED BY <2>1 DEF ReturnsDecls, Adoptions, IsChameleon
<1>5. /\ stack'[c].decls = stack[c].decls \cup stack[n].decls
      /\ \A i \in 1..(n - 2) : stack'[i].decls = stack[i].decls
  BY <1>1, <1>2, <1>4 DEF HandsOver, KeepsDecls
<1>6. \A i \in 1..n : FrameHolds(stack[i])
  BY DEF MergeInv
<1>7. FrameHolds(stack'[c])
  <2>1. ~Declares(stack[c].key, stack[c].pc)
    BY <1>2 DEF ReturnsDecls, Returning, CallerItem, CallerDoc, Declares
  <2>2. /\ DocOf(stack[c].key) \in Document
        /\ stack[c].pc \in 1..Len(DocOf(stack[c].key).items)
    BY <1>2 DEF CallerDoc
  <2>3. FrameHolds(stack[c]) /\ stack'[c].key = stack[c].key
        /\ stack[c].decls \subseteq stack'[c].decls
    BY <1>1, <1>3, <1>5, <1>6
  <2> QED BY <1>3, <2>1, <2>2, <2>3, HoldsPastReference
<1>8. ASSUME NEW i \in 1..c PROVE FrameHolds(stack'[i])
  <2>1. CASE i = c
    BY <1>7, <2>1
  <2>2. CASE i \in 1..(n - 2)
    BY <1>1, <1>3, <1>5, <1>6, <2>2 DEF FrameHolds
  <2> QED BY <1>1, <2>1, <2>2
<1>9. \A i \in 1..n : \E j \in 1..Len(stack') : stack[i].decls \subseteq stack'[j].decls
  <2>1. stack[n].decls \subseteq stack'[c].decls
    BY <1>5
  <2>2. \A i \in 1..c : stack[i].decls \subseteq stack'[i].decls
    BY <1>1, <1>5
  <2> QED BY <1>1, <1>3, <2>1, <2>2
<1>10. WrittenIn(Current.key) \subseteq Held'
  <2>1. /\ DocOf(Current.key) \in Document /\ Current.pc \in Nat
        /\ ~(Current.pc <= Len(DocOf(Current.key).items))
    BY CurrentTyped DEF LoadInv, Inv, Frame, AtEnd, HasItem
  <2>2. WrittenIn(Current.key) \subseteq Ids(Current.decls)
    BY <1>1, <1>6, <2>1, AllWritten
  <2>3. Ids(Current.decls) \subseteq Ids(stack'[c].decls)
    BY <1>1, <1>5 DEF Ids
  <2> QED BY <1>1, <1>3, <2>2, <2>3 DEF Held, Ids
<1>11. \A k \in loaded : \/ \E i \in 1..c : stack'[i].key = k
                         \/ WrittenIn(k) \subseteq Held'
  <2> TAKE k \in loaded
  <2>1. CASE \E i \in 1..n : stack[i].key = k
    BY <1>1, <1>3, <1>10, <2>1
  <2>2. CASE WrittenIn(k) \subseteq Held
    BY <1>9, <2>2, HeldGrows
  <2> QED BY <2>1, <2>2 DEF MergeInv
<1> QED BY <1>3, <1>8, <1>11, MergeIntro DEF Running

\* Opening a document: it has declared nothing yet.
LEMMA MergePush ==
  ASSUME LoadInv, MergeInv, Tidy, ResolverReturnsDocument, Running
  PROVE  MergeInv'
<1> DEFINE n == Len(stack)
<1>1. /\ n \in Nat \ {0} /\ Len(stack') = n + 1
      /\ \A i \in 1..n : stack'[i] = stack[i]
      /\ stack'[n + 1] = [key |-> CurrentKey, pc |-> 1, decls |-> {}]
  BY PushStep DEF LoadInv, Inv
<1>2. /\ corpus' = corpus /\ outcome' = outcome /\ loaded' = loaded \cup {CurrentKey}
      /\ CurrentKey \in Key /\ CurrentKey.loc \in DOMAIN corpus
  BY ResolverStep DEF ResolverReturnsDocument, LoadInv, Inv
<1>3. \A i \in 1..(n + 1) : i = n + 1 \/ i \in 1..n
  BY <1>1
<1>4. FrameHolds(stack'[n + 1])
  <2>1. DocOf(CurrentKey) \in Document
    BY <1>2, TopKeyIsNoKey, CorporaAssumption
       DEF DocOf, LoadInv, Inv, TypeInv, FramesKnown
  <2>2. \A j \in 1..Len(DocOf(CurrentKey).items) : ~(j < 1)
    BY <2>1 DEF Document
  <2> QED BY <1>1, <2>2 DEF FrameHolds, WrittenBefore, OwnOnly
<1>5. \A i \in 1..(n + 1) : FrameHolds(stack'[i])
  BY <1>1, <1>3, <1>4 DEF MergeInv
<1>6. \A i \in 1..n : \E j \in 1..Len(stack') : stack[i].decls \subseteq stack'[j].decls
  <2>1. \A i \in 1..n : i \in 1..(n + 1)
    BY <1>1
  <2> QED BY <1>1, <2>1
<1>7. \A k \in loaded' : \/ \E i \in 1..(n + 1) : stack'[i].key = k
                         \/ WrittenIn(k) \subseteq Held'
  <2>1. n + 1 \in 1..(n + 1) /\ \A i \in 1..n : i \in 1..(n + 1)
    BY <1>1
  <2> TAKE k \in loaded'
  <2>2. CASE k = CurrentKey
    BY <1>1, <2>1, <2>2
  <2>3. CASE \E i \in 1..n : stack[i].key = k
    BY <1>1, <2>1, <2>3
  <2>4. CASE WrittenIn(k) \subseteq Held
    BY <1>6, <2>4, HeldGrows
  <2> QED BY <1>2, <2>2, <2>3, <2>4 DEF MergeInv
<1> QED BY <1>1, <1>2, <1>5, <1>7, MergeIntro DEF Running

\* A step that keeps the stack and what was loaded.
LEMMA MergeSame ==
  ASSUME MergeInv, Tidy, UNCHANGED <<corpus, stack, loaded>>,
         outcome' = "ok" => Len(stack) = 1 /\ ~HasItem
  PROVE  MergeInv'
<1>1. Held' = Held /\ HasItem' = HasItem
  BY DEF Held, Ids, HasItem, Current, DocOf
<1> QED BY <1>1, MergeIntro DEF MergeInv

LEMMA MergeInvStep == LoadInv /\ MergeInv /\ [Next]_vars => MergeInv'
<1> SUFFICES ASSUME LoadInv, MergeInv, [Next]_vars, Tidy' PROVE MergeInv'
  BY DEF MergeInv
<1> DEFINE n == Len(stack)
<1>1. Tidy /\ TypeInv /\ stack \in Seq(Frame)
  BY TidyBefore DEF LoadInv, Inv, TypeInv, TypeOK
<1>2. n \in Nat \ {0} /\ Current = stack[n] /\ n \in 1..n
      /\ FrameHolds(Current) /\ Current.key \in loaded
      /\ DocOf(Current.key) \in Document /\ Current.pc \in Nat \ {0}
  BY <1>1, FramesLoaded, CurrentTyped DEF MergeInv, Frame
<1>3. HasItem => Current.pc \in 1..Len(DocOf(Current.key).items)
  BY <1>2 DEF HasItem, Document
<1>4. CASE RejectItem \/ RejectReference \/ RejectDocument \/ ResolverFails
  <2>1. UNCHANGED <<corpus, stack, loaded>> /\ outcome' = "error"
    BY <1>4 DEF RejectItem, RejectReference, RejectDocument, ResolverFails, Abort
  <2> QED BY <1>1, <2>1, MergeSame
<1>5. CASE Declare
  <2>1. /\ MovesOn /\ KeepsDecls(n - 1) /\ stack' \in Seq(Frame)
        /\ stack'[n].decls = {e \in Current.decls : ~SameKey(Declared, e)} \cup {Declared}
    BY <1>1, <1>5, DeclareStep
  <2>2. /\ Running /\ HasItem /\ CurrentItem.kind = "declare"
        /\ UNCHANGED <<corpus, outcome, loaded>>
    BY <1>5 DEF Declare, At
  <2>3. stack'[n].key = Current.key /\ stack'[n].pc = Current.pc + 1
    BY <1>2, <2>1 DEF MovesOn
  <2>4. /\ Declares(Current.key, Current.pc)
        /\ Declared.id = <<Current.key, Current.pc>>
        /\ Declared.table = DocOf(Current.key).items[Current.pc].table
        /\ Declared.name = DocOf(Current.key).items[Current.pc].name
    BY <2>2 DEF Declares, Declared, CurrentItem
  <2>5. DeclaresFirst(DocOf(Current.key)) /\ DeclaresOnce(DocOf(Current.key))
    BY <1>1, <1>2 DEF Tidy
  <2>6. FrameHolds(stack'[n]) /\ Current.decls \subseteq stack'[n].decls
    BY <1>2, <1>3, <2>1, <2>2, <2>3, <2>4, <2>5, HoldsDeclared
  <2> QED BY <1>1, <2>1, <2>2, <2>6, MergeMovesOn
<1>6. CASE SkipImport \/ AlreadyVisited \/ ResolverHasNone
  <2>1. MovesOn /\ KeepsDecls(n) /\ stack' \in Seq(Frame)
    BY <1>1, <1>6, AdvanceStep DEF SkipImport, AlreadyVisited, ResolverHasNone
  <2>2. /\ Running /\ HasItem /\ CurrentItem.kind # "declare"
        /\ UNCHANGED <<corpus, outcome, loaded>>
    BY <1>6 DEF SkipImport, AlreadyVisited, ResolverHasNone, CallResolver, AtReference,
                NoHintGiven, At
  <2>3. /\ stack'[n].key = Current.key /\ stack'[n].pc = Current.pc + 1
        /\ stack'[n].decls = Current.decls
    BY <1>2, <2>1 DEF MovesOn, KeepsDecls
  <2>4. ~Declares(Current.key, Current.pc)
    BY <2>2 DEF Declares, CurrentItem
  <2>5. FrameHolds(stack'[n])
    BY <1>2, <1>3, <2>2, <2>3, <2>4, HoldsPastReference
  <2>6. KeepsDecls(n - 1)
    BY <1>2, <2>1 DEF KeepsDecls
  <2> QED BY <1>1, <2>1, <2>2, <2>3, <2>5, <2>6, MergeMovesOn
<1>7. CASE ResolverReturnsDocument
  <2>1. Running
    BY <1>7 DEF ResolverReturnsDocument, CallResolver, AtReference, At
  <2> QED BY <1>1, <1>7, <2>1, MergePush
<1>8. CASE ReturnImport \/ ReturnInclude
  BY <1>1, <1>8, ReturnStep, MergeLeaves DEF AtEnd
<1>9. CASE Finish
  <2>1. UNCHANGED <<corpus, stack, loaded>> /\ Len(stack) = 1 /\ ~HasItem
    BY <1>9 DEF Finish, AtEnd
  <2> QED BY <1>1, <2>1, MergeSame
<1>10. CASE UNCHANGED vars
  <2>1. UNCHANGED <<corpus, stack, loaded, outcome>>
    BY <1>10 DEF vars
  <2> QED BY <1>1, <2>1, MergeSame DEF MergeInv, Succeeded
<1> QED BY <1>4, <1>5, <1>6, <1>7, <1>8, <1>9, <1>10 DEF Next, Step, Done

\* Merging drops no definition: a successful load of documents that declare
\* before they refer, nothing twice, each in a namespace, ends with every
\* declaration of every document it read, however those are reached.
THEOREM NothingLost == Spec => []MergeDropsNothing
<1>1. Init => MergeInv
  <2> SUFFICES ASSUME Init PROVE MergeInv
    OBVIOUS
  <2> DEFINE f == [key |-> TopKey, pc |-> 1, decls |-> {}]
  <2>1. Len(stack) = 1 /\ stack[1] = f /\ loaded = {TopKey} /\ ~Succeeded
    BY DEF Init, Succeeded
  <2>2. DocOf(TopKey) \in Document
    BY CorporaAssumption DEF Init, DocOf
  <2>3. \A j \in 1..Len(DocOf(TopKey).items) : ~(j < 1)
    BY <2>2 DEF Document
  <2>4. FrameHolds(f)
    BY <2>3 DEF FrameHolds, WrittenBefore, OwnOnly
  <2> HIDE DEF f
  <2>5. \A i \in 1..Len(stack) : FrameHolds(stack[i])
    BY <2>1, <2>4
  <2>6. \A k \in loaded : \E i \in 1..Len(stack) : stack[i].key = k
    BY <2>1 DEF f
  <2> QED BY <2>1, <2>5, <2>6 DEF MergeInv
<1>2. LoadInv /\ MergeInv => MergeDropsNothing
  <2> SUFFICES ASSUME LoadInv, MergeInv, Tidy, Succeeded
               PROVE  Written \subseteq Ids(Schema)
    BY DEF MergeDropsNothing, NothingDropped, Tidy
  <2>1. /\ Len(stack) = 1 /\ ~HasItem /\ FrameHolds(stack[1]) /\ Current = stack[1]
    <3>1. Len(stack) = 1 /\ ~HasItem /\ \A i \in 1..Len(stack) : FrameHolds(stack[i])
      BY DEF MergeInv
    <3> QED BY <3>1 DEF Current
  <2>2. DocOf(Current.key) \in Document /\ Current.pc \in Nat
    BY CurrentTyped DEF LoadInv, Inv, Frame
  <2>3. WrittenIn(stack[1].key) \subseteq Ids(Schema)
    BY <2>1, <2>2, AllWritten DEF HasItem, Schema
  <2>4. Held = Ids(Schema)
    BY <2>1 DEF Held, Schema
  <2>5. \A k \in loaded : WrittenIn(k) \subseteq Ids(Schema)
    BY <2>1, <2>3, <2>4 DEF MergeInv
  <2>6. Written = UNION {WrittenIn(k) : k \in loaded}
    BY DEF Written, WrittenIn, Declares
  <2> QED BY <2>5, <2>6
<1> QED BY <1>1, <1>2, LoadAlways, MergeInvStep, PTL DEF Spec
=============================================================================
