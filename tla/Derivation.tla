----------------------------- MODULE Derivation -----------------------------
(***************************************************************************)
(* Resolving the complex types of a schema: named groups are expanded,     *)
(* a base type is folded into the type that derives from it, attribute     *)
(* groups and element references are filled in (validator/schema_derive.go,*)
(* resolveSchemaRefs to resolveAttrRef in validator/schema_resolve.go and  *)
(* resolveAlternatives in validator/schema_alternative.go).                *)
(*                                                                         *)
(* resolveSchemaRefs ranges over two Go maps, in any order, and every      *)
(* resolution recurses into base types and into the types of the elements  *)
(* of a content model; the Go call stack is the variable stack.  Each      *)
(* schema is resolved twice, by its own parse and by that of a document    *)
(* that includes it.                                                       *)
(*                                                                         *)
(* A content model is the list of its tokens in document order: a group    *)
(* opens and closes, and between stand elements, references to global      *)
(* elements and references to named groups.  No model is the empty list.   *)
(***************************************************************************)
EXTENDS Naturals, Sequences, FiniteSets, SequencesExt

CONSTANTS
  Type,            \* complex types, named and anonymous
  Element,         \* element declarations, global and local
  Group,           \* named model groups
  AttrGroup,       \* attribute groups
  AttrDecl,        \* attribute declarations
  Name,            \* names of attributes
  NoType, Simple, Missing,  \* no type; one that is not complex; a name that is no type
  Unnamed,
  Schemas,         \* the schemas to resolve
  MaxDepth         \* the recursion depth the goroutine stack allows

Compositor == {"sequence", "choice", "all"}
Bracket == [kind : {"open", "close"}, of : Compositor \cup {""}, occurs : Nat, linked : BOOLEAN]
Particles == [kind : {"element", "ref"}, of : Element, occurs : Nat, linked : BOOLEAN]
GroupRef == [kind : {"group"}, of : Group, occurs : Nat, linked : BOOLEAN]
Content == Seq(Bracket \cup Particles \cup GroupRef)
Trait == {"mixed", "text", "anyAttribute"}

Schema ==
  [named : SUBSET Type, global : SUBSET Element, globalAttrs : SUBSET Name,
   base : [Type -> Type \cup {NoType, Simple, Missing}],
   method : [Type -> {"extension", "restriction"}],
   content : [Type -> Content],
   traits : [Type -> SUBSET Trait],
   attrs : [Type -> Seq(AttrDecl)],
   attrGroupRefs : [Type -> Seq(AttrGroup)],
   type : [Element -> Type \cup {NoType, Simple, Missing}],
   alternatives : [Element -> Seq(Type \cup {Simple, Missing})],
   groups : [Group -> Content], groupNames : SUBSET Group,
   attrGroups : [AttrGroup -> [attrs : Seq(AttrDecl), any : BOOLEAN]], attrGroupNames : SUBSET AttrGroup,
   late : SUBSET AttrGroup,   \* those only the including document declares
   decl : [AttrDecl -> [name : Name, ref : BOOLEAN,
                        use : {"optional", "required", "prohibited"}]]]

TypeFrames == [kind : {"type"}, of : Type,
               phase : {"derive", "fold", "expand", "groups", "walk"}, at : Nat \ {0},
               path : SUBSET [group : Group, rest : Nat], calls : {<<>>}, level : Nat]
ElementFrames == [kind : {"element"}, of : Element, phase : {"choose"}, at : Nat \ {0},
                  path : {{}}, calls : Seq(Type \cup {Simple, Missing}), level : Nat]
Frame == TypeFrames \cup ElementFrames

\* The elements whose type is written in place; their Type is set by the parse.
Anonymous(s) == {e \in Element : s.type[e] \in Type \ s.named}
InPlace(s, c) ==
  \A i \in DOMAIN c : c[i].kind = "element" /\ c[i].of \in Anonymous(s) => c[i].linked

ASSUME DerivationAssumption ==
  /\ IsFiniteSet(Type) /\ IsFiniteSet(Group)
  /\ {NoType, Simple, Missing} \cap Type = {}
  /\ Missing \notin {NoType, Simple}
  /\ Unnamed \notin Name
  /\ Schemas \subseteq Schema
  /\ \A s \in Schemas : /\ \A t \in Type : InPlace(s, s.content[t])
                        /\ \A g \in Group : InPlace(s, s.groups[g])
  /\ MaxDepth \in Nat /\ MaxDepth > Cardinality(Type) + 1

VARIABLES
  schema,     \* what was parsed; chosen once
  pass,       \* the pass over it, 1 or 2
  elements, types,  \* what the two loops of resolveSchemaRefs have left
  stack,      \* the calls in progress, the outermost first
  seen,       \* the sets of types visited, one for every resolving set in use
  base,       \* baseName of each type; cleared once it is folded
  parent,     \* baseType, when it is complex
  content, traits, attrs, attrGroupRefs,   \* the types as resolved so far
  filled,     \* the attribute references resolveAttrRef has named
  linked,     \* the global elements whose Type is set
  outcome,    \* "running", "ok", "error" or "overflow"
  folds       \* history: how often the base was folded into each type

loops == <<pass, elements, types>>
heap == <<base, parent, content, traits, attrs, attrGroupRefs, filled, linked, folds>>
vars == <<schema, loops, stack, seen, heap, outcome>>
-----------------------------------------------------------------------------
Top == stack[Len(stack)]
Caller == stack[Len(stack) - 1]
Running == outcome = "running" /\ Len(stack) < MaxDepth
AtType(phase) == Running /\ stack # <<>> /\ Top.kind = "type" /\ Top.phase = phase
AtElement == Running /\ stack # <<>> /\ Top.kind = "element"

Moved(frames, phase, at) ==
  [frames EXCEPT ![Len(frames)].phase = phase, ![Len(frames)].at = at]
Advanced(frames) == [frames EXCEPT ![Len(frames)].at = @ + 1]

TypeFrame(t, level) ==
  [kind |-> "type", of |-> t, phase |-> "derive", at |-> 1, path |-> {},
   calls |-> <<>>, level |-> level]
ElementFrame(e, level) ==
  [kind |-> "element", of |-> e, phase |-> "choose", at |-> 1, path |-> {},
   calls |-> schema.alternatives[e], level |-> level]

\* Mutant of Enter: the set of visited types is not consulted.
EnterAlways(frames, t, level) ==
  IF t \in Type
    THEN /\ stack' = Append(frames, TypeFrame(t, level))
         /\ seen' = [seen EXCEPT ![level] = @ \cup {t}]
    ELSE stack' = frames /\ UNCHANGED seen

\* resolveComplexTypeRefs called with the resolving set of that level: a type
\* in the set is not entered again.
Enter(frames, t, level) ==
  IF t \in Type /\ t \notin seen[level]
    THEN /\ stack' = Append(frames, TypeFrame(t, level))
         /\ seen' = [seen EXCEPT ![level] = @ \cup {t}]
    ELSE stack' = frames /\ UNCHANGED seen

\* The attribute groups of the schema in this pass.
AttrGroupsNow ==
  schema.attrGroupNames \ (IF pass = 1 THEN schema.late ELSE {})

Reject == /\ outcome' = "error"
          /\ UNCHANGED <<schema, loops, stack, seen, heap>>
-----------------------------------------------------------------------------
Init == /\ schema \in Schemas
        /\ pass = 1 /\ elements = schema.global /\ types = schema.named
        /\ stack = <<>> /\ seen = <<{}>>
        /\ base = schema.base /\ parent = [t \in Type |-> NoType]
        /\ content = schema.content /\ traits = schema.traits
        /\ attrs = schema.attrs /\ attrGroupRefs = schema.attrGroupRefs
        /\ filled = {} /\ linked = Anonymous(schema) \cap schema.global
        /\ outcome = "running"
        /\ folds = [t \in Type |-> 0]

\* The two loops of resolveSchemaRefs.
BeginElement(e) ==
  /\ Running /\ stack = <<>> /\ e \in elements
  /\ elements' = elements \ {e}
  /\ stack' = <<ElementFrame(e, 1)>>
  /\ UNCHANGED <<schema, pass, types, seen, heap, outcome>>

\* Mutant of BeginType: the loop does not move on.
BeginTypeStays(t) ==
  /\ Running /\ stack = <<>> /\ elements = {} /\ t \in types
  /\ UNCHANGED types
  /\ Enter(<<>>, t, 1)
  /\ UNCHANGED <<schema, pass, elements, heap, outcome>>

BeginType(t) ==
  /\ Running /\ stack = <<>> /\ elements = {} /\ t \in types
  /\ types' = types \ {t}
  /\ Enter(<<>>, t, 1)
  /\ UNCHANGED <<schema, pass, elements, heap, outcome>>

\* Mutant of EndPass: one pass too many.
EndPassOver ==
  /\ Running /\ stack = <<>> /\ elements = {} /\ types = {}
  /\ IF pass <= 2
       THEN /\ pass' = pass + 1 /\ elements' = schema.global /\ types' = schema.named
            /\ seen' = <<{}>> /\ UNCHANGED outcome
       ELSE outcome' = "ok" /\ UNCHANGED <<loops, seen>>
  /\ UNCHANGED <<schema, stack, heap>>

\* The document that includes this one merges it and resolves it again.
EndPass ==
  /\ Running /\ stack = <<>> /\ elements = {} /\ types = {}
  /\ IF pass = 1
       THEN /\ pass' = 2 /\ elements' = schema.global /\ types' = schema.named
            /\ seen' = <<{}>> /\ UNCHANGED outcome
       ELSE outcome' = "ok" /\ UNCHANGED <<loops, seen>>
  /\ UNCHANGED <<schema, stack, heap>>
-----------------------------------------------------------------------------
\* resolveElementType: first the alternatives, each with a resolving set of
\* its own, ...
Alternative ==
  /\ AtElement /\ Top.calls # <<>> /\ Head(Top.calls) # Missing
  /\ LET t == Head(Top.calls)
         rest == [stack EXCEPT ![Len(stack)].calls = Tail(@)]
     IN  IF t \in Type
           THEN /\ stack' = Append(rest, TypeFrame(t, Top.level + 1))
                /\ seen' = Append(seen, {t})
           ELSE stack' = rest /\ UNCHANGED seen
  /\ UNCHANGED <<schema, loops, heap, outcome>>

RejectAlternative == /\ AtElement /\ Top.calls # <<>> /\ Head(Top.calls) = Missing
                     /\ Reject

\* ... then the element's own type: a type that is set is resolved, one that
\* is only named is looked up and not resolved.
Declared == schema.type[Top.of] \in Type \cup {Simple}
Particle == content[Caller.of][Caller.at]
HasType == IF Len(stack) = 1 \/ Particle.kind = "ref" THEN Top.of \in linked ELSE Particle.linked
Returned == LET below == SubSeq(stack, 1, Len(stack) - 1)
            IN  IF below = <<>> THEN below ELSE Advanced(below)

OwnType ==
  /\ AtElement /\ Top.calls = <<>>
  /\ IF HasType THEN Enter(Returned, schema.type[Top.of], Top.level)
                ELSE stack' = Returned /\ UNCHANGED seen
  /\ linked' = IF Len(stack) = 1 /\ Declared THEN linked \cup {Top.of} ELSE linked
  /\ content' = IF Len(stack) > 1 /\ Particle.kind = "element" /\ Declared
                  THEN [content EXCEPT ![Caller.of][Caller.at].linked = TRUE]
                  ELSE content
  /\ UNCHANGED <<schema, loops, base, parent, traits, attrs, attrGroupRefs, filled, folds, outcome>>
-----------------------------------------------------------------------------
\* resolveDerivation up to the call for the base.
NoDerivation == /\ AtType("derive") /\ base[Top.of] = NoType
                /\ stack' = Moved(stack, "expand", 1)
                /\ UNCHANGED <<schema, loops, seen, heap, outcome>>

RejectBase == AtType("derive") /\ base[Top.of] = Missing /\ Reject

SimpleBase ==
  /\ AtType("derive") /\ base[Top.of] = Simple
  /\ base' = [base EXCEPT ![Top.of] = NoType]
  /\ stack' = Moved(stack, "expand", 1)
  /\ UNCHANGED <<schema, loops, seen, parent, content, traits, attrs, attrGroupRefs, filled, linked, folds, outcome>>

\* Mutants of ResolveBase: the name of the base stays; the base is not
\* resolved first.
ResolveBaseKeepsName ==
  /\ AtType("derive") /\ base[Top.of] \in Type
  /\ parent' = [parent EXCEPT ![Top.of] = base[Top.of]]
  /\ Enter(Moved(stack, "fold", 1), base[Top.of], Top.level)
  /\ UNCHANGED <<schema, loops, base, content, traits, attrs, attrGroupRefs, filled, linked, folds, outcome>>

ResolveBaseLater ==
  /\ AtType("derive") /\ base[Top.of] \in Type
  /\ base' = [base EXCEPT ![Top.of] = NoType]
  /\ parent' = [parent EXCEPT ![Top.of] = base[Top.of]]
  /\ stack' = Moved(stack, "fold", 1)
  /\ UNCHANGED <<schema, loops, seen, content, traits, attrs, attrGroupRefs, filled, linked, folds, outcome>>

ResolveBase ==
  /\ AtType("derive") /\ base[Top.of] \in Type
  /\ base' = [base EXCEPT ![Top.of] = NoType]
  /\ parent' = [parent EXCEPT ![Top.of] = base[Top.of]]
  /\ Enter(Moved(stack, "fold", 1), base[Top.of], Top.level)
  /\ UNCHANGED <<schema, loops, content, traits, attrs, attrGroupRefs, filled, linked, folds, outcome>>
-----------------------------------------------------------------------------
IsAll(c) == c # <<>> /\ c[1].kind = "open" /\ c[1].of = "all"
Open(compositor, n) == [kind |-> "open", of |-> compositor, occurs |-> n, linked |-> FALSE]
Close == [kind |-> "close", of |-> "", occurs |-> 0, linked |-> FALSE]

CannotConcat(b, own) == b # <<>> /\ own # <<>> /\ (IsAll(b) \/ IsAll(own))

ConcatContent(b, own) ==
  IF b = <<>> THEN own
  ELSE IF own = <<>> THEN b
  ELSE <<Open("sequence", 1)>> \o b \o own \o <<Close>>

\* attrKey: a reference has no name before resolveAttrRef gave it one.
KeyOf(d) == IF schema.decl[d].ref /\ d \notin filled THEN Unnamed ELSE schema.decl[d].name
\* Mutant of InheritAttrs: what is restated is kept as well.
InheritAll(b, own) == b \o own

InheritAttrs(b, own) ==
  LET Restated(d) == \E i \in 1..Len(own) : KeyOf(own[i]) = KeyOf(d)
  IN  FlattenSeq([i \in 1..Len(b) |-> IF Restated(b[i]) THEN <<>> ELSE <<b[i]>>]) \o own

\* The rest of resolveDerivation.
Extends(t) == schema.method[t] = "extension"
RejectFold == /\ AtType("fold") /\ Extends(Top.of)
              /\ CannotConcat(content[parent[Top.of]], content[Top.of])
              /\ Reject

Fold ==
  /\ AtType("fold")
  /\ LET t == Top.of
         b == parent[t]
     IN  /\ Extends(t) => ~CannotConcat(content[b], content[t])
         /\ content' = IF Extends(t)
                         THEN [content EXCEPT ![t] = ConcatContent(content[b], @)]
                         ELSE content
         /\ traits' = [traits EXCEPT ![t] =
                         @ \cup (IF Extends(t) THEN traits[b] ELSE traits[b] \cap {"anyAttribute"})]
         /\ attrs' = [attrs EXCEPT ![t] = InheritAttrs(attrs[b], @)]
  /\ folds' = [folds EXCEPT ![Top.of] = @ + 1]
  /\ stack' = Moved(stack, "expand", 1)
  /\ UNCHANGED <<schema, loops, seen, base, parent, attrGroupRefs, filled, linked, outcome>>
-----------------------------------------------------------------------------
\* The first token of one of these kinds from position i on; 0 if none is left.
NextToken(t, i, kinds) ==
  LET is == {j \in i..Len(content[t]) : content[t][j].kind \in kinds}
  IN  IF is = {} THEN 0 ELSE CHOOSE j \in is : \A k \in is : j <= k

\* expandGroupRefs: the references in document order.  A copy of the group
\* with the reference's counts takes the reference's place and is expanded in
\* turn.  path is the stack of the code: the groups in whose copy the expansion
\* is, with the number of tokens that follow the copy; once fewer tokens are
\* left, the copy is behind and its group is taken from the stack.
GroupAt == NextToken(Top.of, 1, {"group"})
Here == content[Top.of][GroupAt]
Behind == Len(content[Top.of]) - GroupAt
Within == {p \in Top.path : p.rest <= Behind}
\* Mutant of Cyclic: a group stays on the stack after its copy.
CyclicForever(g) == \E p \in Top.path : p.group = g

Cyclic(g) == \E p \in Within : p.group = g
Expandable(g) == g \in schema.groupNames /\ ~Cyclic(g) /\ schema.groups[g] # <<>>

RejectGroup == AtType("expand") /\ GroupAt # 0 /\ ~Expandable(Here.of) /\ Reject

\* Mutant of Copy: the counts of the group itself.
CopyAsDeclared(g, n) == schema.groups[g]

Copy(g, n) == [schema.groups[g] EXCEPT ![1].occurs = n]
ExpandGroup ==
  /\ AtType("expand") /\ GroupAt # 0 /\ Expandable(Here.of)
  /\ content' = [content EXCEPT ![Top.of] =
                   SubSeq(@, 1, GroupAt - 1) \o Copy(Here.of, Here.occurs)
                     \o SubSeq(@, GroupAt + 1, Len(@))]
  /\ stack' = [stack EXCEPT ![Len(stack)].path =
                 Within \cup {[group |-> Here.of, rest |-> Behind]}]
  /\ UNCHANGED <<schema, loops, seen, base, parent, traits, attrs, attrGroupRefs, filled, linked, folds, outcome>>

EndExpand == /\ AtType("expand") /\ GroupAt = 0
             /\ stack' = Moved(stack, "groups", 1)
             /\ UNCHANGED <<schema, loops, seen, heap, outcome>>
-----------------------------------------------------------------------------
\* Attribute groups: one that is not there is passed over, and the list of
\* references is emptied.
ApplyAttrGroup ==
  /\ AtType("groups") /\ attrGroupRefs[Top.of] # <<>>
  /\ LET g == Head(attrGroupRefs[Top.of])
     IN  IF g \in AttrGroupsNow
           THEN /\ attrs' = [attrs EXCEPT ![Top.of] = @ \o schema.attrGroups[g].attrs]
                /\ traits' = [traits EXCEPT ![Top.of] =
                                @ \cup (IF schema.attrGroups[g].any THEN {"anyAttribute"} ELSE {})]
           ELSE UNCHANGED <<attrs, traits>>
  /\ attrGroupRefs' = [attrGroupRefs EXCEPT ![Top.of] = Tail(@)]
  /\ UNCHANGED <<schema, loops, stack, seen, base, parent, content, filled, linked, folds, outcome>>

EndGroups == /\ AtType("groups") /\ attrGroupRefs[Top.of] = <<>>
             /\ stack' = Moved(stack, "walk", 1)
             /\ UNCHANGED <<schema, loops, seen, heap, outcome>>

\* resolveContentModel: the elements one after the other.
ElementAt == NextToken(Top.of, Top.at, {"element", "ref"})

Known == \/ content[Top.of][ElementAt].kind = "element"
         \/ content[Top.of][ElementAt].of \in schema.global

RejectRef == AtType("walk") /\ ElementAt # 0 /\ ~Known /\ Reject

WalkElement ==
  /\ AtType("walk") /\ ElementAt # 0 /\ Known
  /\ stack' = Append(Moved(stack, "walk", ElementAt),
                     ElementFrame(content[Top.of][ElementAt].of, Top.level))
  /\ UNCHANGED <<schema, loops, seen, heap, outcome>>

\* resolveAttrRef for every attribute, then the return.
References(t) == {d \in AttrDecl : schema.decl[d].ref /\ \E i \in 1..Len(attrs[t]) : attrs[t][i] = d}
UnknownRef(t) == \E d \in References(t) : schema.decl[d].name \notin schema.globalAttrs

RejectAttribute == /\ AtType("walk") /\ ElementAt = 0 /\ UnknownRef(Top.of)
                   /\ Reject

Return ==
  /\ AtType("walk") /\ ElementAt = 0 /\ ~UnknownRef(Top.of)
  /\ filled' = filled \cup References(Top.of)
  /\ stack' = SubSeq(stack, 1, Len(stack) - 1)
  /\ seen' = SubSeq(seen, 1, IF Len(stack) = 1 THEN 1 ELSE Caller.level)
  /\ UNCHANGED <<schema, loops, base, parent, content, traits, attrs, attrGroupRefs, linked, folds, outcome>>

\* The goroutine stack is exhausted: the program is killed.
Overflow == /\ outcome = "running" /\ Len(stack) = MaxDepth
            /\ outcome' = "overflow"
            /\ UNCHANGED <<schema, loops, stack, seen, heap>>

Step == \/ \E e \in Element : BeginElement(e)
        \/ \E t \in Type : BeginType(t)
        \/ EndPass
        \/ Alternative \/ RejectAlternative \/ OwnType
        \/ NoDerivation \/ RejectBase \/ SimpleBase \/ ResolveBase
        \/ RejectFold \/ Fold
        \/ RejectGroup \/ ExpandGroup \/ EndExpand
        \/ ApplyAttrGroup \/ EndGroups
        \/ RejectRef \/ WalkElement
        \/ RejectAttribute \/ Return
        \/ Overflow
Done == outcome # "running" /\ UNCHANGED vars
Next == Step \/ Done
Spec == Init /\ [][Next]_vars
FairSpec == Spec /\ WF_vars(Step)
-----------------------------------------------------------------------------
(* What the schema says, from its declarations alone.                      *)
Deep == Cardinality(Type) + 1

\* A model with the named groups written out.
Inline(c, f) ==
  FlattenSeq([i \in 1..Len(c) |->
     IF c[i].kind = "group" /\ c[i].of \in schema.groupNames /\ f[c[i].of] # <<>>
       THEN [f[c[i].of] EXCEPT ![1].occurs = c[i].occurs] ELSE <<c[i]>>])
WrittenOut ==
  LET f[n \in 0..Cardinality(Group)] ==
        IF n = 0 THEN schema.groups
        ELSE [g \in Group |-> Inline(schema.groups[g], f[n - 1])]
  IN  f[Cardinality(Group)]
Own(t) == Inline(schema.content[t], WrittenOut)

IsLeaf(token) == token.kind \in {"element", "ref", "group"}
Leaves(c) == FlattenSeq([i \in 1..Len(c) |->
               IF IsLeaf(c[i]) THEN <<<<c[i].kind, c[i].of>>>> ELSE <<>>])

\* The elements t takes over from n ancestors, and then its own.
FromAncestors(n, t) ==
  LET f[k \in 0..n] == [u \in Type |->
        IF k = 0 \/ schema.base[u] \notin Type \/ schema.method[u] = "restriction"
          THEN Leaves(Own(u))
          ELSE f[k - 1][schema.base[u]] \o Leaves(Own(u))]
  IN  f[n][t]

Ancestors(t) ==
  LET f[n \in 0..Deep] == IF n = 0 THEN {t}
        ELSE f[n - 1] \cup {schema.base[u] : u \in {v \in f[n - 1] : schema.base[v] \in Type}}
      proper[n \in 1..Deep] == {schema.base[u] : u \in f[n - 1]} \cap Type
  IN  UNION {proper[n] : n \in 1..Deep}
Circular(t) == t \in Ancestors(t)

\* The types that resolving t leads to.
Held(t) == {token.of : token \in {x \in Range(Own(t)) : x.kind \in {"element", "ref"}}}
Uses(t) == ((UNION {{schema.type[e]} \cup Range(schema.alternatives[e]) : e \in Held(t)})
             \cup {schema.base[t]}) \cap Type
Reached(t) ==
  LET f[n \in 0..Deep] == IF n = 0 THEN Uses(t) ELSE f[n - 1] \cup UNION {Uses(u) : u \in f[n - 1]}
  IN  f[Deep]

\* A type whose base is being resolved when the type is reached from there:
\* an ancestor above the base holds an element of the type.
Tangled == \E d \in Type : /\ schema.base[d] \in Type
                           /\ \E a \in Ancestors(schema.base[d]) : d \in Reached(a)

ConditionalTypes == \E e \in Element : \E t \in Type : Contains(schema.alternatives[e], t)
-----------------------------------------------------------------------------
(* Properties.                                                             *)

\* Every variable stays in its domain; what becomes of attribute lists is
\* what PlainAttrsInherited is about.
TypeOK ==
  /\ pass \in 1..2
  /\ elements \subseteq Element /\ types \subseteq Type
  /\ stack \in Seq(Frame) /\ Len(stack) <= MaxDepth
  /\ seen \in Seq(SUBSET Type)
  /\ base \in [Type -> Type \cup {NoType, Simple, Missing}]
  /\ parent \in [Type -> Type \cup {NoType}]
  /\ content \in [Type -> Content]
  /\ traits \in [Type -> SUBSET Trait]
  /\ attrGroupRefs \in [Type -> Seq(AttrGroup)]
  /\ filled \subseteq AttrDecl /\ linked \subseteq Element
  /\ outcome \in {"running", "ok", "error", "overflow"}
  /\ folds \in [Type -> Nat]

\* "Resolution must terminate" (the comment on the recursive schema of
\* schema_attrs_test.go), also for a schema whose elements, types and groups
\* lead back to themselves: the recursion never exhausts the stack.
ResolutionTerminates == outcome # "overflow"

\* It does not when no element has a conditional type, whatever refers to
\* what: the set of types visited stops every cycle.
PlainRecursionEnds == outcome = "overflow" => ConditionalTypes

\* In every order and in both passes a base is folded into a type at most
\* once, however often and from wherever the type is reached.
FoldedOnce == \A t \in Type : folds[t] <= 1

\* A named type ends up with the elements of its whole chain of extensions,
\* the base's first (the comment of resolveDerivation).
ContentInherited ==
  outcome = "ok" => \A t \in schema.named : ~Circular(t) =>
                       Leaves(content[t]) = FromAncestors(Deep, t)

\* It does when no ancestor of its base leads back to the type, in whatever
\* order the maps are visited; and in every case it holds nothing but elements
\* of its chain, each level whole, in order and without gap up to some ancestor.
ChainInherited ==
  outcome = "ok" =>
    /\ ~Tangled => ContentInherited
    /\ \A t \in schema.named : \E n \in 0..Deep : Leaves(content[t]) = FromAncestors(n, t)

\* A model but for the types its elements are linked to.
Unlinked(c) == [i \in DOMAIN c |-> [c[i] EXCEPT !.linked = FALSE]]

\* A type without base has exactly its model with every group written out,
\* with the counts of the reference on the copy; no copy affects another use.
GroupsWrittenOut ==
  outcome = "ok" =>
    \A t \in schema.named : schema.base[t] \notin Type =>
       Unlinked(content[t]) = Unlinked(Own(t))

\* The declaration validateAttributes goes by: the last one of that name.
Allowed(list, n) ==
  LET is == {i \in DOMAIN list : /\ schema.decl[list[i]].name = n
                                 /\ schema.decl[list[i]].use # "prohibited"}
  IN  IF is = {} THEN {} ELSE {list[CHOOSE i \in is : \A j \in is : j <= i]}

\* The attributes written in a type, those of its attribute groups included.
OwnAttrs(t) ==
  schema.attrs[t] \o FlattenSeq([i \in DOMAIN schema.attrGroupRefs[t] |->
     LET g == schema.attrGroupRefs[t][i]
     IN  IF g \in schema.attrGroupNames \ schema.late THEN schema.attrGroups[g].attrs ELSE <<>>])
Restates(t, n) == \E i \in DOMAIN schema.attrs[t] : schema.decl[schema.attrs[t][i]].name = n

ExpectedAttr(t, n) ==
  LET f[k \in 0..Deep] == [u \in Type |->
        IF k = 0 \/ Restates(u, n) \/ Allowed(OwnAttrs(u), n) # {} \/ schema.base[u] \notin Type
          THEN Allowed(OwnAttrs(u), n) ELSE f[k - 1][schema.base[u]]]
  IN  f[Deep][t]

\* A derived type allows the attributes of its base except those it restates
\* or prohibits (the comment of resolveDerivation).
AttributesInherited ==
  outcome = "ok" => \A t \in schema.named : ~Circular(t) =>
                       \A n \in Name : Allowed(attrs[t], n) = ExpectedAttr(t, n)

\* It does when it states no reference to a global attribute itself, and does
\* not meet one in a base that is still being resolved.
HasReference(t) == \E i \in DOMAIN OwnAttrs(t) : schema.decl[OwnAttrs(t)[i]].ref
ReferencesApart ==
  \A t \in Type : schema.base[t] \in Type =>
     /\ \A i \in DOMAIN schema.attrs[t] : ~schema.decl[schema.attrs[t][i]].ref
     /\ t \in Reached(schema.base[t]) => \A a \in Ancestors(t) : ~HasReference(a)
PlainAttrsInherited ==
  outcome = "ok" /\ ReferencesApart /\ ~Tangled => AttributesInherited

\* The second pass, by the including document, finds nothing to change in a
\* model or in attributes, and adds but links to types: not even an attribute
\* group that this document alone declares is applied.
SecondPassIdle ==
  [][pass = 2 => /\ UNCHANGED <<base, parent, traits, attrs, attrGroupRefs>>
                 /\ \A t \in Type : Unlinked(content'[t]) = Unlinked(content[t])]_vars

\* What is wrong with a schema as it is written.
Clashes(t) == /\ Extends(t) /\ schema.base[t] \in Type
              /\ LET models == {<<a, Own(a)>> : a \in Ancestors(t) \cup {t}}
                 IN  \E m, n \in models : /\ m # n \/ Circular(t)
                                          /\ IsAll(m[2]) /\ n[2] # <<>>
KnownLeaf(leaf) == \/ leaf[1] = "element"
                   \/ leaf[1] = "ref" /\ leaf[2] \in schema.global
FaultyModel(t) == \E leaf \in Range(Leaves(Own(t))) : ~KnownLeaf(leaf)
FaultyAttrs(t) == \E i \in DOMAIN OwnAttrs(t) : /\ schema.decl[OwnAttrs(t)[i]].ref
                                                /\ schema.decl[OwnAttrs(t)[i]].name \notin schema.globalAttrs
Faulty(t) == schema.base[t] = Missing \/ FaultyModel(t) \/ FaultyAttrs(t)
FaultyElement(e) == Contains(schema.alternatives[e], Missing)

\* A schema is refused only for a fault it has, and one that is accepted has
\* no faulty type or element: no base, group, reference or conditional type is
\* left unresolved.
RefusesFaults ==
  /\ outcome = "error" => \/ \E t \in Type : Faulty(t) \/ Clashes(t)
                          \/ \E e \in Element : FaultyElement(e)
  /\ outcome = "ok" => /\ \A t \in schema.named : ~Faulty(t)
                       /\ \A e \in schema.global : ~FaultyElement(e)

\* Resolution always comes to an end.
Termination == <>(outcome # "running")
=============================================================================
