---------------------------- MODULE Substitution ----------------------------
(***************************************************************************)
(* Resolving substitution groups (validator/schema_substitution.go).       *)
(*                                                                         *)
(* resolveSubstitutionGroups runs at the end of every parseSchemaDoc, so   *)
(* the declarations of an imported schema go through it once with their    *)
(* own schema and again with each schema that imports it.  Each pass looks *)
(* the names up anew, with the prefixes, the target namespace and the      *)
(* declarations of its schema; what one pass stored in a declaration is    *)
(* still there in the next.  Its loops range over Go maps, hence in any    *)
(* order.                                                                  *)
(***************************************************************************)
EXTENDS Naturals, Sequences, FiniteSets

CONSTANTS
  Element,        \* the global element declarations
  Type,           \* the types that were found
  AnyType,        \* xs:anyType and xs:anySimpleType
  Namespace, Prefix, Local,   \* the parts of names
  NoElement,      \* a name that names no element
  NoGroup,        \* no substitutionGroup attribute
  NoType,         \* no base type; an element without a type
  Absent,         \* the type of an element whose type name names nothing
  Declarations,   \* the declaration sets to resolve
  MaxChain        \* how many bases typeDerivesFrom follows, 100 in the code

\* A schema that resolves the declarations, with what it has made of them.
\* elements: those declared in it or merged into it, under their keys ns and
\*           local, which a chameleon include changes.
\* binding: the namespace resolveQName gives a prefix: what the schema binds
\*          it to, else its target namespace for the empty prefix, else none.
\* type, base: what resolveElementType and resolveDerivation have found.
\* refuses: whether its blockDefault refuses substitution.
Pass == [elements : SUBSET Element,
         ns : [Element -> Namespace],
         binding : [Prefix -> Namespace],
         type : [Element -> Type \cup {NoType, Absent}],
         base : [Type -> Type \cup {NoType}],
         refuses : BOOLEAN]

\* group: the substitutionGroup attribute, a prefix and a local name.
\* block: "default" without the attribute, else what the attribute says.
\* passes: the schemas that resolve the declarations, innermost first.
DeclarationSet ==
  [local : [Element -> Local],
   group : [Element -> (Prefix \X Local) \cup {NoGroup}],
   block : [Element -> {"default", "refuses", "allows"}],
   passes : Seq(Pass)]

ASSUME SubstitutionAssumption ==
  /\ NoElement \notin Element
  /\ NoGroup \notin Prefix \X Local
  /\ {NoType, Absent} \cap Type = {}
  /\ AnyType \in Type
  /\ MaxChain \in Nat
  /\ IsFiniteSet(Element)

\* The elements of a schema are a map by namespace and local name.
ASSUME DeclarationsAssumption ==
  \A d \in Declarations :
    /\ d \in DeclarationSet /\ d.passes # <<>>
    /\ \A p \in 1..Len(d.passes) : \A e, f \in d.passes[p].elements :
         d.passes[p].ns[e] = d.passes[p].ns[f] /\ d.local[e] = d.local[f] => e = f

VARIABLES
  decls,        \* the declarations; chosen once
  pass,         \* the schema whose resolveSubstitutionGroups is running
  phase,        \* the loop it is in: "link", "check", "walk", "close", "expand"
  todo,         \* what the loop has not reached yet
  heads,        \* the direct members of each head
  cur, path,    \* detectSubstitutionCycle: the element it is at, those behind
  head,         \* the head being closed
  out, seen, queue,   \* closeSubstitutes
  substitutes,  \* the field of each declaration
  outcome       \* "running", "ok", "error" or "panic"

walk == <<cur, path>>
close == <<head, out, seen, queue>>
vars == <<decls, pass, phase, todo, heads, walk, close, substitutes, outcome>>
-----------------------------------------------------------------------------
Elements == decls.passes[pass].elements
Running(p) == outcome = "running" /\ phase = p

HasGroup(e) == decls.group[e] # NoGroup

\* lookupElement in the schema of pass p: the element with this key, else the
\* only one with this local name.
Named(p, q) == {e \in decls.passes[p].elements :
                  /\ decls.local[e] = q[2]
                  /\ decls.passes[p].ns[e] = decls.passes[p].binding[q[1]]}
ByLocal(p, q) == {e \in decls.passes[p].elements : decls.local[e] = q[2]}
Found(p, q) == IF Named(p, q) # {} THEN Named(p, q) ELSE ByLocal(p, q)
Lookup(p, q) == IF \E e \in Element : Found(p, q) = {e}
                  THEN CHOOSE e \in Element : Found(p, q) = {e}
                  ELSE NoElement

\* The head that the schema of pass p finds for an element; that of this pass.
HeadIn(p, e) == IF HasGroup(e) THEN Lookup(p, decls.group[e]) ELSE NoElement
HeadOf(e) == HeadIn(pass, e)

\* typeDerivesFrom: the walk gives up after MaxChain types.
DerivesFrom(base, member, top) ==
  LET chain[n \in 0..MaxChain] ==
        IF n = 0 THEN member
        ELSE IF chain[n - 1] \in Type THEN base[chain[n - 1]] ELSE NoType
  IN  member \in Type /\ \E n \in 0..MaxChain : n < MaxChain /\ chain[n] = top

\* checkSubstitutionType.  declaredType returns a nil *BuiltinType for a type
\* that is named and not found: it is no nil Type, and reading its name panics.
TypeCheck(e, h) ==
  LET m == decls.passes[pass].type[e]
      t == decls.passes[pass].type[h]
  IN  IF m = NoType \/ t = NoType THEN "ok"
      ELSE IF t = Absent THEN "panic"
      ELSE IF t = AnyType THEN "ok"
      ELSE IF m = Absent THEN "panic"
      ELSE IF DerivesFrom(decls.passes[pass].base, m, t) THEN "ok" ELSE "error"

\* blocksSubstitution.
Blocks(h) == IF decls.block[h] = "default" THEN decls.passes[pass].refuses
             ELSE decls.block[h] = "refuses"

ToSet(s) == {s[i] : i \in 1..Len(s)}
-----------------------------------------------------------------------------
Init == /\ decls \in Declarations
        /\ pass = 1
        /\ phase = "link"
        /\ todo = decls.passes[1].elements
        /\ heads = [e \in Element |-> <<>>]
        /\ cur = NoElement /\ path = {}
        /\ head = NoElement /\ out = <<>> /\ seen = {} /\ queue = <<>>
        /\ substitutes = [e \in Element |-> <<>>]
        /\ outcome = "running"

Stop(result) == /\ outcome' = result
                /\ UNCHANGED <<decls, pass, phase, todo, heads, walk, close, substitutes>>

\* An element that names no group.
SkipElement(e) == /\ Running("link") /\ e \in todo
                  /\ ~HasGroup(e)
                  /\ todo' = todo \ {e}
                  /\ UNCHANGED <<decls, pass, phase, heads, walk, close, substitutes, outcome>>

\* A head that is not there, that is the element itself, or of another type.
RejectElement(e) == /\ Running("link") /\ e \in todo
                    /\ HasGroup(e)
                    /\ \/ HeadOf(e) \in {NoElement, e}
                       \/ HeadOf(e) # NoElement /\ TypeCheck(e, HeadOf(e)) = "error"
                    /\ Stop("error")

\* The type check reads the name of a type that was not found.
PanicOnElement(e) == /\ Running("link") /\ e \in todo
                     /\ HasGroup(e)
                     /\ HeadOf(e) \notin {NoElement, e}
                     /\ TypeCheck(e, HeadOf(e)) = "panic"
                     /\ Stop("panic")

LinkElement(e) ==
  /\ Running("link") /\ e \in todo
  /\ HasGroup(e)
  /\ HeadOf(e) \notin {NoElement, e}
  /\ TypeCheck(e, HeadOf(e)) = "ok"
  /\ heads' = [heads EXCEPT ![HeadOf(e)] = Append(@, e)]
  /\ todo' = todo \ {e}
  /\ UNCHANGED <<decls, pass, phase, walk, close, substitutes, outcome>>

Linked == {h \in Element : heads[h] # <<>>}

\* Mutant of EndPass: the pass count runs over at the end.
EndPassOver ==
  /\ \/ Running("link") /\ todo = {} /\ Linked = {}
     \/ Running("close") /\ todo = {}
  /\ pass' = pass + 1
  /\ IF pass < Len(decls.passes)
       THEN /\ phase' = "link"
            /\ todo' = decls.passes[pass + 1].elements
            /\ heads' = [e \in Element |-> <<>>]
            /\ UNCHANGED outcome
       ELSE outcome' = "ok" /\ UNCHANGED <<phase, todo, heads>>
  /\ UNCHANGED <<decls, walk, close, substitutes>>

\* The pass returns, at once when no element named a head.
EndPass ==
  /\ \/ Running("link") /\ todo = {} /\ Linked = {}
     \/ Running("close") /\ todo = {}
  /\ IF pass < Len(decls.passes)
       THEN /\ pass' = pass + 1
            /\ phase' = "link"
            /\ todo' = decls.passes[pass + 1].elements
            /\ heads' = [e \in Element |-> <<>>]
            /\ UNCHANGED outcome
       ELSE /\ outcome' = "ok"
            /\ UNCHANGED <<pass, phase, todo, heads>>
  /\ UNCHANGED <<decls, walk, close, substitutes>>

\* Mutant of BeginCheck: the groups are closed without looking for cycles.
BeginCheckNever == /\ Running("link") /\ todo = {} /\ Linked # {}
                   /\ phase' = "close"
                   /\ todo' = Linked
                   /\ UNCHANGED <<decls, pass, heads, walk, close, substitutes, outcome>>

BeginCheck == /\ Running("link") /\ todo = {} /\ Linked # {}
              /\ phase' = "check"
              /\ todo' = Linked
              /\ UNCHANGED <<decls, pass, heads, walk, close, substitutes, outcome>>

\* Mutant of BeginWalk: one path set for all the walks.
BeginWalkSharedPath(h) ==
  /\ Running("check") /\ h \in todo
  /\ phase' = "walk"
  /\ todo' = todo \ {h}
  /\ cur' = h /\ path' = path
  /\ UNCHANGED <<decls, pass, heads, close, substitutes, outcome>>

\* detectSubstitutionCycle: along the chain of heads until it ends or repeats.
BeginWalk(h) == /\ Running("check") /\ h \in todo
                /\ phase' = "walk"
                /\ todo' = todo \ {h}
                /\ cur' = h /\ path' = {}
                /\ UNCHANGED <<decls, pass, heads, close, substitutes, outcome>>

\* Mutant of Walk: it does not look at the path.
WalkOn == /\ Running("walk")
          /\ cur # NoElement /\ HasGroup(cur)
          /\ path' = path \cup {cur}
          /\ cur' = HeadOf(cur)
          /\ UNCHANGED <<decls, pass, phase, todo, heads, close, substitutes, outcome>>

Walk == /\ Running("walk")
        /\ cur # NoElement /\ HasGroup(cur) /\ cur \notin path
        /\ path' = path \cup {cur}
        /\ cur' = HeadOf(cur)
        /\ UNCHANGED <<decls, pass, phase, todo, heads, close, substitutes, outcome>>

RejectCycle == /\ Running("walk")
               /\ cur # NoElement /\ HasGroup(cur) /\ cur \in path
               /\ Stop("error")

EndWalk == /\ Running("walk")
           /\ cur = NoElement \/ ~HasGroup(cur)
           /\ phase' = "check"
           /\ UNCHANGED <<decls, pass, todo, heads, walk, close, substitutes, outcome>>

BeginClose == /\ Running("check") /\ todo = {}
              /\ phase' = "close"
              /\ todo' = Linked
              /\ UNCHANGED <<decls, pass, heads, walk, close, substitutes, outcome>>

\* A head that refuses to be replaced is left as it is.
SkipBlocked(h) == /\ Running("close") /\ h \in todo
                  /\ Blocks(h)
                  /\ todo' = todo \ {h}
                  /\ UNCHANGED <<decls, pass, phase, heads, walk, close, substitutes, outcome>>

BeginExpand(h) == /\ Running("close") /\ h \in todo
                  /\ ~Blocks(h)
                  /\ phase' = "expand"
                  /\ todo' = todo \ {h}
                  /\ head' = h
                  /\ out' = <<>> /\ seen' = {} /\ queue' = heads[h]
                  /\ UNCHANGED <<decls, pass, heads, walk, substitutes, outcome>>

\* Mutant of Expand: the members of a member are not queued.
ExpandDirect ==
  /\ Running("expand")
  /\ queue # <<>>
  /\ LET member == Head(queue)
     IN  IF member \in seen
           THEN UNCHANGED <<seen, out>>
           ELSE /\ seen' = seen \cup {member}
                /\ out' = Append(out, member)
  /\ queue' = Tail(queue)
  /\ UNCHANGED <<decls, pass, phase, todo, heads, walk, head, substitutes, outcome>>

\* closeSubstitutes: one member from the front of the queue.
Expand ==
  /\ Running("expand")
  /\ queue # <<>>
  /\ LET member == Head(queue)
     IN  IF member \in seen
           THEN /\ queue' = Tail(queue)
                /\ UNCHANGED <<seen, out>>
           ELSE /\ seen' = seen \cup {member}
                /\ out' = Append(out, member)
                /\ queue' = Tail(queue) \o heads[member]
  /\ UNCHANGED <<decls, pass, phase, todo, heads, walk, head, substitutes, outcome>>

EndExpand == /\ Running("expand")
             /\ queue = <<>>
             /\ substitutes' = [substitutes EXCEPT ![head] = out]
             /\ phase' = "close"
             /\ UNCHANGED <<decls, pass, todo, heads, walk, close, outcome>>

\* The schema is resolved, or rejected.
Done == outcome # "running" /\ UNCHANGED vars

Step == \/ \E e \in Element : \/ SkipElement(e) \/ RejectElement(e)
                              \/ PanicOnElement(e) \/ LinkElement(e)
                              \/ BeginWalk(e) \/ SkipBlocked(e) \/ BeginExpand(e)
        \/ EndPass \/ BeginCheck \/ Walk \/ RejectCycle \/ EndWalk
        \/ BeginClose \/ Expand \/ EndExpand

Next == Step \/ Done

Spec == Init /\ [][Next]_vars
FairSpec == Spec /\ WF_vars(Step)
-----------------------------------------------------------------------------
\* Every variable stays in its domain.
TypeOK ==
  /\ decls \in DeclarationSet
  /\ pass \in 1..Len(decls.passes)
  /\ phase \in {"link", "check", "walk", "close", "expand"}
  /\ todo \subseteq Element
  /\ heads \in [Element -> Seq(Element)]
  /\ cur \in Element \cup {NoElement} /\ path \subseteq Element
  /\ head \in Element \cup {NoElement}
  /\ out \in Seq(Element) /\ seen \subseteq Element /\ queue \in Seq(Element)
  /\ substitutes \in [Element -> Seq(Element)]
  /\ outcome \in {"running", "ok", "error", "panic"}

\* S has the direct members of h and the members of its own members.
Closed(S, h) == /\ ToSet(heads[h]) \subseteq S
                /\ \A m \in S : ToSet(heads[m]) \subseteq S

\* closeSubstitutes gives a head its direct members, their members and so on,
\* each once and nobody else: the least closed set.
ClosesOnce ==
  Running("expand") /\ queue = <<>> =>
    /\ Closed(ToSet(out), head)
    /\ \A S \in SUBSET Element : Closed(S, head) => ToSet(out) \subseteq S
    /\ Len(out) = Cardinality(ToSet(out))

\* The chain of heads above an element: the least set that has its head and
\* the head of each of its members.
HasHeads(S, e) == \A x \in S \cup {e} : HeadOf(x) \in S \cup {NoElement}
Above(e) == {a \in Element : \A S \in SUBSET Element : HasHeads(S, e) => a \in S}
Circular(e) == e \in Above(e)

\* Every later schema has the elements of the earlier ones, and finds the heads
\* for them that those found.
HeadsStay ==
  \A p \in 1..pass : \A e \in decls.passes[p].elements :
     HeadIn(p, e) # NoElement => e \in Elements /\ HeadOf(e) = HeadIn(p, e)

\* Whatever order the maps are visited in, a schema whose last pass succeeds
\* has no circular group in it, no member of another type, and every head that
\* does not refuse has exactly the elements below it as substitutes: all those
\* and, unless an earlier schema found a head that this one does not find for
\* the same element, no substitute left over from an earlier pass.
GroupsSound ==
  outcome = "ok" =>
    /\ \A e \in Elements : ~Circular(e)
    /\ \A e \in Elements : HasGroup(e) =>
         HeadOf(e) # NoElement /\ TypeCheck(e, HeadOf(e)) = "ok"
    /\ \A h \in Elements : ~Blocks(h) =>
         /\ {e \in Elements : h \in Above(e)} \subseteq ToSet(substitutes[h])
         /\ HeadsStay \/ (\E e \in Elements : HeadOf(e) = h)
              => ToSet(substitutes[h]) = {e \in Elements : h \in Above(e)}

\* A rejected schema has a fault: the walk that looks for cycles and the type
\* check reject nothing else.
RejectsOnlyFaults ==
  outcome = "error" =>
    \E e \in Elements :
      /\ HasGroup(e)
      /\ \/ HeadOf(e) = NoElement
         \/ Circular(e)
         \/ TypeCheck(e, HeadOf(e)) = "error"

\* Resolution ends, on circular groups too.
Termination == <>(outcome # "running")

\* The type check stays quiet where it cannot see the whole chain (its
\* comment): a type named but absent neither rejects nor stops the schema.
QuietOnAbsent == outcome # "panic"
=============================================================================
