----------------------------- MODULE SchemaLoad -----------------------------
(***************************************************************************)
(* Loading a schema and everything it imports and includes                 *)
(* (validator/schema_import.go, parseSchemaDoc in validator/schema_parse.go*)
(* and the name lookups of schema_qname.go, schema_resolve.go).            *)
(*                                                                         *)
(* parseSchemaDoc is recursive: an xs:import or xs:include parses the      *)
(* referenced document before the next child of the referring one.  The Go *)
(* call stack is the variable stack, one frame per parseSchemaDoc in       *)
(* progress.  The resolver is the caller's function, so each call of it    *)
(* may return a document, nil or an error.                                 *)
(*                                                                         *)
(* A document is a record: its target namespace, its prefix bindings and   *)
(* its children in document order.  A declaration is kept as its table,    *)
(* namespace and name, the place it was written (its identity, the Go      *)
(* pointer) and the references written inside it.                          *)
(***************************************************************************)
EXTENDS Naturals, Sequences, FiniteSets

CONSTANTS
  Location,              \* resolved schema locations
  TopLocation,           \* where the top-level document is, for those that refer back to it
  NoLocation,            \* the empty base of the top-level document
  Hint, NoHint,          \* schemaLocation attributes; NoHint when it is absent
  Namespace, NoNS,       \* namespace names; NoNS is the empty one
  Prefix, NoPrefix,      \* prefixes; NoPrefix is the empty one
  Name,                  \* local names
  Corpora,               \* the document sets to load: functions from locations to documents
  ResolverGiven,         \* whether the caller passed a SchemaResolver
  MaxDepth,              \* the recursion depth the goroutine stack allows
  ResolveLocation(_, _)  \* resolveLocation: a base and a hint to a location

\* s.Elements and s.Attributes are keyed by namespace and local name, the
\* three other tables by local name alone.
Qualified == {"element", "attribute"}
Table == Qualified \cup {"type", "group", "attributeGroup"}

\* The ways a declaration refers to another one, and the table each looks in.
Role == {"ref", "head", "attribute", "type", "group", "attributeGroup"}
TableOf(role) == IF role \in {"ref", "head"} THEN "element" ELSE role

Use == [role : Role, prefix : Prefix, name : Name]

Item ==
  [kind : {"declare"}, table : Table, name : Name, uses : SUBSET Use]
    \cup [kind : {"import", "include"}, ns : Namespace, hint : Hint]
    \cup [kind : {"unsupported"}]

Document ==
  [tns : Namespace,
   prefixes : UNION {[P -> Namespace] : P \in SUBSET Prefix},
   items : Seq(Item)]

\* importKey.  An include leaves the namespace of its key empty.
Key == [ns : Namespace, loc : Location]
TopKey == [ns |-> NoNS, loc |-> NoLocation]

DeclId == (Key \cup {TopKey}) \X Nat
Decl == [id : DeclId, table : Table, ns : Namespace, name : Name,
         uses : SUBSET Use]
Frame == [key : Key \cup {TopKey}, pc : Nat \ {0}, decls : SUBSET Decl]

\* What a reference is linked to: a declaration, or nothing for good.
Unlinked == <<>>
Link == [from : DeclId, use : Use, to : DeclId \cup {Unlinked}]

ASSUME LoadAssumption ==
  /\ NoLocation \notin Location
  /\ TopLocation \in Location
  /\ NoNS \in Namespace
  /\ NoPrefix \in Prefix
  /\ NoHint \in Hint
  /\ ResolverGiven \in BOOLEAN
  /\ \A b \in Location \cup {NoLocation}, h \in Hint \ {NoHint} :
        ResolveLocation(b, h) \in Location

ASSUME CorporaAssumption ==
  /\ \A c \in Corpora : /\ DOMAIN c \subseteq Location
                        /\ TopLocation \in DOMAIN c
                        /\ \A l \in DOMAIN c : c[l] \in Document

\* There are finitely many keys and the goroutine stack has room for them.
ASSUME DepthAssumption ==
  /\ IsFiniteSet(Key)
  /\ MaxDepth \in Nat
  /\ MaxDepth > Cardinality(Key) + 1

VARIABLES
  corpus,    \* the documents; chosen once
  stack,     \* the parseSchemaDoc calls in progress, the outermost first
  visited,   \* the keys already followed
  links,     \* what each reference inside a declaration points at
  outcome,   \* "running", "ok" or "error"
  fetched,   \* history: how often the resolver was called for each key
  loaded     \* history: the keys whose document was read

vars == <<corpus, stack, visited, links, outcome, fetched, loaded>>
-----------------------------------------------------------------------------
DocOf(key) == corpus[IF key = TopKey THEN TopLocation ELSE key.loc]

Current == stack[Len(stack)]
Caller == stack[Len(stack) - 1]
Running == outcome = "running"

CurrentDoc == DocOf(Current.key)

\* The child of the schema root the current call is at.
HasItem == Current.pc <= Len(DocOf(Current.key).items)
CurrentItem == DocOf(Current.key).items[Current.pc]
At(kind) == Running /\ HasItem /\ CurrentItem.kind = kind

\* The key of the reference written at item i of the document under key.
KeyAt(key, i) ==
  LET item == DocOf(key).items[i]
  IN  [ns  |-> IF item.kind = "import" THEN item.ns ELSE NoNS,
       loc |-> ResolveLocation(key.loc, item.hint)]

IsReference(item) == item.kind \in {"import", "include"} /\ item.hint # NoHint
KeysNamedBy(key) ==
  {KeyAt(key, i) : i \in {j \in 1..Len(DocOf(key).items) :
                             IsReference(DocOf(key).items[j])}}
CurrentKey == KeyAt(Current.key, Current.pc)

Advanced(s) == [s EXCEPT ![Len(s)].pc = @ + 1]

SameKey(d, e) == d.table = e.table /\ d.ns = e.ns /\ d.name = e.name
Clash(D, E) == \E d \in D, e \in E : SameKey(d, e)
-----------------------------------------------------------------------------
\* resolveQName: the prefixes are those of the document whose pass this is.
ResolveQName(doc, prefix) ==
  IF prefix \in DOMAIN doc.prefixes THEN doc.prefixes[prefix]
  ELSE IF prefix = NoPrefix THEN doc.tns ELSE NoNS

\* lookupElement, lookupAttribute and the local-name tables: the declarations
\* a reference names, none or one.
Lookup(decls, doc, use) ==
  LET local == {d \in decls : d.table = TableOf(use.role) /\ d.name = use.name}
      exact == {d \in local : d.ns = ResolveQName(doc, use.prefix)}
  IN  IF TableOf(use.role) \notin Qualified THEN local
      ELSE IF exact # {} THEN exact
      ELSE IF Cardinality(local) = 1 THEN local ELSE {}

\* References that are looked up again in every pass; the others keep the
\* first declaration they were linked to.
Relinked == {"ref", "head", "attribute"}
\* References whose declaration must exist.
Required == Relinked \cup {"group"}

Linked(d, use) == \E k \in links : k.from = d.id /\ k.use = use

\* Mutant of Pending: every reference is looked up in one pass only.
PendingOnce(decls) ==
  {p \in {<<d, u>> : d \in decls, u \in UNION {e.uses : e \in decls}} :
      p[2] \in p[1].uses /\ ~Linked(p[1], p[2])}

\* The references a pass over decls has to look up.
Pending(decls) ==
  {p \in {<<d, u>> : d \in decls, u \in UNION {e.uses : e \in decls}} :
      /\ p[2] \in p[1].uses
      /\ p[2].role \in Relinked \/ ~Linked(p[1], p[2])}

\* resolveSchemaRefs returns an error.
Unresolvable(decls, doc) ==
  \E p \in Pending(decls) :
     p[2].role \in Required /\ Lookup(decls, doc, p[2]) = {}

\* The links after a successful pass.  An attribute group that is not there
\* is dropped for good (attrGroupRefs is cleared); a type is tried again.
LinksAfter(decls, doc) ==
  LET found == {[from |-> p[1].id, use |-> p[2], to |-> t.id] :
                  p \in Pending(decls), t \in decls}
      new == {k \in found : \E p \in Pending(decls) :
                               /\ k.from = p[1].id /\ k.use = p[2]
                               /\ \E t \in Lookup(decls, doc, p[2]) : k.to = t.id}
      dropped == {[from |-> p[1].id, use |-> p[2], to |-> Unlinked] :
                    p \in {q \in Pending(decls) :
                             /\ q[2].role = "attributeGroup"
                             /\ Lookup(decls, doc, q[2]) = {}}}
  IN  {k \in links : \A n \in new : ~(n.from = k.from /\ n.use = k.use)}
        \cup new \cup dropped
-----------------------------------------------------------------------------
Init == /\ corpus \in Corpora
        /\ stack = <<[key |-> TopKey, pc |-> 1, decls |-> {}]>>
        /\ visited = {}
        /\ links = {}
        /\ outcome = "running"
        /\ fetched = [k \in Key |-> 0]
        /\ loaded = {TopKey}

\* Every error return unwinds the whole recursion.
Abort == /\ outcome' = "error"
         /\ UNCHANGED <<corpus, stack, links>>

\* A child the parser does not support: xs:redefine, xs:override,
\* xs:notation, an unknown one, or a declaration that does not parse.
RejectItem == /\ At("unsupported")
              /\ Abort
              /\ UNCHANGED <<visited, fetched, loaded>>

\* The declaration the current child makes.
Declared ==
  [id    |-> <<Current.key, Current.pc>>,
   table |-> CurrentItem.table,
   ns    |-> IF CurrentItem.table \in Qualified THEN CurrentDoc.tns ELSE NoNS,
   name  |-> CurrentItem.name,
   uses  |-> CurrentItem.uses]

\* A global declaration overwrites the table entry under its key.
Declare ==
  /\ At("declare")
  /\ LET kept == {e \in Current.decls : ~SameKey(Declared, e)}
     IN  stack' = Advanced([stack EXCEPT ![Len(stack)].decls = kept \cup {Declared}])
  /\ UNCHANGED <<corpus, visited, links, outcome, fetched, loaded>>

\* An import without schemaLocation is only recorded; an include needs one.
NoHintGiven(kind) == At(kind) /\ CurrentItem.hint = NoHint

SkipImport == /\ NoHintGiven("import")
              /\ stack' = Advanced(stack)
              /\ UNCHANGED <<corpus, visited, links, outcome, fetched, loaded>>

RejectReference ==
  /\ \/ NoHintGiven("include")
     \/ /\ At("import") \/ At("include")
        /\ CurrentItem.hint # NoHint
        /\ ~ResolverGiven
  /\ Abort
  /\ UNCHANGED <<visited, fetched, loaded>>

\* A reference that reaches the visited check.
AtReference == /\ At("import") \/ At("include")
               /\ CurrentItem.hint # NoHint
               /\ ResolverGiven

\* Mutants of AlreadyVisited: the loop does not go on, and a key that is the
\* location alone.
AlreadyVisitedStays == /\ AtReference
                       /\ CurrentKey \in visited
                       /\ UNCHANGED vars
AlreadyVisitedLocation ==
  /\ AtReference
  /\ \E k \in visited : k.loc = CurrentKey.loc
  /\ stack' = Advanced(stack)
  /\ UNCHANGED <<corpus, visited, links, outcome, fetched, loaded>>

\* Followed before, or being followed further up the stack: nothing to do.
AlreadyVisited ==
  /\ AtReference
  /\ CurrentKey \in visited
  /\ stack' = Advanced(stack)
  /\ UNCHANGED <<corpus, visited, links, outcome, fetched, loaded>>

\* Mutants of CallResolver: without the visited check, and without
\* remembering the key of an include or of an import.
CallResolverAlways == /\ AtReference
                      /\ visited' = visited \cup {CurrentKey}
                      /\ fetched' = [fetched EXCEPT ![CurrentKey] = @ + 1]
CallResolverForgets(kind) ==
  /\ AtReference
  /\ CurrentKey \notin visited
  /\ visited' = IF CurrentItem.kind = kind THEN visited ELSE visited \cup {CurrentKey}
  /\ fetched' = [fetched EXCEPT ![CurrentKey] = @ + 1]
CallResolverForgetsInclude == CallResolverForgets("include")
CallResolverForgetsImport == CallResolverForgets("import")

\* The key is remembered before the resolver is called.
CallResolver == /\ AtReference
                /\ CurrentKey \notin visited
                /\ visited' = visited \cup {CurrentKey}
                /\ fetched' = [fetched EXCEPT ![CurrentKey] = @ + 1]

\* The resolver fails, or what it returns is no XML tree with an xs:schema root.
ResolverFails == /\ CallResolver
                 /\ Abort
                 /\ UNCHANGED loaded

\* The resolver returns nil: the reference contributes nothing.
ResolverHasNone == /\ CallResolver
                   /\ stack' = Advanced(stack)
                   /\ UNCHANGED <<corpus, links, outcome, loaded>>

\* Mutant of ResolverReturnsDocument: the new document starts before its
\* first child.
ReturnsDocumentAtZero ==
  /\ CallResolver
  /\ CurrentKey.loc \in DOMAIN corpus
  /\ Len(stack) < MaxDepth
  /\ stack' = Append(stack, [key |-> CurrentKey, pc |-> 0, decls |-> {}])
  /\ loaded' = loaded \cup {CurrentKey}
  /\ UNCHANGED <<corpus, links, outcome>>

\* The resolver returns a document, whose parseSchemaDoc begins.
ResolverReturnsDocument ==
  /\ CallResolver
  /\ CurrentKey.loc \in DOMAIN corpus
  /\ Len(stack) < MaxDepth
  /\ stack' = Append(stack, [key |-> CurrentKey, pc |-> 1, decls |-> {}])
  /\ loaded' = loaded \cup {CurrentKey}
  /\ UNCHANGED <<corpus, links, outcome>>
-----------------------------------------------------------------------------
\* The end of parseSchemaDoc.
AtEnd == Running /\ ~HasItem
CallerDoc == DocOf(Caller.key)
CallerItem == CallerDoc.items[Caller.pc]
Returning(kind) == AtEnd /\ Len(stack) > 1 /\ CallerItem.kind = kind

\* A chameleon include: the declarations move to the including namespace.
\* The new table is built in map order, so of two declarations that now
\* have the same key either may survive.
Stamped(d, ns) == IF d.table \in Qualified THEN [d EXCEPT !.ns = ns] ELSE d
Restamped(decls, ns) ==
  LET all == {Stamped(d, ns) : d \in decls}
  IN  {T \in SUBSET all : /\ \A d \in all : \E e \in T : SameKey(d, e)
                          /\ \A d, e \in T : SameKey(d, e) => d = e}

\* Mutant of IsChameleon: an include never adopts the namespace.
NeverChameleon == FALSE

IsChameleon == CurrentDoc.tns = NoNS /\ CallerDoc.tns # NoNS
Adoptions(decls) ==
  IF IsChameleon THEN Restamped(decls, CallerDoc.tns) ELSE {decls}

\* Mutant of Merge: what is merged replaces what was there.
MergeOverwrites(decls) ==
  LET n == Len(stack) - 1
      kept == {d \in Caller.decls : \A e \in decls : ~SameKey(d, e)}
  IN  stack' = Advanced([SubSeq(stack, 1, n) EXCEPT ![n].decls = kept \cup decls])

\* mergeImportedSchema: any key of both sides is an error.
Merge(decls) ==
  LET n == Len(stack) - 1
  IN  /\ ~Clash(Caller.decls, decls)
      /\ stack' = Advanced([SubSeq(stack, 1, n) EXCEPT ![n].decls = @ \cup decls])

Resolved == /\ ~Unresolvable(Current.decls, CurrentDoc)
            /\ links' = LinksAfter(Current.decls, CurrentDoc)

ReturnImport == /\ Returning("import")
                /\ Resolved
                /\ Merge(Current.decls)
                /\ UNCHANGED <<corpus, visited, outcome, fetched, loaded>>

MismatchedInclude == CurrentDoc.tns # NoNS /\ CurrentDoc.tns # CallerDoc.tns

ReturnInclude ==
  /\ Returning("include")
  /\ Resolved
  /\ ~MismatchedInclude
  /\ \E decls \in Adoptions(Current.decls) : Merge(decls)
  /\ UNCHANGED <<corpus, visited, outcome, fetched, loaded>>

\* The document does not resolve, does not fit or declares something twice.
RejectDocument ==
  /\ AtEnd
  /\ \/ Unresolvable(Current.decls, CurrentDoc)
     \/ Returning("import") /\ Clash(Caller.decls, Current.decls)
     \/ /\ Returning("include")
        /\ \/ MismatchedInclude
           \/ \E decls \in Adoptions(Current.decls) : Clash(Caller.decls, decls)
  /\ Abort
  /\ UNCHANGED <<visited, fetched, loaded>>

\* The top-level document is done: ParseSchemaWithResolver returns the schema.
Finish == /\ AtEnd
          /\ Len(stack) = 1
          /\ Resolved
          /\ outcome' = "ok"
          /\ UNCHANGED <<corpus, stack, visited, fetched, loaded>>

\* The caller has its answer.
Done == ~Running /\ UNCHANGED vars

Step == \/ RejectItem \/ Declare \/ SkipImport \/ RejectReference
        \/ AlreadyVisited \/ ResolverFails \/ ResolverHasNone
        \/ ResolverReturnsDocument
        \/ ReturnImport \/ ReturnInclude \/ RejectDocument \/ Finish

Next == Step \/ Done

Spec == Init /\ [][Next]_vars

\* One goroutine runs the load, so a step that can be taken is taken.
FairSpec == Spec /\ WF_vars(Step)
-----------------------------------------------------------------------------
\* Every variable stays in its domain.
TypeOK ==
  /\ stack \in Seq(Frame)
  /\ stack # <<>>
  /\ visited \subseteq Key
  /\ links \subseteq Link
  /\ outcome \in {"running", "ok", "error"}
  /\ fetched \in [Key -> Nat]
  /\ loaded \subseteq Key \cup {TopKey}

\* However the documents refer to each other, the resolver is called at most
\* once for a key: cycles and diamonds do not fetch a schema twice.
FetchedOnce == \A k \in Key : fetched[k] <= 1

\* No document is being parsed twice under one key at the same time, so a
\* cycle of imports and includes cannot recurse without end.
NoReentry == \A i, j \in 1..Len(stack) : stack[i].key = stack[j].key => i = j

\* The load implements SchemaClosure: nothing is fetched that no loaded
\* document names, and it succeeds only when every reference of every loaded
\* document was followed.
Closure == INSTANCE SchemaClosure WITH
  Top <- TopKey,
  asked <- visited,
  refs <- [k \in Key \cup {TopKey} |->
             IF k = TopKey \/ k.loc \in DOMAIN corpus THEN KeysNamedBy(k) ELSE {}]
ClosureSpec == Closure!Spec

\* Every step leads towards the end: a key is visited for the first time, a
\* document is left, the current document moves on to its next child, or the
\* load returns.  visited is finite, so no behaviour goes on for ever.
Progress ==
  [][ \/ visited # visited' /\ visited \subseteq visited'
      \/ Len(stack') < Len(stack)
      \/ /\ Len(stack') = Len(stack)
         /\ stack'[Len(stack)].pc > Current.pc
      \/ outcome' # "running" ]_<<stack, visited, outcome>>

\* The load returns, on cyclic references too.
Termination == <>(outcome # "running")

Schema == stack[1].decls
Succeeded == outcome = "ok"

\* The declarations the loaded documents write down.
Written ==
  UNION {{<<k, i>> : i \in {j \in 1..Len(DocOf(k).items) :
                               DocOf(k).items[j].kind = "declare"}} : k \in loaded}
Ids(decls) == {d.id : d \in decls}

\* Merging never drops a definition (mergeImportedSchema's comment): a
\* successful load has every declaration of every document it read.
NothingDropped == Succeeded => Written \subseteq Ids(Schema)

\* That holds when no document declares a name twice, every document makes
\* its own declarations before it imports or includes, and none is without a
\* target namespace.
DeclaresFirst(doc) ==
  \A i, j \in 1..Len(doc.items) :
     doc.items[i].kind = "declare" /\ doc.items[j].kind # "declare" => i < j
DeclaresOnce(doc) ==
  \A i, j \in 1..Len(doc.items) :
     LET a == doc.items[i]
         b == doc.items[j]
     IN  (a.kind = "declare" /\ b.kind = "declare"
            /\ a.table = b.table /\ a.name = b.name) => i = j
MergeDropsNothing ==
  (\A k \in loaded : /\ DeclaresFirst(DocOf(k))
                     /\ DeclaresOnce(DocOf(k))
                     /\ DocOf(k).tns # NoNS)
     => NothingDropped

\* A reference re-linked in every pass ends at a declaration of the schema
\* that has the name it asks for, never at one that was overwritten or that
\* belongs to a schema left behind.
LinksCurrent ==
  Succeeded =>
    \A d \in Schema, u \in UNION {e.uses : e \in Schema} :
      u \in d.uses /\ u.role \in Relinked =>
        \E t \in Schema : /\ [from |-> d.id, use |-> u, to |-> t.id] \in links
                          /\ t.table = TableOf(u.role) /\ t.name = u.name

OnlyIncludes ==
  \A k \in loaded : \A i \in 1..Len(DocOf(k).items) :
     DocOf(k).items[i].kind # "import"

\* Documents joined by xs:include alone make one namespace: every element and
\* attribute of a successful load is declared in the top-level document's.
IncludesShareNamespace ==
  Succeeded /\ OnlyIncludes =>
    \A d \in Schema : d.table \in Qualified => d.ns = DocOf(TopKey).tns
=============================================================================
