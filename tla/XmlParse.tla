------------------------------ MODULE XmlParse ------------------------------
(***************************************************************************)
(* The two parsers a document goes through.  The strict one                *)
(* (validator/parser.go, elements.go, namespace.go) only says whether it   *)
(* is well-formed and namespace-well-formed; the tree parser               *)
(* (reader/tree.go) builds the elements that schema validation reads, and  *)
(* checks less.  An instance document meets both, a schema only the        *)
(* second (ValidateWithSchemaResolver in validator/validator.go).          *)
(*                                                                         *)
(* The input is a sequence of tokens, what one round of the parsers'       *)
(* loops consumes.  The recursion of parseElement is a stack of the        *)
(* elements that are open.                                                 *)
(***************************************************************************)
EXTENDS Integers, Sequences, FiniteSets

CONSTANTS
  Docs,     \* documents: a role, a version and the tokens
  Prefix,   \* namespace prefixes, "" for none
  Local,    \* local names
  Value     \* attribute values, namespace names among them

XmlNS == "http://www.w3.org/XML/1998/namespace"
XmlnsNS == "http://www.w3.org/2000/xmlns/"

\* Names and attributes.  "xmlns" itself has no prefix, "xmlns:p" has the
\* prefix "xmlns".
QName == [prefix : Prefix, local : Local]
Attribute == [prefix : Prefix, local : Local, value : Value]

\* Tokens.  "text" is character data, references and CDATA; "misc" comments,
\* processing instructions and white space; "garbage" whatever else the strict
\* parser's lexical rules refuse.
StartTag == [kind : {"start"}, name : QName, attrs : Seq(Attribute), empty : BOOLEAN]
EndTag == [kind : {"end"}, name : QName]
Token == StartTag \cup EndTag \cup [kind : {"text", "misc", "doctype", "garbage"}]
Document == [role : {"instance", "schema"}, version : {"1.0", "1.1"}, tokens : Seq(Token)]

ASSUME XmlParseAssumption ==
  /\ {"", "xml", "xmlns"} \subseteq Prefix
  /\ Prefix \subseteq Local
  /\ {"", XmlNS, XmlnsNS} \subseteq Value
  /\ Docs \subseteq Document

VARIABLES
  doc,       \* the document, chosen once
  phase,     \* "strict", "tree", then "valid" or "invalid"
  at,        \* the token the parser is at
  seen,      \* whether the root element has ended
  open,      \* strict: the names of the elements that are open
  nsStack,   \* strict: what each of them declares
  frames,    \* tree: the elements that are open, with the prefixes in scope
  elements   \* tree: the elements built, in document order

vars == <<doc, phase, at, seen, open, nsStack, frames, elements>>

Tokens == doc.tokens
Current == Tokens[at]
IsAt(kind) == at <= Len(Tokens) /\ Current.kind = kind
Top(s) == s[Len(s)]
Popped(s) == SubSeq(s, 1, Len(s) - 1)
-----------------------------------------------------------------------------
\* What an attribute declares.
IsDeclaration(a) == a.prefix = "xmlns" \/ (a.prefix = "" /\ a.local = "xmlns")
Declared(a) == IF a.prefix = "" THEN "" ELSE a.local
Declarations(attrs) == {i \in DOMAIN attrs : IsDeclaration(attrs[i])}
Plain(attrs) == {i \in DOMAIN attrs : ~IsDeclaration(attrs[i])}

\* parseAttributes returns an error.
Repeated(attrs) == \E i, j \in DOMAIN attrs :
  i # j /\ attrs[i].prefix = attrs[j].prefix /\ attrs[i].local = attrs[j].local
BadDeclaration(a) ==
  /\ a.prefix = "xmlns"
  /\ \/ a.local = "xmlns"
     \/ a.value = "" /\ doc.version = "1.0"
     \/ a.local = "xml" /\ a.value # XmlNS
BadAttributes(attrs) == Repeated(attrs) \/ \E i \in DOMAIN attrs : BadDeclaration(attrs[i])

\* The map of what a tag declares; the last of two declarations counts.
Declaring(attrs, p) == {i \in Declarations(attrs) : Declared(attrs[i]) = p}
Scope(attrs) ==
  [p \in {Declared(attrs[i]) : i \in Declarations(attrs)} |->
     attrs[CHOOSE i \in Declaring(attrs, p) : \A j \in Declaring(attrs, p) : j <= i].value]

\* Mutant of Resolve: the outermost declaration.
ResolveOutermost(p, stack) ==
  LET where == {i \in DOMAIN stack : p \in DOMAIN stack[i]}
      uri == stack[CHOOSE i \in where : \A j \in where : i <= j][p]
  IN  CASE p = "xml" -> {XmlNS}
        [] p = "xmlns" -> {XmlnsNS}
        [] p \notin {"xml", "xmlns"} /\ where = {} -> IF p = "" THEN {""} ELSE {}
        [] OTHER -> IF uri = "" /\ p # "" THEN {} ELSE {uri}

\* resolvePrefix: the namespace of a prefix, no element if it has none.
Resolve(p, stack) ==
  LET where == {i \in DOMAIN stack : p \in DOMAIN stack[i]}
      uri == stack[CHOOSE i \in where : \A j \in where : j <= i][p]
  IN  CASE p = "xml" -> {XmlNS}
        [] p = "xmlns" -> {XmlnsNS}
        [] p \notin {"xml", "xmlns"} /\ where = {} -> IF p = "" THEN {""} ELSE {}
        [] OTHER -> IF uri = "" /\ p # "" THEN {} ELSE {uri}

\* validatePrefixDeclared and checkAttributeUniqueness; an attribute without
\* prefix is in no namespace.
Undeclared(q, stack) == q.prefix # "" /\ Resolve(q.prefix, stack) = {}
Expanded(a, stack) == <<IF a.prefix = "" THEN {""} ELSE Resolve(a.prefix, stack), a.local>>
BadNames(tag, stack) ==
  \/ Undeclared(tag.name, stack)
  \/ \E i \in Plain(tag.attrs) : Undeclared(tag.attrs[i], stack)
  \/ \E i, j \in Plain(tag.attrs) :
       i # j /\ Expanded(tag.attrs[i], stack) = Expanded(tag.attrs[j], stack)
BadStartTag(tag) == \/ BadAttributes(tag.attrs)
                    \/ BadNames(tag, Append(nsStack, Scope(tag.attrs)))
-----------------------------------------------------------------------------
Init == /\ doc \in Docs
        /\ phase = IF doc.role = "schema" THEN "tree" ELSE "strict"
        /\ at = 1
        /\ seen = FALSE
        /\ open = <<>> /\ nsStack = <<>>
        /\ frames = <<>> /\ elements = <<>>

TreeUnchanged == UNCHANGED <<doc, frames, elements>>
StrictUnchanged == UNCHANGED <<doc, open, nsStack>>

\* parseMiscSeq and parseContent pass over these.
SkipMisc == /\ phase = "strict"
            /\ \/ IsAt("misc")
               \/ IsAt("text") /\ open # <<>>
            /\ at' = at + 1
            /\ UNCHANGED <<phase, seen, open, nsStack>>
            /\ TreeUnchanged

\* A start tag may come in content, or as the root.
MayStart == phase = "strict" /\ IsAt("start") /\ (open # <<>> \/ ~seen)

OpenElement ==
  /\ MayStart
  /\ ~Current.empty /\ ~BadStartTag(Current)
  /\ nsStack' = Append(nsStack, Scope(Current.attrs))
  /\ open' = Append(open, Current.name)
  /\ at' = at + 1
  /\ UNCHANGED <<phase, seen>>
  /\ TreeUnchanged

\* Mutant of EmptyElement: its scope stays on the stack.
EmptyElementLeaks ==
  /\ MayStart
  /\ Current.empty /\ ~BadStartTag(Current)
  /\ nsStack' = Append(nsStack, Scope(Current.attrs))
  /\ seen' = (open = <<>>)
  /\ at' = at + 1
  /\ UNCHANGED <<phase, open>>
  /\ TreeUnchanged

\* The scope of <name/> is pushed and popped again.
EmptyElement ==
  /\ MayStart
  /\ Current.empty /\ ~BadStartTag(Current)
  /\ seen' = (open = <<>>)
  /\ at' = at + 1
  /\ UNCHANGED <<phase, open, nsStack>>
  /\ TreeUnchanged

CloseElement ==
  /\ phase = "strict" /\ IsAt("end")
  /\ open # <<>> /\ Current.name = Top(open)
  /\ open' = Popped(open)
  /\ nsStack' = Popped(nsStack)
  /\ seen' = (Len(open) = 1)
  /\ at' = at + 1
  /\ UNCHANGED phase
  /\ TreeUnchanged

\* The error that ends the parse; every level pops its scope.
StrictReject ==
  /\ phase = "strict"
  /\ \/ at > Len(Tokens) /\ ~seen                              \* unexpected end of input
     \/ IsAt("doctype") \/ IsAt("garbage")
     \/ IsAt("text") /\ open = <<>>
     \/ IsAt("start") /\ open = <<>> /\ seen                    \* content after the root
     \/ MayStart /\ BadStartTag(Current)
     \/ IsAt("end") /\ ~(open # <<>> /\ Current.name = Top(open))
  /\ phase' = "invalid"
  /\ open' = <<>> /\ nsStack' = <<>>
  /\ UNCHANGED <<at, seen>>
  /\ TreeUnchanged

\* parseDocument returns nil, and the tree parser reads the same bytes again.
StrictAccept ==
  /\ phase = "strict"
  /\ at > Len(Tokens) /\ seen
  /\ phase' = "tree"
  /\ at' = 1 /\ seen' = FALSE
  /\ UNCHANGED <<open, nsStack>>
  /\ TreeUnchanged
-----------------------------------------------------------------------------
InTree == phase = "tree" /\ ~seen

\* skipMisc drops a document type declaration too, and text is kept without
\* looking at its characters.
TreeSkip ==
  /\ InTree
  /\ \/ IsAt("misc")
     \/ IsAt("doctype") /\ frames = <<>>
     \/ IsAt("text") /\ frames # <<>>
  /\ at' = at + 1
  /\ UNCHANGED <<phase, seen, frames, elements>>
  /\ StrictUnchanged

\* Mutant of InScope: what an element declares does not reach its children.
InScopeAlone(attrs, outer) == Scope(attrs)

\* nsScope: a copy of the parent's map, where a declaration replaces.
InScope(attrs, outer) ==
  [p \in DOMAIN outer \cup DOMAIN Scope(attrs) |->
     IF p \in DOMAIN Scope(attrs) THEN Scope(attrs)[p] ELSE outer[p]]

\* A lookup in a Go map: a prefix without entry is in no namespace.
LookUp(p, scope) == IF p \in DOMAIN scope THEN scope[p] ELSE ""

Element(tag, scope) ==
  [name |-> tag.name,
   namespace |-> LookUp(tag.name.prefix, scope),
   attrs |-> [i \in Plain(tag.attrs) |-> IF tag.attrs[i].prefix = "" THEN ""
                                        ELSE LookUp(tag.attrs[i].prefix, scope)],
   parent |-> IF frames = <<>> THEN 0 ELSE Top(frames).element]
OuterScope == IF frames = <<>> THEN [p \in {} |-> ""] ELSE Top(frames).scope

\* Mutant of TreeStart: the element counted before it is appended.
TreeStartBehind ==
  /\ InTree /\ IsAt("start")
  /\ LET scope == InScope(Current.attrs, OuterScope)
     IN  /\ elements' = Append(elements, Element(Current, scope))
         /\ frames' = IF Current.empty THEN frames
                      ELSE Append(frames, [element |-> Len(elements), name |-> Current.name,
                                           scope |-> scope])
         /\ seen' = (Current.empty /\ frames = <<>>)
  /\ at' = at + 1
  /\ UNCHANGED phase
  /\ StrictUnchanged

\* The tree parser's parseElement: its own map of prefixes, and the element.
TreeStart ==
  /\ InTree /\ IsAt("start")
  /\ LET scope == InScope(Current.attrs, OuterScope)
     IN  /\ elements' = Append(elements, Element(Current, scope))
         /\ frames' = IF Current.empty THEN frames
                      ELSE Append(frames, [element |-> Len(elements) + 1, name |-> Current.name,
                                           scope |-> scope])
         /\ seen' = (Current.empty /\ frames = <<>>)
  /\ at' = at + 1
  /\ UNCHANGED phase
  /\ StrictUnchanged

TreeEnd ==
  /\ InTree /\ IsAt("end")
  /\ frames # <<>> /\ Top(frames).name = Current.name
  /\ frames' = Popped(frames)
  /\ seen' = (Len(frames) = 1)
  /\ at' = at + 1
  /\ UNCHANGED <<phase, elements>>
  /\ StrictUnchanged

TreeReject ==
  /\ InTree
  /\ \/ at > Len(Tokens)                                       \* no root, or never closed
     \/ IsAt("doctype") /\ frames # <<>>
     \/ IsAt("text") /\ frames = <<>>
     \/ IsAt("garbage")
     \/ IsAt("end") /\ ~(frames # <<>> /\ Top(frames).name = Current.name)
  /\ phase' = "invalid"
  /\ frames' = <<>> /\ elements' = <<>>
  /\ UNCHANGED <<at, seen>>
  /\ StrictUnchanged

\* Much of what the strict parser refuses passes here.
TreeGarbage ==
  /\ InTree /\ IsAt("garbage")
  /\ at' = at + 1
  /\ UNCHANGED <<phase, seen, frames, elements>>
  /\ StrictUnchanged

\* parseDocument returns the root; what follows it is not read.
TreeAccept ==
  /\ phase = "tree" /\ seen
  /\ phase' = "valid"
  /\ UNCHANGED <<at, seen, frames, elements>>
  /\ StrictUnchanged

Done == phase \in {"valid", "invalid"} /\ UNCHANGED vars

Strict == \/ SkipMisc \/ OpenElement \/ EmptyElement \/ CloseElement
          \/ StrictReject \/ StrictAccept
Tree == TreeSkip \/ TreeStart \/ TreeEnd \/ TreeReject \/ TreeGarbage \/ TreeAccept
Next == Strict \/ Tree \/ Done
Spec == Init /\ [][Next]_vars
-----------------------------------------------------------------------------
\* Every variable stays in its domain.
TypeOK ==
  /\ doc \in Document
  /\ phase \in {"strict", "tree", "valid", "invalid"}
  /\ at \in 1..(Len(Tokens) + 1)
  /\ seen \in BOOLEAN
  /\ open \in Seq(QName)
  /\ \A i \in DOMAIN nsStack : /\ DOMAIN nsStack[i] \subseteq Local
                               /\ \A p \in DOMAIN nsStack[i] : nsStack[i][p] \in Value
  /\ \A i \in DOMAIN frames : /\ frames[i].element \in 1..Len(elements)
                              /\ frames[i].name \in QName
                              /\ DOMAIN frames[i].scope \subseteq Local

\* The scope stack and the open elements grow and shrink together: no element
\* leaves a scope behind for its siblings, and none loses its own.
ScopesBalanced == Len(nsStack) = Len(open)

\* Well-formedness, by the positions of the tokens.
Positions == DOMAIN Tokens
Opens(i) == Tokens[i].kind = "start" /\ ~Tokens[i].empty
Ends(i) == Tokens[i].kind = "end"
\* How many elements are open after token n.
Depth(n) == Cardinality({i \in 1..n : Opens(i)}) - Cardinality({i \in 1..n : Ends(i)})
\* The elements that token i is inside.
Enclosing(i) == {j \in 1..(i - 1) : Opens(j) /\ \A k \in j..(i - 1) : Depth(k) >= Depth(j)}
Innermost(i) == CHOOSE j \in Enclosing(i) : \A k \in Enclosing(i) : k <= j
Starts == {i \in Positions : Tokens[i].kind = "start"}
Roots == {i \in Starts : Enclosing(i) = {}}
\* An end tag closes the innermost element.
Closes(i) == Enclosing(i) # {} /\ Tokens[Innermost(i)].name = Tokens[i].name
Nested(n) == /\ \A i \in 1..n : Ends(i) => Closes(i)
             /\ Depth(n) = 0
WellFormed ==
  /\ \A i \in Positions : /\ Tokens[i].kind \notin {"doctype", "garbage"}
                          /\ Tokens[i].kind = "text" => Enclosing(i) # {}
  /\ Nested(Len(Tokens))
  /\ \E i \in Positions : Roots = {i}

\* Namespaces, by the nearest declaration on the element or around it.
DeclaringTags(i, p) == {j \in Enclosing(i) \cup {i} : p \in DOMAIN Scope(Tokens[j].attrs)}
Nearest(i, p) == Scope(Tokens[CHOOSE j \in DeclaringTags(i, p) :
                                 \A k \in DeclaringTags(i, p) : k <= j].attrs)[p]
NameSpace(i, p) == IF p = "xml" THEN XmlNS ELSE IF p = "xmlns" THEN XmlnsNS
                   ELSE IF DeclaringTags(i, p) = {} THEN "" ELSE Nearest(i, p)
AttrNameSpace(i, a) == IF a.prefix = "" THEN "" ELSE NameSpace(i, a.prefix)
\* Namespaces in XML, of one declaration and of one tag.
DeclarationRight(a) ==
  /\ Declared(a) # "xmlns"
  /\ IF Declared(a) = "xml" THEN a.value = XmlNS ELSE a.value \notin {XmlNS, XmlnsNS}
  /\ a.value = "" => a.prefix = "" \/ doc.version = "1.1"
TagRight(i) ==
  LET attrs == Tokens[i].attrs
  IN  /\ ~Repeated(attrs)
      /\ \A k \in Declarations(attrs) : DeclarationRight(attrs[k])
      /\ Tokens[i].name.prefix # "xmlns"
      /\ Tokens[i].name.prefix # "" => NameSpace(i, Tokens[i].name.prefix) # ""
      /\ \A k \in Plain(attrs) : attrs[k].prefix # "" => NameSpace(i, attrs[k].prefix) # ""
      /\ \A k, m \in Plain(attrs) :
           k # m => \/ attrs[k].local # attrs[m].local
                    \/ AttrNameSpace(i, attrs[k]) # AttrNameSpace(i, attrs[m])
NamespacesRight == \A i \in Starts : TagRight(i)

\* The strict parser lets other prefixes, and no prefix, stand for the two
\* namespaces that are reserved, and an element have the prefix xmlns.
Unreserved ==
  \A i \in Starts :
    /\ Tokens[i].name.prefix # "xmlns"
    /\ \A k \in Declarations(Tokens[i].attrs) :
         \/ Declared(Tokens[i].attrs[k]) = "xml"
         \/ Tokens[i].attrs[k].value \notin {XmlNS, XmlnsNS}

\* An instance document is refused exactly when it is not well-formed or not
\* namespace-well-formed (but for what is reserved), and never by the tree
\* parser after the strict one.  A schema is not checked strictly, but one that
\* is never closed, or closed by another name, is refused all the same.
DocumentsJudged ==
  /\ doc.role = "instance" =>
       /\ phase \in {"tree", "valid"} => WellFormed /\ (Unreserved => NamespacesRight)
       /\ phase = "invalid" => ~(WellFormed /\ NamespacesRight)
  /\ phase = "valid" => \E n \in Positions : /\ Nested(n)
                                             /\ \E i \in 1..n : Roots \cap (1..n) = {i}

\* The tokens that become elements, by their place in the document.
Rank(i) == Cardinality({j \in Starts : j <= i})
ElementAt(k) == CHOOSE i \in Starts : Rank(i) = k
Represents(e, i) ==
  LET attrs == Tokens[i].attrs
  IN  /\ e.name = Tokens[i].name
      /\ e.name.prefix \notin {"xml", "xmlns"} => e.namespace = NameSpace(i, e.name.prefix)
      /\ DOMAIN e.attrs = Plain(attrs)
      /\ \A m \in DOMAIN e.attrs :
           attrs[m].prefix # "xml" => e.attrs[m] = AttrNameSpace(i, attrs[m])
      /\ IF Enclosing(i) = {} THEN e.parent = 0 ELSE ElementAt(e.parent) = Innermost(i)
\* The elements that schema validation is given are those of the document,
\* each with its parent and with the namespaces of the nearest declarations,
\* the same that the strict parser judged; the tree parser does not know the
\* prefixes xml and xmlns, which need no declaration.
TreeFaithful ==
  phase = "valid" /\ WellFormed =>
    /\ Len(elements) = Cardinality(Starts)
    /\ \A k \in DOMAIN elements : Represents(elements[k], ElementAt(k))
=============================================================================
