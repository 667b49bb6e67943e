------------------------------ MODULE Element ------------------------------
(***************************************************************************)
(* One element against its declaration (validator/schema_alternative.go    *)
(* and validateElement of schema_validate.go): the tests of its            *)
(* alternatives are compiled when the schema is resolved, the first one    *)
(* that holds chooses the type, and the type judges the attributes, the    *)
(* ones that are missing and the text.  Matching child elements against a  *)
(* content model is ContentMatch.                                          *)
(***************************************************************************)
EXTENDS Condition, FiniteSetsExt

CONSTANTS
  Families,         \* elements with their declarations: what each field may be
  Types,            \* the types by name, see MCElement
  Nil,              \* the name of no type
  Blank,            \* the texts strings.TrimSpace empties
  TargetNamespace   \* of the schema

VARIABLES
  input,      \* the element and its declaration
  status,     \* what is done next
  at,         \* the alternative or the attribute in hand
  tests,      \* alt.test of the alternatives compiled so far
  chosen,     \* the name of the type chooseType returned
  declared,   \* validateAttributes' map of the declarations not met yet
  recorded,   \* the attributes sv.attrDecls has a declaration for
  errors
vars == <<input, status, at, tests, chosen, declared, recorded, errors>>

Alternatives == input.alternatives
Attrs == input.attrs
Type == Types[chosen]
Default == [kind |-> "default"]

Key(d) == <<d.ns, d.local>>
\* Mutant of Declarations: a prohibited attribute is declared like any other.
DeclarationsAll(ds) == [k \in {Key(ds[i]) : i \in DOMAIN ds} |->
                          ds[Max({i \in DOMAIN ds : Key(ds[i]) = k})]]

\* The map is made in order, so that of two declarations the later stays.
Declarations(ds) ==
  LET used == {i \in DOMAIN ds : ds[i].use # "prohibited"}
  IN  [k \in {Key(ds[i]) : i \in used} |-> ds[Max({i \in used : Key(ds[i]) = k})]]

\* wildcardMatchesNS; a constraint is the set of its words.
WildcardMatches(constraint, ns) ==
  \/ constraint \in {{}, {"##any"}}
  \/ constraint = {"##other"} /\ ns \notin {"", TargetNamespace}
  \/ "##local" \in constraint /\ ns = ""
  \/ "##targetNamespace" \in constraint /\ ns = TargetNamespace
  \/ ns \in constraint \ {"##local", "##targetNamespace"}
Wild(ns) == Type.wildcard # Nil /\ WildcardMatches(Type.wildcard.namespace, ns)
-----------------------------------------------------------------------------
Init == /\ \E f \in Families :
             input \in [alternatives : f.alternatives, type : f.type, fixed : f.fixed,
                       attrs : f.attrs, text : f.text, children : f.children]
        /\ status = "compile" /\ at = 1
        /\ tests = <<>> /\ chosen = Nil
        /\ declared = [k \in {} |-> Nil]
        /\ recorded = {} /\ errors = {}

Ends(places) == /\ status' = "end"
                /\ errors' = errors \cup {<<p, 0>> : p \in places}
                /\ UNCHANGED <<input, at, tests, chosen, declared, recorded>>

\* resolveAlternatives: no test, or one written test="", is the default; any
\* other has to compile.
HasText(a) == a.written = "text"
CompileAlternative ==
  /\ status = "compile" /\ at <= Len(Alternatives)
  /\ LET a == Alternatives[at]
     IN  \/ ~HasText(a) /\ tests' = Append(tests, Default)
         \/ HasText(a) /\ CompileTest(a.test).ok /\ tests' = Append(tests, CompileTest(a.test).node)
  /\ at' = at + 1
  /\ UNCHANGED <<input, status, chosen, declared, recorded, errors>>

RefuseSchema ==
  /\ status = "compile" /\ at <= Len(Alternatives)
  /\ HasText(Alternatives[at]) /\ ~CompileTest(Alternatives[at].test).ok
  /\ status' = "refused"
  /\ UNCHANGED <<input, at, tests, chosen, declared, recorded, errors>>

\* validateElement: a fixed value that differs is all that is reported.
FixedMismatch ==
  /\ status = "compile" /\ at > Len(Alternatives)
  /\ input.fixed # "" /\ input.text # input.fixed
  /\ Ends({"fixed"})

StartElement ==
  /\ status = "compile" /\ at > Len(Alternatives)
  /\ input.fixed \in {"", input.text}
  /\ status' = "choose" /\ at' = 1
  /\ UNCHANGED <<input, tests, chosen, declared, recorded, errors>>

AlternativeHolds == IF tests[at] = Default THEN TRUE ELSE Holds(tests[at], Attrs)

\* chooseType.
NextAlternative ==
  /\ status = "choose" /\ at <= Len(Alternatives) /\ ~AlternativeHolds
  /\ at' = at + 1
  /\ UNCHANGED <<input, status, tests, chosen, declared, recorded, errors>>

ChooseType ==
  /\ status = "choose"
  /\ \/ at <= Len(Alternatives) /\ AlternativeHolds /\ chosen' = Alternatives[at].type
     \/ at > Len(Alternatives) /\ chosen' = input.type
  /\ status' = "typed"
  /\ UNCHANGED <<input, at, tests, declared, recorded, errors>>

\* Without a type nothing is checked.
Untyped == status = "typed" /\ chosen = Nil /\ Ends({})

TextErrors(accepted) == IF input.children > 0 THEN {"children"}
                        ELSE IF input.text \in accepted THEN {} ELSE {"text"}

\* validateSimpleElement: the attributes are not looked at.
SimpleElement == /\ status = "typed" /\ chosen # Nil /\ Type.kind = "simple"
                 /\ Ends(TextErrors(Type.text))

BeginAttributes ==
  /\ status = "typed" /\ chosen # Nil /\ Type.kind = "complex"
  /\ declared' = Declarations(Type.attributes)
  /\ status' = "attributes" /\ at' = 1
  /\ UNCHANGED <<input, tests, chosen, recorded, errors>>
-----------------------------------------------------------------------------
Attr == Attrs[at]
AttrKey == <<Attr.ns, Attr.local>>
\* Namespace declarations and attributes of XML and of the schema instance.
Skipped(a) == a.form \in {"xmlns", "xml", "xsi"}
AtAttr == status = "attributes" /\ at <= Len(Attrs)
NextAttr(reports) == /\ at' = at + 1
                     /\ errors' = errors \cup {<<r, at>> : r \in reports}
                     /\ UNCHANGED <<input, status, tests, chosen>>

SkipAttr == /\ AtAttr /\ Skipped(Attr)
            /\ NextAttr({}) /\ UNCHANGED <<declared, recorded>>

UndeclaredAttr == /\ AtAttr /\ ~Skipped(Attr) /\ AttrKey \notin DOMAIN declared
                  /\ NextAttr(IF Wild(Attr.ns) THEN {} ELSE {"unexpected"})
                  /\ UNCHANGED <<declared, recorded>>

FixedDiffers == declared[AttrKey].fixed \notin {"", Attr.value}

\* It stays in the map: a required one is reported as missing as well.
FixedAttr == /\ AtAttr /\ ~Skipped(Attr) /\ AttrKey \in DOMAIN declared /\ FixedDiffers
             /\ NextAttr({"fixed"}) /\ UNCHANGED <<declared, recorded>>

CheckAttr == /\ AtAttr /\ ~Skipped(Attr) /\ AttrKey \in DOMAIN declared /\ ~FixedDiffers
             /\ NextAttr(IF Attr.value \in declared[AttrKey].text THEN {} ELSE {"value"})
             /\ declared' = [k \in DOMAIN declared \ {AttrKey} |-> declared[k]]
             /\ recorded' = recorded \cup {<<AttrKey, declared[AttrKey]>>}

EndAttributes ==
  /\ status = "attributes" /\ at > Len(Attrs)
  /\ status' = "required"
  /\ UNCHANGED <<input, at, tests, chosen, declared, recorded, errors>>

\* The map is ranged over in any order.
Missing ==
  /\ status = "required"
  /\ \E k \in DOMAIN declared :
       /\ errors' = errors \cup {<<"missing", k>> : u \in {declared[k].use} \cap {"required"}}
       /\ declared' = [l \in DOMAIN declared \ {k} |-> declared[l]]
  /\ UNCHANGED <<input, status, at, tests, chosen, recorded>>

\* The rest of validateComplexElement; a content model judges elsewhere.
Content ==
  /\ status = "required" /\ declared = << >>
  /\ Ends(CASE Type.content = "simple" -> TextErrors(Type.text)
            [] Type.content = "empty" ->
                 {e \in {"children"} : input.children > 0}
                   \cup {e \in {"text"} : ~Type.mixed /\ input.text \notin Blank}
            [] Type.content = "model" -> {})

Done == status \in {"end", "refused"} /\ UNCHANGED vars

Step == \/ CompileAlternative \/ RefuseSchema \/ FixedMismatch \/ StartElement
        \/ NextAlternative \/ ChooseType \/ Untyped \/ SimpleElement \/ BeginAttributes
        \/ SkipAttr \/ UndeclaredAttr \/ FixedAttr \/ CheckAttr \/ EndAttributes
        \/ Missing \/ Content
Next == Step \/ Done
Spec == Init /\ [][Next]_vars
-----------------------------------------------------------------------------

(* What docs/conditional-types.md says of the choice: the first alternative *)
(* whose test is true, or the declared type.                                *)
Given == {i \in DOMAIN Alternatives : Alternatives[i].written # "no"}
TrueAlternatives == {i \in DOMAIN Alternatives : i \in Given => IsTrue(Alternatives[i].test, Attrs)}
DocumentedType == IF TrueAlternatives = {} THEN input.type
                  ELSE Alternatives[Min(TrueAlternatives)].type

(* Where the code is known to differ (README): an empty test attribute is   *)
(* taken for none, a failed cast is lost under not() or beside an "or", and *)
(* NaN equals every number.                                                 *)
EmptyTests == {i \in Given : Alternatives[i].written = "empty"}
ReadAsDocumented ==
  EmptyTests = {} /\ \A i \in Given : LET s == Alternatives[i].test
                                      IN  ~CastLost(s, Attrs) /\ ~MeetsNaN(s, Attrs)

\* A schema is refused only for a test outside the documented grammar and
\* never taken with a test that is not empty and that not even nested casts
\* explain; except where the code is known to differ, the type of an element
\* is that of the first alternative whose test, taken apart at its outermost
\* operator and false if a cast in it fails, is true of the attributes
\* (compileTest, chooseType).
TypeAsDocumented ==
  /\ status = "refused" => \E i \in Given : ~IsTest(Alternatives[i].test, FALSE)
  /\ status \notin {"compile", "refused"} =>
       \A i \in Given \ EmptyTests : IsTest(Alternatives[i].test, TRUE)
  /\ status \in {"typed", "attributes"} /\ ReadAsDocumented => chosen = DocumentedType

(* What a complex type asks of an element's attributes and text, without an *)
(* order.  An attribute is named by its place, the element by 0.            *)
Governs(d, a) == ~Skipped(a) /\ d.use # "prohibited" /\ Key(d) = <<a.ns, a.local>>
Declaring(a) == {i \in DOMAIN Type.attributes : Governs(Type.attributes[i], a)}
Suits(d, a) == a.value \in d.text /\ d.fixed \in {"", a.value}
AttrFaults == {i \in DOMAIN Attrs :
  /\ ~Skipped(Attrs[i])
  /\ IF Declaring(Attrs[i]) = {} THEN ~Wild(Attrs[i].ns)
     ELSE \E j \in Declaring(Attrs[i]) : ~Suits(Type.attributes[j], Attrs[i])}
RequiredMissing == \E j \in DOMAIN Type.attributes :
  /\ Type.attributes[j].use = "required"
  /\ \A i \in DOMAIN Attrs : j \notin Declaring(Attrs[i])
TextFaulty ==
  \/ input.children > 0 /\ Type.content \in {"simple", "empty"}
  \/ Type.content = "simple" /\ input.text \notin Type.text
  \/ Type.content = "empty" /\ ~Type.mixed /\ input.text \notin Blank

\* An element with a complex type is rejected exactly when one of its
\* attributes is undeclared or has a value its declaration does not allow, a
\* required one is absent, or its text or children are not what the type says;
\* each attribute at fault is reported, no other is, and every other declared
\* one is recorded with its own declaration (validateAttributes).
ElementJudged ==
  status = "end" /\ chosen # Nil /\ Type.kind = "complex" =>
    /\ {i \in DOMAIN Attrs : \E e \in errors : e[1] \in {"unexpected", "fixed", "value"} /\ e[2] = i}
         = AttrFaults
    /\ errors = {} <=> AttrFaults = {} /\ ~RequiredMissing /\ ~TextFaulty
    /\ \A i \in DOMAIN Attrs \ AttrFaults : \A j \in Declaring(Attrs[i]) :
         <<<<Attrs[i].ns, Attrs[i].local>>, Type.attributes[j]>> \in recorded
=============================================================================
