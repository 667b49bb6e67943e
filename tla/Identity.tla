------------------------------ MODULE Identity ------------------------------
(***************************************************************************)
(* Evaluating xs:key, xs:unique and xs:keyref over a document              *)
(* (validator/schema_identity.go, and the registration of constraints in   *)
(* validator/schema_resolve.go).                                           *)
(*                                                                         *)
(* checkIdentity walks the document top-down.  Its nodes are numbered in   *)
(* document order, so the recursion is the order of the numbers and the    *)
(* scopes it passes down are kept per node.                                *)
(***************************************************************************)
EXTENDS Integers, Sequences, FiniteSets, SequencesExt

CONSTANTS
  Inputs,     \* documents with the constraints of their elements
  Precision   \* the integers a float64 holds exactly are below it, 2^53 in the code

NUL == "nul"

\* A value: the value space of its declared type, which value of that space it
\* is, the branch of identityValueKey its type takes, and the text that is left
\* there (collapsed unless the branch is that of a string).  A built-in type
\* and a restriction of one take the branch of its name: "number", or "-0" for
\* a zero with a sign.  Simple content, a list and a union take that of a
\* string, whatever their values are: "text".  The value of a string is its text.
Value == {v \in [space : STRING, keyed : {"number", "-0", "text"}, number : Nat, chars : Seq(STRING)] :
            /\ v.keyed # "text" => v.space # "string"
            /\ v.keyed = "-0" => v.number = 0}
\* A node: its parent (0 for the root), name, value, and its attributes as
\* pairs of a name and a value.
Node == [parent : Nat, name : STRING, value : Value, attrs : SUBSET (STRING \X Value)]
\* A path: ".//" or not, child steps, and the attribute or "" for none.  A
\* step is a name, or "*".
Path(descendant, steps, attr) == [descendant |-> descendant, steps |-> steps, attr |-> attr]
Paths == Seq([descendant : BOOLEAN, steps : Seq(STRING), attr : STRING])
\* A constraint: schema is the document whose *Schema compiled it last and ns
\* its target namespace; the importing schema compiles an imported one again
\* only when a ref particle of its own carries it, and an included document
\* compiles its own.  refer is what a keyref names.
IsKeyref(c) == c.kind = "keyref"
IdentityConstraint ==
  [kind : {"key", "unique", "keyref"}, name : STRING, schema : STRING, ns : STRING, refer : Seq(STRING),
   selector : Paths, fields : Seq(Paths)]
ValuesOf(ns) == UNION {{ns[n].value} \cup {a[2] : a \in ns[n].attrs} : n \in DOMAIN ns}
\* A parent comes before its children, and a text is one value of a space.
Input == {d \in [nodes : Seq(Node), constraints : Seq(Seq(IdentityConstraint)), schemaNS : STRING] :
            /\ d.nodes # <<>> /\ Len(d.constraints) = Len(d.nodes)
            /\ \A n \in DOMAIN d.nodes : d.nodes[n].parent < n
            /\ \A v, w \in ValuesOf(d.nodes) :
                 v.space = w.space /\ v.chars = w.chars => v.number = w.number}

ASSUME IdentityAssumption == Precision \in Nat \ {0} /\ Inputs \subseteq Input

VARIABLES
  input,     \* the document, its constraints and sv.schema.TargetNamespace
  phase,     \* "schema", then "keys" and "refs" at each node, "end"
  node,      \* the element checkIdentity is at
  k,         \* the constraint of its declaration the loop is at
  scope,     \* the key tables of this element so far
  scopes,    \* the scopes each element visited so far hands to its children
  errors     \* what was reported: the element, the constraint and what is wrong

vars == <<input, phase, node, k, scope, scopes, errors>>

nodes == input.nodes
Nodes == 1..Len(nodes)
ConstraintsOf(n) == input.constraints[n]
Constraint == ConstraintsOf(node)[k]
All == UNION {ToSet(ConstraintsOf(n)) : n \in Nodes}
-----------------------------------------------------------------------------
Children(n) == {m \in Nodes : nodes[m].parent = n}
Below(n) ==
  LET within[m \in 0..Len(nodes)] == m # 0 /\ (nodes[m].parent = n \/ within[nodes[m].parent])
  IN  {m \in Nodes : within[m]}

\* selectFrom: the nodes after each of the steps.
Select(base, path) ==
  LET after[i \in 0..Len(path.steps)] ==
        IF i = 0 THEN {base} \cup (IF path.descendant THEN Below(base) ELSE {})
        ELSE {m \in UNION {Children(n) : n \in after[i - 1]} :
                path.steps[i] \in {"*", nodes[m].name}}
  IN  after[Len(path.steps)]
\* selectIDNodes: each node once.
SelectNodes(base, paths) == UNION {Select(base, p) : p \in ToSet(paths)}

\* identityValueKey: what it takes for a number is compared as it prints its
\* float64, anything else as text.
Float(n) == IF n < Precision THEN n ELSE n - (n % 2)
ValueKey(v) == CASE v.keyed = "number" -> <<"n", Float(v.number)>>
                 [] v.keyed = "-0" -> <<"-0">>
                 [] v.keyed = "text" -> <<"s">> \o v.chars

\* What one path of a field finds, with the node it is found at.
Found(target, path) ==
  IF path.attr = "" THEN {<<m, "", nodes[m].value>> : m \in Select(target, path)}
  ELSE UNION {{<<m, a[1], a[2]>> : a \in {b \in nodes[m].attrs : path.attr \in {"*", b[1]}}} :
                m \in Select(target, path)}

\* fieldValue: what all the paths find, a node that two of them select twice.
Values(target, field) ==
  UNION {{<<p, found>> : found \in Found(target, field[p])} : p \in DOMAIN field}
Single(S) == \E x \in S : S = {x}
FieldKey(target, field) == ValueKey((CHOOSE v \in Values(target, field) : TRUE)[2][3])

HasTuple(target, c) == \A i \in DOMAIN c.fields : Single(Values(target, c.fields[i]))
\* The field fieldTuple stops at.
FirstBad(target, c) == CHOOSE i \in DOMAIN c.fields :
                         /\ ~Single(Values(target, c.fields[i]))
                         /\ \A j \in 1..(i - 1) : Single(Values(target, c.fields[j]))

\* strings.Join with U+0000.
Joined(keys) ==
  LET upto[i \in 0..Len(keys)] ==
        IF i = 0 THEN <<>>
        ELSE (IF i = 1 THEN <<>> ELSE Append(upto[i - 1], NUL)) \o keys[i]
  IN  upto[Len(keys)]
\* fieldTuple: the keys of the fields.
FieldTuple(target, c) == Joined([i \in DOMAIN c.fields |-> FieldKey(target, c.fields[i])])

\* Mutant of FieldErrors: a key is as lenient as a unique.
FieldErrorsLenient(n, c) ==
  {<<n, c.name, "field">> : t \in {u \in SelectNodes(n, c.selector) :
     ~HasTuple(u, c) /\ Values(u, c.fields[FirstBad(u, c)]) # {}}}

\* What fieldTuple reports: a field with two values, or a key's with none.
FieldErrors(n, c) ==
  {<<n, c.name, "field">> : t \in {u \in SelectNodes(n, c.selector) :
     ~HasTuple(u, c) /\ (c.kind = "key" \/ Values(u, c.fields[FirstBad(u, c)]) # {})}}
Targets(n, c) == {t \in SelectNodes(n, c.selector) : HasTuple(t, c)}

\* buildKeyTable.
KeyTable(n, c) == {FieldTuple(t, c) : t \in Targets(n, c)}
Repeats(n, c) ==
  {<<n, c.name, "repeat">> : p \in {q \in Targets(n, c) \X Targets(n, c) :
                                     q[1] # q[2] /\ FieldTuple(q[1], c) = FieldTuple(q[2], c)}}

\* registerIdentityConstraint: the key a constraint is registered under, and
\* the one a keyref refers to, by its own name or else by its local name.
KeyOf(c) == <<c.ns, c.name>>
Registered(schema) == {KeyOf(c) : c \in {d \in All : ~IsKeyref(d) /\ d.schema = schema}}
ByLocal(c) == {q \in Registered(c.schema) : q[2] = c.refer[2]}
ReferKey(c) == IF c.refer \in Registered(c.schema) THEN c.refer
               ELSE IF Cardinality(ByLocal(c)) = 1 THEN CHOOSE q \in ByLocal(c) : TRUE
               ELSE <<>>
SchemaFaulty ==
  \/ \E c, d \in All : /\ c # d /\ ~IsKeyref(c) /\ ~IsKeyref(d)
                       /\ c.schema = d.schema /\ KeyOf(c) = KeyOf(d)
  \/ \E c \in All : IsKeyref(c) /\ ReferKey(c) = <<>>

\* checkIdentity stores a table under the validating schema's namespace.
ScopeKey(c) == <<input.schemaNS, c.name>>

Outer(n) == IF nodes[n].parent = 0 THEN <<>> ELSE scopes[nodes[n].parent]

\* Mutant of TableFor: the outermost table of that name.
TableForOutermost(q, ss) ==
  LET at == {i \in DOMAIN ss : q \in DOMAIN ss[i]}
  IN  IF at = {} THEN {} ELSE {ss[CHOOSE i \in at : \A j \in at : i <= j][q]}

\* keyTableFor: the innermost table of that name, none or one.
TableFor(q, ss) ==
  LET at == {i \in DOMAIN ss : q \in DOMAIN ss[i]}
  IN  IF at = {} THEN {} ELSE {ss[CHOOSE i \in at : \A j \in at : j <= i][q]}
-----------------------------------------------------------------------------
NoScope == [q \in {} |-> {}]

Init == /\ input \in Inputs
        /\ phase = "schema"
        /\ node = 1 /\ k = 1
        /\ scope = NoScope
        /\ scopes = [n \in 1..Len(input.nodes) |-> <<>>]
        /\ errors = {}

\* A name declared twice, or a keyref that names no key: there is no schema.
RejectSchema == /\ phase = "schema"
                /\ SchemaFaulty
                /\ phase' = "end"
                /\ errors' = {<<0, "", "schema">>}
                /\ UNCHANGED <<input, node, k, scope, scopes>>

AcceptSchema == /\ phase = "schema"
                /\ ~SchemaFaulty
                /\ phase' = "keys"
                /\ UNCHANGED <<input, node, k, scope, scopes, errors>>

AtConstraint(p) == phase = p /\ k <= Len(ConstraintsOf(node))
LoopEnds(p) == phase = p /\ k > Len(ConstraintsOf(node))

\* Entering an element: one table for each of its keys and uniques.
BuildTable ==
  /\ AtConstraint("keys")
  /\ ~IsKeyref(Constraint)
  /\ scope' = [q \in DOMAIN scope \cup {ScopeKey(Constraint)} |->
                 IF q = ScopeKey(Constraint) THEN KeyTable(node, Constraint) ELSE scope[q]]
  /\ errors' = errors \cup FieldErrors(node, Constraint) \cup Repeats(node, Constraint)
  /\ k' = k + 1
  /\ UNCHANGED <<input, phase, node, scopes>>

\* Each loop looks at its own kind of constraint.
SkipConstraint ==
  /\ \/ AtConstraint("keys") /\ IsKeyref(Constraint)
     \/ AtConstraint("refs") /\ ~IsKeyref(Constraint)
  /\ k' = k + 1
  /\ UNCHANGED <<input, phase, node, scope, scopes, errors>>

\* Mutant of PushScope: the scope lands in the parent's stack, too.
PushScopeAliased ==
  /\ LoopEnds("keys")
  /\ phase' = "refs" /\ k' = 1
  /\ LET stack == IF ConstraintsOf(node) = <<>> THEN Outer(node) ELSE Append(Outer(node), scope)
     IN  scopes' = [n \in Nodes |-> IF n \in {node, nodes[node].parent} THEN stack ELSE scopes[n]]
  /\ UNCHANGED <<input, node, scope, errors>>

\* The scopes are copied, so that they do not reach a sibling.
PushScope ==
  /\ LoopEnds("keys")
  /\ phase' = "refs" /\ k' = 1
  /\ scopes' = [scopes EXCEPT ![node] =
                  IF ConstraintsOf(node) = <<>> THEN Outer(node) ELSE Append(Outer(node), scope)]
  /\ UNCHANGED <<input, node, scope, errors>>

Unresolved(n, c, table) ==
  {<<n, c.name, "unresolved">> : t \in {u \in Targets(n, c) : FieldTuple(u, c) \notin table}}

\* checkKeyref.
CheckKeyref ==
  /\ AtConstraint("refs")
  /\ IsKeyref(Constraint)
  /\ LET tables == TableFor(ReferKey(Constraint), scopes[node])
         selected == SelectNodes(node, Constraint.selector)
     IN  errors' = errors \cup
           IF selected = {} THEN {}
           ELSE IF tables = {} THEN {<<node, Constraint.name, "unbound">>}
           ELSE FieldErrors(node, Constraint)
                  \cup UNION {Unresolved(node, Constraint, t) : t \in tables}
  /\ k' = k + 1
  /\ UNCHANGED <<input, phase, node, scope, scopes>>

\* On to the next element in document order.
NextElement ==
  /\ LoopEnds("refs")
  /\ IF node < Len(nodes) THEN phase' = "keys" /\ node' = node + 1
     ELSE phase' = "end" /\ UNCHANGED node
  /\ k' = 1
  /\ scope' = NoScope
  /\ UNCHANGED <<input, scopes, errors>>

Done == phase = "end" /\ UNCHANGED vars

Step == \/ RejectSchema \/ AcceptSchema \/ BuildTable \/ SkipConstraint
        \/ PushScope \/ CheckKeyref \/ NextElement
Next == Step \/ Done
Spec == Init /\ [][Next]_vars
-----------------------------------------------------------------------------

\* The distinct nodes a field selects, and the values they have.
Selected(t, f) == UNION {Found(t, p) : p \in ToSet(f)}
\* Values compare in their declared value space, not lexically.
SameValue(v, w) == /\ v.space = w.space
                   /\ IF v.space = "string" THEN v.chars = w.chars ELSE v.number = w.number
SameTuple(t, c, u, d) ==
  /\ Len(c.fields) = Len(d.fields)
  /\ \A i \in DOMAIN c.fields :
       \E v \in Selected(t, c.fields[i]), w \in Selected(u, d.fields[i]) : SameValue(v[3], w[3])
Complete(t, c) == \A i \in DOMAIN c.fields : Single(Selected(t, c.fields[i]))
\* No field selects two nodes; past a field that selects none, none is looked at.
FieldsSingle(t, c) ==
  \A i \in DOMAIN c.fields :
    (\A j \in 1..(i - 1) : Selected(t, c.fields[j]) # {}) =>
       \A v, w \in Selected(t, c.fields[i]) : v = w

\* A key has a value for every field of every node it selects and no two have
\* the same; unique asks only the latter, of the nodes that have values.
KeyHolds(n, c) ==
  /\ \A t \in SelectNodes(n, c.selector) :
       FieldsSingle(t, c) /\ (c.kind = "key" => Complete(t, c))
  /\ \A t, u \in SelectNodes(n, c.selector) :
       t # u /\ Complete(t, c) /\ Complete(u, c) => ~SameTuple(t, c, u, c)

\* The element nearest to n, itself or above it, that has the key q names.
KeysAt(n, q) == {d \in ToSet(ConstraintsOf(n)) : ~IsKeyref(d) /\ KeyOf(d) = q}
Hosting(n, q) == {h \in Nodes : (h = n \/ n \in Below(h)) /\ KeysAt(h, q) # {}}
Hosts(n, q) == {h \in Nodes \X All :
                  /\ h[1] \in Hosting(n, q) /\ h[2] \in KeysAt(h[1], q)
                  /\ \A m \in Hosting(n, q) : m <= h[1]}

KeyrefHolds(n, c) ==
  LET selected == SelectNodes(n, c.selector)
      hosts == Hosts(n, ReferKey(c))
  IN  /\ \A t \in selected : FieldsSingle(t, c)
      /\ selected # {} => hosts # {}
      /\ \A t \in selected : Complete(t, c) =>
           \A h \in hosts : \E u \in SelectNodes(h[1], h[2].selector) :
              Complete(u, h[2]) /\ SameTuple(t, c, u, h[2])

Valid == phase = "end" /\ errors = {}
Invalid == phase = "end" /\ errors # {} /\ ~SchemaFaulty

(* Where the code is known to tell values apart that are the same, or the   *)
(* reverse (README).                                                       *)
DocValues == ValuesOf(nodes)
\* No value occurs in two spellings that the code keys apart: "01" and "1" in
\* simple content or in a list, 0 and -0, a number in an attribute and in
\* simple content.
SpelledAlike ==
  \A v, w \in DocValues :
    SameValue(v, w) => v.keyed = w.keyed /\ (v.keyed = "text" => v.chars = w.chars)
\* Integers that a float64 holds, texts without U+0000, and no two values that
\* differ by their value space alone.
Exact(v) == IF v.keyed = "text" THEN NUL \notin ToSet(v.chars) ELSE v.number < Precision
LooksLike(v, w) ==
  v.keyed = w.keyed /\ (IF v.keyed = "text" THEN v.chars = w.chars ELSE v.number = w.number)
ExactValues == \A v \in DocValues :
                 Exact(v) /\ \A w \in DocValues : LooksLike(v, w) => v.space = w.space

\* No two nodes that a valid document's key or unique selects have the same
\* value, and every one has all the fields a key asks for, wherever the
\* constraint is declared; for values spelled alike (buildKeyTable).
KeysEnforced ==
  Valid /\ SpelledAlike =>
    \A n \in Nodes, c \in All :
      c \in ToSet(ConstraintsOf(n)) /\ ~IsKeyref(c) => KeyHolds(n, c)

\* Fields whose alternatives select different nodes, and the constraints of
\* one namespace, where no key has another's name.
FieldApart(t, f) ==
  \A p, q \in DOMAIN f : p # q => Found(t, f[p]) \cap Found(t, f[q]) = {}
FieldsApart ==
  \A n \in Nodes : \A c \in ToSet(ConstraintsOf(n)) :
    \A f \in ToSet(c.fields), t \in SelectNodes(n, c.selector) : FieldApart(t, f)
OneSchema ==
  /\ \A c \in All : c.ns = input.schemaNS
  /\ \A c, d \in All : ~IsKeyref(c) /\ ~IsKeyref(d) /\ KeyOf(c) = KeyOf(d) => c = d

\* Every keyref of a valid document finds its value in the nearest enclosing
\* key it names (docs/identity-constraints.md), never in that of a sibling.
KeyrefsEnforced ==
  Valid /\ ExactValues /\ OneSchema =>
    \A n \in Nodes, c \in All :
      c \in ToSet(ConstraintsOf(n)) /\ IsKeyref(c) => KeyrefHolds(n, c)

Broken == \E n \in Nodes, c \in All :
            /\ c \in ToSet(ConstraintsOf(n))
            /\ IF IsKeyref(c) THEN ~KeyrefHolds(n, c) ELSE ~KeyHolds(n, c)

\* A document is rejected only when one of its constraints is broken: a valid
\* reference is not refused, nor are two different values taken for a repeat
\* (checkIdentity).
Told == ExactValues /\ SpelledAlike /\ FieldsApart
RejectsOnlyBroken == Invalid /\ Told /\ OneSchema => Broken

\* The same of constraints that an imported schema declares: a keyref resolves
\* against the nearest enclosing element that evaluated the key it names
\* (docs/identity-constraints.md).
ImportedKeyrefsResolve == Invalid /\ Told => Broken
=============================================================================
