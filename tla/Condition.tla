----------------------------- MODULE Condition -----------------------------
(***************************************************************************)
(* The test language of xs:alternative (validator/schema_alternative_expr. *)
(* go): compileTest, a recursive descent over the tokens of a test, the    *)
(* evaluation of what it compiles over the attributes of an element, and,  *)
(* apart from both, the grammar and the reading that                       *)
(* docs/conditional-types.md states.                                       *)
(*                                                                         *)
(* Characters are abstracted: a test is a sequence of tokens, a text is a  *)
(* member of Text with its place in the order of strings and the number    *)
(* strconv.ParseFloat reads from it.                                       *)
(***************************************************************************)
EXTENDS Integers, Sequences

CONSTANTS
  Text,            \* attribute values and literals, strings
  Rank,            \* their place in the order Go compares strings by
  Number,          \* what ParseFloat makes of each
  NaN, NoNumber,   \* the float that is no number; not a float at all
  Builtin,         \* names of built-in types, without prefix
  Numeric,         \* those isNumericType names
  Accepted         \* the texts each of them accepts (validateBuiltinValue)

ASSUME ConditionAssumption ==
  /\ Rank \in [Text -> Nat] /\ \A t, u \in Text : Rank[t] = Rank[u] => t = u
  /\ \A t \in Text : Number[t] \in {NaN, NoNumber} \/ Number[t] \in -100..100
  /\ Numeric \subseteq Builtin /\ Accepted \in [Builtin -> SUBSET Text]

\* A token: "(", ")", "op", "name", "attr", "str" or "num", and its text.
Token(kind, text) == [kind |-> kind, text |-> text]
KindAt(ts, p) == IF p <= Len(ts) THEN ts[p].kind ELSE "end"
WordAt(ts, p, word) == KindAt(ts, p) = "name" /\ ts[p].text = word
CallAt(ts, p) == KindAt(ts, p) = "name" /\ KindAt(ts, p + 1) = "("
TypeAt(ts, p) == KindAt(ts, p) = "name" /\ ts[p].text \in Builtin
-----------------------------------------------------------------------------
(* Compiling.  Each parser returns the node it read and where it stopped;   *)
(* parse[rule, p] is the parser of a rule started at p, see CompileTest.    *)
Failed == [ok |-> FALSE]
Parsed(node, pos) == [ok |-> TRUE, node |-> node, pos |-> pos]
\* expect(")").
Closed(ts, r) == IF r.ok /\ KindAt(ts, r.pos) = ")" THEN [r EXCEPT !.pos = @ + 1] ELSE Failed

Absent == [kind |-> "absent"]
Error == [kind |-> "error"]
TextAtom(t) == [kind |-> "text", text |-> t]
NumberAtom(t) == [kind |-> "number", text |-> t, number |-> Number[t]]

AttrNode(name) == [kind |-> "attr", name |-> name]
LiteralNode(atom) == [kind |-> "literal", atom |-> atom]
CastNode(inner, type, optional) ==
  [kind |-> "cast", inner |-> inner, type |-> type, optional |-> optional]
CompareNode(left, op, right) == [kind |-> "compare", left |-> left, op |-> op, right |-> right]
ExistsNode(inner) == [kind |-> "exists", inner |-> inner]
NotNode(inner) == [kind |-> "not", inner |-> inner]
\* A term and those that follow, which the code keeps in one list.
Joined(word, first, rest) == [kind |-> word, terms |-> <<first, rest>>]

\* parseCastSuffix: one "cast as T" with its optional "?".
CastSuffix(ts, r) ==
  IF ~r.ok \/ ~WordAt(ts, r.pos, "cast") THEN r
  ELSE IF ~WordAt(ts, r.pos + 1, "as") \/ ~TypeAt(ts, r.pos + 2) THEN Failed
  ELSE LET optional == KindAt(ts, r.pos + 3) = "op" /\ ts[r.pos + 3].text = "?"
       IN  Parsed(CastNode(r.node, ts[r.pos + 2].text, optional),
                  r.pos + (IF optional THEN 4 ELSE 3))

\* A constructor function: its argument is a value again.
ParseConstructor(ts, p, parse) ==
  LET r == Closed(ts, parse["value", p + 2])
  IN  IF TypeAt(ts, p) /\ r.ok THEN Parsed(CastNode(r.node, ts[p].text, FALSE), r.pos) ELSE Failed

ParseValue(ts, p, parse) ==
  CastSuffix(ts,
    CASE KindAt(ts, p) = "attr" -> Parsed(AttrNode(ts[p].text), p + 1)
      [] KindAt(ts, p) = "str" -> Parsed(LiteralNode(TextAtom(ts[p].text)), p + 1)
      [] KindAt(ts, p) = "num" /\ Number[ts[p].text] # NoNumber ->
           Parsed(LiteralNode(NumberAtom(ts[p].text)), p + 1)
      [] CallAt(ts, p) -> ParseConstructor(ts, p, parse)
      [] OTHER -> Failed)

ParseComparison(ts, p, parse) ==
  LET left == parse["value", p]
      compares == left.ok /\ KindAt(ts, left.pos) = "op" /\ ts[left.pos].text # "?"
      right == IF compares THEN parse["value", left.pos + 1] ELSE Failed
  IN  CASE ~left.ok -> Failed
        [] compares /\ right.ok ->
             Parsed(CompareNode(left.node, ts[left.pos].text, right.node), right.pos)
        [] compares /\ ~right.ok -> Failed
        [] OTHER -> Parsed(ExistsNode(left.node), left.pos)

ParseBoolean(ts, p, parse) ==
  CASE KindAt(ts, p) = "(" -> Closed(ts, parse["or", p + 1])
    [] CallAt(ts, p) /\ ~TypeAt(ts, p) ->
         LET r == Closed(ts, parse["or", p + 2])
         IN  IF ts[p].text = "not" /\ r.ok THEN Parsed(NotNode(r.node), r.pos) ELSE Failed
    [] OTHER -> ParseComparison(ts, p, parse)

\* The loops of parseAnd and parseOr: a term, and while the word follows, more.
ParseTerms(ts, p, parse, word, term) ==
  LET r == parse[term, p]
      more == IF r.ok /\ WordAt(ts, r.pos, word) THEN parse[word, r.pos + 1] ELSE Failed
  IN  CASE r.ok /\ ~WordAt(ts, r.pos, word) -> r
        [] more.ok -> Parsed(Joined(word, r.node, more.node), more.pos)
        [] OTHER -> Failed

\* Mutant of ParseOr: its terms are single conditions, so "and" no longer
\* binds tighter.
ParseOrFlat(ts, p, parse) ==
  LET r == ParseTerms(ts, p, parse, "or", "boolean")
      more == IF r.ok /\ WordAt(ts, r.pos, "and") THEN parse["or", r.pos + 1] ELSE Failed
  IN  IF r.ok /\ more.ok THEN Parsed(Joined("and", r.node, more.node), more.pos) ELSE r

ParseAnd(ts, p, parse) == ParseTerms(ts, p, parse, "and", "boolean")
ParseOr(ts, p, parse) == ParseTerms(ts, p, parse, "or", "and")

\* compileTest: everything has to be read.
CompileTest(ts) ==
  LET parse[rule \in {"or", "and", "boolean", "value"}, p \in 1..(Len(ts) + 1)] ==
        CASE rule = "or" -> ParseOr(ts, p, parse)
          [] rule = "and" -> ParseAnd(ts, p, parse)
          [] rule = "boolean" -> ParseBoolean(ts, p, parse)
          [] rule = "value" -> ParseValue(ts, p, parse)
      r == IF ts = <<>> THEN Failed ELSE parse["or", 1]
  IN  IF r.ok /\ r.pos = Len(ts) + 1 THEN r ELSE Failed
-----------------------------------------------------------------------------
(* Evaluating, over the attributes of the element in document order.       *)

\* lookupAttrValue: the first attribute of that local name, in any namespace.
LookupAttr(attrs, name) ==
  LET is == {i \in DOMAIN attrs : attrs[i].form # "xmlns" /\ attrs[i].local = name}
  IN  IF is = {} THEN Absent
      ELSE TextAtom(attrs[CHOOSE i \in is : \A j \in is : i <= j].value)

Cast(atom, type, optional) ==
  CASE atom.kind = "error" -> Error
    [] atom.kind = "absent" -> IF optional THEN Absent ELSE Error
    [] OTHER -> IF atom.text \notin Accepted[type] THEN Error
                ELSE IF type \notin Numeric THEN TextAtom(atom.text)
                ELSE IF Number[atom.text] = NoNumber THEN Error ELSE NumberAtom(atom.text)

RECURSIVE Value(_, _)
Value(v, attrs) ==
  CASE v.kind = "attr" -> LookupAttr(attrs, v.name)
    [] v.kind = "literal" -> v.atom
    [] v.kind = "cast" -> Cast(Value(v.inner, attrs), v.type, v.optional)

AsNumber(atom) == IF atom.kind = "number" THEN atom.number ELSE Number[atom.text]

\* compareOrder, given which of the two is greater; with NaN neither is.
CompareOrder(greater, less, op) ==
  CASE op = "=" -> ~greater /\ ~less
    [] op = "!=" -> greater \/ less
    [] op = "<" -> less
    [] op = "<=" -> ~greater
    [] op = ">" -> greater
    [] op = ">=" -> ~less

Compared(l, r, op) ==
  IF "number" \in {l.kind, r.kind}
    THEN LET m == AsNumber(l)
             n == AsNumber(r)
             ordered == NaN \notin {m, n}
         IN  /\ NoNumber \notin {m, n}
             /\ CompareOrder(ordered /\ m > n, ordered /\ m < n, op)
    ELSE CompareOrder(Rank[l.text] > Rank[r.text], Rank[l.text] < Rank[r.text], op)

Empty(atom) == \/ atom.kind \in {"absent", "error"}
               \/ atom.kind = "number" /\ atom.number = 0
               \/ atom.kind = "text" /\ atom.text = ""

RECURSIVE Holds(_, _)
Holds(test, attrs) ==
  CASE test.kind = "or" -> \E i \in DOMAIN test.terms : Holds(test.terms[i], attrs)
    [] test.kind = "and" -> \A i \in DOMAIN test.terms : Holds(test.terms[i], attrs)
    [] test.kind = "not" -> ~Holds(test.inner, attrs)
    [] test.kind = "exists" -> ~Empty(Value(test.inner, attrs))
    [] test.kind = "compare" ->
         LET l == Value(test.left, attrs)
             r == Value(test.right, attrs)
         IN  /\ {l.kind, r.kind} \cap {"absent", "error"} = {}
             /\ Compared(l, r, test.op)
-----------------------------------------------------------------------------
(* What docs/conditional-types.md says, by taking a test apart at the      *)
(* outermost operator.                                                     *)
Depth(s, i) == Len(SelectSeq(SubSeq(s, 1, i), LAMBDA t : t.kind = "("))
                 - Len(SelectSeq(SubSeq(s, 1, i), LAMBDA t : t.kind = ")"))
Outermost(s, kind, texts) ==
  {i \in 2..(Len(s) - 1) : s[i].kind = kind /\ s[i].text \in texts /\ Depth(s, i) = 0}
Before(s, i) == SubSeq(s, 1, i - 1)
After(s, i) == SubSeq(s, i + 1, Len(s))
Comparator == {"=", "!=", "<", "<=", ">", ">="}
Ors(s) == Outermost(s, "name", {"or"})
Ands(s) == Outermost(s, "name", {"and"})
Comparators(s) == Outermost(s, "op", Comparator)
AnyOf(is) == CHOOSE i \in is : TRUE

Wrapped(s) == Len(s) > 2 /\ s[1].kind = "(" /\ s[Len(s)].kind = ")"
CallOf(s) == Len(s) > 3 /\ s[1].kind = "name" /\ Wrapped(Tail(s))
Inside(s) == SubSeq(s, 2, Len(s) - 1)

\* The tokens of a cast at the end of a value.
SuffixLength(s) ==
  LET CastEnds(n) == n > 3 /\ WordAt(s, n - 2, "cast") /\ WordAt(s, n - 1, "as") /\ TypeAt(s, n)
  IN  IF CastEnds(Len(s)) THEN 3
      ELSE IF CastEnds(Len(s) - 1) /\ s[Len(s)] = Token("op", "?") THEN 4 ELSE 0
Body(s) == SubSeq(s, 1, Len(s) - SuffixLength(s))
CastType(s) == s[Len(Body(s)) + 3].text

IsSimple(s) == /\ Len(s) = 1
               /\ \/ s[1].kind \in {"attr", "str"}
                  \/ s[1].kind = "num" /\ Number[s[1].text] # NoNumber
\* ValueExpr; the code also lets constructors and casts nest (wide).
RECURSIVE IsValue(_, _)
IsValue(s, wide) ==
  LET b == Body(s)
  IN  \/ IsSimple(b)
      \/ /\ CallOf(b) /\ b[1].text \in Builtin
         /\ IF wide THEN IsValue(Inside(Tail(b)), TRUE)
                    ELSE IsSimple(Inside(Tail(b))) /\ SuffixLength(s) = 0

RECURSIVE IsTest(_, _)
IsTest(s, wide) ==
  CASE Ors(s) # {} -> LET i == AnyOf(Ors(s)) IN IsTest(Before(s, i), wide) /\ IsTest(After(s, i), wide)
    [] Ors(s) = {} /\ Ands(s) # {} ->
         LET i == AnyOf(Ands(s)) IN IsTest(Before(s, i), wide) /\ IsTest(After(s, i), wide)
    [] OTHER -> \/ Wrapped(s) /\ IsTest(Inside(s), wide)
                \/ CallOf(s) /\ s[1].text = "not" /\ IsTest(Inside(Tail(s)), wide)
                \/ IsValue(s, wide)
                \/ \E i \in Comparators(s) : IsValue(Before(s, i), wide) /\ IsValue(After(s, i), wide)

RECURSIVE Reads(_, _)
Reads(s, attrs) ==
  LET b == Body(s)
      base == CASE b[1].kind = "attr" -> LookupAttr(attrs, b[1].text)
                [] b[1].kind = "str" -> TextAtom(b[1].text)
                [] b[1].kind = "num" -> NumberAtom(b[1].text)
                [] OTHER -> Cast(Reads(Inside(Tail(b)), attrs), b[1].text, FALSE)
  IN  IF SuffixLength(s) = 0 THEN base ELSE Cast(base, CastType(s), SuffixLength(s) = 4)

\* Both sides are numbers if one is, otherwise text; what is absent, or no
\* number where one is needed, makes a comparison false.
InOrder(m, n, op) == CASE op = "=" -> m = n [] op = "!=" -> m # n [] op = "<" -> m < n
                       [] op = "<=" -> m <= n [] op = ">" -> m > n [] op = ">=" -> m >= n
ReadsTrue(l, r, op) ==
  /\ {l.kind, r.kind} \subseteq {"text", "number"}
  /\ IF "number" \in {l.kind, r.kind}
       THEN {AsNumber(l), AsNumber(r)} \cap {NaN, NoNumber} = {} /\ InOrder(AsNumber(l), AsNumber(r), op)
       ELSE InOrder(Rank[l.text], Rank[r.text], op)

\* A cast of the test fails, wherever in it.
RECURSIVE Fails(_, _)
Fails(s, attrs) ==
  CASE Ors(s) \cup Ands(s) # {} ->
         LET i == AnyOf(IF Ors(s) # {} THEN Ors(s) ELSE Ands(s))
         IN  Fails(Before(s, i), attrs) \/ Fails(After(s, i), attrs)
    [] OTHER ->
         CASE Wrapped(s) -> Fails(Inside(s), attrs)
           [] CallOf(s) /\ s[1].text = "not" -> Fails(Inside(Tail(s)), attrs)
           [] Comparators(s) # {} ->
                LET i == AnyOf(Comparators(s))
                IN  Error \in {Reads(Before(s, i), attrs), Reads(After(s, i), attrs)}
           [] OTHER -> Reads(s, attrs) = Error

RECURSIVE Truth(_, _)
Truth(s, attrs) ==
  CASE Ors(s) # {} -> LET i == AnyOf(Ors(s)) IN Truth(Before(s, i), attrs) \/ Truth(After(s, i), attrs)
    [] Ors(s) = {} /\ Ands(s) # {} ->
         LET i == AnyOf(Ands(s)) IN Truth(Before(s, i), attrs) /\ Truth(After(s, i), attrs)
    [] OTHER ->
         CASE Wrapped(s) -> Truth(Inside(s), attrs)
           [] CallOf(s) /\ s[1].text = "not" -> ~Truth(Inside(Tail(s)), attrs)
           [] Comparators(s) # {} ->
                LET i == AnyOf(Comparators(s))
                IN  ReadsTrue(Reads(Before(s, i), attrs), Reads(After(s, i), attrs), s[i].text)
           [] OTHER -> ~Empty(Reads(s, attrs))

\* "A failed cast makes the test false."
IsTrue(s, attrs) == ~Fails(s, attrs) /\ Truth(s, attrs)

(* Where the code is known to differ from the documentation.               *)

\* A cast fails in a test with a not() or an "or", which may be true for it.
CastLost(s, attrs) ==
  Fails(s, attrs) /\ {Token("name", "not"), Token("name", "or")} \cap {s[i] : i \in DOMAIN s} # {}

\* A text that is NaN takes part.
MeetsNaN(s, attrs) ==
  \/ \E i \in DOMAIN s : s[i].kind \in {"str", "num"} /\ Number[s[i].text] = NaN
  \/ \E i \in DOMAIN s : /\ s[i].kind = "attr" /\ LookupAttr(attrs, s[i].text) # Absent
                         /\ Number[LookupAttr(attrs, s[i].text).text] = NaN
=============================================================================
