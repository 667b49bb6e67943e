# xml-validator: specifications

TLA+ specifications of the XML and XSD validator in this repository: how a
schema and everything it imports is loaded, how its types are derived and its
groups expanded, how its substitution groups are resolved, how an element gets
its type and has its attributes judged, how its children are matched against a
content model, how keys and key references are enforced, how the two XML
parsers treat elements and namespaces, how bytes become characters, and how a tree
is written and read back. TLC checks every module on small
instances; TLAPS proves the central properties of eight of them for every
instance.

Paths below are relative to the repository (`validator/...`, `reader/...`).

## 1. The system and its parts

A call of `ValidateWithSchemaResolver` (`validator/validator.go:51`) runs, in one
goroutine and in this order: the strict parser over the document, the tree parser
over the schema, schema loading, the tree parser over the document, validation.
The only code it does not own is the caller's `SchemaResolver`, called
back in the middle of the recursion.

| part | state it keeps | operations | what makes it correct |
|---|---|---|---|
| schema loading (`schema_parse.go`, `schema_import.go`, `schema_qname.go`, `schema_resolve.go`) | five tables of declarations per schema, the set `visited`, the recursion of `parseSchemaDoc`, pointers between declarations | parse a document, follow an import or include through the resolver, adopt a chameleon, merge, re-resolve | each reference followed once, cycles end, nothing lost, references end at declarations that are current |
| substitution groups (`schema_substitution.go`) | `heads`, the walk of the cycle test, the queue of the closure, `substitutes` in each declaration, across passes | link, check types, find cycles, close | the members of a head are exactly the elements below it; only faulty groups are rejected, in any map order |
| content matching (`schema_validate.go`) | position among the children, counts, `errors`, `elemDecls` | a matcher per particle, three for top-level models | what is accepted is admitted and validated; what is admitted is accepted where the model leaves no choice |
| identity constraints (`schema_identity.go`) | key tables, the stack of scopes, errors | register, build a table, check a keyref | keys unique and complete, references to the nearest key, no false alarm |
| strict parser (`parser.go`, `elements.go`, `namespace.go`) | position, stack of namespace scopes | elements, attributes, prolog | accepts exactly what is well-formed, with namespaces; scopes balanced |
| tree parser (`reader/tree.go`) | position, one map of prefixes per open element, the tree | the same document again, leniently | the tree is that of the document, with the namespaces the strict parser judged |
| type derivation, group expansion (`schema_derive.go`, `schema_resolve.go`) | base names, models and attribute lists of all types, the set of types visited, the stack of group names | fold a base into a type, expand group references, apply attribute groups, look up references | ends on cycles; each base folded once; models and attributes those of the whole chain, in any map order |
| conditional types (`schema_alternative*.go`) | a compiled expression per alternative | compile, evaluate on attributes | the first alternative whose test holds, read as the docs say |
| simple types (`schema_value.go`, `schema_facets.go`, `schema_builtin.go`) | none | text to verdict | agrees with XSD's lexical and value spaces |
| elements and attributes (`validateElement` to `validateAttributes`) | a map of the declarations not met yet, `attrDecls`, errors | choose the type, one pass over the attributes, the rest of the map | each attribute at fault reported and no other; required ones present |
| decoding (`reader/reader.go`, `encoding.go`, `version.go`, `chars.go`) | the slice of runes, normalised where it is | sniff encoding and version, decode, normalise line ends; the strict parser then reads the declaration itself | declared encoding and version honoured; nothing overwritten before it is read; refused only what is unreadable |
| writer (`writer/writer.go`) | the text written so far | `WriteDocument`, `WriteBinary`: tree or bytes to a document | it reads back as it was, here and elsewhere, in each encoding |
| command line, action, tools | none | choose an entry point | exit status |

Interactions. Loading calls the resolver and itself; it ends every document with
reference and group resolution, so a declaration that is imported goes through
resolution once with its own schema and again with each schema that merges it:
what one pass stores, the next finds. Derivation is part of that resolution and
runs in it for every schema. The type chosen for an element hands its
children to the matching, which calls back for each child. Matching records in `elemDecls` the
declaration of each child, which identity constraints read after the whole
document matched. The strict parser judges prefixes with a stack of scopes; the
tree parser assigns namespaces with copied maps; nothing but these two codes
agreeing keeps validation from seeing other names than were judged. Likewise the
declaration is read twice, by the sniffers from the raw bytes and by the strict parser
from the characters that the first reading made. The writer is the reader's other half
and is called by nothing here.

What is hard here. There are no threads, nothing is persisted and nothing is
retried. The hazards are of other kinds: re-entrant recursion through a callback
that may fail; state that outlives its pass; loops over Go maps in any order;
first-match and greedy choices whose side effects stay when they are given up;
scopes that must be balanced on many return paths; lookups by a weaker key than
the one a thing was stored under. `PROJECT.json` lists them at their lines.

## 2. The modules

| module | models | kind |
|---|---|---|
| `SchemaClosure` | what loading promises, whatever the order: ask only for what is named, succeed only when all was asked | abstract specification |
| `SchemaLoad` | `parseSchemaDoc`, `parseImport`, `parseInclude`, `mergeImportedSchema`, name lookups | detailed; implements `SchemaClosure` |
| `SchemaLoadProofs` | theorems about `SchemaLoad` | proofs |
| `Substitution` | `resolveSubstitutionGroups` and what it calls | detailed |
| `SubstitutionProofs` | theorems about `Substitution` | proofs |
| `Derivation` | `resolveSchemaRefs`, `resolveComplexTypeRefs`, `expandGroupRef`, `resolveDerivation`, `resolveAttrRef`, `resolveAlternatives` | detailed, checked against a definition of derivation over the schema as written |
| `DerivationProofs` | theorems about `Derivation` | proofs |
| `Condition` | `compileTest` and the evaluation of what it compiles; beside it the grammar and the reading of `docs/conditional-types.md` | pure operators, used by `Element` |
| `Element` | `resolveAlternatives` (the tests), `chooseType`, `validateElement`, `validateSimpleElement`, `validateComplexElement`, `validateAttributes` | detailed, checked against the documented reading of tests and a declarative definition of the attributes at fault |
| `ContentMatch` | `validateContentModel` and what it calls | detailed, checked against a declarative definition of a content model |
| `ContentMatchProofs` | theorems about `ContentMatch` | proofs |
| `Identity` | `checkIdentity` and constraint registration | detailed, checked against a declarative definition of the constraints |
| `IdentityProofs` | theorems about `Identity` | proofs |
| `XmlParse` | both parsers, one after the other | detailed, checked against positional definitions of well-formedness and namespaces |
| `XmlParseProofs` | theorems about `XmlParse` | proofs |
| `Characters` | the classes of `chars.go`, line ends, UTF-8 | operators, used by the next two |
| `Decoding` | `reader.Decode` and what it calls, the strict parser's reading of the declaration and its tests of characters | detailed, checked against the declaration as written |
| `DecodingProofs` | theorems about `Decoding` | proofs |
| `Writer` | `WriteDocument`, `WriteBinary` and what they call, and the reading back | detailed, checked against the tree that was given |
| `WriterProofs` | theorems about `Writer` | proofs |
| `MC...` | document sets, declaration sets, models and trees for TLC | instances |

How they correspond to the code:

* **SchemaLoad.** `stack` is the Go call stack, one frame per `parseSchemaDoc` in
  progress with the child it is at (`pc`) and its tables (`decls`). `visited` is
  the map all frames share. Each child of a schema root is one step: `Declare`,
  `SkipImport`, `RejectReference`, `AlreadyVisited`, and for a call of the resolver
  one step per answer (`ResolverFails`, `ResolverHasNone`,
  `ResolverReturnsDocument`). The end of a document resolves it (`Resolved`:
  every reference of `links` is looked up, with the prefixes of the document whose
  pass it is) and returns to the caller (`ReturnImport`, `ReturnInclude`, which
  adopt and merge) in the same step. `fetched` and `loaded` are history. The
  answer of the resolver is chosen anew at every call. Documents are
  variables chosen by `Init`, so one run covers all of a family.
* **Substitution.** One action per round of each loop; the three loops over maps
  take any element still in `todo`. `passes` are the schemas whose pass it is, an
  imported and then an importing one over the same declarations, each with its elements
  and their keys, its prefixes, the types and bases it has found and what it refuses. So
  the head of a member is looked up anew in each pass (`HeadOf`), and what an earlier pass
  stored in `substitutes` stays. The walk of `typeDerivesFrom` and its limit are modelled.
* **Derivation.** `stack` is the Go call stack, frames of `resolveComplexTypeRefs` and
  `resolveElementType`; a frame's `phase` is how far it is. The two loops of
  `resolveSchemaRefs` take any element of `elements` and any type of `types` that is
  left. `seen` is the set `resolving`, one per level, since `resolveAlternatives`
  starts a new one. A content model is the list of its tokens, brackets included,
  so that expanding a group in place is replacing one token. `schema` is
  chosen by `Init` and never changes; `base`, `content`, `attrs` and the rest are the
  mutable copies. `pass` resolves the schema a second time, as a document that
  includes it does. `Overflow` stands for the goroutine stack running out.
* **Element.** One action per iteration: a test compiled, an alternative tried, an attribute
  visited, a missing one taken from the map in any order. `declared` is the map of
  `validateAttributes`, `recorded` is `sv.attrDecls`. A test is a sequence of tokens;
  `CompileTest` follows the recursive descent, rule by rule and position by position, while the reading
  it is compared with (`IsTest`, `IsTrue`) splits a test at its outermost operator.
* **ContentMatch.** The loop of the top-level model is the state machine, one
  action per round. What it calls for a particle is evaluated by operators that
  return consumption, error, and the effects that stay (`Result`). A model is the list of its
  particles, items before their group, so that what a group matches is a function of
  what earlier particles match (`Match`), and so is the definition it is compared with
  (`Ends`: the positions some choice of branches and repetitions reaches). A child is a name
  and a flag that says whether `validateElement` finds fault in it. An all group may stand
  anywhere in a model, as a reference to a group puts it there; `Match` has, like
  `matchParticle`, no case for one and matches nothing, while `Ends` knows what it means.
* **Identity.** Nodes are numbered in document order, which is the order of
  `checkIdentity`'s recursion; `scopes[n]` is the slice passed to the children of
  node n. A step handles one constraint of one node. A value carries the value space of its
  type, its number and its text, and the branch of `identityValueKey` its type takes: the
  code keys by number or by text (`ValueKey`), the definition of a constraint compares in
  the value space (`SameValue`). Registration knows schemas and not only namespaces, since an
  included schema keeps its own table of constraints.
* **XmlParse.** The input is a sequence of tokens, what one round of the parsers'
  loops consumes; `open` and `nsStack` are the recursion and scopes of the strict
  parser, `frames` those of the tree parser. `garbage` is any character sequence
  the strict parser's lexical rules refuse; the tree parser may refuse it or read on.
* **Decoding.** A document is its declaration, as values and the positions where they end,
  and the bytes of its body. One action per rune for the decoder, one per round for
  the normalisation; `input`, `at` and `written` are the slice and the two indices of
  `normalizeLineEndings`. The byte decoder cannot fail and is one step. The encoding
  "other" is any name the validator does not know: the sniffer reads such a document as
  UTF-8, to the reference it is an error.
* **Writer.** One action per node written, one for `emit`, one per tag or run of
  characters read. `stack` is the recursion of `writeElement`, `open` that of
  `parseElement`. A character in the output is literal, entity or reference; `emit`
  turns literals and names into bytes, and what is read is decoded from these bytes with
  the encoding the document declares. A Go tree is finite: `Height` is its measure, which no
  action reads. A text node is nothing but its content (`WriterAssumption`), as a
  `CharData` is. An element has its own namespace declarations beside its attributes,
  as in the Go tree; `writeElement` writes the attributes only, and the reader makes
  declarations of the attributes it finds named `xmlns` or `xmlns:p` (`Element`).

### Abstractions

Names, prefixes, types and values are members of small sets, never text. Error
messages, positions and the choice of the first error are left out. In
particular: names in tokens are lexically valid (including `validateQName`), and
text, references and CDATA are one token; node names in Identity have no
namespace, and a path is compiled; in SchemaLoad a declaration is
its table, name and references, and how its inside is parsed is left out; in
Substitution the types and bases a pass has found are given with it; in Derivation simple content is the
trait `text`, and names are resolved; in Element a type is a table of the texts it
accepts, a text has a number and a place in the order of strings, attribute names in
tests have no prefix, and the tokenizer's work is done. In Decoding an encoding's aliases
are one value; in Writer tags and references are symbols, the declarations of an
element stand for all that follows from them (prefixes and namespaces of the names), and
Base64 and hex text is one symbol.

## 3. The runs

Every run is finite and complete: TLC visits all reachable states. The modules with
proofs state a type invariant, on which these rest; the others state none. Deadlock
checking is on everywhere; a finished computation stutters (`Done`).

| run | instance | shows |
|---|---|---|
| `SchemaLoad` | three locations; all graphs with up to two references in two documents and one in the third, imports and includes, every resolver answer; and three documents in up to three namespaces whose bodies mix declarations, references, imports and includes in both orders | `TypeOK`, `FetchedOnce`, `NoReentry`, `MergeDropsNothing`, `LinksCurrent`, `IncludesShareNamespace`, `Progress`, `Termination` and the refinement `ClosureSpec` |
| `Substitution` | all group shapes of four elements; three elements with types, absent types, blocks, one or two passes; two passes that bind the members' prefixes to different namespaces, or add elements | `TypeOK`, `ClosesOnce`, `GroupsSound`, `RejectsOnlyFaults`, `Termination` |
| `SubstitutionAbsent` | three elements with absent types | violated: nil dereference (finding) |
| `ContentMatch` | sequences, choices and all groups of two particles, the first perhaps a group of two; all groups, alone and put into a sequence or a choice by a reference; every particle kind and occurrence range; up to three children, four of the plain ones | `Sound`, `Complete` |
| `Derivation` | three named types and an anonymous one: all chains and circles of bases with models that refer back to any type, conditional types, three named groups that refer to each other, five attribute declarations stated, restated, prohibited and referred to; two passes | `TypeOK`, `PlainRecursionEnds`, `FoldedOnce`, `ChainInherited`, `GroupsWrittenOut`, `PlainAttrsInherited`, `RefusesFaults`, `SecondPassIdle`, `Termination` |
| `DerivationTerminates` | the conditional types alone | violated: the stack is exhausted (finding) |
| `Element` | every test of up to five tokens of eight kinds, and of four of seven more; 1380 values and comparisons with casts and constructors, some thousand combinations of three conditions; attributes absent or with each of six values; chains of two alternatives; eight complex types with every list of up to three of eleven attributes | `TypeAsDocumented`, `ElementJudged` |
| `Identity` | a root, two groups with an item and a reference each; keys and keyrefs on root, groups or both; one or two fields; flat documents with awkward values, also with keyrefs of another number of fields than the key; values in several spellings and value spaces; two schemas, one imported or included | `KeysEnforced`, `KeyrefsEnforced`, `RejectsOnlyBroken` |
| `IdentityImported` | the constraints of an imported schema | violated: its keyrefs never resolve (finding) |
| `Decoding` | fourteen kinds of declaration (none, each version and encoding, an encoding of another name, ends at, within and past byte 256, an instruction in place of a declaration), instance and schema, text and CDATA; bodies of up to two bytes of nine kinds, up to three characters of six, four of the line ends, and the edges of every rule | `TypeOK`, `UnreadKept`, `ReadAsDeclared` |
| `Writer` | every text and attribute value of up to two characters of twenty kinds and three of six; elements of up to three children of nine kinds, two levels; trees with namespace declarations, and with attributes that look like one; every encoding; payloads of every byte, of two of twelve kinds, of three of six; names with a character beyond U+00FF | `RoundTrip`, `FailsOnlyForNames`, `AnyReaderAgrees` |
| `XmlParse` | all sequences of up to four tokens of seven kinds (three of ten); trees of four elements with all mixes of declarations and prefixes, the two reserved namespaces and the prefix `xmlns` among them; versions 1.0 and 1.1; instance and schema | `TypeOK`, `ScopesBalanced`, `DocumentsJudged`, `TreeFaithful` |

Why the bounds are enough. Three documents are the least with a
diamond, a cycle that does not pass through the top, and an include reached on two
ways; a fourth only repeats these. Four elements have a chain
beside a cycle, a tail that two chains share and a cycle no head belongs to. Two
particles with a nested group of two, and one child more than they take, reach
every branch of the matchers: a repetition that stops, one that consumes nothing,
a branch given up after it consumed, a maximum exceeded. Two groups are the
least with a sibling whose key must not be seen. Four tokens suffice for a
mismatch below the root; the trees have a declaration at two depths and a later
sibling that must not see the inner one. `Precision` is 4 in place of 2^53, so that
two integers a float64 mixes up are in the instance. Three named types are the least
in which a type, its base and an ancestor differ and a model refers from each to each;
the anonymous one is reached only through an element. Five tokens hold every
construct of a test but a cast inside a comparison, three conditions every precedence
of `and`, `or`, `not` and parentheses; both are in the longer families. `MaxDepth` is 9 in
`Derivation`, more than four types can stack without conditional types. `MaxChain` is 2 in place of
100, `MaxDepth` one more than the keys need. Line ends are told by two neighbours and the
in-place normalisation by how many pairs came before, so bodies of four line ends have
every state of its two indices; UTF-8 forms are broken at each length. What the
writer and its reader do to a character depends on that character and its
neighbours, so two of every kind and three of the kinds that combine suffice.

What the properties leave open, on purpose:

* `MergeDropsNothing` requires that documents declare before they refer, once per
  name, in a namespace; without this it is false (below).
* `Complete` holds for models in which a greedy match cannot go wrong (no two
  particles take the same child, no inner group can match nothing, no repetition inside a
  repetition) and for children that are not taken for an abstract element, for which a
  local name is enough (`Usable`); outside, a model may reject what it admits, which greedy
  matching implies. A minimum below zero leaves as much open as zero does (`Emptiable`).
  What `Sound` says of admission holds except for the occurrence counts nobody reads, for
  all groups in which two elements have one local name (`EnforcedOccurs`), and for an all
  group inside another group; neither does `Complete` hold there (`AllOutermost`, below).
  That what is accepted was validated holds of every model.
* `GroupsSound` always has every element below a head among its substitutes. That there is
  no other needs `HeadsStay`: no earlier schema found a head that the last one does not
  find for the same element.
* `KeysEnforced` holds for values that are spelled as the code compares them
  (`SpelledAlike`), `KeyrefsEnforced` for values that the key tells apart and the
  constraints of one schema (`ExactValues`, `OneSchema`), `RejectsOnlyBroken` for all of
  these and fields whose alternatives select different nodes (`FieldsApart`).
* The first half of `ChainInherited` holds when no ancestor of a type's base leads back to
  the type, `PlainAttrsInherited` moreover when a derived type does not state a reference
  to a global attribute; what is outside is listed below. The second half of
  `ChainInherited` holds always: what is missing is a whole upper part of the chain.
* `TypeAsDocumented` reads a test as the documentation does, where a failed cast makes the
  whole test false. It excepts the tests in which the code differs: a failed cast under
  `not()` or beside an `or` (`CastLost`), the empty test (`EmptyTests`) and texts that are
  NaN (`MeetsNaN`). It lets the parser accept nested constructors and casts, which the
  documented grammar has not.
* `ReadAsDeclared` holds for documents whose declaration ends in the window, version before
  encoding, and that do not begin with an instruction which names the byte mode
  (`Sniffable`), and for schemas whose declaration is right (`DeclarationExamined`). That an
  accepted document has no forbidden character is said of those whose characters are
  looked at: instances, and the restricted characters in text only (`CharactersExamined`).
* `RoundTrip` compares with an equal tree, neighbouring texts joined and empty ones left out
  (`Joined`), for trees without namespace declarations and without attributes that
  look like one (`Undeclared`). Of every other tree it says that what is written can be
  read.
* `DocumentsJudged` has the rules about the reserved namespaces in its definition of what
  is right, and holds of what is accepted when none of them is broken (`Unreserved`). What
  is refused is wrong in every case.
* `TreeFaithful` leaves the prefixes `xml` and `xmlns` out: the tree parser gives them no
  namespace.

### Fairness

A load runs in one goroutine that does not wait for anything but the resolver, so a
step that can be taken is taken: `WF_vars(Step)` for `SchemaLoad`, `Substitution` and `Derivation`.
The resolver is assumed to return. The other modules state no liveness
property: each of their steps consumes a child, a constraint, an attribute, a token, a
character or a symbol, and deadlock checking shows that none gets stuck.

## 4. Findings

1. **Absent type** (`SubstitutionAbsent`): `declaredType` wraps a nil `*BuiltinType`,
   and the check that should stay quiet dereferences it.
2. **Recursion without end** (`DerivationTerminates`): `resolveAlternatives` starts a new set
   of visited types, so an element whose conditional type holds the element again
   is resolved inside itself until the stack is exhausted.
3. **Imported keyrefs** (`IdentityImported`): key tables are stored under the namespace
   of the validating schema and looked up under that of the imported one.

Divergences that have no run of their own; the properties above name them in their
conditions where they touch one:

* Loading: a global declaration after an import or include replaces the merged one of the
  same name (`schema_parse.go:64`), although the comment of `mergeImportedSchema`
  (`schema_import.go:138-141`) calls a second definition a hard error; the second includer of a chameleon gets nothing, since an include is
  remembered by location alone (`schema_import.go:57`, against the comment at `:81-83`);
  references inside an imported type are looked up again with the importer's
  prefixes (`schema_resolve.go:187`); a chameleon include stamps also what it imported
  itself (`schema_import.go:86`); a schema document is never given to the strict parser
  (`validator.go:61`).
* Substitution: a group is resolved again by every schema that imports it, with that
  schema's `blockDefault` (`schema_substitution.go:90`), prefixes and target namespace
  (`:26-29`), though the attribute belongs to the document it was written in
  (`docs/substitution-groups.md:3`). The member may move to a head of another namespace,
  while its first head keeps it as a substitute if the later pass does not close that head
  again (`HeadsStay`).
* Derivation: when a type is reached from an element of its base's ancestor, the base is
  being resolved already and its content is copied before it has what it inherits
  (`schema_derive.go:103`, against the comment at `:76-80`); which schemas are hit depends on map
  order; an attribute stated as a reference has no name yet when a derived type is
  compared with its base, so a reference neither restates nor prohibits what is
  inherited (`schema_derive.go:129`); a circular derivation of complex types is accepted in
  silence; an attribute group that only the including document declares is dropped in the
  first pass (`schema_resolve.go:148`); references inside an attribute group are
  not read (`schema_parse.go:474-497`); an element of an unknown type keeps none, and nothing
  below it is checked (`schema_resolve.go:115`).
* Conditional types: a failed cast makes only the comparison around it false, so that a test
  with a `not` or an `or` may be true all the same (`schema_alternative_expr.go:29`, `:51`,
  against `docs/conditional-types.md:36`; excepted by `CastLost`); `test=""` is no test
  (`schema_alternative.go:38`, `:95`, against `docs/conditional-types.md:25`; `EmptyTests`);
  NaN equals every
  number (`:97`); nested constructors and casts compile, although a test outside the
  grammar is said to be a hard error (`docs/conditional-types.md:25`); `@*`, which the grammar
  has, does not; `@a` finds an attribute of that local name in any namespace.
* Elements: a simple-typed element's attributes are not looked at
  (`schema_validate.go:95`); a declared attribute of the XML namespace is always skipped,
  and so always missing when required (`:162`); a required attribute that differs from its
  fixed value is reported as missing as well (`:177`); text in element-only content
  is noticed and not reported (`:131`).
* Content: a child matched by a wildcard may be abstract (`:521`, against
  `docs/substitution-groups.md:11`); a particle matches by local name in any namespace
  (`schema_substitution.go:207`, against the comment at `schema_validate.go:45-46`);
  `minOccurs`/`maxOccurs` of an outermost sequence or all group are ignored, and the minimum
  of an outermost choice when all children are consumed (`:235`, `:266`, `:300`);
  two elements of an all group with one local name share a count, so one child can meet
  both their minima (`:344`, `:358`). An all group that is declared in a named group stands,
  at the reference, in a sequence or a choice (`schema_parse.go:253-258`, `:390-395`,
  `:463-468`; `schema_derive.go:64-73`), where written directly it would be refused;
  `matchParticle` has no case for it (`schema_validate.go:372-384`), so that a required child
  that is missing goes unnoticed and one that is there is reported as unexpected
  (`AllOutermost`).
* Identity: a field without value hides a later field with two
  (`schema_identity.go:269`). Values are compared as `identityValueKey` spells them
  (`:324-350`), not in their value space (`docs/identity-constraints.md:29`): only numbers of
  a plain simple type and booleans are normalised, and in simple content, lists and unions,
  for dates and binary values the text is the key, so that `01` repeats no `1` and refers to
  none, and neither does `-0` to `0` (`SpelledAlike`); integers from 2^53 on share a key
  with their neighbours, and a text with U+0000 can pass for two fields
  (`ExactValues`). A node that two alternatives of a field select counts twice
  (`:283`; `FieldsApart`). An included schema keeps its own constraints
  (`schema_resolve.go:66-98`), so a keyref cannot name a key of a document it includes, and
  two included documents may use one name (`OneSchema`).
* Decoding: encoding and version are sniffed in the first 256 bytes, and a declaration that
  ends later is accepted by the strict parser and not obeyed (`encoding.go:52`); the sniffer
  takes any beginning `<?xml` for the declaration, `<?xml-stylesheet encoding="..."?>` too
  (`encoding.go:57`; both against `docs/encodings.md:3`); restricted characters stand literally in CDATA
  sections, comments and instructions (`elements.go:275`, against `docs/encodings.md:16`;
  `CharactersExamined`); a schema that declares an encoding of another name is read as UTF-8,
  and one that declares another version or holds forbidden characters is read as well; only
  the strict parser, which schemas are never given to, refuses them
  (`encoding.go:78-88`, against `docs/encodings.md:12`; `DeclarationExamined`).
* Writer: `writeElement` writes `Attrs`, and a tree that was read has its namespace
  declarations in `Namespaces` only, so `<a xmlns="u"/>` is written as `<a/>`
  (`writer.go:134`, against the comment at `:52-53`); an attribute of a tree built by hand
  that is named `xmlns` is written, and comes back as a declaration
  (`reader/tree.go:202-217`). `Undeclared` excludes both.
* Strict parser: a prefix other than `xml`, or no prefix, may be bound to the namespaces
  reserved for `xml` and `xmlns`, and an element may have the prefix `xmlns`
  (`namespace.go:58-64`, `elements.go:130-147`; `Unreserved`).
* Tree parser: the prefix `xml` has no namespace (`reader/tree.go:222`, `:239`), unlike in
  the strict parser.

## 5. The proofs

All theorems hold for every value of the constants that satisfies the named
assumptions of the modules (`LoadAssumption`, `CorporaAssumption`,
`DepthAssumption`, `SubstitutionAssumption`, `DeclarationsAssumption`,
`DerivationAssumption`, `ContentAssumption`, `IdentityAssumption`, `XmlParseAssumption`,
`DecodingAssumption`, `WriterAssumption`).

* **SchemaLoad.** `TypeCorrect`; `ResolverCalledOnce` (`FetchedOnce`); `NeverReentered`
  (`NoReentry`); `RecursionBounded`; `AlwaysProgresses` (`Progress`);
  `LoadImplementsClosure` (`ClosureSpec`). None of these is inductive alone. `TypeInv`
  adds that every frame's document exists. `VisitedInv` says that the keys
  of the frames below the outermost are visited and distinct and that a key was
  fetched only if visited, exactly once; with it a call of the resolver on an
  unvisited key can neither fetch twice nor re-enter, and the depth is bounded by the
  number of keys. `FollowedInv` says that every loaded document is on the stack and
  followed up to its `pc`, or was left and followed to the end; at `Finish` nothing is
  left to ask, which is what `SchemaClosure` demands of a success. The refinement
  maps each step to `Ask`, `Fail`, `Finish` or a stutter.
  `OneNamespace` (`IncludesShareNamespace`), `ReferencesCurrent` (`LinksCurrent`) and
  `NothingLost` (`MergeDropsNothing`) are about what the load has merged. `CallersWait`
  says that a call with another on top is at a reference. `FramesShareNamespace`: every
  frame of a load that only includes holds declarations of the top-level namespace (or
  of none, inside a chameleon). The last pass looks up every reference that is
  re-linked in the schema it returns (`PassRelinks`), so nothing of an earlier pass has
  to be remembered. `MergeInv`, for documents that declare before they refer and nothing
  twice: a call holds its own declarations up to its `pc`, and no others before its
  first reference; what a document that was left declares is held by a call still in
  progress.
* **Substitution.** `TypeCorrect`; `SubstitutesClosed` (`ClosesOnce`): the queue algorithm
  computes the least closed set, each member once, for any groups, also circular ones.
  `CloseInv` is the loop invariant: what is out is what is seen; the members of the
  head and of everything out are out or queued; and every closed set contains both.
  `GroupsAlwaysSound` (`GroupsSound`) and `NoSoundGroupRejected`
  (`RejectsOnlyFaults`): `LinkInv` (the heads have exactly the linked members, each
  checked), `CheckInv` (nothing on the path of a walk forgets what is above it, so a
  circle closes on its first element; a head that was walked is not circular) and
  `StoreInv` (a head that was closed in this pass has what is below it; a
  head with substitutes has been the head of some element in this or an earlier pass). The
  links are those of the pass in progress throughout. A head the last pass links to has exactly what is below it without any
  condition, since a pass replaces the whole list; `HeadsStay` is used only for a head it
  links to no more: no element found that head earlier either, so its list is empty.
* **Derivation.** `TypeCorrect`; `BaseFoldedOnce` (`FoldedOnce`); `PlainResolutionTerminates`
  (`PlainRecursionEnds`). `TypeInv` adds to `TypeOK` that every frame's level has a set of
  visited types, in growing order, and that a type about to be folded has a complex base.
  `FoldInv` says why one fold is all: the base name is cleared before the base is
  resolved, so a type that was folded, or waits for its base on the stack, has none; and
  no type waits twice. Nothing sets a name again, not even the second pass. For
  termination, `PlainShape` holds as long as no element has a conditional type: there is
  one set of visited types, the types on the stack are pairwise different and all
  in it, and an element is on top only. A stack of different members of `Type` is no
  longer than `Cardinality(Type)` and one element (an injection into a finite set), so
  that `MaxDepth` is never reached.
  `SecondPassChangesNothing` (`SecondPassIdle`), from `ResolveInv`: some set V holds the
  types visited so far, and a visited type is finished (no base, no group and no
  attribute group left, all its elements lead into V) or is still on the stack,
  where the phase of its call tells what lies behind it (`TypeCall`); an element call has
  visited the alternatives it no longer calls (`ElementCall`). Two things make it hold in
  spite of re-entry: a base is folded only by the outermost call for its type
  (`FoldsOutermost`), and a call that is walking a model sees it change no more, since by
  then nothing is left to fold or expand (`Quiet`). At the end of the first pass the
  stack is empty, so V is finished and holds every named type and whatever an element
  leads to; the second pass starts inside V and never leaves it. An element that is not
  linked leads nowhere, so the argument needs `InPlaceLinked`: what is written in place is
  linked wherever the element is copied to. This rests on the last conjunct but one of
  `DerivationAssumption` (`InPlace`), which is what the parse guarantees
  (`schema_parse.go:194`, `:200`). `AcceptedIsResolved` is what the same invariant says of a
  schema that is accepted: its named types, and all that their elements lead to, have no
  base, group or attribute group left to resolve and refer to nothing undeclared. It is the
  half of `RefusesFaults` about what is accepted, read off the resolved types; `Sources`
  and `AttrSources`, below, carry it to the schema as written.
  `GroupsWrittenInPlace` (`GroupsWrittenOut`): the code replaces one reference at a time, in
  place, while the definition (`WrittenOut`) is a recursion over the groups. `Expanded`
  writes out what a model still refers to, each reference at the level that is left to it:
  the number of groups minus those in whose copy it stands. `Spread` is the model of a type
  so completed. No step but a fold changes it (`SpreadStep`): a reference replaced by its
  copy is worth what it was worth before (`ExpandedKept`), since the groups on the `path`
  are exactly those in whose copy the reference is (`FreshPaths`) and the copy stands one level
  below. The groups on a path are pairwise different, so that the levels suffice. At the
  end no reference is left and `Spread` is the model (`NothingToSpread`).
  `OnlyFaultsRefused` (`RefusesFaults`): whatever a step trips over in the types as resolved
  so far has to be found in the schema as written. `Sources` says that every leaf of `Spread` is
  one of some type's own model, that a type's own are never lost, and that a type with a
  model, or with an "all", has it from itself or from an ancestor (`AncestorsOfBase`, from
  the closure in `GrowingEnds`: a set that grows in every round but the last is complete
  after as many rounds as there are types). While nothing is folded into a type, `Spread` is
  its own model; a type about to be folded is in that state (`FoldInv`), so an "all"
  that cannot be extended is one of the chain (`FoldFault`). `AttrSources` says the same of
  attributes, where those of the groups still to be applied are not lost either. A
  reference that is refused within its own group needs `Nested`: for two groups g and h, h
  in the copy of g, each level that writes out g writes out h in a lower one
  (`NeedsFirst`, a relation that is transitive); so a group within itself is written
  out in none (`NeverWrittenOut`), and the reference is left in `Spread` for `Sources` to
  trace (`RefusedGroup`). `TypeInv` has the domain of the attribute lists as well
  (`AttrsTyped`), which `TypeOK` leaves out.
  `ChainIsInherited` (`ChainInherited`): the elements of a type are at all times those of its
  ancestors up to some level no higher than the number of folds so far, and, when the types are
  not `Tangled`, those of all of them in a type whose base was folded (`Chains`; `Spread`
  again, so that references not yet replaced count as what they stand for). A fold takes
  the base as it is just then, and puts it before or in place of the type's own
  (`InheritsFromBase`, `InheritsNothing`); each type is folded once, so that the levels
  suffice. What has to be shown is that the base is complete when it is taken. A
  call leads to every call above it on the stack, and one that waits for its base leads
  there through that base (`Below`; `Reached` is closed, by the argument of `GrowingEnds`), a
  type whose base name was cleared has had it folded or is waiting for it (`Folding`), and a
  waiting call at the top has a base whose own name was cleared (`Came`). So a base that is
  itself still waiting when it is taken is lower on the stack, and the ancestor it waits for
  leads back to it through the type: the types are `Tangled`. Otherwise the base has been folded
  (`BaseWasFolded`), and has its whole chain.
* **ContentMatch.** `AcceptedIsAdmitted` (`Sound`), for content models of any depth, with all
  groups anywhere in them, and any children. Both what a particle matches and what the model admits are recursive
  functions of the particle's number; `MatchUnfolds` and `EndsUnfolds` let their defining
  equations be used (by `RecursiveFunction`, as in Identity), and `ItemsUnfold`,
  `RoundsUnfold`, `ChainedUnfolds` and `TimesUnfolds` do so for the loops over
  items and repetitions. `MatchRight` is the core: a match without errors has
  validated all it consumed (`Checked`) and ends where the particle can by definition
  (`Reaches`; this half if no all group is inside it, while the other needs no condition),
  particle after particle and, in it, round after round (`ItemsRight`,
  `LongestRight`, `RoundsRight`); `RoundsRight` also says that every round but the last takes
  a child, so that the loop ends within the children there are and an unbounded
  particle repeats no more often than `Counts` allows. `MatchInv`
  then says of the loop over the top-level model: without an error so far, the children
  consumed are validated, and are what the items passed can take (`SequenceFollowed`),
  what so many repetitions can (`ChoiceRepeated`), or given to the slots whose counts
  they are (`AllPlaced`, with an assignment of children to slots as witness).
  `Sound` is not inductive: it says nothing until the loop has ended. `MatchInvariant` is the
  theorem of that invariant.

  `AdmittedIsAccepted` (`Complete`), for the models in which no choice is open, is the converse, and
  harder: that what is admitted can be matched says little of what a greedy loop
  does match. The model is a tree (`Distinct`), so no two items of a group have a leaf in
  common, and a child is caught by a leaf of one of them at most (`Siblings`, `CaughtApart`).
  From this follows, particle after particle, that each is `Determined`: at a child
  that no leaf of it catches it matches nothing, and at any other it ends wherever the definition lets
  it end if the next child is not caught, or if nothing in it is repeated and it begins
  again there (`AllOutermost` is a hypothesis of all of this). A sequence goes along the way that the definition goes (`SequenceExact`), a
  choice takes the one branch that catches the child and no other takes any (`ChoiceTakes`), and
  the loop over repetitions stops neither before nor after the last (`RoundsGo`). The invariant
  `Follows` then says of the loop over the top-level model that it is, without an error, on
  every way in which the model admits the children (`ModelWay`, `RepeatedWay`, and for an all
  group `AllWay`, with `counts` the children given so far); `FollowsEveryWay` is its theorem. It is
  inductive only together with `MatchInv`, and `Complete` follows, since what is admitted has a way
  (`AdmittedWay`).
* **Identity.** `KeysAlwaysEnforced` (`KeysEnforced`), `KeyrefsAlwaysEnforced`
  (`KeyrefsEnforced`), `OnlyBrokenRejected` (`RejectsOnlyBroken`), for every document,
  every set of constraints and every precision. Three lemmas come first. `JoinedApart`:
  joining keys with NUL is one-to-one when no key begins like another with a NUL where
  that ends (`ApartAtNUL`), which is why values have to be `Exact` and why a text with a
  NUL can forge a tuple. `SingleSelected` and `SingleValue`: `fieldValue` counts what the
  alternatives of a field find, the definition of a key counts nodes; they agree upwards
  always and downwards for `FieldsApart`. Two values have one key exactly if they are the
  same in their value space, in one direction for `SpelledAlike` and in the other for
  `ExactValues`; that is where these conditions are used. `HostsOfParent`: the nearest element with a key
  is the element itself or the one of its parent. `IdentityInv` then says that the scope
  in progress has the tables of the constraints passed (`ScopeBuilt`), that the scopes of
  an element entered give for every name the table of the nearest key (`ScopesRight`),
  that all constraints passed hold while there is no error (`KeysHold`, `RefsHold`), and
  that an error means a broken constraint (`ErrorsRight`). `JoinedApart` and the
  selections reason about recursive functions: `RecursiveFunction` shows that a function
  whose values are made of earlier ones exists (by a least counterexample, no induction
  theorem), so that its defining equation may be used.
* **XmlParse.** `TypeCorrect` and `ScopesInStep` (`ScopesBalanced`), from `TypeInv`: both
  stacks are sequences of the same length, and a frame of the tree parser points at
  an element that is built. `DocumentsRightlyJudged` (`DocumentsJudged`) and
  `TreeAlwaysFaithful` (`TreeFaithful`), for documents of any length, from `ParseInv`: the
  stack of either parser is the set of the start tags that enclose the token it is at,
  in order (`StrictInv`, `TreeInv`), so that the top of `nsStack` answers every prefix as
  the nearest enclosing declaration does; `Judged` says that what was passed is
  well-formed, and `TreeFresh` that the tree parser starts from nothing. `NamespacesRight` has rules the strict
  parser does not know; `TagChecked` is what it does check of a tag, and the same as the
  definition for a document that is `Unreserved` (`NamespacesChecked`). Enclosing tags
  and depth are defined by counting tokens, not by a stack.
* **Decoding.** `TypeCorrect` and `InPlace` (`UnreadKept`). `IInv` is both
  and that no index moves before the decoders run; each round of the normalisation reads one
  or two characters and writes one, so the index written never passes the index read.
  `Declared` (`ReadAsDeclared`), for bodies of any length and content and every declaration
  that is `Sniffable`, in a schema also right, from `DecInv`. The reference reads a body without the decoder's loop:
  a character runs from a byte that is no trail byte to the next such byte, and each run
  must be the UTF-8 of the scalar it adds up to (`IsUtf8`). `Decoded` says that the bytes read
  so far mean the runes decoded, or that the decoder stands on a trail byte, where the body
  cannot be UTF-8; that second case is needed since `utf8.DecodeRune` takes the bytes its
  first byte announces and leaves what follows them to the next round (`NotSound`: the run
  is then longer than announced and is no character). Where no character is found, none
  can stand there (`SoundRune`, from `Utf8Back`). `Normalised` says that the characters written are
  the text read without the second halves of its pairs, and that the next one read is
  none of those; it needs that no character is a CR and a follower of a CR (`PairsApart`).
  Then phase by phase: the text is `Meant` by the sniffed encoding, and `Normal` for the sniffed
  version, which `SniffsRight` makes the declared ones. An encoding of another name is read as UTF-8 up to
  the strict parser's look at the declaration, which no accepted instance has passed with it
  (`Passed`).
* **Writer.** `AgreedByAll` (`AnyReaderAgrees`). `IInv` says that while the document is written
  it is a sequence of symbols agreed on, and that the elements on the stack are elements
  of the trees; `escape` makes only such symbols (`CharAgreed`, by cases over its
  conditions in order), and `emit` is the first step to change them. `OnlyNamesFail`
  (`FailsOnlyForNames`), from `NamesInv`: the names written so far, with those of the nodes
  still to be written, are the names of the job, and text and values hold no wide literal in
  byte mode. `NodesOf` is recursive over trees; it exists because `Height` makes trees finite
  (`Solved`, by `TreeInduction`), so that its defining equation may be used.
  `AlwaysReadBack` (`RoundTrip`), for all trees and payloads in every encoding, from
  `ReadInv`, which says what the reader makes of any tree (`Returned`: without the
  declarations, and with those its attributes look like). `UndeclaredReturned` shows that
  this is `Joined`, an equal tree, when there are neither. Four layers:
  * *Bytes.* `Utf8Back`: where a character's bytes stand, that character is decoded and no
    other, and inside them none begins (`NoRune`). `Laid` says where each piece of a
    concatenation ends; `ReadBack`: bytes that are laid out as the spellings of characters
    without line ends are decoded as these characters, uniquely, and folding changes none.
    Decoder and normalisation are recursive over the text; their recursions have one
    solution (`StepsSolved`, `Unfolded`).
  * *Writing.* A `Trace` of a document says what the reader will have after each symbol:
    what is open, the tree if it is complete, and the text that is not complete yet. While
    the tree is written (`Writing`) the last of the trace is made of the stack: one open
    element for each of its elements, with the children written so far, read and joined as in
    `Returned`, the last text perhaps still pending (`Building`). Each of a text, a tag with
    and without children and an end tag keeps that (`TextBuilt`, `OpenBuilt`, `EmptyBuilt`,
    `CloseBuilt`), and the end of the root leaves the whole tree (`Written`).
  * *emit.* Every symbol is spelled on its own (`EmittedPiece`), tags as one symbol with their
    names and values spelled, so the output is a `Document` of the symbols written.
  * *Reading.* The reader is always at a boundary of that document, with what the trace says
    is open there (`Halfway`); a tag leads to the next boundary, a run of characters to the
    tag that ends it, decoded as what was written (`RunDecoded`). At the last, what is
    complete is the tree, and none of it was illegible.

  The step that fails without these invariants is the run of characters: that the bytes up
  to the next tag decode to the written text needs both that no character of the text is
  taken for markup and that none of its bytes is read with those of its neighbour.

Only model-checked: the liveness properties (fairness and `ENABLED` are outside the
prover); which attributes a chain of bases leaves a type (`PlainAttrsInherited`), compared
with a recursive function over the schema as written, name by name; and `Condition` and `Element` (`TypeAsDocumented`, `ElementJudged`), whose
parsers and reference definitions are recursive operators.

## 6. Plan

Done, in this order: `SchemaClosure`, `SchemaLoad`, its proofs; `Substitution`, its
proofs; `ContentMatch`, its proofs; `Identity`, its proofs; `XmlParse`, its proofs; `Derivation`, its proofs;
`Condition` and `Element`; `Characters`, `Decoding`, its proofs; `Writer`, its proofs. Loading came first since everything after it reads what
it builds.

Next, models: `Element` composed with `ContentMatch` for a tree of two levels, so that
`elemDecls` and `attrDecls` left by an abandoned branch reach `Identity`.

Next, proofs: the inherited attributes in `Derivation` (`PlainAttrsInherited`), on top of `AttrSources` and `BaseWasFolded`.

## 7. Not modelled

* Simple types, facets and the built-in types are tables of formats without state: a
  model would repeat the table. The other modules take what a type accepts as a constant.
* `utf8.DecodeRune`, Base64 and hex are the Go library's: the first is stated by what it
  returns, the others not at all. `Read` and `Write` of the caller never fail here.
* The command line is flags, files and messages; the action and the tools are packaging
  and generators.
* How a schema document's elements become declarations (`schema_parse.go` below the root,
  `schema_parse_simple.go`) is a translation of one tree into another, read by the
  modules as their constants `Corpora`, `Declarations`, `Schemas`, `Types`, `Families` and `Inputs`.
