---------------------------- MODULE MCSchemaLoad ----------------------------
(***************************************************************************)
(* Document sets for SchemaLoad.  Three locations, t being the top-level   *)
(* document; hints are resolved locations, so ResolveLocation ignores the  *)
(* base.                                                                   *)
(***************************************************************************)
EXTENDS SchemaLoad

MCLocation == {"t", "a", "b"}
MCHint == MCLocation \cup {"none"}
MCResolveLocation(base, hint) == hint

Doc(tns, prefixes, items) == [tns |-> tns, prefixes |-> prefixes, items |-> items]
NoPrefixes == [p \in {} |-> NoNS]
Default(ns) == [p \in {NoPrefix} |-> ns]

Import(ns, hint) == [kind |-> "import", ns |-> ns, hint |-> hint]
Include(hint) == [kind |-> "include", ns |-> NoNS, hint |-> hint]
Declaring(table, name, uses) ==
  [kind |-> "declare", table |-> table, name |-> name, uses |-> uses]
Unsupported == [kind |-> "unsupported"]

UpTo(n, S) == UNION {[1..k -> S] : k \in 0..n}

\* Every graph of imports and includes with at most two references in two of
\* the documents and one in the third: cycles, diamonds, self references.  The
\* top-level document refers to a first; a and b differ in their references.
References == {Import("n1", l) : l \in {"t", "a", "b"}} \cup {Include(l) : l \in {"t", "a", "b"}}
Graphs ==
  {[l \in MCLocation |->
      Doc("n1", NoPrefixes, CASE l = "t" -> rt [] l = "a" -> ra [] l = "b" -> rb)] :
     rt \in {r \in UpTo(2, References) : r # <<>> => r[1].hint = "a"}, ra \in UpTo(2, References), rb \in UpTo(1, References)}

\* Documents that declare, in both orders of declarations and references, in
\* one, two or no namespace.
X == Declaring("element", "x", {})
Y == Declaring("element", "y", {})
T == Declaring("type", "x", {})
RefX == Declaring("type", "r",
          {[role |-> "ref", prefix |-> NoPrefix, name |-> "x"]})
RefXQ == Declaring("type", "q",
          {[role |-> "ref", prefix |-> "p", name |-> "x"],
           [role |-> "type", prefix |-> NoPrefix, name |-> "x"]})
Uses == Declaring("element", "y",
          {[role |-> "head", prefix |-> NoPrefix, name |-> "x"],
           [role |-> "group", prefix |-> NoPrefix, name |-> "g"],
           [role |-> "attributeGroup", prefix |-> NoPrefix, name |-> "h"]})
G == Declaring("group", "g", {})
H == Declaring("attributeGroup", "h", {})

Declarations ==
  {[t |-> Doc(tt, Default(tt), it), a |-> Doc(ta, Default(ta), ia),
    b |-> Doc(tb, [p \in {NoPrefix, "p"} |-> tb], ib)] :
     tt \in {NoNS, "n1"}, ta \in {NoNS, "n1", "n2"}, tb \in {NoNS, "n2"},
     it \in {<<X, Include("a")>>, <<Include("a"), X>>, <<Import("n2", "a"), X>>,
             <<X, Import("n2", "a"), Include("b")>>, <<Import("n2", "b"), Include("b"), T>>,
             <<Include("a"), Include("b"), Uses, G>>, <<H, Include("a"), Import("n2", "none")>>,
             <<Include("none")>>, <<Include("a"), Import("n2", "b")>>, <<X, X, Unsupported>>},
     ia \in {<<X>>, <<X, RefX>>, <<Y, Include("b")>>, <<T, Import("n2", "b"), RefX>>,
             <<Uses, G>>, <<Include("t"), X>>},
     ib \in {<<X, RefXQ>>, <<T, G, X, Uses>>, <<X, Import("n1", "t")>>, <<Y>>,
             <<Include("a")>>}}

MCCorpora == Declarations \cup Graphs
=============================================================================
