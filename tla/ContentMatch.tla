---------------------------- MODULE ContentMatch ----------------------------
(***************************************************************************)
(* Matching the children of one element against its content model          *)
(* (validator/schema_validate.go from validateContentModel on, with        *)
(* substituteFor and allSlotFor of schema_substitution.go).                *)
(*                                                                         *)
(* The loops over the top-level model are the steps of the state machine;  *)
(* a particle inside it is matched by operators that return what the Go    *)
(* functions return and what they leave behind: errors appended to         *)
(* sv.errors stay there when a branch is given up.  What a child contains  *)
(* is one flag, whether validateElement finds nothing wrong in it.         *)
(*                                                                         *)
(* A content model is the list of its particles, numbered so that the      *)
(* items of a group come before the group; the model itself is the last.   *)
(***************************************************************************)
EXTENDS Integers, Sequences, FiniteSets, FiniteSetsExt

CONSTANTS
  Local, NS,        \* local names and namespaces of elements
  Inputs,           \* the content models and children to match
  Substitutes(_),   \* the names that may stand for a global element, closed
  AbstractNames,    \* the global elements declared abstract, as <<ns, local>>
  GlobalNames       \* the global elements

QName == NS \X Local
Child == [local : Local, ns : NS, valid : BOOLEAN]

\* Particles.  A negative max is "unbounded"; ref says that the particle
\* references a global element; allowed is what wildcardMatchesNS admits; items
\* are the numbers of a group's particles.  A type without content model has
\* the model "empty".
ElementParticle == [kind : {"element"}, name : QName, ref : BOOLEAN, min : Int, max : Int]
AnyParticle == [kind : {"any"}, allowed : SUBSET NS, min : Int, max : Int]
Group == [kind : {"sequence", "choice", "all", "empty"}, items : Seq(Nat), min : Int, max : Int]

\* Nothing but elements and wildcards is in an all group.  The parser refuses
\* one that is written inside another model; but a group reference is replaced
\* by what the group declares, so an all may come to stand in a sequence or a
\* choice, the one the parser puts around a reference included.
Models ==
  {ps \in Seq(ElementParticle \cup AnyParticle \cup Group) :
     /\ Len(ps) > 0 /\ ps[Len(ps)] \in Group
     /\ \A k \in DOMAIN ps : ps[k] \in Group =>
          /\ ps[k].kind = "empty" => k = Len(ps)
          /\ \A n \in DOMAIN ps[k].items :
               /\ ps[k].items[n] \in 1..(k - 1)
               /\ ps[k].kind = "all" => ps[ps[k].items[n]].kind \in {"element", "any"}}

ASSUME ContentAssumption ==
  /\ AbstractNames \subseteq GlobalNames
  /\ GlobalNames \subseteq QName
  /\ \A q \in GlobalNames : Substitutes(q) \subseteq GlobalNames
  /\ Inputs \subseteq [particles : Models, kids : Seq(Child)]

VARIABLES
  input,        \* the model and the children; chosen once
  pos,          \* how many children the top-level loop has consumed
  item,         \* sequence: the item it is at
  iterations,   \* choice: how often an item was matched
  counts,       \* all: how many children each item took
  bad,          \* whether sv.errors is not empty
  validated,    \* the children that were given to validateElement
  running       \* whether validateContentModel has yet to return

vars == <<input, pos, item, iterations, counts, bad, validated, running>>

kids == input.kids
particles == input.particles
model == particles[Len(particles)]
Item(k) == particles[model.items[k]]
Name(i) == <<kids[i].ns, kids[i].local>>
-----------------------------------------------------------------------------
\* substituteFor: whether child i may stand where p is expected.  A name of
\* its own is compared without the namespace.
IsNamed(i, p) == kids[i].local = p.name[2]
Stands(i, p) == p.ref /\ Name(i) \in Substitutes(p.name)
Fits(i, p) == IsNamed(i, p) \/ Stands(i, p)

\* The declaration substituteFor returns is abstract: the particle's own,
\* copied from the global element it references, or the member's.
IsAbstract(i, p) == IF IsNamed(i, p) THEN p.ref /\ p.name \in AbstractNames
                    ELSE Name(i) \in AbstractNames

\* anyMatchesElement, and whether processWildcardElement adds no error.
Admits(p, i) == kids[i].ns \in p.allowed
Declared(i) == Name(i) \in GlobalNames

\* What a matcher returns and leaves behind.
Result(used, err, errors, done) ==
  [used |-> used, err |-> err, errors |-> errors, done |-> done]
Nothing == Result(0, FALSE, FALSE, {})
Then(r, s) == Result(r.used + s.used, s.err, r.errors \/ s.errors, r.done \cup s.done)
\* r with the effects of s, but not what s consumed.
After(r, s) == Result(r.used, r.err, r.errors \/ s.errors, r.done \cup s.done)

Rest(i) == Len(kids) - i + 1
Limit(max, i) == IF max < 0 THEN Rest(i) + 1 ELSE max
\* How many children from i on are in S, one after the other, at most limit.
Run(i, limit, S) == Max({n \in 0..Rest(i) : n <= limit /\ i..(i + n - 1) \subseteq S})

MatchElement(p, i) ==
  LET limit == Limit(p.max, i)
      n == Run(i, limit, {j \in DOMAIN kids : Fits(j, p) /\ ~IsAbstract(j, p)})
      taken == i..(i + n - 1)
      errors == \E j \in taken : ~kids[j].valid
  IN  IF n < limit /\ n < Rest(i) /\ Fits(i + n, p)
        THEN Result(n + 1, FALSE, TRUE, taken)     \* an abstract element
        ELSE Result(n, n < p.min, errors, taken)

MatchAny(p, i) ==
  LET n == Run(i, Limit(p.max, i), {j \in DOMAIN kids : Admits(p, j)})
      taken == i..(i + n - 1)
  IN  Result(n, n < p.min,
             \E j \in taken : ~Declared(j) \/ ~kids[j].valid,
             {j \in taken : Declared(j)})

\* Every item of a sequence once, until one fails; match[k][i] is what
\* particle k matches at child i.
MatchItems(match, items, i) ==
  LET upto[n \in 0..Len(items)] ==
        IF n = 0 THEN Nothing
        ELSE LET r == upto[n - 1]
             IN  IF r.err THEN r ELSE Then(r, match[items[n]][i + r.used])
  IN  upto[Len(items)]

\* Every item of a choice is tried and the longest match wins; the errors of
\* the others stay.
MatchLongest(match, items, i) ==
  LET tried == {match[items[n]][i] : n \in DOMAIN items}
  IN  Result(Max({0} \cup {r.used : r \in {t \in tried : ~t.err}}), FALSE,
             \E r \in tried : r.errors, UNION {r.done : r \in tried})

\* Mutant of Repeat: an optional repetition that fails is an error.
RepeatStrict(p, i, once) ==
  LET after[n \in 0..(Rest(i) + 1)] ==
        IF n = 0 THEN [r |-> Nothing, more |-> TRUE]
        ELSE LET before == after[n - 1]
                 r == before.r
                 s == once[i + r.used]
                 Stop(t) == [r |-> [t EXCEPT !.err = n - 1 < p.min], more |-> FALSE]
             IN  IF ~before.more THEN before
                 ELSE IF n > Limit(p.max, i) \/ (p.kind = "choice" /\ r.used = Rest(i)) THEN Stop(r)
                 ELSE IF s.err THEN [r |-> [After(r, s) EXCEPT !.err = TRUE], more |-> FALSE]
                 ELSE IF s.used = 0 THEN Stop(After(r, s))
                 ELSE [r |-> Then(r, s), more |-> TRUE]
  IN  after[Rest(i) + 1].r

\* The loops of matchSequence and matchChoice over once[j], one repetition at
\* child j: the n-th round ends them at the limit, or if it matches nothing.
\* Every other round takes a child.
Repeat(p, i, once) ==
  LET after[n \in 0..(Rest(i) + 1)] ==
        IF n = 0 THEN [r |-> Nothing, more |-> TRUE]
        ELSE LET before == after[n - 1]
                 r == before.r
                 s == once[i + r.used]
                 Stop(t) == [r |-> [t EXCEPT !.err = n - 1 < p.min], more |-> FALSE]
             IN  IF ~before.more THEN before
                 ELSE IF n > Limit(p.max, i) \/ (p.kind = "choice" /\ r.used = Rest(i)) THEN Stop(r)
                 ELSE IF s.err \/ s.used = 0 THEN Stop(After(r, s))
                 ELSE [r |-> Then(r, s), more |-> TRUE]
  IN  after[Rest(i) + 1].r

\* matchParticle for p at child i, with what the items of p match; and for
\* every particle.  It knows no all group: one inside a model matches nothing,
\* and no error.
Positions == 1..(Len(kids) + 1)
Matched(match, p, i) ==
  CASE p.kind = "element" -> MatchElement(p, i)
    [] p.kind = "any" -> MatchAny(p, i)
    [] p.kind = "sequence" -> Repeat(p, i, [j \in Positions |-> MatchItems(match, p.items, j)])
    [] p.kind = "choice" -> Repeat(p, i, [j \in Positions |-> MatchLongest(match, p.items, j)])
    [] OTHER -> Nothing
Match[k \in DOMAIN particles] == [i \in Positions |-> Matched(Match, particles[k], i)]
MatchItem(k) == Match[model.items[k]][pos + 1]
-----------------------------------------------------------------------------
Init == /\ input \in Inputs
        /\ pos = 0 /\ item = 1 /\ iterations = 0
        /\ counts = [k \in DOMAIN model.items |-> 0]
        /\ bad = FALSE
        /\ validated = {}
        /\ running = TRUE

At(kind) == running /\ model.kind = kind
AddErrors(r) == bad' = (bad \/ r.errors \/ r.err) /\ validated' = validated \cup r.done
Return(error) == running' = FALSE /\ bad' = (bad \/ error)

\* validateComplexElement with no content model.
EmptyContent == /\ At("empty")
                /\ Return(kids # <<>>)
                /\ UNCHANGED <<input, pos, item, iterations, counts, validated>>

\* validateSequence: one item; the first error ends it.  The occurrence
\* counts of the model itself are not looked at.
SequenceItem ==
  /\ At("sequence")
  /\ item <= Len(model.items)
  /\ LET r == MatchItem(item)
     IN  /\ AddErrors(r)
         /\ running' = ~r.err
         /\ IF r.err THEN UNCHANGED <<pos, item>>
            ELSE pos' = pos + r.used /\ item' = item + 1
  /\ UNCHANGED <<input, iterations, counts>>

SequenceEnd == /\ At("sequence")
               /\ item > Len(model.items)
               /\ Return(pos < Len(kids))
               /\ UNCHANGED <<input, pos, item, iterations, counts, validated>>

\* validateChoice of an element without children.
ChoiceEmpty == /\ At("choice")
               /\ kids = <<>>
               /\ Return(model.min > 0)
               /\ UNCHANGED <<input, pos, item, iterations, counts, validated>>

\* The items of the choice that match something at the current child.
Matching == {k \in DOMAIN model.items :
               ~MatchItem(k).err /\ MatchItem(k).used > 0}
\* What trying the items up to the k-th leaves behind.
Tried(k) == LET rs == {MatchItem(j) : j \in 1..k}
            IN  [errors |-> \E r \in rs : r.errors, done |-> UNION {r.done : r \in rs}]

\* Mutant of ChoiceItem: the repetitions are not limited.
ChoiceItemUnlimited ==
  /\ At("choice")
  /\ pos < Len(kids)
  /\ Matching # {}
  /\ LET k == Min(Matching)
     IN  /\ pos' = pos + MatchItem(k).used
         /\ validated' = validated \cup Tried(k).done
         /\ bad' = (bad \/ Tried(k).errors)
  /\ iterations' = iterations + 1
  /\ UNCHANGED <<input, item, counts, running>>

\* One repetition takes the first item that matches something.
ChoiceItem ==
  /\ At("choice")
  /\ pos < Len(kids)
  /\ Matching # {}
  /\ LET k == Min(Matching)
         over == model.max >= 0 /\ iterations + 1 > model.max
     IN  /\ pos' = pos + MatchItem(k).used
         /\ validated' = validated \cup Tried(k).done
         /\ bad' = (bad \/ Tried(k).errors \/ over)
         /\ running' = ~over
  /\ iterations' = iterations + 1
  /\ UNCHANGED <<input, item, counts>>

ChoiceNoMatch ==
  /\ At("choice")
  /\ pos < Len(kids)
  /\ Matching = {}
  /\ Return(TRUE)
  /\ validated' = validated \cup Tried(Len(model.items)).done
  /\ UNCHANGED <<input, pos, item, iterations, counts>>

\* All children are consumed; too few repetitions are not noticed here.
ChoiceEnd == /\ At("choice")
             /\ kids # <<>> /\ pos = Len(kids)
             /\ Return(FALSE)
             /\ UNCHANGED <<input, pos, item, iterations, counts, validated>>

\* allSlotFor: the last item of the child's own name, else the first that the
\* child may stand for; without one, the first wildcard that admits it.
IsElement(k) == Item(k).kind = "element"
Named == {k \in DOMAIN model.items : IsElement(k) /\ IsNamed(pos + 1, Item(k))}
StoodFor == {k \in DOMAIN model.items : IsElement(k) /\ Stands(pos + 1, Item(k))}
Slots == IF Named # {} THEN {Max(Named)}
         ELSE IF StoodFor # {} THEN {Min(StoodFor)} ELSE {}
Wildcards == {k \in DOMAIN model.items : ~IsElement(k) /\ Admits(Item(k), pos + 1)}
AtAllChild == At("all") /\ pos < Len(kids)

\* A limit of "unbounded" is the number of children.
Over(k) == Item(k).max >= 0 /\ counts[k] + 1 > Item(k).max

AllElement ==
  /\ AtAllChild
  /\ \E k \in Slots :
       IF IsAbstract(pos + 1, Item(k))
         THEN bad' = TRUE /\ UNCHANGED <<counts, validated>>
         ELSE /\ counts' = [counts EXCEPT ![k] = @ + 1]
              /\ bad' = (bad \/ Over(k) \/ ~kids[pos + 1].valid)
              /\ validated' = IF Over(k) THEN validated ELSE validated \cup {pos + 1}
  /\ pos' = pos + 1
  /\ UNCHANGED <<input, item, iterations, running>>

AllWildcard ==
  /\ AtAllChild
  /\ Slots = {} /\ Wildcards # {}
  /\ LET k == Min(Wildcards)
     IN  /\ counts' = [counts EXCEPT ![k] = @ + 1]
         /\ bad' = (bad \/ Over(k) \/ ~Declared(pos + 1) \/ ~kids[pos + 1].valid)
  /\ validated' = IF Declared(pos + 1) THEN validated \cup {pos + 1} ELSE validated
  /\ pos' = pos + 1
  /\ UNCHANGED <<input, item, iterations, running>>

AllUnexpected ==
  /\ AtAllChild
  /\ Slots = {} /\ Wildcards = {}
  /\ bad' = TRUE
  /\ pos' = pos + 1
  /\ UNCHANGED <<input, item, iterations, counts, validated, running>>

\* Too few of an item; items of one name share a count.
Short(k) ==
  LET same == {j \in DOMAIN model.items : IsElement(j) /\ Item(j).name[2] = Item(k).name[2]}
  IN  counts[IF IsElement(k) THEN Max(same) ELSE k] < Item(k).min

AllEnd == /\ At("all")
          /\ pos = Len(kids)
          /\ Return(\E k \in DOMAIN model.items : Short(k))
          /\ UNCHANGED <<input, pos, item, iterations, counts, validated>>

Done == ~running /\ UNCHANGED vars

Step == \/ EmptyContent \/ SequenceItem \/ SequenceEnd
        \/ ChoiceEmpty \/ ChoiceItem \/ ChoiceNoMatch \/ ChoiceEnd
        \/ AllElement \/ AllWildcard \/ AllUnexpected \/ AllEnd
Next == Step \/ Done
Spec == Init /\ [][Next]_vars
-----------------------------------------------------------------------------

\* What a content model admits, by its definition.  ends[k][i] holds the
\* positions that some choice of repetitions and branches of particle k can
\* reach from child i: the first items of a sequence one after the other, n
\* repetitions of a particle, one repetition, and all that may be.
Chained(ends, items, i) ==
  LET upto[n \in 0..Len(items)] ==
        IF n = 0 THEN {i} ELSE UNION {ends[items[n]][j] : j \in upto[n - 1]}
  IN  upto

Times(once, i, n) ==
  LET upto[m \in 0..n] == IF m = 0 THEN {i} ELSE UNION {once[j] : j \in upto[m - 1]}
  IN  upto[n]

\* How often a particle may occur: the bound for "unbounded" is no limit, for
\* what more repetitions reach, fewer reach as well.
Counts(p) == {n \in 0..(IF p.max < 0 THEN Max({p.min, Len(kids)}) ELSE p.max) : n >= p.min}

\* An all group takes the children first..last: each goes to an item, in any
\* order.
AllTakes(p, first, last) ==
  LET part(k) == particles[p.items[k]]
  IN  \E f \in [first..last -> DOMAIN p.items] :
        /\ \A i \in first..last : IF part(f[i]).kind = "element" THEN Fits(i, part(f[i]))
                                  ELSE Admits(part(f[i]), i)
        /\ \A k \in DOMAIN p.items :
             Cardinality({i \in first..last : f[i] = k}) \in Counts(part(k))

Once(ends, p) ==
  [i \in Positions |->
     CASE p.kind = "element" -> {j \in {i + 1} : i \in DOMAIN kids /\ Fits(i, p)}
       [] p.kind = "any" -> {j \in {i + 1} : i \in DOMAIN kids /\ Admits(p, i)}
       [] p.kind = "sequence" -> Chained(ends, p.items, i)[Len(p.items)]
       [] p.kind = "choice" -> UNION {ends[p.items[n]][i] : n \in DOMAIN p.items}
       [] p.kind = "all" -> {j \in Positions : j >= i /\ AllTakes(p, i, j - 1)}
       [] OTHER -> {}]

Ends[k \in DOMAIN particles] ==
  LET p == particles[k]
  IN  [i \in Positions |-> UNION {Times(Once(Ends, p), i, n) : n \in Counts(p)}]

Admitted == CASE model.kind = "empty" -> kids = <<>>
              [] model.kind = "all" -> AllTakes(model, 1, Len(kids))
              [] OTHER -> Len(kids) + 1 \in Ends[Len(particles)][1]

Accepted == ~running /\ ~bad

\* The occurrence counts as far as they are enforced: a sequence and an all
\* group at the top occur once, a choice at least once if it must, and no two
\* elements of an all group have one local name, for they share a count.
EnforcedOccurs ==
  /\ model.kind \in {"sequence", "all"} => model.min = 1 /\ model.max = 1
  /\ model.kind = "choice" => model.min <= 1
  /\ model.kind = "all" =>
       \A j, k \in DOMAIN model.items :
          IsElement(j) /\ IsElement(k) /\ Item(j).name[2] = Item(k).name[2] => j = k

\* No all group stands inside another group: the matcher has no case for one.
AllOutermost == \A k \in DOMAIN particles : particles[k].kind = "all" => k = Len(particles)

\* What is accepted is admitted: the greedy match, with all its branches and
\* repetitions, never accepts children outside the content model, as far as
\* the code enforces it; and whatever the model, it never lets a child through
\* that was not validated against a declaration.
Sound ==
  Accepted =>
    /\ EnforcedOccurs /\ AllOutermost => Admitted
    /\ validated = 1..Len(kids)
    /\ \A i \in 1..Len(kids) : kids[i].valid

\* Models in which a greedy match cannot go wrong: no two particles can take
\* the same child, no group inside the model can match nothing, and what is
\* repeated has no part that is repeated itself.
IsGroup(k) == particles[k].kind \in {"sequence", "choice", "all"}
Leaves == {k \in DOMAIN particles : ~IsGroup(k)}
Uses == UNION {{k} \X DOMAIN particles[k].items : k \in DOMAIN particles \ Leaves}
Used(u) == particles[u[1]].items[u[2]]
Takes(p, q) == IF p.kind = "any" THEN q[1] \in p.allowed
               ELSE q[2] = p.name[2] \/ (p.ref /\ q \in Substitutes(p.name))
Distinct == /\ \A u, v \in Uses : u # v => Used(u) # Used(v)
            /\ \A j, k \in Leaves : j # k =>
                 \A q \in QName : ~(Takes(particles[j], q) /\ Takes(particles[k], q))

\* One repetition of particle k can match nothing.
Emptiable[k \in DOMAIN particles] ==
  LET Empty(n) == particles[particles[k].items[n]].min <= 0 \/ Emptiable[particles[k].items[n]]
  IN  CASE particles[k].kind = "sequence" -> \A n \in DOMAIN particles[k].items : Empty(n)
        [] particles[k].kind = "choice" -> \E n \in DOMAIN particles[k].items : Empty(n)
        [] OTHER -> FALSE
NoRepeats[k \in DOMAIN particles] ==
  /\ particles[k].max = 1
  /\ IsGroup(k) => \A n \in DOMAIN particles[k].items : NoRepeats[particles[k].items[n]]
Plain ==
  \A k \in (1..Len(particles)) \ Leaves : \A n \in DOMAIN particles[k].items :
     LET j == particles[k].items[n]
     IN  (particles[k].max # 1 => NoRepeats[j]) /\ ~Emptiable[j]
Greedy == /\ model.kind # "empty" => Distinct /\ Plain
          /\ model.kind = "choice" => ~Emptiable[Len(particles)]
          /\ model.kind = "all" => model.min = 1

\* What may appear: a declared element that is valid and is not taken for an
\* abstract one, which a local name is enough for.
Usable(i) == Declared(i) /\ kids[i].valid /\ \A q \in AbstractNames : q[2] # kids[i].local

\* For those models nothing that is admitted is rejected: an error a given-up
\* branch left behind, a greedy repetition or the longest branch never cost a
\* valid document its validity.
Complete ==
  ~running /\ bad /\ Greedy /\ EnforcedOccurs /\ AllOutermost /\ (\A i \in 1..Len(kids) : Usable(i))
    => ~Admitted
=============================================================================
