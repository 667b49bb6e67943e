------------------------- MODULE ContentMatchProofs -------------------------
(***************************************************************************)
(* Proofs about ContentMatch, for every content model and every list of    *)
(* children: what is accepted is admitted.                                 *)
(***************************************************************************)
EXTENDS ContentMatch, FiniteSetTheorems, WellFoundedInduction, TLAPS

\* A set of natural numbers that is not empty has a least member.
LEMMA LeastNatural ==
  ASSUME NEW S \in SUBSET Nat, S # {}
  PROVE  \E j \in S : \A i \in S : j <= i
<1> DEFINE R == {ss \in Nat \X Nat : ss[1] < ss[2]}
<1>1. IsWellFoundedOn(R, Nat)
  BY NatLessThanWellFounded, Zenon DEF OpToRel
<1>2. PICK x \in S : \A y \in S : ~(<<y, x>> \in R)
  <2> HIDE DEF R
  <2> QED BY <1>1, WFMin
<1>3. \A y \in S : ~(y < x)
  BY <1>2
<1> QED BY <1>3

\* F makes the value at i of those before i.
MadeOfEarlier(F, a, n, S) ==
  /\ F \in [[a..n -> S] \X (a..n) -> S]
  /\ \A f, g \in [a..n -> S] : \A i \in a..n :
       (\A j \in a..(i - 1) : f[j] = g[j]) => F[<<f, i>>] = F[<<g, i>>]

MadeBy(F, a, n, S) == {f \in [a..n -> S] : \A i \in a..n : f[i] = F[<<f, i>>]}

\* A function on a..n whose values are made of those before them exists.
LEMMA RecursiveFunction ==
  ASSUME NEW S, S # {}, NEW a \in Nat, NEW n \in Nat, a <= n + 1,
         NEW F, MadeOfEarlier(F, a, n, S)
  PROVE  MadeBy(F, a, n, S) # {}
<1> DEFINE Partial(m) == {g \in [a..n -> S] : \A i \in a..(m - 1) : g[i] = F[<<g, i>>]}
           failing == {m \in a..(n + 1) : Partial(m) = {}}
<1>1. failing = {}
  <2> HIDE DEF Partial
  <2> SUFFICES ASSUME failing # {} PROVE FALSE
    OBVIOUS
  <2>1. PICK m \in failing : \A i \in failing : m <= i
    <3>1. failing \in SUBSET Nat
      OBVIOUS
    <3> HIDE DEF failing
    <3> QED BY <3>1, LeastNatural
  <2>2. m \in a..(n + 1) /\ Partial(m) = {}
    OBVIOUS
  <2>3. CASE m = a
    <3>1. PICK x : x \in S
      OBVIOUS
    <3> DEFINE g == [i \in a..n |-> x]
    <3>2. g \in [a..n -> S] /\ \A i \in a..(m - 1) : FALSE
      BY <2>3, <3>1
    <3> HIDE DEF g
    <3>3. g \in Partial(m)
      BY <3>2 DEF Partial
    <3> QED BY <2>2, <3>3
  <2>4. CASE m # a
    <3>1. m - 1 \in a..n /\ m - 1 \in a..(n + 1) /\ ~(m <= m - 1)
      BY <2>2, <2>4
    <3>2. Partial(m - 1) # {}
      <4>1. m - 1 \notin failing
        <5> HIDE DEF failing
        <5> QED BY <2>1, <3>1
      <4> QED BY <3>1, <4>1
    <3>3. PICK g : g \in Partial(m - 1)
      BY <3>2
    <3>4. g \in [a..n -> S] /\ \A i \in a..((m - 1) - 1) : g[i] = F[<<g, i>>]
      BY <3>3 DEF Partial
    <3>5. F[<<g, m - 1>>] \in S
      BY <3>1, <3>4 DEF MadeOfEarlier
    <3> DEFINE h == [g EXCEPT ![m - 1] = F[<<g, m - 1>>]]
    <3>6. /\ h \in [a..n -> S] /\ h[m - 1] = F[<<g, m - 1>>]
          /\ \A i \in a..n : i # m - 1 => h[i] = g[i]
      BY <3>1, <3>4, <3>5
    <3> HIDE DEF h
    <3>7. ASSUME NEW i \in a..(m - 1) PROVE h[i] = F[<<h, i>>]
      <4>1. i \in a..n /\ \A j \in a..(i - 1) : j \in a..n /\ j # m - 1
        BY <3>1
      <4>2. F[<<h, i>>] = F[<<g, i>>]
        <5>1. \A j \in a..(i - 1) : h[j] = g[j]
          BY <3>6, <4>1
        <5>2. h \in [a..n -> S] /\ g \in [a..n -> S] /\ i \in a..n
          BY <3>4, <3>6, <4>1
        <5> QED BY <5>1, <5>2 DEF MadeOfEarlier
      <4>3. CASE i = m - 1
        BY <3>6, <4>2, <4>3
      <4>4. CASE i # m - 1
        <5>1. i \in a..((m - 1) - 1)
          BY <3>1, <4>4
        <5> QED BY <3>4, <3>6, <4>1, <4>2, <4>4, <5>1
      <4> QED BY <4>3, <4>4
    <3>8. h \in Partial(m)
      BY <3>6, <3>7 DEF Partial
    <3> QED BY <2>2, <3>8
  <2> QED BY <2>3, <2>4
<1>2. n + 1 \in a..(n + 1) /\ \A i \in a..n : i \in a..((n + 1) - 1)
  OBVIOUS
<1>3. Partial(n + 1) # {}
  <2> HIDE DEF Partial
  <2> QED BY <1>1, <1>2
<1>4. PICK f : f \in Partial(n + 1)
  BY <1>3
<1> QED BY <1>2, <1>4 DEF MadeBy

\* A set of whole numbers between 0 and n that is not empty has a greatest
\* member, which Max returns.
LEMMA MaxOfBounded ==
  ASSUME NEW n \in Nat, NEW S \in SUBSET (0..n), S # {}
  PROVE  Max(S) \in S /\ \A y \in S : y <= Max(S)
<1> DEFINE T == {n - y : y \in S}
<1>1. T \in SUBSET Nat /\ T # {}
  <2>1. \A y \in S : n - y \in Nat
    OBVIOUS
  <2>2. PICK y \in S : TRUE
    OBVIOUS
  <2>3. n - y \in T
    OBVIOUS
  <2> QED BY <2>1, <2>3
<1>2. PICK t \in T : \A u \in T : t <= u
  <2> HIDE DEF T
  <2> QED BY <1>1, LeastNatural
<1>3. n - t \in S /\ \A y \in S : n - t >= y
  BY <1>2
<1>4. \E x \in S : \A y \in S : x >= y
  BY <1>3
<1>5. Max(S) \in S /\ \A y \in S : Max(S) >= y
  BY <1>4, Zenon DEF Max
<1> QED BY <1>5
-----------------------------------------------------------------------------
(* The input: numbered particles and a list of children.                   *)

\* A chosen input has children and particles of the right form.
LEMMA InputFacts ==
  ASSUME input \in Inputs
  PROVE  /\ kids \in Seq(Child) /\ Len(kids) \in Nat /\ DOMAIN kids = 1..Len(kids)
         /\ particles \in Models /\ Len(particles) \in Nat \ {0}
         /\ DOMAIN particles = 1..Len(particles)
<1>1. kids \in Seq(Child) /\ particles \in Models
  BY ContentAssumption DEF kids, particles
<1>2. Len(kids) \in Nat /\ DOMAIN kids = 1..Len(kids)
  BY <1>1
<1>3. particles \in Seq(ElementParticle \cup AnyParticle \cup Group) /\ Len(particles) > 0
  BY <1>1 DEF Models
<1>4. Len(particles) \in Nat \ {0} /\ DOMAIN particles = 1..Len(particles)
  BY <1>3
<1> QED BY <1>1, <1>2, <1>4

\* The items of a group are particles before it.
LEMMA ParticleFacts ==
  ASSUME input \in Inputs, NEW k \in DOMAIN particles
  PROVE  LET p == particles[k]
         IN  /\ p.min \in Int /\ p.max \in Int
             /\ p.kind \in {"element", "any", "sequence", "choice", "all", "empty"}
             /\ p.kind = "empty" => k = Len(particles)
             /\ p.kind \notin {"element", "any"} =>
                  /\ p.items \in Seq(Nat)
                  /\ Len(p.items) \in Nat /\ DOMAIN p.items = 1..Len(p.items)
                  /\ \A n \in DOMAIN p.items : /\ p.items[n] \in 1..(k - 1)
                                               /\ p.items[n] \in DOMAIN particles
                                               /\ p.items[n] # Len(particles)
<1> DEFINE p == particles[k]
<1>1. /\ particles \in Models /\ Len(particles) \in Nat \ {0}
      /\ DOMAIN particles = 1..Len(particles) /\ k \in 1..Len(particles)
  BY InputFacts
<1>2. particles \in Seq(ElementParticle \cup AnyParticle \cup Group)
  BY <1>1 DEF Models
<1>3. p \in ElementParticle \cup AnyParticle \cup Group
  BY <1>1, <1>2
<1>4. p \in Group =>
        /\ p.kind = "empty" => k = Len(particles)
        /\ \A n \in DOMAIN p.items : p.items[n] \in 1..(k - 1)
  BY <1>1 DEF Models
<1> HIDE DEF p
<1>5. /\ p.min \in Int /\ p.max \in Int
      /\ p.kind \in {"element", "any", "sequence", "choice", "all", "empty"}
      /\ p.kind \notin {"element", "any"} => p \in Group /\ p.items \in Seq(Nat)
  BY <1>3 DEF ElementParticle, AnyParticle, Group
<1>6. p.kind = "empty" => k = Len(particles)
  BY <1>4, <1>5
<1>7. ASSUME p.kind \notin {"element", "any"}
      PROVE  /\ p.items \in Seq(Nat)
             /\ Len(p.items) \in Nat /\ DOMAIN p.items = 1..Len(p.items)
             /\ \A n \in DOMAIN p.items : /\ p.items[n] \in 1..(k - 1)
                                          /\ p.items[n] \in DOMAIN particles
                                          /\ p.items[n] # Len(particles)
  <2>1. p.items \in Seq(Nat) /\ \A n \in DOMAIN p.items : p.items[n] \in 1..(k - 1)
    BY <1>4, <1>5, <1>7
  <2>2. \A x \in 1..(k - 1) : x \in 1..Len(particles) /\ x # Len(particles)
    <3>1. Len(particles) \in Nat /\ k \in 1..Len(particles)
      BY <1>1
    <3> QED BY <3>1
  <2>3. Len(p.items) \in Nat /\ DOMAIN p.items = 1..Len(p.items)
    BY <2>1
  <2>4. \A n \in DOMAIN p.items : /\ p.items[n] \in 1..(k - 1)
                                  /\ p.items[n] \in 1..Len(particles)
                                  /\ p.items[n] # Len(particles)
    BY <2>1, <2>2
  <2> QED BY <1>1, <2>1, <2>3, <2>4
<1> QED BY <1>5, <1>6, <1>7 DEF p
-----------------------------------------------------------------------------
(* Leaves: elements and wildcards.                                         *)

\* What a matcher may return, at child i, and for every child.
Results == [used : Nat, err : BOOLEAN, errors : BOOLEAN, done : SUBSET DOMAIN kids]
ResultsAt(i) == {r \in Results : r.used <= Rest(i)}
Outcomes == {f \in [Positions -> Results] : \A i \in Positions : f[i].used <= Rest(i)}

\* Without errors, what r took from i on was validated, and all r validated
\* is valid.
Checked(r, i) ==
  ~r.errors => i..(i + r.used - 1) \subseteq r.done /\ \A j \in r.done : kids[j].valid

\* A match without errors ends at one of these positions, where no all group
\* is inside another group.
Reaches(r, i, E) == AllOutermost /\ ~r.err /\ ~r.errors => i + r.used \in E

\* How many children there are from a position on.
LEMMA RestFacts ==
  ASSUME input \in Inputs, NEW i \in Positions
  PROVE  /\ i \in Nat \ {0} /\ Rest(i) \in 0..Len(kids) /\ i + Rest(i) = Len(kids) + 1
         /\ \A u \in 0..Rest(i) : i + u \in Positions /\ Rest(i + u) = Rest(i) - u
         /\ \A u \in 0..Rest(i) : i..(i + u - 1) \subseteq DOMAIN kids
         /\ \A u \in Nat : u < Rest(i) => i + u \in DOMAIN kids
<1>1. Len(kids) \in Nat /\ DOMAIN kids = 1..Len(kids)
  BY InputFacts
<1>2. i \in 1..(Len(kids) + 1)
  BY DEF Positions
<1>3. i \in Nat \ {0} /\ Rest(i) \in 0..Len(kids) /\ i + Rest(i) = Len(kids) + 1
  BY <1>1, <1>2 DEF Rest
<1>4. \A u \in 0..Rest(i) : i + u \in Positions /\ Rest(i + u) = Rest(i) - u
  BY <1>1, <1>2 DEF Rest, Positions
<1>5. \A u \in 0..Rest(i) : i..(i + u - 1) \subseteq DOMAIN kids
  BY <1>1, <1>2 DEF Rest
<1>6. \A u \in Nat : u < Rest(i) => i + u \in DOMAIN kids
  BY <1>1, <1>2 DEF Rest
<1> QED BY <1>3, <1>4, <1>5, <1>6

\* Run counts children of S one after the other, within the limit.
LEMMA RunFacts ==
  ASSUME input \in Inputs, NEW i \in Positions, NEW max \in Int, NEW S
  PROVE  LET n == Run(i, Limit(max, i), S)
         IN  /\ n \in 0..Rest(i) /\ (max >= 0 => n <= max)
             /\ \A j \in i..(i + n - 1) : j \in S
<1> DEFINE limit == Limit(max, i)
           runs == {n \in 0..Rest(i) : n <= limit /\ i..(i + n - 1) \subseteq S}
<1>1. i \in Nat /\ Rest(i) \in Nat
  BY RestFacts
<1>2. limit \in Nat /\ (max >= 0 => limit = max)
  BY <1>1 DEF Limit
<1>3. 0 \in runs
  <2>1. i..(i + 0 - 1) = {}
    BY <1>1
  <2> HIDE DEF limit
  <2> QED BY <1>1, <1>2, <2>1
<1>4. runs \in SUBSET (0..Rest(i)) /\ runs # {}
  BY <1>3
<1>5. Max(runs) \in runs
  <2> HIDE DEF runs
  <2> QED BY <1>1, <1>4, MaxOfBounded
<1>6. Run(i, limit, S) = Max(runs)
  BY DEF Run
<1> HIDE DEF limit
<1>7. Max(runs) \in 0..Rest(i) /\ Max(runs) <= limit /\ i..(i + Max(runs) - 1) \subseteq S
  BY <1>5
<1> HIDE DEF runs
<1> QED BY <1>1, <1>2, <1>6, <1>7 DEF limit

\* A number of repetitions within the limits of a particle is one of its
\* counts.
LEMMA CountsFacts ==
  ASSUME input \in Inputs, NEW p, p.min \in Int, p.max \in Int,
         NEW n \in 0..Len(kids), n >= p.min, p.max >= 0 => n <= p.max
  PROVE  n \in Counts(p)
<1>1. Len(kids) \in Nat
  BY InputFacts
<1>2. CASE p.max >= 0
  BY <1>1, <1>2 DEF Counts
<1>3. CASE p.max < 0
  <2> DEFINE K == Len(kids)
             S == {p.min, K}
  <2>1. \E x \in S : \A y \in S : x >= y
    BY <1>1
  <2>2. Max(S) \in S /\ \A y \in S : Max(S) >= y
    BY <2>1, Zenon DEF Max
  <2>3. Max(S) \in Int /\ Max(S) >= K
    BY <1>1, <2>2
  <2> HIDE DEF S
  <2>4. n \in 0..Max(S)
    BY <1>1, <2>3
  <2> QED BY <1>3, <2>4 DEF Counts, S
<1> QED BY <1>2, <1>3

\* matchElement takes children that fit, as many as the particle may occur,
\* and validates them.
LEMMA ElementMatched ==
  ASSUME input \in Inputs, NEW p, p.min \in Int, p.max \in Int, NEW i \in Positions
  PROVE  LET r == MatchElement(p, i)
         IN  /\ r \in ResultsAt(i) /\ Checked(r, i)
             /\ ~r.err /\ ~r.errors =>
                  r.used \in Counts(p) /\ \A j \in i..(i + r.used - 1) : Fits(j, p)
<1> DEFINE limit == Limit(p.max, i)
           S == {j \in DOMAIN kids : Fits(j, p) /\ ~IsAbstract(j, p)}
           n == Run(i, limit, S)
           taken == i..(i + n - 1)
           errors == \E j \in taken : ~kids[j].valid
           r == MatchElement(p, i)
<1>1. /\ n \in 0..Rest(i) /\ (p.max >= 0 => n <= p.max)
      /\ \A j \in taken : j \in S
  <2> HIDE DEF S
  <2> QED BY RunFacts
<1>2. r = IF n < limit /\ n < Rest(i) /\ Fits(i + n, p)
            THEN Result(n + 1, FALSE, TRUE, taken) ELSE Result(n, n < p.min, errors, taken)
  BY DEF MatchElement
<1>3. Rest(i) \in 0..Len(kids) /\ Len(kids) \in Nat /\ i \in Nat
  BY RestFacts, InputFacts
<1>4. taken \subseteq DOMAIN kids /\ \A j \in taken : Fits(j, p)
  BY <1>1
<1> HIDE DEF n, taken, errors, r, S, limit
<1>5. CASE n < limit /\ n < Rest(i) /\ Fits(i + n, p)
  <2>1. r = Result(n + 1, FALSE, TRUE, taken)
    BY <1>2, <1>5
  <2>2. n + 1 \in Nat /\ n + 1 <= Rest(i)
    BY <1>1, <1>3, <1>5
  <2>3. r \in ResultsAt(i) /\ r.errors
    BY <1>4, <2>1, <2>2 DEF Result, ResultsAt, Results
  <2> QED BY <2>3 DEF Checked, r
<1>6. CASE ~(n < limit /\ n < Rest(i) /\ Fits(i + n, p))
  <2>1. r = Result(n, n < p.min, errors, taken)
    BY <1>2, <1>6
  <2>2. r.used = n /\ r.err = (n < p.min) /\ r.errors = errors /\ r.done = taken
    BY <2>1 DEF Result
  <2>3. r \in ResultsAt(i)
    <3>1. n \in Nat /\ n <= Rest(i) /\ (n < p.min) \in BOOLEAN /\ errors \in BOOLEAN
      BY <1>1, <1>3 DEF errors
    <3> QED BY <1>4, <2>1, <3>1 DEF Result, ResultsAt, Results
  <2>4. Checked(r, i)
    BY <2>2 DEF Checked, errors, taken
  <2>5. ~r.err => r.used \in Counts(p)
    <3>1. n \in 0..Len(kids)
      BY <1>1, <1>3
    <3>2. ~(n < p.min) => n \in Counts(p)
      BY <1>1, <3>1, CountsFacts
    <3> QED BY <2>2, <3>2
  <2>6. \A j \in i..(i + r.used - 1) : Fits(j, p)
    BY <1>4, <2>2 DEF taken
  <2> QED BY <2>3, <2>4, <2>5, <2>6 DEF r
<1> QED BY <1>5, <1>6

\* matchAny takes children that are admitted, as many as the wildcard may
\* occur, and validates them unless there are errors.
LEMMA AnyMatched ==
  ASSUME input \in Inputs, NEW p, p.min \in Int, p.max \in Int, NEW i \in Positions
  PROVE  LET r == MatchAny(p, i)
         IN  /\ r \in ResultsAt(i) /\ Checked(r, i)
             /\ ~r.err /\ ~r.errors =>
                  r.used \in Counts(p) /\ \A j \in i..(i + r.used - 1) : Admits(p, j)
<1> DEFINE S == {j \in DOMAIN kids : Admits(p, j)}
           n == Run(i, Limit(p.max, i), S)
           taken == i..(i + n - 1)
           errors == \E j \in taken : ~Declared(j) \/ ~kids[j].valid
           done == {j \in taken : Declared(j)}
           r == MatchAny(p, i)
<1>1. /\ n \in 0..Rest(i) /\ (p.max >= 0 => n <= p.max)
      /\ \A j \in taken : j \in S
  <2> HIDE DEF S
  <2> QED BY RunFacts
<1>2. r = Result(n, n < p.min, errors, done)
  BY DEF MatchAny
<1>3. Rest(i) \in 0..Len(kids) /\ Len(kids) \in Nat /\ i \in Nat
  BY RestFacts, InputFacts
<1>4. done \subseteq DOMAIN kids /\ \A j \in taken : Admits(p, j)
  BY <1>1
<1>5. ~errors => taken \subseteq done /\ \A j \in done : kids[j].valid
  OBVIOUS
<1>a. errors \in BOOLEAN
  OBVIOUS
<1> HIDE DEF n, taken, errors, done, r, S
<1>6. r.used = n /\ r.err = (n < p.min) /\ r.errors = errors /\ r.done = done
  BY <1>2 DEF Result
<1>7. r \in ResultsAt(i)
  <2>1. n \in Nat /\ n <= Rest(i) /\ (n < p.min) \in BOOLEAN /\ errors \in BOOLEAN
    BY <1>1, <1>3, <1>a
  <2> QED BY <1>2, <1>4, <2>1 DEF Result, ResultsAt, Results
<1>8. Checked(r, i)
  BY <1>5, <1>6 DEF Checked, taken
<1>9. ~r.err => r.used \in Counts(p)
  <2>1. n \in 0..Len(kids)
    BY <1>1, <1>3
  <2>2. ~(n < p.min) => n \in Counts(p)
    BY <1>1, <2>1, CountsFacts
  <2> QED BY <1>6, <2>2
<1>10. \A j \in i..(i + r.used - 1) : Admits(p, j)
  BY <1>4, <1>6 DEF taken
<1> QED BY <1>7, <1>8, <1>9, <1>10 DEF r
-----------------------------------------------------------------------------
(* The definition of what a content model admits.                          *)

\* What holds of a number when it holds of those before it, from a on, holds
\* of every number.
LEMMA FromTheFirst ==
  ASSUME NEW a \in Nat, NEW n \in Int, NEW T,
         \A i \in a..n : (\A j \in a..(i - 1) : j \in T) => i \in T
  PROVE  \A i \in a..n : i \in T
<1> DEFINE wrong == {i \in a..n : i \notin T}
<1>1. wrong = {}
  <2> SUFFICES ASSUME wrong # {} PROVE FALSE
    OBVIOUS
  <2>1. wrong \in SUBSET Nat
    OBVIOUS
  <2>2. PICK m \in wrong : \A i \in wrong : m <= i
    <3> HIDE DEF wrong
    <3> QED BY <2>1, LeastNatural
  <2>3. m \in a..n /\ m \notin T
    OBVIOUS
  <2>4. \A j \in a..(m - 1) : j \in T
    <3> SUFFICES ASSUME NEW j \in a..(m - 1), j \notin T PROVE FALSE
      OBVIOUS
    <3>1. j \in a..n /\ ~(m <= j)
      BY <2>3
    <3> QED BY <2>2, <3>1
  <2> QED BY <2>3, <2>4
<1> QED BY <1>1

\* The positions that a particle reaches, from each position.
Landings == [Positions -> SUBSET Positions]

\* The items of a sequence, one more: from everywhere the others reach.
LEMMA ChainedUnfolds ==
  ASSUME NEW items, Len(items) \in Nat, NEW ends,
         \A n \in 1..Len(items) : ends[items[n]] \in Landings, NEW i \in Positions
  PROVE  \A n \in 0..Len(items) :
           /\ Chained(ends, items, i)[n] \in SUBSET Positions
           /\ Chained(ends, items, i)[n] =
                IF n = 0 THEN {i} ELSE UNION {ends[items[n]][j] : j \in Chained(ends, items, i)[n - 1]}
<1> DEFINE S == SUBSET Positions
           N == Len(items)
           G == Chained(ends, items, i)
           Body(f, n) == IF n = 0 THEN {i} ELSE UNION {ends[items[n]][j] : j \in f[n - 1]}
           F == [fn \in [0..N -> S] \X (0..N) |-> Body(fn[1], fn[2])]
<1>1. N \in Nat /\ S # {} /\ 0 <= N + 1
  OBVIOUS
<1>2. ASSUME NEW n \in 0..N, NEW f, n # 0 => f[n - 1] \in S PROVE Body(f, n) \in S
  <2>1. CASE n = 0
    BY <2>1
  <2>2. CASE n # 0
    <3>1. n \in 1..N
      BY <2>2
    <3>2. \A j \in f[n - 1] : ends[items[n]][j] \in S
      BY <1>2, <2>2, <3>1 DEF Landings
    <3> QED BY <2>2, <3>2
  <2> QED BY <2>1, <2>2
<1>3. /\ F \in [[0..N -> S] \X (0..N) -> S]
      /\ \A f \in [0..N -> S] : \A n \in 0..N : F[<<f, n>>] = Body(f, n)
  <2> HIDE DEF Body, S
  <2>1. \A f \in [0..N -> S] : \A n \in 0..N : n # 0 => f[n - 1] \in S
    BY <1>1
  <2>2. \A f \in [0..N -> S] : \A n \in 0..N : Body(f, n) \in S
    BY <1>2, <2>1
  <2> QED BY <2>2
<1>4. \A f, g \in [0..N -> S] : \A n \in 0..N :
         (\A j \in 0..(n - 1) : f[j] = g[j]) => F[<<f, n>>] = F[<<g, n>>]
  <2> HIDE DEF F, S
  <2> TAKE f, g \in [0..N -> S]
  <2> TAKE n \in 0..N
  <2> HAVE \A j \in 0..(n - 1) : f[j] = g[j]
  <2>1. n # 0 => f[n - 1] = g[n - 1]
    BY <1>1
  <2>2. Body(f, n) = Body(g, n)
    BY <2>1
  <2> HIDE DEF Body
  <2> QED BY <1>3, <2>2
<1>5. PICK f \in [0..N -> S] : \A n \in 0..N : f[n] = F[<<f, n>>]
  <2> HIDE DEF F, S, N
  <2>1. MadeOfEarlier(F, 0, N, S)
    BY <1>3, <1>4 DEF MadeOfEarlier
  <2>2. MadeBy(F, 0, N, S) # {}
    BY <1>1, <2>1, RecursiveFunction
  <2> QED BY <2>2 DEF MadeBy
<1>6. f = [n \in 0..N |-> Body(f, n)]
  <2> HIDE DEF F, Body, S
  <2> QED BY <1>3, <1>5
<1>7. G = [n \in 0..N |-> Body(G, n)]
  BY <1>6 DEF Chained
<1> HIDE DEF G
<1>8. \A n \in 0..N : G[n] = Body(G, n)
  <2> HIDE DEF Body
  <2> QED BY <1>7
<1> DEFINE T == {n \in 0..N : G[n] \in S}
<1>9. ASSUME NEW n \in 0..N, \A j \in 0..(n - 1) : j \in T PROVE n \in T
  <2> HIDE DEF Body, S
  <2>1. n # 0 => n - 1 \in T
    BY <1>1, <1>9
  <2>2. Body(G, n) \in S
    BY <1>2, <2>1
  <2>3. G[n] = Body(G, n)
    BY <1>8
  <2> QED BY <2>2, <2>3
<1>10. \A n \in 0..N : n \in T
  <2> HIDE DEF T
  <2>1. 0 \in Nat /\ N \in Int
    BY <1>1
  <2> HIDE DEF N
  <2> QED BY <1>9, <2>1, FromTheFirst
<1> QED BY <1>8, <1>10 DEF G

\* The repetitions up to n.
TimesUpto(once, i, n) ==
  CHOOSE f : f = [m \in 0..n |-> IF m = 0 THEN {i} ELSE UNION {once[j] : j \in f[m - 1]}]

\* What Times builds, one repetition after the other.
LEMMA TimesIsLast == ASSUME NEW once, NEW i, NEW n PROVE Times(once, i, n) = TimesUpto(once, i, n)[n]
BY Zenon DEF Times, TimesUpto

\* One more repetition: from everywhere the others reach.
LEMMA TimesUptoUnfolds ==
  ASSUME NEW once \in Landings, NEW i \in Positions, NEW N \in Nat
  PROVE  \A n \in 0..N :
           /\ TimesUpto(once, i, N)[n] \in SUBSET Positions
           /\ TimesUpto(once, i, N)[n] =
                IF n = 0 THEN {i} ELSE UNION {once[j] : j \in TimesUpto(once, i, N)[n - 1]}
<1> DEFINE S == SUBSET Positions
           G == TimesUpto(once, i, N)
           Body(f, n) == IF n = 0 THEN {i} ELSE UNION {once[j] : j \in f[n - 1]}
           F == [fn \in [0..N -> S] \X (0..N) |-> Body(fn[1], fn[2])]
<1>1. N \in Nat /\ S # {} /\ 0 <= N + 1
  OBVIOUS
<1>2. ASSUME NEW n \in 0..N, NEW f, n # 0 => f[n - 1] \in S PROVE Body(f, n) \in S
  <2>1. CASE n = 0
    BY <2>1
  <2>2. CASE n # 0
    <3>1. \A j \in f[n - 1] : once[j] \in S
      BY <1>2, <2>2 DEF Landings
    <3> QED BY <2>2, <3>1
  <2> QED BY <2>1, <2>2
<1>3. /\ F \in [[0..N -> S] \X (0..N) -> S]
      /\ \A f \in [0..N -> S] : \A n \in 0..N : F[<<f, n>>] = Body(f, n)
  <2> HIDE DEF Body, S
  <2>1. \A f \in [0..N -> S] : \A n \in 0..N : n # 0 => f[n - 1] \in S
    BY <1>1
  <2>2. \A f \in [0..N -> S] : \A n \in 0..N : Body(f, n) \in S
    BY <1>2, <2>1
  <2> QED BY <2>2
<1>4. \A f, g \in [0..N -> S] : \A n \in 0..N :
         (\A j \in 0..(n - 1) : f[j] = g[j]) => F[<<f, n>>] = F[<<g, n>>]
  <2> HIDE DEF F, S
  <2> TAKE f, g \in [0..N -> S]
  <2> TAKE n \in 0..N
  <2> HAVE \A j \in 0..(n - 1) : f[j] = g[j]
  <2>1. n # 0 => f[n - 1] = g[n - 1]
    BY <1>1
  <2>2. Body(f, n) = Body(g, n)
    BY <2>1
  <2> HIDE DEF Body
  <2> QED BY <1>3, <2>2
<1>5. PICK f \in [0..N -> S] : \A n \in 0..N : f[n] = F[<<f, n>>]
  <2> HIDE DEF F, S
  <2>1. MadeOfEarlier(F, 0, N, S)
    BY <1>3, <1>4 DEF MadeOfEarlier
  <2>2. MadeBy(F, 0, N, S) # {}
    BY <1>1, <2>1, RecursiveFunction
  <2> QED BY <2>2 DEF MadeBy
<1>6. f = [n \in 0..N |-> Body(f, n)]
  <2> HIDE DEF F, Body, S
  <2> QED BY <1>3, <1>5
<1>7. G = [n \in 0..N |-> Body(G, n)]
  BY <1>6 DEF TimesUpto
<1> HIDE DEF G
<1>8. \A n \in 0..N : G[n] = Body(G, n)
  <2> HIDE DEF Body
  <2> QED BY <1>7
<1> DEFINE T == {n \in 0..N : G[n] \in S}
<1>9. ASSUME NEW n \in 0..N, \A j \in 0..(n - 1) : j \in T PROVE n \in T
  <2> HIDE DEF Body, S
  <2>1. n # 0 => n - 1 \in T
    BY <1>1, <1>9
  <2>2. Body(G, n) \in S
    BY <1>2, <2>1
  <2>3. G[n] = Body(G, n)
    BY <1>8
  <2> QED BY <2>2, <2>3
<1>10. \A n \in 0..N : n \in T
  <2> HIDE DEF T
  <2>1. 0 \in Nat /\ N \in Int
    BY <1>1
  <2> QED BY <1>9, <2>1, FromTheFirst
<1> QED BY <1>8, <1>10 DEF G

\* No repetition stays where it is, and one more goes on from everywhere the
\* others reach.
LEMMA TimesUnfolds ==
  ASSUME NEW once \in Landings, NEW i \in Positions, NEW n \in Nat
  PROVE  /\ Times(once, i, n) \in SUBSET Positions
         /\ n = 0 => Times(once, i, n) = {i}
         /\ Times(once, i, n + 1) = UNION {once[j] : j \in Times(once, i, n)}
<1> DEFINE u == TimesUpto(once, i, n)
           v == TimesUpto(once, i, n + 1)
           T == {m \in 0..n : u[m] = v[m]}
<1>1. /\ \A m \in 0..n : /\ u[m] \in SUBSET Positions
                         /\ u[m] = IF m = 0 THEN {i} ELSE UNION {once[j] : j \in u[m - 1]}
  BY TimesUptoUnfolds
<1>2. \A m \in 0..(n + 1) : v[m] = IF m = 0 THEN {i} ELSE UNION {once[j] : j \in v[m - 1]}
  <2>1. n + 1 \in Nat
    OBVIOUS
  <2> QED BY <2>1, TimesUptoUnfolds
<1> HIDE DEF u, v
<1>3. ASSUME NEW m \in 0..n, \A j \in 0..(m - 1) : j \in T PROVE m \in T
  <2>1. m \in 0..(n + 1)
    OBVIOUS
  <2>2. m # 0 => u[m - 1] = v[m - 1]
    <3>1. m # 0 => m - 1 \in 0..(m - 1)
      OBVIOUS
    <3> QED BY <1>3, <3>1
  <2>3. u[m] = v[m]
    <3>1. CASE m = 0
      BY <1>1, <1>2, <2>1, <3>1
    <3>2. CASE m # 0
      BY <1>1, <1>2, <2>1, <2>2, <3>2
    <3> QED BY <3>1, <3>2
  <2> QED BY <2>3
<1>4. \A m \in 0..n : m \in T
  <2> HIDE DEF T
  <2>1. 0 \in Nat /\ n \in Int
    OBVIOUS
  <2> QED BY <1>3, <2>1, FromTheFirst
<1>5. Times(once, i, n) = u[n] /\ Times(once, i, n + 1) = v[n + 1]
  BY TimesIsLast DEF u, v
<1>6. n \in 0..n /\ n + 1 \in 0..(n + 1) /\ n + 1 # 0 /\ (n + 1) - 1 = n
  OBVIOUS
<1>7. u[n] = v[n]
  BY <1>4, <1>6
<1>8. v[n + 1] = UNION {once[j] : j \in v[n]}
  BY <1>2, <1>6
<1> QED BY <1>1, <1>5, <1>6, <1>7, <1>8

\* The counts of a particle are natural numbers.
LEMMA CountsType ==
  ASSUME input \in Inputs, NEW p, p.min \in Int, p.max \in Int
  PROVE  \A n \in Counts(p) : n \in Nat
<1>1. Len(kids) \in Nat
  BY InputFacts
<1> DEFINE S == {p.min, Len(kids)}
<1>2. \E x \in S : \A y \in S : x >= y
  BY <1>1
<1>3. Max(S) \in S
  BY <1>2, Zenon DEF Max
<1>4. Max(S) \in Int
  BY <1>1, <1>3
<1> HIDE DEF S
<1>5. \A n \in 0..Max(S) : n \in Nat
  BY <1>4
<1>6. \A n \in 0..p.max : n \in Nat
  OBVIOUS
<1> QED BY <1>5, <1>6 DEF Counts, S

\* What one repetition of a particle reaches, kind by kind.
LEMMA OnceType ==
  ASSUME input \in Inputs, NEW k \in DOMAIN particles,
         NEW ends, \A m \in 1..(k - 1) : ends[m] \in Landings
  PROVE  /\ Once(ends, particles[k]) \in Landings
         /\ particles[k].kind \notin {"element", "any"} =>
              \A n \in 1..Len(particles[k].items) : ends[particles[k].items[n]] \in Landings
<1> DEFINE p == particles[k]
<1>1. /\ p.kind \in {"element", "any", "sequence", "choice", "all", "empty"}
      /\ p.kind \notin {"element", "any"} =>
           /\ Len(p.items) \in Nat /\ DOMAIN p.items = 1..Len(p.items)
           /\ \A n \in DOMAIN p.items : p.items[n] \in 1..(k - 1)
  BY ParticleFacts
<1>2. DOMAIN kids = 1..Len(kids) /\ Len(kids) \in Nat
  BY InputFacts
<1> HIDE DEF p
<1>3. p.kind \notin {"element", "any"} => \A n \in 1..Len(p.items) : ends[p.items[n]] \in Landings
  BY <1>1
<1> DEFINE value(i) ==
     CASE p.kind = "element" -> {j \in {i + 1} : i \in DOMAIN kids /\ Fits(i, p)}
       [] p.kind = "any" -> {j \in {i + 1} : i \in DOMAIN kids /\ Admits(p, i)}
       [] p.kind = "sequence" -> Chained(ends, p.items, i)[Len(p.items)]
       [] p.kind = "choice" -> UNION {ends[p.items[n]][i] : n \in DOMAIN p.items}
       [] p.kind = "all" -> {j \in Positions : j >= i /\ AllTakes(p, i, j - 1)}
       [] OTHER -> {}
<1>4. ASSUME NEW i \in Positions PROVE value(i) \in SUBSET Positions
  <2>1. CASE p.kind = "element"
    BY <1>2, <2>1 DEF Positions
  <2>2. CASE p.kind = "any"
    BY <1>2, <2>2 DEF Positions
  <2>3. CASE p.kind = "sequence"
    <3>1. Len(p.items) \in Nat /\ \A n \in 1..Len(p.items) : ends[p.items[n]] \in Landings
      BY <1>1, <1>3, <2>3
    <3>2. \A n \in 0..Len(p.items) : Chained(ends, p.items, i)[n] \in SUBSET Positions
      BY <3>1, ChainedUnfolds
    <3>3. Len(p.items) \in 0..Len(p.items)
      BY <3>1
    <3>4. value(i) = Chained(ends, p.items, i)[Len(p.items)]
      BY <2>3
    <3> HIDE DEF value
    <3> QED BY <3>2, <3>3, <3>4
  <2>4. CASE p.kind = "choice"
    <3>1. \A n \in DOMAIN p.items : ends[p.items[n]][i] \in SUBSET Positions
      BY <1>1, <1>3, <2>4 DEF Landings
    <3>2. value(i) = UNION {ends[p.items[n]][i] : n \in DOMAIN p.items}
      BY <2>4
    <3> HIDE DEF value
    <3> QED BY <3>1, <3>2
  <2>5. CASE p.kind \in {"all", "empty"}
    BY <2>5
  <2> QED BY <1>1, <2>1, <2>2, <2>3, <2>4, <2>5
<1>5. Once(ends, p) = [i \in Positions |-> value(i)]
  BY DEF Once
<1> HIDE DEF value
<1>6. Once(ends, p) \in Landings
  BY <1>4, <1>5 DEF Landings
<1> QED BY <1>3, <1>6 DEF p

\* One repetition depends on the items of a group only.
LEMMA OnceSame ==
  ASSUME input \in Inputs, NEW k \in DOMAIN particles, NEW f, NEW g,
         \A m \in 1..(k - 1) : f[m] = g[m] /\ f[m] \in Landings
  PROVE  Once(f, particles[k]) = Once(g, particles[k])
<1> DEFINE p == particles[k]
<1>1. /\ p.kind \in {"element", "any", "sequence", "choice", "all", "empty"}
      /\ p.kind \notin {"element", "any"} =>
           /\ Len(p.items) \in Nat /\ DOMAIN p.items = 1..Len(p.items)
           /\ \A n \in DOMAIN p.items : p.items[n] \in 1..(k - 1)
  BY ParticleFacts
<1> HIDE DEF p
<1>2. CASE p.kind = "element" \/ p.kind = "any" \/ p.kind \in {"all", "empty"}
  <2>1. CASE p.kind = "element"
    BY <2>1 DEF Once, p
  <2>2. CASE p.kind = "any"
    BY <2>2 DEF Once, p
  <2>3. CASE p.kind \in {"all", "empty"}
    BY <2>3 DEF Once, p
  <2> QED BY <1>2, <2>1, <2>2, <2>3
<1>3. ASSUME p.kind \in {"sequence", "choice"}
      PROVE  /\ Len(p.items) \in Nat /\ DOMAIN p.items = 1..Len(p.items)
             /\ \A n \in 1..Len(p.items) : f[p.items[n]] = g[p.items[n]] /\ f[p.items[n]] \in Landings
  BY <1>1, <1>3
<1>4. CASE p.kind = "choice"
  <2>1. ASSUME NEW i \in Positions
        PROVE  UNION {f[p.items[n]][i] : n \in DOMAIN p.items} = UNION {g[p.items[n]][i] : n \in DOMAIN p.items}
    BY <1>3, <1>4
  <2>2. /\ Once(f, p) = [i \in Positions |-> UNION {f[p.items[n]][i] : n \in DOMAIN p.items}]
        /\ Once(g, p) = [i \in Positions |-> UNION {g[p.items[n]][i] : n \in DOMAIN p.items}]
    BY <1>4 DEF Once
  <2> QED BY <2>1, <2>2 DEF p
<1>5. CASE p.kind = "sequence"
  <2>1. ASSUME NEW i \in Positions
        PROVE  Chained(f, p.items, i)[Len(p.items)] = Chained(g, p.items, i)[Len(p.items)]
    <3> DEFINE u == Chained(f, p.items, i)
               v == Chained(g, p.items, i)
               N == Len(p.items)
               T == {n \in 0..N : u[n] = v[n]}
    <3>1. N \in Nat /\ \A n \in 1..N : f[p.items[n]] = g[p.items[n]]
      BY <1>3, <1>5
    <3>2. \A n \in 0..N : u[n] = IF n = 0 THEN {i} ELSE UNION {f[p.items[n]][j] : j \in u[n - 1]}
      BY <1>3, <1>5, ChainedUnfolds
    <3>3. \A n \in 0..N : v[n] = IF n = 0 THEN {i} ELSE UNION {g[p.items[n]][j] : j \in v[n - 1]}
      <4>1. \A n \in 1..Len(p.items) : g[p.items[n]] \in Landings
        BY <1>3, <1>5
      <4> QED BY <3>1, <4>1, ChainedUnfolds
    <3> HIDE DEF u, v
    <3>4. ASSUME NEW n \in 0..N, \A j \in 0..(n - 1) : j \in T PROVE n \in T
      <4>1. CASE n = 0
        <5>1. u[n] = v[n]
          BY <3>2, <3>3, <4>1
        <5> QED BY <5>1
      <4>2. CASE n # 0
        <5>1. n \in 1..N /\ n - 1 \in 0..(n - 1)
          BY <3>1, <4>2
        <5>2. u[n - 1] = v[n - 1] /\ f[p.items[n]] = g[p.items[n]]
          BY <3>1, <3>4, <5>1
        <5>3. UNION {f[p.items[n]][j] : j \in u[n - 1]} = UNION {g[p.items[n]][j] : j \in v[n - 1]}
          BY <5>2
        <5>4. /\ u[n] = UNION {f[p.items[n]][j] : j \in u[n - 1]}
              /\ v[n] = UNION {g[p.items[n]][j] : j \in v[n - 1]}
          BY <3>2, <3>3, <4>2
        <5>5. u[n] = v[n]
          BY <5>3, <5>4
        <5> QED BY <5>5
      <4> QED BY <4>1, <4>2
    <3>5. \A n \in 0..N : n \in T
      <4> HIDE DEF T
      <4>1. 0 \in Nat /\ N \in Int
        BY <3>1
      <4> HIDE DEF N
      <4> QED BY <3>4, <4>1, FromTheFirst
    <3>6. N \in 0..N
      BY <3>1
    <3>7. u[N] = v[N]
      BY <3>5, <3>6
    <3> QED BY <3>7 DEF u, v
  <2>2. /\ Once(f, p) = [i \in Positions |-> Chained(f, p.items, i)[Len(p.items)]]
        /\ Once(g, p) = [i \in Positions |-> Chained(g, p.items, i)[Len(p.items)]]
    BY <1>5 DEF Once
  <2> QED BY <2>1, <2>2 DEF p
<1> QED BY <1>1, <1>2, <1>4, <1>5

\* What a particle reaches: some count of repetitions.
LEMMA EndsUnfolds ==
  ASSUME input \in Inputs
  PROVE  \A k \in DOMAIN particles :
           /\ Ends[k] \in Landings
           /\ \A i \in Positions :
                Ends[k][i] = UNION {Times(Once(Ends, particles[k]), i, n) : n \in Counts(particles[k])}
<1> DEFINE N == Len(particles)
           value(f, k) ==
             [i \in Positions |-> UNION {Times(Once(f, particles[k]), i, n) : n \in Counts(particles[k])}]
           F == [fk \in [1..N -> Landings] \X (1..N) |-> value(fk[1], fk[2])]
<1>1. N \in Nat /\ DOMAIN particles = 1..N /\ 1 <= N + 1
  BY InputFacts
<1>2. Landings # {}
  <2>1. [i \in Positions |-> {}] \in Landings
    BY DEF Landings
  <2> QED BY <2>1
<1>3. ASSUME NEW k \in 1..N, NEW f, \A m \in 1..(k - 1) : f[m] \in Landings
      PROVE  value(f, k) \in Landings
  <2>1. Once(f, particles[k]) \in Landings
    BY <1>1, <1>3, OnceType
  <2>2. particles[k].min \in Int /\ particles[k].max \in Int
    BY <1>1, ParticleFacts
  <2>3. \A n \in Counts(particles[k]) : n \in Nat
    BY <2>2, CountsType
  <2>4. \A i \in Positions : \A n \in Counts(particles[k]) :
          Times(Once(f, particles[k]), i, n) \in SUBSET Positions
    BY <2>1, <2>3, TimesUnfolds
  <2>5. \A i \in Positions :
          UNION {Times(Once(f, particles[k]), i, n) : n \in Counts(particles[k])} \in SUBSET Positions
    BY <2>4
  <2> QED BY <2>5 DEF Landings
<1> HIDE DEF N
<1>4. /\ F \in [[1..N -> Landings] \X (1..N) -> Landings]
      /\ \A f \in [1..N -> Landings] : \A k \in 1..N : F[<<f, k>>] = value(f, k)
  <2> HIDE DEF value
  <2>1. \A f \in [1..N -> Landings] : \A k \in 1..N : \A m \in 1..(k - 1) : f[m] \in Landings
    BY <1>1
  <2>2. \A f \in [1..N -> Landings] : \A k \in 1..N : value(f, k) \in Landings
    BY <1>3, <2>1
  <2> QED BY <2>2
<1>5. ASSUME NEW k \in 1..N, NEW f, NEW g, \A m \in 1..(k - 1) : f[m] = g[m] /\ f[m] \in Landings
      PROVE  value(f, k) = value(g, k)
  <2>1. Once(f, particles[k]) = Once(g, particles[k])
    BY <1>1, <1>5, OnceSame
  <2> QED BY <2>1
<1>6. \A f, g \in [1..N -> Landings] : \A k \in 1..N :
         (\A m \in 1..(k - 1) : f[m] = g[m]) => F[<<f, k>>] = F[<<g, k>>]
  <2> HIDE DEF F, value
  <2> TAKE f, g \in [1..N -> Landings]
  <2> TAKE k \in 1..N
  <2> HAVE \A m \in 1..(k - 1) : f[m] = g[m]
  <2>1. \A m \in 1..(k - 1) : f[m] \in Landings
    BY <1>1
  <2>2. value(f, k) = value(g, k)
    BY <1>5, <2>1
  <2> QED BY <1>4, <2>2
<1>7. PICK f \in [1..N -> Landings] : \A k \in 1..N : f[k] = F[<<f, k>>]
  <2> HIDE DEF F
  <2>1. MadeOfEarlier(F, 1, N, Landings)
    BY <1>4, <1>6 DEF MadeOfEarlier
  <2>2. MadeBy(F, 1, N, Landings) # {}
    BY <1>1, <1>2, <2>1, RecursiveFunction
  <2> QED BY <2>2 DEF MadeBy
<1>8. f = [k \in 1..N |-> value(f, k)]
  <2> HIDE DEF F, value
  <2> QED BY <1>4, <1>7
<1>9. Ends = CHOOSE e : e = [k \in DOMAIN particles |-> value(e, k)]
  BY Zenon DEF Ends
<1>10. Ends = [k \in 1..N |-> value(Ends, k)]
  <2> HIDE DEF value
  <2> QED BY <1>1, <1>8, <1>9
<1>11. \A k \in 1..N : Ends[k] = value(Ends, k)
  <2> HIDE DEF value
  <2> QED BY <1>10
<1> DEFINE T == {k \in 1..N : Ends[k] \in Landings}
<1>12. ASSUME NEW k \in 1..N, \A m \in 1..(k - 1) : m \in T PROVE k \in T
  <2> HIDE DEF value
  <2>1. \A m \in 1..(k - 1) : Ends[m] \in Landings
    BY <1>12
  <2>2. value(Ends, k) \in Landings
    BY <1>3, <2>1
  <2>3. Ends[k] = value(Ends, k)
    BY <1>11
  <2> QED BY <2>2, <2>3
<1>13. \A k \in 1..N : k \in T
  <2> HIDE DEF T
  <2>1. 1 \in Nat /\ N \in Int
    BY <1>1
  <2> QED BY <1>12, <2>1, FromTheFirst
<1>14. ASSUME NEW k \in 1..N, NEW i \in Positions
       PROVE  Ends[k][i] = UNION {Times(Once(Ends, particles[k]), i, n) : n \in Counts(particles[k])}
  <2>1. Ends[k] = value(Ends, k)
    BY <1>11
  <2>2. value(Ends, k)[i] = UNION {Times(Once(Ends, particles[k]), i, n) : n \in Counts(particles[k])}
    OBVIOUS
  <2> QED BY <2>1, <2>2, Zenon
<1>15. \A k \in 1..N : Ends[k] \in Landings
  BY <1>13
<1> HIDE DEF value, T
<1> QED BY <1>1, <1>14, <1>15, Zenon
-----------------------------------------------------------------------------
(* What the matchers return, one item, round or particle at a time.        *)

\* Matching nothing, one match after another, and a match that is given up,
\* are results.
LEMMA ResultTypes ==
  ASSUME input \in Inputs, NEW i \in Positions
  PROVE  /\ Nothing \in ResultsAt(i)
         /\ \A r \in ResultsAt(i) :
              /\ i + r.used \in Positions
              /\ \A s \in ResultsAt(i + r.used) : Then(r, s) \in ResultsAt(i) /\ After(r, s) \in ResultsAt(i)
              /\ \A b \in BOOLEAN : [r EXCEPT !.err = b] \in ResultsAt(i)
<1>1. /\ Rest(i) \in Nat /\ i \in Nat
      /\ \A u \in 0..Rest(i) : i + u \in Positions /\ Rest(i + u) = Rest(i) - u
  BY RestFacts, InputFacts
<1>2. Nothing \in ResultsAt(i)
  BY <1>1 DEF Nothing, Result, ResultsAt, Results
<1>3. ASSUME NEW r \in ResultsAt(i)
      PROVE  /\ i + r.used \in Positions
             /\ \A s \in ResultsAt(i + r.used) : Then(r, s) \in ResultsAt(i) /\ After(r, s) \in ResultsAt(i)
             /\ \A b \in BOOLEAN : [r EXCEPT !.err = b] \in ResultsAt(i)
  <2>1. r \in Results /\ r.used \in 0..Rest(i)
    BY <1>1 DEF ResultsAt, Results
  <2>2. i + r.used \in Positions /\ Rest(i + r.used) = Rest(i) - r.used
    BY <1>1, <2>1
  <2>3. ASSUME NEW s \in ResultsAt(i + r.used)
        PROVE  Then(r, s) \in ResultsAt(i) /\ After(r, s) \in ResultsAt(i)
    <3>1. s \in Results /\ s.used \in Nat /\ s.used <= Rest(i) - r.used
      BY <2>2 DEF ResultsAt, Results
    <3>2. r.used + s.used \in Nat /\ r.used + s.used <= Rest(i)
      BY <1>1, <2>1, <3>1
    <3>3. /\ r.done \cup s.done \in SUBSET DOMAIN kids
          /\ r.err \in BOOLEAN /\ s.err \in BOOLEAN /\ (r.errors \/ s.errors) \in BOOLEAN
      BY <2>1, <3>1 DEF Results
    <3>4. Then(r, s) \in ResultsAt(i)
      BY <3>2, <3>3 DEF Then, Result, ResultsAt, Results
    <3>5. After(r, s) \in ResultsAt(i)
      BY <1>1, <2>1, <3>3 DEF After, Result, ResultsAt, Results
    <3> QED BY <3>4, <3>5
  <2>4. \A b \in BOOLEAN : [r EXCEPT !.err = b] \in ResultsAt(i)
    BY <1>1, <2>1 DEF ResultsAt, Results
  <2> QED BY <2>2, <2>3, <2>4
<1> QED BY <1>2, <1>3

\* What the first items of a sequence match.
UptoItems(match, items, i) ==
  CHOOSE f : f = [n \in 0..Len(items) |->
                    IF n = 0 THEN Nothing
                    ELSE LET r == f[n - 1]
                         IN  IF r.err THEN r ELSE Then(r, match[items[n]][i + r.used])]

\* What MatchItems builds, item by item.
LEMMA ItemsIsLast ==
  ASSUME NEW match, NEW items, NEW i
  PROVE  MatchItems(match, items, i) = UptoItems(match, items, i)[Len(items)]
BY Zenon DEF MatchItems, UptoItems

\* The next item is matched where the others ended, until one fails.
NextItem(match, items, i, n, r) == IF r.err THEN r ELSE Then(r, match[items[n]][i + r.used])

ItemByItem(match, items, i) ==
  \A n \in 0..Len(items) :
     /\ UptoItems(match, items, i)[n] \in ResultsAt(i)
     /\ UptoItems(match, items, i)[n] =
          IF n = 0 THEN Nothing ELSE NextItem(match, items, i, n, UptoItems(match, items, i)[n - 1])

\* One more item of a sequence.
LEMMA ItemsUnfold ==
  ASSUME input \in Inputs, NEW items, Len(items) \in Nat, NEW match,
         \A n \in 1..Len(items) : match[items[n]] \in Outcomes, NEW i \in Positions
  PROVE  ItemByItem(match, items, i)
<1> DEFINE S == ResultsAt(i)
           N == Len(items)
           G == UptoItems(match, items, i)
           Body(f, n) == IF n = 0 THEN Nothing ELSE NextItem(match, items, i, n, f[n - 1])
           F == [fn \in [0..N -> S] \X (0..N) |-> Body(fn[1], fn[2])]
<1>1. N \in Nat /\ S # {} /\ 0 <= N + 1
  BY ResultTypes
<1>2. ASSUME NEW n \in 0..N, NEW f, n # 0 => f[n - 1] \in S PROVE Body(f, n) \in S
  <2>1. CASE n = 0
    BY <2>1, ResultTypes
  <2>2. CASE n # 0
    <3> DEFINE r == f[n - 1]
               s == match[items[n]][i + r.used]
    <3>1. n \in 1..N /\ r \in ResultsAt(i)
      BY <1>2, <2>2
    <3> HIDE DEF r
    <3>2. i + r.used \in Positions
      BY <3>1, ResultTypes
    <3>3. s \in ResultsAt(i + r.used)
      BY <3>1, <3>2 DEF Outcomes, ResultsAt
    <3> HIDE DEF s
    <3>4. Then(r, s) \in ResultsAt(i)
      BY <3>1, <3>3, ResultTypes
    <3>5. Body(f, n) = IF r.err THEN r ELSE Then(r, s)
      BY <2>2 DEF NextItem, r, s
    <3> HIDE DEF Body
    <3> QED BY <3>1, <3>4, <3>5
  <2> QED BY <2>1, <2>2
<1>3. /\ F \in [[0..N -> S] \X (0..N) -> S]
      /\ \A f \in [0..N -> S] : \A n \in 0..N : F[<<f, n>>] = Body(f, n)
  <2> HIDE DEF Body, S
  <2>1. \A f \in [0..N -> S] : \A n \in 0..N : n # 0 => f[n - 1] \in S
    BY <1>1
  <2>2. \A f \in [0..N -> S] : \A n \in 0..N : Body(f, n) \in S
    BY <1>2, <2>1
  <2> QED BY <2>2
<1>4. \A f, g \in [0..N -> S] : \A n \in 0..N :
         (\A j \in 0..(n - 1) : f[j] = g[j]) => F[<<f, n>>] = F[<<g, n>>]
  <2> HIDE DEF F, S
  <2> TAKE f, g \in [0..N -> S]
  <2> TAKE n \in 0..N
  <2> HAVE \A j \in 0..(n - 1) : f[j] = g[j]
  <2>1. n # 0 => f[n - 1] = g[n - 1]
    BY <1>1
  <2>2. Body(f, n) = Body(g, n)
    BY <2>1
  <2> HIDE DEF Body
  <2> QED BY <1>3, <2>2
<1>5. PICK f \in [0..N -> S] : \A n \in 0..N : f[n] = F[<<f, n>>]
  <2> HIDE DEF F, S, N
  <2>1. MadeOfEarlier(F, 0, N, S)
    BY <1>3, <1>4 DEF MadeOfEarlier
  <2>2. MadeBy(F, 0, N, S) # {}
    BY <1>1, <2>1, RecursiveFunction
  <2> QED BY <2>2 DEF MadeBy
<1>6. f = [n \in 0..N |-> Body(f, n)]
  <2> HIDE DEF F, Body, S
  <2> QED BY <1>3, <1>5
<1>7. G = CHOOSE g : g = [n \in 0..N |-> Body(g, n)]
  BY Zenon DEF UptoItems, NextItem
<1>8. G = [n \in 0..N |-> Body(G, n)]
  <2> HIDE DEF Body, N, G
  <2> QED BY <1>6, <1>7
<1> HIDE DEF G
<1>9. \A n \in 0..N : G[n] = Body(G, n)
  <2> HIDE DEF Body
  <2> QED BY <1>8
<1> DEFINE T == {n \in 0..N : G[n] \in S}
<1>10. ASSUME NEW n \in 0..N, \A j \in 0..(n - 1) : j \in T PROVE n \in T
  <2> HIDE DEF Body, S
  <2>1. n # 0 => n - 1 \in T
    BY <1>1, <1>10
  <2>2. Body(G, n) \in S
    BY <1>2, <2>1
  <2>3. G[n] = Body(G, n)
    BY <1>9
  <2> QED BY <2>2, <2>3
<1>11. \A n \in 0..N : n \in T
  <2> HIDE DEF T
  <2>1. 0 \in Nat /\ N \in Int
    BY <1>1
  <2> HIDE DEF N
  <2> QED BY <1>10, <2>1, FromTheFirst
<1>12. \A n \in 0..N : G[n] \in S
  BY <1>11
<1> QED BY <1>9, <1>12 DEF G, ItemByItem

\* The rounds of Repeat: what was matched and whether to go on.
RoundsAt(i) == [r : ResultsAt(i), more : BOOLEAN]
Stopped(p, n, t) == [r |-> [t EXCEPT !.err = n - 1 < p.min], more |-> FALSE]
NextRound(p, i, once, n, before) ==
  LET r == before.r
      s == once[i + r.used]
  IN  IF ~before.more THEN before
      ELSE IF n > Limit(p.max, i) \/ (p.kind = "choice" /\ r.used = Rest(i)) THEN Stopped(p, n, r)
      ELSE IF s.err \/ s.used = 0 THEN Stopped(p, n, After(r, s))
      ELSE [r |-> Then(r, s), more |-> TRUE]

Rounds(p, i, once) ==
  CHOOSE f : f = [n \in 0..(Rest(i) + 1) |->
                    IF n = 0 THEN [r |-> Nothing, more |-> TRUE]
                    ELSE NextRound(p, i, once, n, f[n - 1])]

\* What Repeat builds, round by round.
LEMMA RepeatIsLast ==
  ASSUME NEW p, NEW i, NEW once
  PROVE  Repeat(p, i, once) = Rounds(p, i, once)[Rest(i) + 1].r
BY Zenon DEF Repeat, Rounds, NextRound, Stopped

\* One more round.
LEMMA RoundsUnfold ==
  ASSUME input \in Inputs, NEW p, NEW once \in Outcomes, NEW i \in Positions
  PROVE  \A n \in 0..(Rest(i) + 1) :
           /\ Rounds(p, i, once)[n] \in RoundsAt(i)
           /\ Rounds(p, i, once)[n] =
                IF n = 0 THEN [r |-> Nothing, more |-> TRUE]
                ELSE NextRound(p, i, once, n, Rounds(p, i, once)[n - 1])
<1> DEFINE S == RoundsAt(i)
           N == Rest(i) + 1
           G == Rounds(p, i, once)
           Body(f, n) == IF n = 0 THEN [r |-> Nothing, more |-> TRUE] ELSE NextRound(p, i, once, n, f[n - 1])
           F == [fn \in [0..N -> S] \X (0..N) |-> Body(fn[1], fn[2])]
<1>0. [r |-> Nothing, more |-> TRUE] \in S
  BY ResultTypes DEF RoundsAt
<1>1. N \in Nat /\ S # {} /\ 0 <= N + 1
  BY <1>0, RestFacts, InputFacts
<1>2. ASSUME NEW n \in 0..N, NEW f, n # 0 => f[n - 1] \in S PROVE Body(f, n) \in S
  <2>1. CASE n = 0
    BY <1>0, <2>1
  <2>2. CASE n # 0
    <3> DEFINE before == f[n - 1]
               r == before.r
               s == once[i + r.used]
    <3>1. before \in RoundsAt(i)
      BY <1>2, <2>2
    <3> HIDE DEF before
    <3>2. r \in ResultsAt(i)
      BY <3>1 DEF RoundsAt
    <3> HIDE DEF r
    <3>3. i + r.used \in Positions
      BY <3>2, ResultTypes
    <3>4. s \in ResultsAt(i + r.used)
      BY <3>3 DEF Outcomes, ResultsAt
    <3> HIDE DEF s
    <3>5. Then(r, s) \in ResultsAt(i) /\ After(r, s) \in ResultsAt(i)
      BY <3>2, <3>4, ResultTypes
    <3>6. \A t \in ResultsAt(i) : Stopped(p, n, t) \in RoundsAt(i)
      <4> TAKE t \in ResultsAt(i)
      <4>1. (n - 1 < p.min) \in BOOLEAN
        OBVIOUS
      <4>2. [t EXCEPT !.err = n - 1 < p.min] \in ResultsAt(i)
        BY <4>1, ResultTypes
      <4> QED BY <4>2 DEF Stopped, RoundsAt
    <3>7. [r |-> Then(r, s), more |-> TRUE] \in RoundsAt(i)
      BY <3>5 DEF RoundsAt
    <3>8. Body(f, n) = NextRound(p, i, once, n, before)
      BY <2>2 DEF before
    <3>9. NextRound(p, i, once, n, before) \in RoundsAt(i)
      BY <3>1, <3>2, <3>5, <3>6, <3>7 DEF NextRound, r, s
    <3> HIDE DEF Body
    <3> QED BY <3>8, <3>9
  <2> QED BY <2>1, <2>2
<1> HIDE DEF N
<1>3. /\ F \in [[0..N -> S] \X (0..N) -> S]
      /\ \A f \in [0..N -> S] : \A n \in 0..N : F[<<f, n>>] = Body(f, n)
  <2> HIDE DEF Body, S
  <2>1. \A f \in [0..N -> S] : \A n \in 0..N : n # 0 => f[n - 1] \in S
    BY <1>1
  <2>2. \A f \in [0..N -> S] : \A n \in 0..N : Body(f, n) \in S
    BY <1>2, <2>1
  <2> QED BY <2>2
<1>4. \A f, g \in [0..N -> S] : \A n \in 0..N :
         (\A j \in 0..(n - 1) : f[j] = g[j]) => F[<<f, n>>] = F[<<g, n>>]
  <2> HIDE DEF F, S
  <2> TAKE f, g \in [0..N -> S]
  <2> TAKE n \in 0..N
  <2> HAVE \A j \in 0..(n - 1) : f[j] = g[j]
  <2>1. n # 0 => f[n - 1] = g[n - 1]
    BY <1>1
  <2>2. Body(f, n) = Body(g, n)
    BY <2>1
  <2> HIDE DEF Body
  <2> QED BY <1>3, <2>2
<1>5. PICK f \in [0..N -> S] : \A n \in 0..N : f[n] = F[<<f, n>>]
  <2> HIDE DEF F, S
  <2>1. MadeOfEarlier(F, 0, N, S)
    BY <1>3, <1>4 DEF MadeOfEarlier
  <2>2. MadeBy(F, 0, N, S) # {}
    BY <1>1, <2>1, RecursiveFunction
  <2> QED BY <2>2 DEF MadeBy
<1>6. f = [n \in 0..N |-> Body(f, n)]
  <2> HIDE DEF F, Body, S
  <2> QED BY <1>3, <1>5
<1>7. G = CHOOSE g : g = [n \in 0..N |-> Body(g, n)]
  BY Zenon DEF Rounds, N
<1>8. G = [n \in 0..N |-> Body(G, n)]
  <2> HIDE DEF Body, G
  <2> QED BY <1>6, <1>7
<1> HIDE DEF G
<1>9. \A n \in 0..N : G[n] = Body(G, n)
  <2> HIDE DEF Body
  <2> QED BY <1>8
<1> DEFINE T == {n \in 0..N : G[n] \in S}
<1>10. ASSUME NEW n \in 0..N, \A j \in 0..(n - 1) : j \in T PROVE n \in T
  <2> HIDE DEF Body, S
  <2>1. n # 0 => n - 1 \in T
    BY <1>1, <1>10
  <2>2. Body(G, n) \in S
    BY <1>2, <2>1
  <2>3. G[n] = Body(G, n)
    BY <1>9
  <2> QED BY <2>2, <2>3
<1>11. \A n \in 0..N : n \in T
  <2> HIDE DEF T
  <2>1. 0 \in Nat /\ N \in Int
    BY <1>1
  <2> QED BY <1>10, <2>1, FromTheFirst
<1>12. \A n \in 0..N : G[n] \in S
  BY <1>11
<1> QED BY <1>9, <1>12 DEF G, N

\* The repetitions of a group are a result.
LEMMA RepeatType ==
  ASSUME input \in Inputs, NEW p, NEW once \in Outcomes, NEW i \in Positions
  PROVE  Repeat(p, i, once) \in ResultsAt(i)
<1> DEFINE n == Rest(i) + 1
<1>1. n \in 0..(Rest(i) + 1)
  BY RestFacts, InputFacts
<1>2. Rounds(p, i, once)[n] \in RoundsAt(i)
  BY <1>1, RoundsUnfold
<1>3. Repeat(p, i, once) = Rounds(p, i, once)[n].r
  BY RepeatIsLast
<1> HIDE DEF n
<1> QED BY <1>2, <1>3 DEF RoundsAt

\* The longest match of a choice is one of its matches, or nothing.
LEMMA LongestFacts ==
  ASSUME input \in Inputs, NEW items, NEW match, DOMAIN items = 1..Len(items),
         \A n \in 1..Len(items) : match[items[n]] \in Outcomes, NEW i \in Positions
  PROVE  LET r == MatchLongest(match, items, i)
         IN  /\ r \in ResultsAt(i) /\ ~r.err
             /\ r.used # 0 => \E n \in 1..Len(items) :
                                match[items[n]][i].used = r.used /\ ~match[items[n]][i].err
             /\ r.errors <=> \E n \in 1..Len(items) : match[items[n]][i].errors
             /\ \A j \in r.done : \E n \in 1..Len(items) : j \in match[items[n]][i].done
             /\ \A n \in 1..Len(items) : match[items[n]][i].done \subseteq r.done
<1> DEFINE tried == {match[items[n]][i] : n \in DOMAIN items}
           lengths == {0} \cup {t.used : t \in {u \in tried : ~u.err}}
           done == UNION {t.done : t \in tried}
           errors == \E t \in tried : t.errors
           r == MatchLongest(match, items, i)
<1>1. r = Result(Max(lengths), FALSE, errors, done)
  BY DEF MatchLongest
<1>2. \A n \in 1..Len(items) : match[items[n]][i] \in ResultsAt(i)
  BY DEF Outcomes, ResultsAt
<1>3. \A t \in tried : t \in ResultsAt(i)
  BY <1>2
<1>4. Rest(i) \in Nat
  BY RestFacts, InputFacts
<1>5. lengths \in SUBSET (0..Rest(i)) /\ lengths # {}
  <2>1. \A t \in tried : t.used \in 0..Rest(i)
    <3> HIDE DEF tried
    <3> QED BY <1>3, <1>4 DEF ResultsAt, Results
  <2> HIDE DEF tried
  <2> QED BY <1>4, <2>1
<1>6. Max(lengths) \in lengths
  <2> HIDE DEF lengths
  <2> QED BY <1>4, <1>5, MaxOfBounded
<1>7. Max(lengths) \in 0..Rest(i)
  <2> HIDE DEF lengths
  <2> QED BY <1>5, <1>6
<1>8. done \subseteq DOMAIN kids
  <2>1. \A t \in tried : t.done \subseteq DOMAIN kids
    <3> HIDE DEF tried
    <3> QED BY <1>3 DEF ResultsAt, Results
  <2> HIDE DEF tried
  <2> QED BY <2>1
<1>9. Max(lengths) # 0 => \E t \in tried : t.used = Max(lengths) /\ ~t.err
  <2> DEFINE top == Max(lengths)
  <2>1. top \in lengths
    BY <1>6
  <2> HIDE DEF top, tried
  <2>2. top # 0 => \E t \in tried : t.used = top /\ ~t.err
    BY <2>1
  <2> QED BY <2>2 DEF top
<1>10. errors \in BOOLEAN
  OBVIOUS
<1>11. errors <=> \E n \in 1..Len(items) : match[items[n]][i].errors
  OBVIOUS
<1>12. /\ \A j \in done : \E n \in 1..Len(items) : j \in match[items[n]][i].done
       /\ \A n \in 1..Len(items) : match[items[n]][i].done \subseteq done
  OBVIOUS
<1>13. (\E t \in tried : t.used = Max(lengths) /\ ~t.err)
         => \E n \in 1..Len(items) : match[items[n]][i].used = Max(lengths) /\ ~match[items[n]][i].err
  <2> DEFINE top == Max(lengths)
  <2> HIDE DEF top
  <2>1. (\E t \in tried : t.used = top /\ ~t.err)
         => \E n \in 1..Len(items) : match[items[n]][i].used = top /\ ~match[items[n]][i].err
    OBVIOUS
  <2> QED BY <2>1 DEF top
<1> HIDE DEF r, errors, done, lengths, tried
<1>14. r.used = Max(lengths) /\ ~r.err /\ r.errors = errors /\ r.done = done
  BY <1>1 DEF Result
<1>15. r \in ResultsAt(i)
  <2>1. Max(lengths) \in Nat /\ Max(lengths) <= Rest(i)
    BY <1>4, <1>7
  <2> QED BY <1>1, <1>8, <1>10, <2>1 DEF Result, ResultsAt, Results
<1>16. r.used # 0 => \E n \in 1..Len(items) :
                      match[items[n]][i].used = r.used /\ ~match[items[n]][i].err
  BY <1>9, <1>13, <1>14
<1> QED BY <1>11, <1>12, <1>14, <1>15, <1>16 DEF r

\* One repetition of a group, at every child.
OnceMatched(match, p) ==
  [j \in Positions |-> IF p.kind = "sequence" THEN MatchItems(match, p.items, j)
                       ELSE MatchLongest(match, p.items, j)]

\* The items of a group, with what is known of them.
LEMMA GroupItems ==
  ASSUME input \in Inputs, NEW k \in DOMAIN particles, particles[k].kind \in {"sequence", "choice"}
  PROVE  /\ Len(particles[k].items) \in Nat
         /\ DOMAIN particles[k].items = 1..Len(particles[k].items)
         /\ \A n \in 1..Len(particles[k].items) :
              /\ particles[k].items[n] \in 1..(k - 1)
              /\ particles[k].items[n] \in DOMAIN particles
              /\ particles[k].items[n] # Len(particles)
<1> DEFINE p == particles[k]
<1>1. p.kind \notin {"element", "any"} =>
         /\ Len(p.items) \in Nat /\ DOMAIN p.items = 1..Len(p.items)
         /\ \A n \in DOMAIN p.items : /\ p.items[n] \in 1..(k - 1)
                                      /\ p.items[n] \in DOMAIN particles
                                      /\ p.items[n] # Len(particles)
  BY ParticleFacts
<1>2. p.kind \notin {"element", "any"}
  OBVIOUS
<1> QED BY <1>1, <1>2

\* One repetition is a result at every child.
LEMMA OnceMatchedType ==
  ASSUME input \in Inputs, NEW k \in DOMAIN particles, particles[k].kind \in {"sequence", "choice"},
         NEW f, \A m \in 1..(k - 1) : f[m] \in Outcomes
  PROVE  OnceMatched(f, particles[k]) \in Outcomes
<1> DEFINE p == particles[k]
<1>1. /\ Len(p.items) \in Nat /\ DOMAIN p.items = 1..Len(p.items)
      /\ \A n \in 1..Len(p.items) : f[p.items[n]] \in Outcomes
  BY GroupItems
<1> HIDE DEF p
<1>2. ASSUME NEW j \in Positions PROVE MatchItems(f, p.items, j) \in ResultsAt(j)
  <2>1. ItemByItem(f, p.items, j)
    BY <1>1, ItemsUnfold
  <2>2. Len(p.items) \in 0..Len(p.items)
    BY <1>1
  <2> QED BY <2>1, <2>2, ItemsIsLast DEF ItemByItem
<1>3. ASSUME NEW j \in Positions PROVE MatchLongest(f, p.items, j) \in ResultsAt(j)
  BY <1>1, LongestFacts
<1>4. \A j \in Positions : OnceMatched(f, p)[j] \in ResultsAt(j)
  BY <1>2, <1>3 DEF OnceMatched
<1>5. OnceMatched(f, p) = [j \in Positions |-> OnceMatched(f, p)[j]]
  BY DEF OnceMatched
<1>6. OnceMatched(f, p) \in Outcomes
  BY <1>4, <1>5 DEF Outcomes, ResultsAt
<1> QED BY <1>6 DEF p

\* One repetition depends on the items of a group only.
LEMMA OnceMatchedSame ==
  ASSUME input \in Inputs, NEW k \in DOMAIN particles, particles[k].kind \in {"sequence", "choice"},
         NEW f, NEW g, \A m \in 1..(k - 1) : f[m] = g[m] /\ f[m] \in Outcomes
  PROVE  OnceMatched(f, particles[k]) = OnceMatched(g, particles[k])
<1> DEFINE p == particles[k]
<1>1. /\ Len(p.items) \in Nat /\ DOMAIN p.items = 1..Len(p.items)
      /\ \A n \in 1..Len(p.items) : f[p.items[n]] = g[p.items[n]] /\ f[p.items[n]] \in Outcomes
  BY GroupItems
<1> HIDE DEF p
<1>2. ASSUME NEW j \in Positions PROVE MatchItems(f, p.items, j) = MatchItems(g, p.items, j)
  <2> DEFINE u == UptoItems(f, p.items, j)
             v == UptoItems(g, p.items, j)
             N == Len(p.items)
             T == {n \in 0..N : u[n] = v[n]}
  <2>1. \A n \in 0..N : u[n] = IF n = 0 THEN Nothing ELSE NextItem(f, p.items, j, n, u[n - 1])
    <3>1. Len(p.items) \in Nat /\ \A n \in 1..Len(p.items) : f[p.items[n]] \in Outcomes
      BY <1>1
    <3>2. ItemByItem(f, p.items, j)
      BY <3>1, ItemsUnfold
    <3> QED BY <3>2 DEF ItemByItem
  <2>2. \A n \in 0..N : v[n] = IF n = 0 THEN Nothing ELSE NextItem(g, p.items, j, n, v[n - 1])
    <3>1. Len(p.items) \in Nat /\ \A n \in 1..Len(p.items) : g[p.items[n]] \in Outcomes
      BY <1>1
    <3>2. ItemByItem(g, p.items, j)
      BY <3>1, ItemsUnfold
    <3> QED BY <3>2 DEF ItemByItem
  <2>3. N \in Nat /\ \A n \in 1..N : f[p.items[n]] = g[p.items[n]]
    BY <1>1
  <2> HIDE DEF u, v, N
  <2>4. ASSUME NEW n \in 0..N, \A m \in 0..(n - 1) : m \in T PROVE n \in T
    <3>1. CASE n = 0
      <4>1. u[n] = v[n]
        BY <2>1, <2>2, <3>1
      <4> QED BY <4>1
    <3>2. CASE n # 0
      <4>1. n \in 1..N /\ n - 1 \in 0..(n - 1)
        BY <2>3, <3>2
      <4>2. u[n - 1] = v[n - 1] /\ f[p.items[n]] = g[p.items[n]]
        BY <2>3, <2>4, <4>1
      <4>3. NextItem(f, p.items, j, n, u[n - 1]) = NextItem(g, p.items, j, n, v[n - 1])
        BY <4>2 DEF NextItem
      <4>4. u[n] = v[n]
        BY <2>1, <2>2, <3>2, <4>3
      <4> QED BY <4>4
    <3> QED BY <3>1, <3>2
  <2>5. \A n \in 0..N : n \in T
    <3> HIDE DEF T
    <3>1. 0 \in Nat /\ N \in Int
      BY <2>3
    <3> QED BY <2>4, <3>1, FromTheFirst
  <2>6. N \in 0..N
    BY <2>3
  <2>7. u[N] = v[N]
    BY <2>5, <2>6
  <2> QED BY <2>7, ItemsIsLast DEF u, v, N
<1>3. ASSUME NEW j \in Positions PROVE MatchLongest(f, p.items, j) = MatchLongest(g, p.items, j)
  <2>1. {f[p.items[n]][j] : n \in DOMAIN p.items} = {g[p.items[n]][j] : n \in DOMAIN p.items}
    BY <1>1
  <2> QED BY <2>1, Zenon DEF MatchLongest
<1>4. \A j \in Positions : OnceMatched(f, p)[j] = OnceMatched(g, p)[j]
  BY <1>2, <1>3 DEF OnceMatched
<1>5. /\ OnceMatched(f, p) = [j \in Positions |-> OnceMatched(f, p)[j]]
      /\ OnceMatched(g, p) = [j \in Positions |-> OnceMatched(g, p)[j]]
  BY DEF OnceMatched
<1>6. OnceMatched(f, p) = OnceMatched(g, p)
  BY <1>4, <1>5
<1> QED BY <1>6 DEF p

\* A group is matched by repeating what its items match.
LEMMA MatchedGroup ==
  ASSUME NEW match, NEW p, NEW i, p.kind \in {"sequence", "choice"}
  PROVE  Matched(match, p, i) = Repeat(p, i, OnceMatched(match, p))
<1>1. CASE p.kind = "sequence"
  <2>1. OnceMatched(match, p) = [j \in Positions |-> MatchItems(match, p.items, j)]
    BY <1>1 DEF OnceMatched
  <2> QED BY <1>1, <2>1 DEF Matched
<1>2. CASE p.kind = "choice"
  <2>1. OnceMatched(match, p) = [j \in Positions |-> MatchLongest(match, p.items, j)]
    BY <1>2 DEF OnceMatched
  <2> QED BY <1>2, <2>1 DEF Matched
<1> QED BY <1>1, <1>2

\* A particle is matched by its kind, with what its items match.
LEMMA MatchUnfolds ==
  ASSUME input \in Inputs
  PROVE  \A k \in DOMAIN particles :
           /\ Match[k] \in Outcomes
           /\ \A i \in Positions : Match[k][i] = Matched(Match, particles[k], i)
<1> DEFINE N == Len(particles)
           value(f, k) == [i \in Positions |-> Matched(f, particles[k], i)]
           F == [fk \in [1..N -> Outcomes] \X (1..N) |-> value(fk[1], fk[2])]
<1>1. N \in Nat /\ DOMAIN particles = 1..N /\ 1 <= N + 1
  BY InputFacts
<1>2. Outcomes # {}
  <2>1. \A i \in Positions : Nothing \in Results /\ Nothing.used <= Rest(i)
    BY ResultTypes DEF ResultsAt
  <2>2. [i \in Positions |-> Nothing] \in Outcomes
    BY <2>1 DEF Outcomes
  <2> QED BY <2>2
<1>3. ASSUME NEW k \in 1..N, NEW f, \A m \in 1..(k - 1) : f[m] \in Outcomes
      PROVE  value(f, k) \in Outcomes
  <2> DEFINE p == particles[k]
  <2>1. k \in DOMAIN particles
    BY <1>1
  <2>2. /\ p.min \in Int /\ p.max \in Int
        /\ p.kind \in {"element", "any", "sequence", "choice", "all", "empty"}
    BY <2>1, ParticleFacts
  <2>3. p.kind \in {"sequence", "choice"} => OnceMatched(f, p) \in Outcomes
    BY <1>3, <2>1, OnceMatchedType
  <2> HIDE DEF p
  <2>4. ASSUME NEW i \in Positions PROVE Matched(f, p, i) \in ResultsAt(i)
    <3>1. CASE p.kind = "element"
      <4>1. MatchElement(p, i) \in ResultsAt(i)
        BY <2>2, ElementMatched
      <4> QED BY <3>1, <4>1 DEF Matched
    <3>2. CASE p.kind = "any"
      <4>1. MatchAny(p, i) \in ResultsAt(i)
        BY <2>2, AnyMatched
      <4> QED BY <3>2, <4>1 DEF Matched
    <3>3. CASE p.kind \in {"sequence", "choice"}
      <4>1. Repeat(p, i, OnceMatched(f, p)) \in ResultsAt(i)
        BY <2>3, <3>3, RepeatType
      <4> QED BY <3>3, <4>1, MatchedGroup
    <3>4. CASE p.kind \in {"all", "empty"}
      BY <3>4, ResultTypes DEF Matched
    <3> QED BY <2>2, <3>1, <3>2, <3>3, <3>4
  <2>5. value(f, k) = [i \in Positions |-> Matched(f, p, i)]
    BY DEF p
  <2> HIDE DEF value
  <2> QED BY <2>4, <2>5 DEF Outcomes, ResultsAt
<1> HIDE DEF N
<1>4. /\ F \in [[1..N -> Outcomes] \X (1..N) -> Outcomes]
      /\ \A f \in [1..N -> Outcomes] : \A k \in 1..N : F[<<f, k>>] = value(f, k)
  <2> HIDE DEF value
  <2>1. \A f \in [1..N -> Outcomes] : \A k \in 1..N : \A m \in 1..(k - 1) : f[m] \in Outcomes
    BY <1>1
  <2>2. \A f \in [1..N -> Outcomes] : \A k \in 1..N : value(f, k) \in Outcomes
    BY <1>3, <2>1
  <2> QED BY <2>2
<1>5. ASSUME NEW k \in 1..N, NEW f, NEW g, \A m \in 1..(k - 1) : f[m] = g[m] /\ f[m] \in Outcomes
      PROVE  value(f, k) = value(g, k)
  <2> DEFINE p == particles[k]
  <2>1. p.kind \in {"sequence", "choice"} => OnceMatched(f, p) = OnceMatched(g, p)
    BY <1>1, <1>5, OnceMatchedSame
  <2> HIDE DEF p
  <2>2. \A i \in Positions : Matched(f, p, i) = Matched(g, p, i)
    <3>1. CASE p.kind \in {"sequence", "choice"}
      BY <2>1, <3>1, MatchedGroup
    <3>2. CASE p.kind \notin {"sequence", "choice"}
      BY <3>2 DEF Matched
    <3> QED BY <3>1, <3>2
  <2>3. value(f, k) = [i \in Positions |-> Matched(f, p, i)] /\ value(g, k) = [i \in Positions |-> Matched(g, p, i)]
    BY DEF p
  <2> HIDE DEF value
  <2> QED BY <2>2, <2>3
<1>6. \A f, g \in [1..N -> Outcomes] : \A k \in 1..N :
         (\A m \in 1..(k - 1) : f[m] = g[m]) => F[<<f, k>>] = F[<<g, k>>]
  <2> HIDE DEF F, value
  <2> TAKE f, g \in [1..N -> Outcomes]
  <2> TAKE k \in 1..N
  <2> HAVE \A m \in 1..(k - 1) : f[m] = g[m]
  <2>1. \A m \in 1..(k - 1) : f[m] \in Outcomes
    BY <1>1
  <2>2. value(f, k) = value(g, k)
    BY <1>5, <2>1
  <2> QED BY <1>4, <2>2
<1>7. PICK f \in [1..N -> Outcomes] : \A k \in 1..N : f[k] = F[<<f, k>>]
  <2> HIDE DEF F
  <2>1. MadeOfEarlier(F, 1, N, Outcomes)
    BY <1>4, <1>6 DEF MadeOfEarlier
  <2>2. MadeBy(F, 1, N, Outcomes) # {}
    BY <1>1, <1>2, <2>1, RecursiveFunction
  <2> QED BY <2>2 DEF MadeBy
<1>8. f = [k \in 1..N |-> value(f, k)]
  <2> HIDE DEF F, value
  <2> QED BY <1>4, <1>7
<1>9. Match = CHOOSE e : e = [k \in DOMAIN particles |-> value(e, k)]
  BY Zenon DEF Match
<1>10. Match = [k \in 1..N |-> value(Match, k)]
  <2> HIDE DEF value
  <2> QED BY <1>1, <1>8, <1>9
<1>11. \A k \in 1..N : Match[k] = value(Match, k)
  <2> HIDE DEF value
  <2> QED BY <1>10
<1> DEFINE T == {k \in 1..N : Match[k] \in Outcomes}
<1>12. ASSUME NEW k \in 1..N, \A m \in 1..(k - 1) : m \in T PROVE k \in T
  <2> HIDE DEF value
  <2>1. \A m \in 1..(k - 1) : Match[m] \in Outcomes
    BY <1>12
  <2>2. value(Match, k) \in Outcomes
    BY <1>3, <2>1
  <2>3. Match[k] = value(Match, k)
    BY <1>11
  <2> QED BY <2>2, <2>3
<1>13. \A k \in 1..N : k \in T
  <2> HIDE DEF T
  <2>1. 1 \in Nat /\ N \in Int
    BY <1>1
  <2> QED BY <1>12, <2>1, FromTheFirst
<1>14. ASSUME NEW k \in 1..N, NEW i \in Positions PROVE Match[k][i] = Matched(Match, particles[k], i)
  <2>1. Match[k] = value(Match, k)
    BY <1>11
  <2>2. value(Match, k)[i] = Matched(Match, particles[k], i)
    OBVIOUS
  <2> QED BY <2>1, <2>2, Zenon
<1>15. \A k \in 1..N : Match[k] \in Outcomes
  BY <1>13
<1> HIDE DEF value, T
<1> QED BY <1>1, <1>14, <1>15, Zenon
-----------------------------------------------------------------------------
(* The matchers reach what the content model admits.                       *)

\* A particle is matched rightly: what it takes is validated, and it ends
\* where its definition can.
Right(f, e) == \A j \in Positions : Checked(f[j], j) /\ Reaches(f[j], j, e[j])

\* A match after another validates what both take.
LEMMA ThenRight ==
  ASSUME input \in Inputs, NEW i \in Positions, NEW r \in ResultsAt(i), NEW s \in ResultsAt(i + r.used),
         Checked(r, i), Checked(s, i + r.used)
  PROVE  Checked(Then(r, s), i) /\ Checked(After(r, s), i)
<1>1. r.used \in Nat /\ s.used \in Nat /\ i \in Nat
  BY RestFacts DEF ResultsAt, Results
<1>2. /\ Then(r, s).used = r.used + s.used /\ Then(r, s).done = r.done \cup s.done
      /\ (Then(r, s).errors <=> r.errors \/ s.errors)
      /\ After(r, s).used = r.used /\ After(r, s).done = r.done \cup s.done
      /\ (After(r, s).errors <=> r.errors \/ s.errors)
  BY DEF Then, After, Result
<1>3. ASSUME ~r.errors, ~s.errors
      PROVE  /\ i..(i + (r.used + s.used) - 1) \subseteq r.done \cup s.done
             /\ i..(i + r.used - 1) \subseteq r.done \cup s.done
             /\ \A j \in r.done \cup s.done : kids[j].valid
  <2>1. /\ i..(i + r.used - 1) \subseteq r.done
        /\ (i + r.used)..((i + r.used) + s.used - 1) \subseteq s.done
        /\ \A j \in r.done \cup s.done : kids[j].valid
    BY <1>3 DEF Checked
  <2>2. \A j \in i..(i + (r.used + s.used) - 1) :
          j \in i..(i + r.used - 1) \/ j \in (i + r.used)..((i + r.used) + s.used - 1)
    BY <1>1
  <2> QED BY <2>1, <2>2
<1> QED BY <1>2, <1>3 DEF Checked

\* A sequence of items rightly matched is rightly matched.
LEMMA ItemsRight ==
  ASSUME input \in Inputs, NEW items, Len(items) \in Nat, NEW match, NEW ends,
         \A n \in 1..Len(items) : match[items[n]] \in Outcomes,
         \A n \in 1..Len(items) : ends[items[n]] \in Landings,
         \A n \in 1..Len(items) : Right(match[items[n]], ends[items[n]]),
         NEW i \in Positions
  PROVE  /\ Checked(MatchItems(match, items, i), i)
         /\ Reaches(MatchItems(match, items, i), i, Chained(ends, items, i)[Len(items)])
<1> DEFINE N == Len(items)
           u == UptoItems(match, items, i)
           v == Chained(ends, items, i)
           T == {n \in 0..N : Checked(u[n], i) /\ Reaches(u[n], i, v[n])}
<1>1. \A n \in 0..N : /\ u[n] \in ResultsAt(i)
                      /\ u[n] = IF n = 0 THEN Nothing ELSE NextItem(match, items, i, n, u[n - 1])
  <2>1. ItemByItem(match, items, i)
    BY ItemsUnfold
  <2> QED BY <2>1 DEF ItemByItem
<1>2. \A n \in 0..N : v[n] = IF n = 0 THEN {i} ELSE UNION {ends[items[n]][j] : j \in v[n - 1]}
  BY ChainedUnfolds
<1>3. N \in Nat /\ i \in Nat
  BY RestFacts
<1> HIDE DEF N, u, v
<1>4. ASSUME NEW n \in 0..N, \A m \in 0..(n - 1) : m \in T PROVE n \in T
  <2>1. CASE n = 0
    <3>1. u[n] = Nothing /\ v[n] = {i}
      BY <1>1, <1>2, <2>1
    <3>2. Checked(Nothing, i) /\ Reaches(Nothing, i, {i})
      BY <1>3 DEF Checked, Reaches, Nothing, Result
    <3>3. Checked(u[n], i) /\ Reaches(u[n], i, v[n])
      BY <3>1, <3>2
    <3> QED BY <3>3
  <2>2. CASE n # 0
    <3> DEFINE r == u[n - 1]
               j == i + r.used
               s == match[items[n]][j]
    <3>1. n - 1 \in 0..(n - 1) /\ n - 1 \in 0..N /\ n \in 1..N
      BY <1>3, <2>2
    <3>2. r \in ResultsAt(i) /\ Checked(r, i) /\ Reaches(r, i, v[n - 1])
      BY <1>1, <1>4, <3>1
    <3>3. u[n] = NextItem(match, items, i, n, r) /\ v[n] = UNION {ends[items[n]][m] : m \in v[n - 1]}
      BY <1>1, <1>2, <2>2
    <3> HIDE DEF r
    <3>4. j \in Positions
      BY <3>2, ResultTypes
    <3> HIDE DEF j
    <3>5. s \in ResultsAt(j) /\ Checked(s, j) /\ Reaches(s, j, ends[items[n]][j])
      <4>1. match[items[n]] \in Outcomes /\ Right(match[items[n]], ends[items[n]])
        BY <3>1 DEF N
      <4> QED BY <3>4, <4>1 DEF Outcomes, ResultsAt, Right
    <3> HIDE DEF s
    <3>6. u[n] = IF r.err THEN r ELSE Then(r, s)
      BY <3>3 DEF NextItem, s, j
    <3>7. CASE r.err
      <4>1. Checked(u[n], i) /\ Reaches(u[n], i, v[n])
        BY <3>2, <3>6, <3>7 DEF Reaches
      <4> QED BY <4>1
    <3>8. CASE ~r.err
      <4>1. u[n] = Then(r, s)
        BY <3>6, <3>8
      <4>2. Checked(u[n], i)
        BY <3>2, <3>5, <4>1, ThenRight DEF j
      <4>3. Reaches(u[n], i, v[n])
        <5>1. SUFFICES ASSUME AllOutermost, ~u[n].err, ~u[n].errors PROVE i + u[n].used \in v[n]
          BY DEF Reaches
        <5>2. ~r.errors /\ ~s.errors /\ ~s.err /\ u[n].used = r.used + s.used
          <6>1. /\ Then(r, s).used = r.used + s.used /\ (Then(r, s).err <=> s.err)
                /\ (Then(r, s).errors <=> r.errors \/ s.errors)
            <7>1. s.err \in BOOLEAN
              BY <3>5 DEF ResultsAt, Results
            <7> QED BY <7>1 DEF Then, Result
          <6> QED BY <4>1, <5>1, <6>1
        <5>3. j \in v[n - 1] /\ j + s.used \in ends[items[n]][j]
          BY <3>2, <3>5, <3>8, <5>1, <5>2 DEF Reaches, j
        <5>4. j + s.used = i + u[n].used
          <6>1. r.used \in Nat /\ s.used \in Nat
            BY <3>2, <3>5 DEF ResultsAt, Results
          <6> QED BY <1>3, <5>2, <6>1 DEF j
        <5> QED BY <3>3, <5>3, <5>4
      <4> QED BY <4>2, <4>3
    <3> QED BY <3>7, <3>8
  <2> QED BY <2>1, <2>2
<1>5. \A n \in 0..N : n \in T
  <2> HIDE DEF T
  <2>1. 0 \in Nat /\ N \in Int
    BY <1>3
  <2> QED BY <1>4, <2>1, FromTheFirst
<1>6. N \in 0..N
  BY <1>3
<1>7. Checked(u[N], i) /\ Reaches(u[N], i, v[N])
  BY <1>5, <1>6
<1>8. MatchItems(match, items, i) = u[N]
  BY ItemsIsLast DEF u, N
<1> QED BY <1>7, <1>8 DEF v, N

LongestIsRight(match, ends, items, i) ==
  LET r == MatchLongest(match, items, i)
  IN  /\ Checked(r, i)
      /\ r.used # 0 => Reaches(r, i, UNION {ends[items[n]][i] : n \in DOMAIN items})

\* The longest match of a choice ends where one of its items can.
LEMMA LongestRight ==
  ASSUME input \in Inputs, NEW items, DOMAIN items = 1..Len(items), NEW match, NEW ends,
         \A n \in 1..Len(items) : match[items[n]] \in Outcomes,
         \A n \in 1..Len(items) : Right(match[items[n]], ends[items[n]]),
         NEW i \in Positions
  PROVE  LongestIsRight(match, ends, items, i)
<1> DEFINE r == MatchLongest(match, items, i)
<1>1. /\ r \in ResultsAt(i) /\ ~r.err
      /\ r.used # 0 => \E n \in 1..Len(items) :
                         match[items[n]][i].used = r.used /\ ~match[items[n]][i].err
      /\ r.errors <=> \E n \in 1..Len(items) : match[items[n]][i].errors
      /\ \A j \in r.done : \E n \in 1..Len(items) : j \in match[items[n]][i].done
      /\ \A n \in 1..Len(items) : match[items[n]][i].done \subseteq r.done
  BY LongestFacts
<1>2. \A n \in 1..Len(items) :
        Checked(match[items[n]][i], i) /\ Reaches(match[items[n]][i], i, ends[items[n]][i])
  BY DEF Right
<1>3. r.used \in Nat /\ i \in Nat
  BY <1>1, RestFacts DEF ResultsAt, Results
<1> HIDE DEF r
<1>4. Checked(r, i)
  <2> SUFFICES ASSUME ~r.errors
               PROVE  i..(i + r.used - 1) \subseteq r.done /\ \A j \in r.done : kids[j].valid
    BY DEF Checked
  <2>1. \A n \in 1..Len(items) : ~match[items[n]][i].errors
    BY <1>1
  <2>2. \A j \in r.done : kids[j].valid
    BY <1>1, <1>2, <2>1 DEF Checked
  <2>3. i..(i + r.used - 1) \subseteq r.done
    <3>1. CASE r.used = 0
      BY <1>3, <3>1
    <3>2. CASE r.used # 0
      <4>1. PICK n \in 1..Len(items) : match[items[n]][i].used = r.used
        BY <1>1, <3>2
      <4>2. i..(i + r.used - 1) \subseteq match[items[n]][i].done
        BY <1>2, <2>1, <4>1 DEF Checked
      <4> QED BY <1>1, <4>2
    <3> QED BY <3>1, <3>2
  <2> QED BY <2>2, <2>3
<1>5. ASSUME AllOutermost, r.used # 0, ~r.errors
      PROVE  i + r.used \in UNION {ends[items[n]][i] : n \in DOMAIN items}
  <2>1. PICK n \in 1..Len(items) : match[items[n]][i].used = r.used /\ ~match[items[n]][i].err
    BY <1>1, <1>5
  <2>2. ~match[items[n]][i].errors
    BY <1>1, <1>5
  <2>3. i + r.used \in ends[items[n]][i]
    BY <1>2, <1>5, <2>1, <2>2 DEF Reaches
  <2> QED BY <2>3
<1> QED BY <1>4, <1>5 DEF r, Reaches, LongestIsRight

\* A round of Repeat: what was matched so far is some number of repetitions,
\* and it goes on only after as many repetitions as there were rounds.
RoundRight(p, i, e, n, st) ==
  /\ Checked(st.r, i)
  /\ st.more => /\ n <= st.r.used /\ (p.max >= 0 => n <= p.max)
                /\ AllOutermost /\ ~st.r.errors => i + st.r.used \in Times(e, i, n)
  /\ ~st.more => Reaches(st.r, i, UNION {Times(e, i, m) : m \in Counts(p)})

\* Every round is right if every repetition is.
LEMMA RoundsRight ==
  ASSUME input \in Inputs, NEW p, p.min \in Int, p.max \in Int, NEW once \in Outcomes, NEW e \in Landings,
         \A j \in Positions : Checked(once[j], j) /\ (once[j].used # 0 => Reaches(once[j], j, e[j])),
         NEW i \in Positions
  PROVE  \A n \in 0..(Rest(i) + 1) : RoundRight(p, i, e, n, Rounds(p, i, once)[n])
<1> DEFINE N == Rest(i) + 1
           u == Rounds(p, i, once)
           T == {n \in 0..N : RoundRight(p, i, e, n, u[n])}
<1>1. \A n \in 0..N :
        /\ u[n] \in RoundsAt(i)
        /\ u[n] = IF n = 0 THEN [r |-> Nothing, more |-> TRUE] ELSE NextRound(p, i, once, n, u[n - 1])
  BY RoundsUnfold
<1>2. N \in Nat /\ i \in Nat /\ Rest(i) \in 0..Len(kids) /\ Len(kids) \in Nat
  BY RestFacts, InputFacts
<1> HIDE DEF N, u
<1>3. ASSUME NEW n \in 0..N, \A m \in 0..(n - 1) : m \in T PROVE n \in T
  <2>1. CASE n = 0
    <3>1. u[n] = [r |-> Nothing, more |-> TRUE]
      BY <1>1, <2>1
    <3>2. u[n].more /\ u[n].r = Nothing
      BY <3>1
    <3>3. Checked(Nothing, i) /\ Nothing.used = 0
      BY <1>2 DEF Checked, Nothing, Result
    <3>4. i + 0 \in Times(e, i, n)
      BY <1>2, <2>1, TimesUnfolds
    <3>5. RoundRight(p, i, e, n, u[n])
      BY <2>1, <3>2, <3>3, <3>4 DEF RoundRight
    <3> QED BY <3>5
  <2>2. CASE n # 0
    <3> DEFINE before == u[n - 1]
               r == before.r
               j == i + r.used
               s == once[j]
    <3>1. n - 1 \in 0..(n - 1) /\ n - 1 \in 0..N /\ n - 1 \in Nat
      BY <1>2, <2>2
    <3>2. before \in RoundsAt(i) /\ RoundRight(p, i, e, n - 1, before)
      BY <1>1, <1>3, <3>1
    <3>3. u[n] = NextRound(p, i, once, n, before)
      BY <1>1, <2>2
    <3> HIDE DEF before
    <3>4. r \in ResultsAt(i)
      BY <3>2 DEF RoundsAt
    <3> HIDE DEF r
    <3>5. j \in Positions
      BY <3>4, ResultTypes
    <3> HIDE DEF j
    <3>6. s \in ResultsAt(j) /\ Checked(s, j) /\ (s.used # 0 => Reaches(s, j, e[j]))
      BY <3>5 DEF Outcomes, ResultsAt
    <3> HIDE DEF s
    <3>7. u[n] = IF ~before.more THEN before
                 ELSE IF n > Limit(p.max, i) \/ (p.kind = "choice" /\ r.used = Rest(i)) THEN Stopped(p, n, r)
                 ELSE IF s.err \/ s.used = 0 THEN Stopped(p, n, After(r, s))
                 ELSE [r |-> Then(r, s), more |-> TRUE]
      BY <3>3 DEF NextRound, r, s, j
    <3>8. Checked(r, i) /\ r.used \in Nat /\ r.used <= Rest(i)
      BY <3>2, <3>4 DEF RoundRight, r, ResultsAt, Results
    <3>9. CASE ~before.more
      <4>1. u[n] = before
        BY <3>7, <3>9
      <4>2. RoundRight(p, i, e, n, before)
        BY <3>2, <3>9 DEF RoundRight
      <4>3. RoundRight(p, i, e, n, u[n])
        BY <4>1, <4>2
      <4> QED BY <4>3
    <3>10. ASSUME before.more
           PROVE  /\ n - 1 <= r.used /\ (p.max >= 0 => n - 1 <= p.max)
                  /\ AllOutermost /\ ~r.errors => j \in Times(e, i, n - 1)
      BY <3>2, <3>10 DEF RoundRight, r, j
    <3>11. ASSUME before.more, NEW t \in ResultsAt(i), Checked(t, i), t.used = r.used,
                  ~t.errors => ~r.errors, u[n] = Stopped(p, n, t)
           PROVE  n \in T
      <4>1. /\ u[n].r.used = r.used /\ u[n].r.errors = t.errors /\ u[n].r.done = t.done
            /\ u[n].r.err = (n - 1 < p.min) /\ ~u[n].more
        BY <3>11 DEF Stopped, ResultsAt, Results
      <4>2. Checked(u[n].r, i)
        BY <3>11, <4>1 DEF Checked
      <4>3. ASSUME AllOutermost, ~u[n].r.err, ~u[n].r.errors
            PROVE  i + u[n].r.used \in UNION {Times(e, i, m) : m \in Counts(p)}
        <5>1. n - 1 \in 0..Len(kids) /\ n - 1 >= p.min /\ (p.max >= 0 => n - 1 <= p.max)
          <6>1. ~(n - 1 < p.min)
            BY <4>1, <4>3
          <6>2. n - 1 <= r.used /\ (p.max >= 0 => n - 1 <= p.max)
            BY <3>10, <3>11
          <6> HIDE DEF r
          <6>3. r.used <= Rest(i) /\ r.used \in Nat
            BY <3>8
          <6> QED BY <1>2, <3>1, <6>1, <6>2, <6>3
        <5>2. n - 1 \in Counts(p)
          BY <5>1, CountsFacts
        <5>3. j \in Times(e, i, n - 1) /\ i + u[n].r.used = j
          BY <3>10, <3>11, <4>1, <4>3 DEF j
        <5> QED BY <5>2, <5>3
      <4>4. RoundRight(p, i, e, n, u[n])
        BY <4>1, <4>2, <4>3 DEF RoundRight, Reaches
      <4> QED BY <4>4
    <3>12. CASE before.more /\ (n > Limit(p.max, i) \/ (p.kind = "choice" /\ r.used = Rest(i)))
      <4>1. u[n] = Stopped(p, n, r)
        BY <3>7, <3>12
      <4> QED BY <3>4, <3>8, <3>11, <3>12, <4>1
    <3>13. CASE /\ before.more /\ ~(n > Limit(p.max, i) \/ (p.kind = "choice" /\ r.used = Rest(i)))
                /\ (s.err \/ s.used = 0)
      <4>1. u[n] = Stopped(p, n, After(r, s))
        BY <3>7, <3>13
      <4>2. After(r, s) \in ResultsAt(i)
        BY <3>4, <3>6, ResultTypes DEF j
      <4>3. Checked(After(r, s), i)
        BY <3>4, <3>6, <3>8, ThenRight DEF j
      <4>4. After(r, s).used = r.used /\ (~After(r, s).errors => ~r.errors)
        BY DEF After, Result
      <4> QED BY <3>11, <3>13, <4>1, <4>2, <4>3, <4>4
    <3>14. CASE /\ before.more /\ ~(n > Limit(p.max, i) \/ (p.kind = "choice" /\ r.used = Rest(i)))
                /\ ~(s.err \/ s.used = 0)
      <4>1. u[n] = [r |-> Then(r, s), more |-> TRUE]
        BY <3>7, <3>14
      <4>2. u[n].more /\ u[n].r = Then(r, s)
        BY <4>1
      <4>3. Checked(Then(r, s), i)
        BY <3>4, <3>6, <3>8, ThenRight DEF j
      <4>4. /\ Then(r, s).used = r.used + s.used
            /\ (Then(r, s).errors <=> r.errors \/ s.errors)
        BY DEF Then, Result
      <4>5. s.used \in Nat \ {0} /\ ~s.err
        BY <3>6, <3>14 DEF ResultsAt, Results
      <4>6. n <= r.used + s.used /\ (p.max >= 0 => n <= p.max)
        <5>1. p.max >= 0 => Limit(p.max, i) = p.max
          BY DEF Limit
        <5> QED BY <3>1, <3>8, <3>10, <3>14, <4>5, <5>1
      <4>7. ASSUME AllOutermost, ~r.errors, ~s.errors PROVE i + (r.used + s.used) \in Times(e, i, n)
        <5>1. j \in Times(e, i, n - 1)
          BY <3>10, <3>14, <4>7
        <5>2. j + s.used \in e[j]
          BY <3>6, <4>5, <4>7 DEF Reaches
        <5>3. Times(e, i, (n - 1) + 1) = UNION {e[m] : m \in Times(e, i, n - 1)}
          BY <3>1, TimesUnfolds
        <5>4. (n - 1) + 1 = n /\ j + s.used = i + (r.used + s.used)
          BY <1>2, <3>1, <3>8, <4>5 DEF j
        <5> QED BY <5>1, <5>2, <5>3, <5>4
      <4>8. RoundRight(p, i, e, n, u[n])
        BY <4>2, <4>3, <4>4, <4>6, <4>7 DEF RoundRight
      <4> QED BY <4>8
    <3> QED BY <3>9, <3>12, <3>13, <3>14
  <2> QED BY <2>1, <2>2
<1>4. \A n \in 0..N : n \in T
  <2> HIDE DEF T
  <2>1. 0 \in Nat /\ N \in Int
    BY <1>2
  <2> QED BY <1>3, <2>1, FromTheFirst
<1>5. \A n \in 0..N : RoundRight(p, i, e, n, u[n])
  BY <1>4
<1> QED BY <1>5 DEF N, u

\* A group is matched rightly if every repetition is.
LEMMA RepeatRight ==
  ASSUME input \in Inputs, NEW p, p.min \in Int, p.max \in Int, NEW once \in Outcomes, NEW e \in Landings,
         \A j \in Positions : Checked(once[j], j) /\ (once[j].used # 0 => Reaches(once[j], j, e[j])),
         NEW i \in Positions
  PROVE  /\ Checked(Repeat(p, i, once), i)
         /\ Reaches(Repeat(p, i, once), i, UNION {Times(e, i, m) : m \in Counts(p)})
<1> DEFINE N == Rest(i) + 1
           st == Rounds(p, i, once)[N]
<1>1. N \in 0..N /\ Rest(i) \in Nat
  BY RestFacts, InputFacts
<1>2. st \in RoundsAt(i)
  BY <1>1, RoundsUnfold
<1>3. RoundRight(p, i, e, N, st)
  BY <1>1, RoundsRight
<1>4. Repeat(p, i, once) = st.r
  BY RepeatIsLast
<1> HIDE DEF st
<1>5. ~st.more
  <2>1. st.r.used \in Nat /\ st.r.used <= Rest(i)
    BY <1>2 DEF RoundsAt, ResultsAt, Results
  <2> QED BY <1>1, <1>3, <2>1 DEF RoundRight
<1> QED BY <1>3, <1>4, <1>5 DEF RoundRight

\* Children one after the other, each of which one repetition takes.
LEMMA LeafReaches ==
  ASSUME input \in Inputs, NEW once \in Landings, NEW i \in Positions, NEW u \in 0..Rest(i),
         \A j \in i..(i + u - 1) : j + 1 \in once[j]
  PROVE  i + u \in Times(once, i, u)
<1> DEFINE T == {m \in 0..u : i + m \in Times(once, i, m)}
<1>1. i \in Nat /\ u \in Nat
  BY RestFacts, InputFacts
<1>2. ASSUME NEW m \in 0..u, \A j \in 0..(m - 1) : j \in T PROVE m \in T
  <2>1. CASE m = 0
    <3>1. i + 0 \in Times(once, i, 0)
      BY <1>1, TimesUnfolds
    <3> QED BY <2>1, <3>1
  <2>2. CASE m # 0
    <3>1. m - 1 \in 0..(m - 1) /\ m - 1 \in Nat /\ (m - 1) + 1 = m
      BY <1>1, <2>2
    <3>2. i + (m - 1) \in Times(once, i, m - 1)
      BY <1>2, <3>1
    <3>3. i + (m - 1) \in i..(i + u - 1) /\ (i + (m - 1)) + 1 = i + m
      BY <1>1, <2>2
    <3>4. i + m \in once[i + (m - 1)]
      BY <3>3
    <3>5. Times(once, i, (m - 1) + 1) = UNION {once[j] : j \in Times(once, i, m - 1)}
      BY <3>1, TimesUnfolds
    <3>6. i + m \in Times(once, i, m)
      BY <3>1, <3>2, <3>4, <3>5
    <3> QED BY <3>6
  <2> QED BY <2>1, <2>2
<1>3. \A m \in 0..u : m \in T
  <2> HIDE DEF T
  <2>1. 0 \in Nat /\ u \in Int
    BY <1>1
  <2> QED BY <1>2, <2>1, FromTheFirst
<1>4. u \in 0..u
  BY <1>1
<1> QED BY <1>3, <1>4

\* Every particle is matched rightly if its items are.
LEMMA ParticleRight ==
  ASSUME input \in Inputs, NEW k \in DOMAIN particles, k # Len(particles),
         \A m \in 1..(k - 1) : Right(Match[m], Ends[m])
  PROVE  Right(Match[k], Ends[k])
<1> DEFINE p == particles[k]
           once == Once(Ends, p)
           reached(i) == UNION {Times(once, i, n) : n \in Counts(p)}
<1>1. /\ p.min \in Int /\ p.max \in Int
      /\ p.kind \in {"element", "any", "sequence", "choice", "all"}
      /\ AllOutermost => p.kind # "all"
  BY ParticleFacts DEF AllOutermost
<1>2. \A m \in 1..(k - 1) : m \in DOMAIN particles
  BY InputFacts
<1>3. \A m \in 1..(k - 1) : Ends[m] \in Landings /\ Match[m] \in Outcomes
  BY <1>2, EndsUnfolds, MatchUnfolds
<1>4. once \in Landings
  BY <1>3, OnceType
<1>5. /\ \A i \in Positions : Ends[k][i] = reached(i)
      /\ \A i \in Positions : Match[k][i] = Matched(Match, p, i)
  BY EndsUnfolds, MatchUnfolds
<1>6. p.kind \in {"sequence", "choice"} =>
        /\ Len(p.items) \in Nat /\ DOMAIN p.items = 1..Len(p.items)
        /\ \A n \in 1..Len(p.items) : p.items[n] \in 1..(k - 1)
        /\ OnceMatched(Match, p) \in Outcomes
  BY <1>3, GroupItems, OnceMatchedType
<1> HIDE DEF p
<1>7. ASSUME NEW i \in Positions PROVE Checked(Matched(Match, p, i), i) /\ Reaches(Matched(Match, p, i), i, reached(i))
  <2> DEFINE r == Matched(Match, p, i)
  <2>1. CASE p.kind = "element"
    <3>1. r = MatchElement(p, i)
      BY <2>1 DEF Matched
    <3>2. /\ r \in ResultsAt(i) /\ Checked(r, i)
          /\ ~r.err /\ ~r.errors => r.used \in Counts(p) /\ \A j \in i..(i + r.used - 1) : Fits(j, p)
      BY <1>1, <3>1, ElementMatched
    <3> HIDE DEF r
    <3>3. ASSUME ~r.err, ~r.errors PROVE i + r.used \in reached(i)
      <4>1. r.used \in 0..Rest(i)
        BY <3>2, RestFacts, InputFacts DEF ResultsAt, Results
      <4>2. \A j \in i..(i + r.used - 1) : j \in DOMAIN kids /\ j \in Positions
        <5>1. i..(i + r.used - 1) \subseteq DOMAIN kids
          BY <4>1, RestFacts
        <5> QED BY <5>1, InputFacts DEF Positions
      <4>3. \A j \in Positions : once[j] = {x \in {j + 1} : j \in DOMAIN kids /\ Fits(j, p)}
        BY <2>1 DEF Once
      <4> HIDE DEF once
      <4>4. \A j \in i..(i + r.used - 1) : j + 1 \in once[j]
        BY <3>2, <3>3, <4>2, <4>3
      <4>5. i + r.used \in Times(once, i, r.used)
        BY <1>4, <4>1, <4>4, LeafReaches
      <4> QED BY <3>2, <3>3, <4>5
    <3> QED BY <3>2, <3>3 DEF Reaches, r
  <2>2. CASE p.kind = "any"
    <3>1. r = MatchAny(p, i)
      BY <2>2 DEF Matched
    <3>2. /\ r \in ResultsAt(i) /\ Checked(r, i)
          /\ ~r.err /\ ~r.errors => r.used \in Counts(p) /\ \A j \in i..(i + r.used - 1) : Admits(p, j)
      BY <1>1, <3>1, AnyMatched
    <3> HIDE DEF r
    <3>3. ASSUME ~r.err, ~r.errors PROVE i + r.used \in reached(i)
      <4>1. r.used \in 0..Rest(i)
        BY <3>2, RestFacts, InputFacts DEF ResultsAt, Results
      <4>2. \A j \in i..(i + r.used - 1) : j \in DOMAIN kids /\ j \in Positions
        <5>1. i..(i + r.used - 1) \subseteq DOMAIN kids
          BY <4>1, RestFacts
        <5> QED BY <5>1, InputFacts DEF Positions
      <4>3. \A j \in Positions : once[j] = {x \in {j + 1} : j \in DOMAIN kids /\ Admits(p, j)}
        BY <2>2 DEF Once
      <4> HIDE DEF once
      <4>4. \A j \in i..(i + r.used - 1) : j + 1 \in once[j]
        BY <3>2, <3>3, <4>2, <4>3
      <4>5. i + r.used \in Times(once, i, r.used)
        BY <1>4, <4>1, <4>4, LeafReaches
      <4> QED BY <3>2, <3>3, <4>5
    <3> QED BY <3>2, <3>3 DEF Reaches, r
  <2>3. CASE p.kind \in {"sequence", "choice"}
    <3> DEFINE match == OnceMatched(Match, p)
    <3>1. /\ Len(p.items) \in Nat /\ DOMAIN p.items = 1..Len(p.items) /\ match \in Outcomes
          /\ \A n \in 1..Len(p.items) : /\ Match[p.items[n]] \in Outcomes
                                        /\ Ends[p.items[n]] \in Landings
                                        /\ Right(Match[p.items[n]], Ends[p.items[n]])
      BY <1>3, <1>6, <2>3
    <3>2. ASSUME NEW j \in Positions
          PROVE  Checked(match[j], j) /\ (match[j].used # 0 => Reaches(match[j], j, once[j]))
      <4>1. CASE p.kind = "sequence"
        <5>1. match[j] = MatchItems(Match, p.items, j) /\ once[j] = Chained(Ends, p.items, j)[Len(p.items)]
          BY <4>1 DEF OnceMatched, Once
        <5>2. /\ Checked(MatchItems(Match, p.items, j), j)
              /\ Reaches(MatchItems(Match, p.items, j), j, Chained(Ends, p.items, j)[Len(p.items)])
          BY <3>1, ItemsRight
        <5> HIDE DEF match, once
        <5> QED BY <5>1, <5>2
      <4>2. CASE p.kind = "choice"
        <5>1. /\ match[j] = MatchLongest(Match, p.items, j)
              /\ once[j] = UNION {Ends[p.items[n]][j] : n \in DOMAIN p.items}
          BY <4>2 DEF OnceMatched, Once
        <5> DEFINE s == MatchLongest(Match, p.items, j)
        <5>2. /\ Checked(s, j)
              /\ s.used # 0 => Reaches(s, j, UNION {Ends[p.items[n]][j] : n \in DOMAIN p.items})
          <6>1. DOMAIN p.items = 1..Len(p.items)
            BY <3>1
          <6>2. \A n \in 1..Len(p.items) : Match[p.items[n]] \in Outcomes
            BY <3>1
          <6>3. \A n \in 1..Len(p.items) : Right(Match[p.items[n]], Ends[p.items[n]])
            BY <3>1
          <6>4. LongestIsRight(Match, Ends, p.items, j)
            BY <6>1, <6>2, <6>3, LongestRight
          <6> QED BY <6>4 DEF LongestIsRight
        <5> HIDE DEF match, once, s
        <5> QED BY <5>1, <5>2 DEF s
      <4> QED BY <2>3, <4>1, <4>2
    <3> HIDE DEF match, once
    <3>3. /\ Checked(Repeat(p, i, match), i)
          /\ Reaches(Repeat(p, i, match), i, UNION {Times(once, i, m) : m \in Counts(p)})
      <4>1. p.min \in Int /\ p.max \in Int /\ match \in Outcomes
        BY <1>1, <3>1
      <4> QED BY <1>4, <3>2, <4>1, RepeatRight
    <3>4. Matched(Match, p, i) = Repeat(p, i, match)
      BY <2>3, MatchedGroup DEF match
    <3> QED BY <3>3, <3>4
  <2>4. CASE p.kind = "all"
    <3>1. r = Nothing
      BY <2>4 DEF Matched
    <3>2. Checked(Nothing, i)
      BY RestFacts DEF Checked, Nothing, Result
    <3> QED BY <1>1, <2>4, <3>1, <3>2 DEF Reaches
  <2> QED BY <1>1, <2>1, <2>2, <2>3, <2>4
<1> HIDE DEF reached
<1>8. \A i \in Positions : Checked(Match[k][i], i) /\ Reaches(Match[k][i], i, Ends[k][i])
  BY <1>5, <1>7
<1> QED BY <1>8 DEF Right

\* Every particle inside a content model is matched rightly.
LEMMA MatchRight ==
  ASSUME input \in Inputs
  PROVE  \A k \in DOMAIN particles : k # Len(particles) =>
           Match[k] \in Outcomes /\ Ends[k] \in Landings /\ Right(Match[k], Ends[k])
<1> DEFINE N == Len(particles)
           T == {k \in 1..(N - 1) : Right(Match[k], Ends[k])}
<1>1. N \in Nat /\ DOMAIN particles = 1..N
  BY InputFacts
<1>2. ASSUME NEW k \in 1..(N - 1), \A m \in 1..(k - 1) : m \in T PROVE k \in T
  <2>1. k \in DOMAIN particles /\ k # Len(particles)
    <3>1. N \in Nat
      BY <1>1
    <3>2. ASSUME NEW m \in Nat, k \in 1..(m - 1) PROVE k \in 1..m /\ k # m
      BY <3>2
    <3>3. k \in 1..N /\ k # N
      BY <3>1, <3>2, Zenon
    <3> QED BY <1>1, <3>3, Zenon
  <2>2. \A m \in 1..(k - 1) : Right(Match[m], Ends[m])
    BY <1>2
  <2>3. Right(Match[k], Ends[k])
    <3> HIDE DEF N, T
    <3> QED BY <2>1, <2>2, ParticleRight, Zenon
  <2> QED BY <2>3
<1>3. \A k \in 1..(N - 1) : k \in T
  <2> HIDE DEF T
  <2>1. 1 \in Nat /\ N - 1 \in Int
    BY <1>1
  <2> QED BY <1>2, <2>1, FromTheFirst
<1>4. \A k \in DOMAIN particles : k # N => k \in 1..(N - 1)
  BY <1>1
<1>5. \A k \in DOMAIN particles : Match[k] \in Outcomes /\ Ends[k] \in Landings
  BY EndsUnfolds, MatchUnfolds
<1> QED BY <1>3, <1>4, <1>5
-----------------------------------------------------------------------------
(* The inductive invariant: how far the loop over the top-level model has  *)
(* come, and what the children before pos stand for.                       *)

\* Child i may stand for item k of an all group.
TakenBy(i, k) == IF IsElement(k) THEN Fits(i, Item(k)) ELSE Admits(Item(k), i)

\* f gives each of the first n children an item that takes it, c counts them.
Placed(f, n, c) ==
  /\ \A i \in 1..n : TakenBy(i, f[i])
  /\ \A k \in DOMAIN model.items : c[k] = Cardinality({i \in 1..n : f[i] = k})

\* No other element has the local name of element k.
OwnName(k) ==
  \A j \in DOMAIN model.items :
     IsElement(j) /\ IsElement(k) /\ Item(j).name[2] = Item(k).name[2] => j = k

\* Without an error so far, the children before pos were validated, and all
\* that were validated are valid.
Kept ==
  /\ input \in Inputs /\ pos \in 0..Len(kids)
  /\ running \in BOOLEAN /\ bad \in BOOLEAN
  /\ validated \subseteq DOMAIN kids
  /\ ~bad => 1..pos \subseteq validated /\ \A j \in validated : kids[j].valid

\* The items before item reach the child at pos.
SequenceFollowed ==
  /\ item \in 1..(Len(model.items) + 1)
  /\ AllOutermost /\ ~bad => pos + 1 \in Chained(Ends, model.items, 1)[item - 1]
  /\ ~bad /\ ~running => item = Len(model.items) + 1 /\ pos = Len(kids)

\* That many repetitions reach it.
ChoiceRepeated ==
  /\ iterations \in 0..pos
  /\ iterations = 0 => pos = 0
  /\ AllOutermost /\ ~bad => pos + 1 \in Times(Once(Ends, model), 1, iterations)
  /\ ~bad /\ model.max >= 0 => iterations <= model.max
  /\ ~bad /\ ~running => pos = Len(kids) /\ (pos = 0 => model.min <= 0)

\* Every child before pos has its item, and no item too many.
AllPlaced ==
  /\ counts \in [DOMAIN model.items -> Nat]
  /\ ~bad => \E f \in [1..pos -> DOMAIN model.items] : Placed(f, pos, counts)
  /\ ~bad => \A k \in DOMAIN model.items : Item(k).max >= 0 => counts[k] <= Item(k).max
  /\ ~bad /\ ~running =>
       /\ pos = Len(kids)
       /\ \A k \in DOMAIN model.items : OwnName(k) => counts[k] >= Item(k).min

MatchInv ==
  /\ Kept
  /\ model.kind = "sequence" => SequenceFollowed
  /\ model.kind = "choice" => ChoiceRepeated
  /\ model.kind = "all" => AllPlaced
  /\ model.kind = "empty" /\ ~bad /\ ~running => kids = <<>>

\* The top-level model is a group, and its items are particles before it.
LEMMA ModelFacts ==
  ASSUME input \in Inputs
  PROVE  /\ model.kind \in {"sequence", "choice", "all", "empty"}
         /\ model.min \in Int /\ model.max \in Int
         /\ Len(model.items) \in Nat /\ DOMAIN model.items = 1..Len(model.items)
         /\ Len(particles) \in DOMAIN particles /\ model = particles[Len(particles)]
         /\ \A k \in DOMAIN model.items :
              /\ model.items[k] \in DOMAIN particles /\ model.items[k] # Len(particles)
              /\ Item(k).min \in Int /\ Item(k).max \in Int
<1> DEFINE N == Len(particles)
<1>1. N \in DOMAIN particles /\ particles \in Models
  BY InputFacts
<1>2. model = particles[N] /\ model \in Group
  BY <1>1 DEF model, Models
<1>3. model.kind \in {"sequence", "choice", "all", "empty"}
  BY <1>2 DEF Group
<1>4. /\ model.min \in Int /\ model.max \in Int
      /\ model.kind \notin {"element", "any"} =>
                  /\ model.items \in Seq(Nat)
                  /\ Len(model.items) \in Nat /\ DOMAIN model.items = 1..Len(model.items)
                  /\ \A n \in DOMAIN model.items : /\ model.items[n] \in 1..(N - 1)
                                               /\ model.items[n] \in DOMAIN particles
                                               /\ model.items[n] # Len(particles)
  BY <1>1, <1>2, ParticleFacts
<1>5. \A k \in DOMAIN particles : particles[k].min \in Int /\ particles[k].max \in Int
  BY ParticleFacts
<1> QED BY <1>1, <1>2, <1>3, <1>4, <1>5 DEF Item

\* What an item of the model matches at the child the loop is at.
LEMMA ItemMatched ==
  ASSUME input \in Inputs, pos \in 0..Len(kids), NEW k \in DOMAIN model.items
  PROVE  LET r == MatchItem(k)
         IN  /\ r.used \in Nat /\ r.used <= Len(kids) - pos
             /\ r.err \in BOOLEAN /\ r.errors \in BOOLEAN /\ r.done \subseteq DOMAIN kids
             /\ pos + 1 \in Positions /\ pos + r.used \in 0..Len(kids)
             /\ Ends[model.items[k]] \in Landings
             /\ ~r.errors => /\ (pos + 1)..(pos + r.used) \subseteq r.done
                             /\ \A j \in r.done : kids[j].valid
             /\ AllOutermost /\ ~r.err /\ ~r.errors =>
                  (pos + r.used) + 1 \in Ends[model.items[k]][pos + 1]
<1> DEFINE m == model.items[k]
           i == pos + 1
           r == MatchItem(k)
<1>1. m \in DOMAIN particles /\ m # Len(particles)
  BY ModelFacts
<1>2. Match[m] \in Outcomes /\ Ends[m] \in Landings /\ Right(Match[m], Ends[m])
  BY <1>1, MatchRight
<1>3. r = Match[m][i]
  BY DEF MatchItem
<1>4. Len(kids) \in Nat /\ i \in Positions
  BY InputFacts DEF Positions
<1> HIDE DEF m, i, r
<1>5. r \in Results /\ r.used <= Rest(i)
  BY <1>2, <1>3, <1>4 DEF Outcomes
<1>6. Checked(r, i) /\ Reaches(r, i, Ends[m][i])
  BY <1>2, <1>3, <1>4 DEF Right
<1>7. r.used \in Nat /\ r.err \in BOOLEAN /\ r.errors \in BOOLEAN /\ r.done \subseteq DOMAIN kids
  BY <1>5 DEF Results
<1>8. Rest(i) = Len(kids) - pos
  BY <1>4 DEF Rest, i
<1>9. /\ i + r.used - 1 = pos + r.used /\ i + r.used = (pos + r.used) + 1
      /\ pos + r.used \in 0..Len(kids) /\ r.used <= Len(kids) - pos
  <2>1. r.used <= Len(kids) - pos
    BY <1>5, <1>8
  <2>2. ASSUME NEW u \in Nat, u <= Len(kids) - pos
        PROVE  i + u - 1 = pos + u /\ i + u = (pos + u) + 1 /\ pos + u \in 0..Len(kids)
    BY <1>4, <2>2 DEF i
  <2> QED BY <1>7, <2>1, <2>2
<1>10. ~r.errors => i..(pos + r.used) \subseteq r.done /\ \A j \in r.done : kids[j].valid
  BY <1>6, <1>9 DEF Checked
<1>11. AllOutermost /\ ~r.err /\ ~r.errors => (pos + r.used) + 1 \in Ends[m][i]
  BY <1>6, <1>9 DEF Reaches
<1> QED BY <1>2, <1>4, <1>7, <1>9, <1>10, <1>11 DEF i, r, m

\* Ends as a function of the input.
CountsOf(in, p) == {n \in 0..(IF p.max < 0 THEN Max({p.min, Len(in.kids)}) ELSE p.max) : n >= p.min}
AllTakesOf(in, p, first, last) ==
  LET part(k) == in.particles[p.items[k]]
  IN  \E f \in [first..last -> DOMAIN p.items] :
        /\ \A i \in first..last :
             IF part(f[i]).kind = "element"
               THEN \/ in.kids[i].local = part(f[i]).name[2]
                    \/ part(f[i]).ref /\ <<in.kids[i].ns, in.kids[i].local>> \in Substitutes(part(f[i]).name)
               ELSE in.kids[i].ns \in part(f[i]).allowed
        /\ \A k \in DOMAIN p.items :
             Cardinality({i \in first..last : f[i] = k}) \in CountsOf(in, part(k))
OnceOf(in, ends, p) ==
  [i \in 1..(Len(in.kids) + 1) |->
     CASE p.kind = "element" -> {j \in {i + 1} : i \in DOMAIN in.kids /\
                                   \/ in.kids[i].local = p.name[2]
                                   \/ p.ref /\ <<in.kids[i].ns, in.kids[i].local>> \in Substitutes(p.name)}
       [] p.kind = "any" -> {j \in {i + 1} : i \in DOMAIN in.kids /\ in.kids[i].ns \in p.allowed}
       [] p.kind = "sequence" -> Chained(ends, p.items, i)[Len(p.items)]
       [] p.kind = "choice" -> UNION {ends[p.items[n]][i] : n \in DOMAIN p.items}
       [] p.kind = "all" -> {j \in 1..(Len(in.kids) + 1) : j >= i /\ AllTakesOf(in, p, i, j - 1)}
       [] OTHER -> {}]
EndsOf(in) ==
  LET ends[k \in DOMAIN in.particles] ==
        LET p == in.particles[k]
        IN  [i \in 1..(Len(in.kids) + 1) |-> UNION {Times(OnceOf(in, ends, p), i, n) : n \in CountsOf(in, p)}]
  IN  ends

\* What depends on the input alone.
LEMMA SameInput ==
  ASSUME input' = input
  PROVE  /\ kids' = kids /\ particles' = particles /\ model' = model
         /\ Ends' = Ends /\ Once(Ends, model)' = Once(Ends, model)
         /\ \A k : Item(k)' = Item(k)
         /\ \A k : IsElement(k)' <=> IsElement(k)
         /\ \A i, k : TakenBy(i, k)' <=> TakenBy(i, k)
         /\ \A k : OwnName(k)' <=> OwnName(k)
         /\ AllOutermost' <=> AllOutermost
<1>1. kids' = kids /\ particles' = particles
  BY DEF kids, particles
<1>2. model' = model
  BY <1>1 DEF model
<1>3. \A k : Item(k)' = Item(k)
  BY <1>1, <1>2 DEF Item
<1>4. \A k : IsElement(k)' <=> IsElement(k)
  BY <1>3 DEF IsElement
<1>5. \A i, k : TakenBy(i, k)' <=> TakenBy(i, k)
  BY <1>1, <1>3, <1>4 DEF TakenBy, Fits, Admits, IsNamed, Stands, Name
<1>6. \A k : OwnName(k)' <=> OwnName(k)
  BY <1>2, <1>3, <1>4 DEF OwnName
<1>7. Ends = EndsOf(input) /\ Ends' = EndsOf(input')
  BY Zenon DEF Ends, EndsOf, Once, OnceOf, AllTakes, AllTakesOf, Counts, CountsOf, Positions, Fits, IsNamed, Stands, Name, Admits,
               kids, particles
<1>8. Ends' = Ends
  BY <1>7, Zenon
<1>9. /\ Once(Ends, model) = OnceOf(input, Ends, model)
      /\ Once(Ends, model)' = OnceOf(input', Ends', model')
  BY Zenon DEF Once, OnceOf, AllTakes, AllTakesOf, Counts, CountsOf, Positions, Fits, IsNamed, Stands, Name, Admits, kids, particles
<1>10. Once(Ends, model)' = Once(Ends, model)
  BY <1>2, <1>8, <1>9, Zenon
<1>11. AllOutermost' <=> AllOutermost
  BY <1>1 DEF AllOutermost
<1> QED BY <1>1, <1>2, <1>3, <1>4, <1>5, <1>6, <1>8, <1>10, <1>11
-----------------------------------------------------------------------------
(* Every step keeps the invariant.                                         *)

LEMMA MinOfNaturals ==
  ASSUME NEW S \in SUBSET Nat, S # {}
  PROVE  Min(S) \in S
<1>1. \E j \in S : \A i \in S : j <= i
  BY LeastNatural
<1> QED BY <1>1, Zenon DEF Min

\* A state of the invariant after a step that keeps the input.
LEMMA StepKept ==
  ASSUME MatchInv, input' = input, pos' \in 0..Len(kids), running' \in BOOLEAN, bad' \in BOOLEAN,
         ~bad' => ~bad, validated \subseteq validated', validated' \subseteq DOMAIN kids,
         ~bad' => (pos + 1)..pos' \subseteq validated' /\ \A j \in validated' : kids[j].valid
  PROVE  Kept'
<1>1. /\ input \in Inputs /\ pos \in 0..Len(kids) /\ Len(kids) \in Nat
      /\ ~bad => 1..pos \subseteq validated
  BY InputFacts DEF MatchInv, Kept
<1>2. ASSUME ~bad', NEW j \in 1..pos' PROVE j \in validated'
  <2>1. 1..pos \subseteq validated' /\ (pos + 1)..pos' \subseteq validated'
    BY <1>1, <1>2
  <2>2. j \in 1..pos \/ j \in (pos + 1)..pos'
    BY <1>1
  <2> QED BY <2>1, <2>2
<1>3. kids' = kids /\ Inputs' = Inputs
  BY SameInput
<1> QED BY <1>1, <1>2, <1>3 DEF Kept

\* A step of a loop that goes on or ends with nothing new validated.
LEMMA InvOfEmpty ==
  ASSUME MatchInv, EmptyContent
  PROVE  MatchInv'
<1>1. /\ input' = input /\ pos' = pos /\ validated' = validated /\ running' = FALSE
      /\ bad' = (bad \/ kids # <<>>) /\ model.kind = "empty"
  BY DEF EmptyContent, At, Return
<1>2. Kept /\ input \in Inputs /\ pos \in 0..Len(kids) /\ Len(kids) \in Nat
  BY InputFacts DEF MatchInv, Kept
<1>3. kids' = kids /\ model' = model
  BY <1>1, SameInput
<1>4. Kept'
  BY <1>1, <1>2, <1>3 DEF Kept
<1> QED BY <1>1, <1>3, <1>4 DEF MatchInv

\* What the items of the model reach from the first child, one more at a time.
LEMMA ModelChained ==
  ASSUME input \in Inputs
  PROVE  \A n \in 0..Len(model.items) :
           Chained(Ends, model.items, 1)[n] =
             IF n = 0 THEN {1} ELSE UNION {Ends[model.items[n]][j] : j \in Chained(Ends, model.items, 1)[n - 1]}
<1> DEFINE reach == Chained(Ends, model.items, 1)
<1>1. Len(model.items) \in Nat /\ DOMAIN model.items = 1..Len(model.items)
  BY ModelFacts
<1>2. \A n \in 1..Len(model.items) : Ends[model.items[n]] \in Landings
  BY <1>1, ModelFacts, EndsUnfolds
<1>3. 1 \in Positions
  BY InputFacts DEF Positions
<1>4. \A n \in 0..Len(model.items) :
        reach[n] = IF n = 0 THEN {1} ELSE UNION {Ends[model.items[n]][j] : j \in reach[n - 1]}
  <2> HIDE DEF reach
  <2> QED BY <1>1, <1>2, <1>3, ChainedUnfolds DEF reach
<1> QED BY <1>4

\* An item of a sequence.
LEMMA InvOfSequenceItem ==
  ASSUME MatchInv, SequenceItem
  PROVE  MatchInv'
<1> DEFINE r == MatchItem(item)
           reach == Chained(Ends, model.items, 1)
<1>1. /\ input' = input /\ running = TRUE /\ model.kind = "sequence" /\ item <= Len(model.items)
      /\ bad' = (bad \/ r.errors \/ r.err) /\ validated' = validated \cup r.done
      /\ running' = ~r.err
      /\ IF r.err THEN pos' = pos /\ item' = item ELSE pos' = pos + r.used /\ item' = item + 1
  BY DEF SequenceItem, At, AddErrors
<1>2. /\ Kept /\ SequenceFollowed /\ input \in Inputs /\ pos \in 0..Len(kids) /\ Len(kids) \in Nat
      /\ validated \subseteq DOMAIN kids
      /\ ~bad => \A j \in validated : kids[j].valid
  BY <1>1, InputFacts DEF MatchInv, Kept
<1>3. Len(model.items) \in Nat /\ DOMAIN model.items = 1..Len(model.items)
  BY <1>2, ModelFacts
<1>4. item \in DOMAIN model.items /\ item \in Nat \ {0}
  BY <1>1, <1>2, <1>3 DEF SequenceFollowed
<1>5. /\ r.used \in Nat /\ r.used <= Len(kids) - pos
      /\ r.err \in BOOLEAN /\ r.errors \in BOOLEAN /\ r.done \subseteq DOMAIN kids
      /\ pos + 1 \in Positions /\ pos + r.used \in 0..Len(kids)
      /\ ~r.errors => /\ (pos + 1)..(pos + r.used) \subseteq r.done
                      /\ \A j \in r.done : kids[j].valid
      /\ AllOutermost /\ ~r.err /\ ~r.errors =>
           (pos + r.used) + 1 \in Ends[model.items[item]][pos + 1]
  BY <1>2, <1>4, ItemMatched
<1>6. /\ kids' = kids /\ model' = model /\ Ends' = Ends /\ (AllOutermost' <=> AllOutermost)
  BY <1>1, SameInput
<1> HIDE DEF r
<1>7. pos' \in 0..Len(kids) /\ bad' \in BOOLEAN /\ running' \in BOOLEAN
  BY <1>1, <1>2, <1>5
<1>8. Kept'
  <2>1. ~bad' => ~bad /\ ~r.err /\ ~r.errors /\ pos' = pos + r.used
    BY <1>1
  <2>2. ~bad' => (pos + 1)..pos' \subseteq validated' /\ \A j \in validated' : kids[j].valid
    BY <1>1, <1>2, <1>5, <2>1
  <2>3. validated \subseteq validated' /\ validated' \subseteq DOMAIN kids
    BY <1>1, <1>2, <1>5
  <2> QED BY <1>1, <1>7, <2>1, <2>2, <2>3, StepKept
<1>9. item' \in 1..(Len(model.items) + 1)
  BY <1>1, <1>3, <1>4
<1>10. ASSUME ~bad' PROVE (AllOutermost => pos' + 1 \in reach[item' - 1]) /\ running'
  <2>1. ~bad /\ ~r.err /\ ~r.errors /\ pos' = pos + r.used /\ item' = item + 1
    BY <1>1, <1>10
  <2>2. AllOutermost => pos + 1 \in reach[item - 1]
    BY <1>2, <2>1 DEF SequenceFollowed
  <2>3. reach[item] = UNION {Ends[model.items[item]][j] : j \in reach[item - 1]}
    <3>3. \A n \in 0..Len(model.items) :
            reach[n] = IF n = 0 THEN {1} ELSE UNION {Ends[model.items[n]][j] : j \in reach[n - 1]}
      BY <1>2, ModelChained
    <3>4. item \in 0..Len(model.items) /\ item # 0
      BY <1>3, <1>4
    <3> HIDE DEF reach
    <3> QED BY <3>3, <3>4
  <2> HIDE DEF reach
  <2>4. AllOutermost => (pos + r.used) + 1 \in reach[item]
    BY <1>5, <2>1, <2>2, <2>3
  <2>5. item' - 1 = item
    BY <1>4, <2>1
  <2>6. running'
    BY <1>1, <2>1, Zenon
  <2> QED BY <2>1, <2>4, <2>5, <2>6
<1>11. SequenceFollowed'
  <2>1. Chained(Ends, model.items, 1)' = reach
    BY <1>6
  <2> QED BY <1>6, <1>9, <1>10, <2>1 DEF SequenceFollowed
<1> QED BY <1>1, <1>6, <1>8, <1>11 DEF MatchInv

\* The end of a sequence.
LEMMA InvOfSequenceEnd ==
  ASSUME MatchInv, SequenceEnd
  PROVE  MatchInv'
<1>1. /\ input' = input /\ pos' = pos /\ item' = item /\ validated' = validated /\ running' = FALSE
      /\ bad' = (bad \/ pos < Len(kids)) /\ model.kind = "sequence" /\ item > Len(model.items)
  BY DEF SequenceEnd, At, Return
<1>2. Kept /\ SequenceFollowed /\ input \in Inputs /\ pos \in 0..Len(kids) /\ Len(kids) \in Nat
  BY <1>1, InputFacts DEF MatchInv, Kept
<1>3. kids' = kids /\ model' = model /\ Ends' = Ends /\ (AllOutermost' <=> AllOutermost)
  BY <1>1, SameInput
<1>4. Kept'
  BY <1>1, <1>2, <1>3 DEF Kept
<1>5. Len(model.items) \in Nat
  BY <1>2, ModelFacts
<1>6. ~bad' => ~bad /\ pos = Len(kids)
  <2>1. ~bad' => ~bad /\ ~(pos < Len(kids))
    BY <1>1, Zenon
  <2> QED BY <1>2, <2>1
<1>7. item = Len(model.items) + 1
  BY <1>1, <1>2, <1>5 DEF SequenceFollowed
<1>8. SequenceFollowed'
  <2>1. Chained(Ends, model.items, 1)' = Chained(Ends, model.items, 1)
    BY <1>3
  <2> QED BY <1>1, <1>2, <1>3, <1>6, <1>7, <2>1 DEF SequenceFollowed
<1> QED BY <1>1, <1>3, <1>4, <1>8 DEF MatchInv

\* The end of a choice, with or without children.
LEMMA InvOfChoiceEnd ==
  ASSUME MatchInv, ChoiceEmpty \/ ChoiceEnd
  PROVE  MatchInv'
<1>1. /\ input' = input /\ pos' = pos /\ iterations' = iterations /\ validated' = validated
      /\ running' = FALSE /\ model.kind = "choice"
      /\ \/ kids = <<>> /\ bad' = (bad \/ model.min > 0)
         \/ kids # <<>> /\ pos = Len(kids) /\ bad' = (bad \/ FALSE)
  BY DEF ChoiceEmpty, ChoiceEnd, At, Return
<1>2. /\ Kept /\ ChoiceRepeated /\ input \in Inputs /\ pos \in 0..Len(kids) /\ Len(kids) \in Nat
      /\ kids \in Seq(Child)
  <2>1. Kept /\ ChoiceRepeated
    BY <1>1 DEF MatchInv
  <2>2. input \in Inputs /\ pos \in 0..Len(kids)
    BY <2>1 DEF Kept
  <2> QED BY <2>1, <2>2, InputFacts
<1>3. /\ kids' = kids /\ model' = model /\ Once(Ends, model)' = Once(Ends, model)
      /\ AllOutermost' <=> AllOutermost
  BY <1>1, SameInput
<1>4. model.min \in Int
  BY <1>2, ModelFacts
<1>5. bad \in BOOLEAN
  BY <1>2 DEF Kept
<1>6. bad' \in BOOLEAN /\ (~bad' => ~bad)
  BY <1>1, <1>5
<1>7. Kept'
  BY <1>1, <1>2, <1>3, <1>6 DEF Kept
<1>8. ~bad' => pos = Len(kids) /\ (pos = 0 => model.min <= 0)
  <2>1. CASE kids = <<>>
    <3>1. Len(kids) = 0
      BY <2>1
    <3>2. ~bad' => ~(model.min > 0)
      BY <1>1, <2>1, Zenon
    <3> QED BY <1>2, <1>4, <3>1, <3>2
  <2>2. CASE kids # <<>>
    <3>1. Len(kids) # 0
      BY <1>2, <2>2
    <3> QED BY <1>1, <2>2, <3>1
  <2> QED BY <2>1, <2>2
<1>9. ChoiceRepeated'
  <2>1. Times(Once(Ends, model), 1, iterations)' = Times(Once(Ends, model), 1, iterations)
    BY <1>1, <1>3
  <2> QED BY <1>1, <1>2, <1>3, <1>6, <1>8, <2>1 DEF ChoiceRepeated
<1> QED BY <1>1, <1>3, <1>7, <1>9 DEF MatchInv

\* The items that were tried.
LEMMA TriedFacts ==
  ASSUME input \in Inputs, pos \in 0..Len(kids), NEW n \in 0..Len(model.items)
  PROVE  /\ Tried(n).errors \in BOOLEAN /\ Tried(n).done \subseteq DOMAIN kids
         /\ ~Tried(n).errors => /\ \A j \in 1..n : ~MatchItem(j).errors
                                /\ \A i \in Tried(n).done : kids[i].valid
         /\ \A j \in 1..n : MatchItem(j).done \subseteq Tried(n).done
<1> DEFINE rs == {MatchItem(j) : j \in 1..n}
<1>1. Tried(n).errors = (\E r \in rs : r.errors) /\ Tried(n).done = UNION {r.done : r \in rs}
  BY DEF Tried
<1>2. \A j \in 1..n : j \in DOMAIN model.items
  BY ModelFacts
<1>3. \A j \in 1..n : /\ MatchItem(j).done \subseteq DOMAIN kids
                      /\ ~MatchItem(j).errors => \A i \in MatchItem(j).done : kids[i].valid
  BY <1>2, ItemMatched
<1>4. \A j \in 1..n : MatchItem(j) \in rs
  OBVIOUS
<1>5. \A r \in rs : \E j \in 1..n : r = MatchItem(j)
  OBVIOUS
<1> HIDE DEF rs
<1>6. Tried(n).errors \in BOOLEAN
  BY <1>1
<1>7. Tried(n).done \subseteq DOMAIN kids
  BY <1>1, <1>3, <1>5
<1>8. ~Tried(n).errors => \A j \in 1..n : ~MatchItem(j).errors
  BY <1>1, <1>4
<1>9. ~Tried(n).errors => \A i \in Tried(n).done : kids[i].valid
  BY <1>1, <1>3, <1>5, <1>8
<1>10. \A j \in 1..n : MatchItem(j).done \subseteq Tried(n).done
  BY <1>1, <1>4
<1> QED BY <1>6, <1>7, <1>8, <1>9, <1>10

\* What one repetition of the model reaches.
LEMMA ModelOnce ==
  ASSUME input \in Inputs
  PROVE  Once(Ends, model) \in Landings
<1>1. Len(particles) \in DOMAIN particles /\ model = particles[Len(particles)]
  BY ModelFacts
<1>2. \A m \in 1..(Len(particles) - 1) : m \in DOMAIN particles
  BY InputFacts
<1>3. \A m \in 1..(Len(particles) - 1) : Ends[m] \in Landings
  BY <1>2, EndsUnfolds
<1>4. Once(Ends, particles[Len(particles)]) \in Landings
  BY <1>1, <1>3, OnceType
<1> QED BY <1>1, <1>4

\* One more repetition of the choice.
LEMMA InvOfChoiceItem ==
  ASSUME MatchInv, ChoiceItem
  PROVE  MatchInv'
<1> DEFINE k == Min(Matching)
           r == MatchItem(k)
           t == Tried(k)
           over == model.max >= 0 /\ iterations + 1 > model.max
           once == Once(Ends, model)
<1>1. /\ input' = input /\ running = TRUE /\ model.kind = "choice" /\ pos < Len(kids)
      /\ Matching # {}
      /\ pos' = pos + r.used /\ validated' = validated \cup t.done
      /\ bad' = (bad \/ t.errors \/ over) /\ running' = ~over
      /\ iterations' = iterations + 1
  BY DEF ChoiceItem, At
<1>2. /\ Kept /\ ChoiceRepeated /\ input \in Inputs /\ pos \in 0..Len(kids) /\ Len(kids) \in Nat
      /\ validated \subseteq DOMAIN kids
      /\ ~bad => \A j \in validated : kids[j].valid
  BY <1>1, InputFacts DEF MatchInv, Kept
<1>3. /\ Len(model.items) \in Nat /\ DOMAIN model.items = 1..Len(model.items)
      /\ model.max \in Int
  BY <1>2, ModelFacts
<1>4. k \in DOMAIN model.items /\ ~r.err /\ r.used > 0
  <2>1. Matching \in SUBSET Nat
    BY <1>3 DEF Matching
  <2>2. k \in Matching
    BY <1>1, <2>1, MinOfNaturals
  <2> HIDE DEF k
  <2> QED BY <2>2 DEF Matching
<1> HIDE DEF k
<1>5. k \in 0..Len(model.items) /\ k \in 1..k
  BY <1>3, <1>4
<1>6. /\ r.used \in Nat /\ r.used <= Len(kids) - pos
      /\ pos + 1 \in Positions /\ pos + r.used \in 0..Len(kids)
      /\ Ends[model.items[k]] \in Landings
      /\ ~r.errors => (pos + 1)..(pos + r.used) \subseteq r.done
      /\ AllOutermost /\ ~r.err /\ ~r.errors =>
           (pos + r.used) + 1 \in Ends[model.items[k]][pos + 1]
  BY <1>2, <1>4, ItemMatched
<1>7. /\ t.errors \in BOOLEAN /\ t.done \subseteq DOMAIN kids
      /\ ~t.errors => ~r.errors /\ \A i \in t.done : kids[i].valid
      /\ r.done \subseteq t.done
  <2>1. /\ Tried(k).errors \in BOOLEAN /\ Tried(k).done \subseteq DOMAIN kids
        /\ ~Tried(k).errors => /\ \A j \in 1..k : ~MatchItem(j).errors
                               /\ \A i \in Tried(k).done : kids[i].valid
        /\ \A j \in 1..k : MatchItem(j).done \subseteq Tried(k).done
    BY <1>2, <1>5, TriedFacts
  <2> QED BY <1>5, <2>1
<1> HIDE DEF r, t, over
<1>8. bad \in BOOLEAN /\ over \in BOOLEAN
  BY <1>2 DEF Kept, over
<1>9. /\ bad' \in BOOLEAN /\ running' \in BOOLEAN /\ pos' \in 0..Len(kids)
      /\ ~bad' => ~bad /\ ~t.errors /\ ~over /\ running'
  BY <1>1, <1>6, <1>7, <1>8
<1>10. Kept'
  <2>1. ~bad' => (pos + 1)..pos' \subseteq validated' /\ \A j \in validated' : kids[j].valid
    BY <1>1, <1>2, <1>6, <1>7, <1>9
  <2>2. validated \subseteq validated' /\ validated' \subseteq DOMAIN kids
    BY <1>1, <1>2, <1>7
  <2>3. ~bad' => ~bad
    BY <1>9
  <2> QED BY <1>1, <1>9, <2>1, <2>2, <2>3, StepKept
<1>11. /\ kids' = kids /\ model' = model /\ once' = once /\ (AllOutermost' <=> AllOutermost)
  BY <1>1, SameInput
<1>12. iterations \in Nat /\ iterations <= pos
  BY <1>2 DEF ChoiceRepeated
<1>13. iterations' \in 0..pos' /\ iterations' # 0
  BY <1>1, <1>2, <1>4, <1>6, <1>12
<1>14. ASSUME AllOutermost, ~bad' PROVE pos' + 1 \in Times(once, 1, iterations')
  <2>1. pos + 1 \in Times(once, 1, iterations)
    BY <1>2, <1>9, <1>14 DEF ChoiceRepeated
  <2>2. (pos + r.used) + 1 \in Ends[model.items[k]][pos + 1]
    BY <1>4, <1>6, <1>7, <1>9, <1>14
  <2>3. once[pos + 1] = UNION {Ends[model.items[n]][pos + 1] : n \in DOMAIN model.items}
    BY <1>1, <1>6 DEF Once
  <2>4. once \in Landings
    BY <1>2, ModelOnce
  <2> HIDE DEF once
  <2>5. (pos + r.used) + 1 \in once[pos + 1]
    BY <1>4, <2>2, <2>3
  <2>6. 1 \in Positions
    BY <1>2 DEF Positions
  <2>7. Times(once, 1, iterations + 1) = UNION {once[j] : j \in Times(once, 1, iterations)}
    BY <1>12, <2>4, <2>6, TimesUnfolds
  <2> QED BY <1>1, <2>1, <2>5, <2>7
<1>15. ASSUME ~bad', model.max >= 0 PROVE iterations' <= model.max
  <2>1. ~(iterations + 1 > model.max)
    BY <1>9, <1>15 DEF over
  <2> QED BY <1>1, <1>3, <1>12, <2>1
<1>16. ChoiceRepeated'
  <2>1. Times(Once(Ends, model), 1, iterations)' = Times(once, 1, iterations')
    BY <1>11
  <2> HIDE DEF once
  <2> QED BY <1>9, <1>11, <1>13, <1>14, <1>15, <2>1 DEF ChoiceRepeated
<1> QED BY <1>1, <1>10, <1>11, <1>16 DEF MatchInv

\* No item of the choice matches: an error.
LEMMA InvOfChoiceNoMatch ==
  ASSUME MatchInv, ChoiceNoMatch
  PROVE  MatchInv'
<1> DEFINE n == Len(model.items)
<1>1. /\ input' = input /\ pos' = pos /\ iterations' = iterations /\ running' = FALSE
      /\ bad' = (bad \/ TRUE) /\ validated' = validated \cup Tried(n).done /\ model.kind = "choice"
  BY DEF ChoiceNoMatch, At, Return
<1>2. /\ Kept /\ ChoiceRepeated /\ input \in Inputs /\ pos \in 0..Len(kids)
      /\ validated \subseteq DOMAIN kids
  BY <1>1 DEF MatchInv, Kept
<1>3. n \in Nat /\ n \in 0..n
  BY <1>2, ModelFacts
<1>4. Tried(n).done \subseteq DOMAIN kids
  BY <1>2, <1>3, TriedFacts
<1> HIDE DEF n
<1>5. bad' = TRUE
  BY <1>1
<1>6. kids' = kids /\ model' = model
  BY <1>1, SameInput
<1>7. Kept'
  BY <1>1, <1>2, <1>4, <1>5, <1>6 DEF Kept
<1>8. ChoiceRepeated'
  BY <1>1, <1>2, <1>5 DEF ChoiceRepeated
<1> QED BY <1>1, <1>6, <1>7, <1>8 DEF MatchInv

\* One more child for item k: k has one more.
LEMMA OneMorePlaced ==
  ASSUME input \in Inputs, NEW n \in Nat, NEW c \in [DOMAIN model.items -> Nat],
         NEW f \in [1..n -> DOMAIN model.items], Placed(f, n, c),
         NEW k \in DOMAIN model.items, TakenBy(n + 1, k)
  PROVE  \E g \in [1..(n + 1) -> DOMAIN model.items] : Placed(g, n + 1, [c EXCEPT ![k] = @ + 1])
<1> DEFINE D == DOMAIN model.items
           g == [i \in 1..(n + 1) |-> IF i = n + 1 THEN k ELSE f[i]]
           d == [c EXCEPT ![k] = @ + 1]
           Before(m) == {i \in 1..n : f[i] = m}
           Later(m) == {i \in 1..(n + 1) : g[i] = m}
<1>1. g \in [1..(n + 1) -> D] /\ g[n + 1] = k /\ \A i \in 1..n : g[i] = f[i]
  OBVIOUS
<1>2. d \in [D -> Nat] /\ d[k] = c[k] + 1 /\ \A m \in D : m # k => d[m] = c[m]
  OBVIOUS
<1>3. \A i \in 1..(n + 1) : i = n + 1 \/ i \in 1..n
  OBVIOUS
<1>4. \A i \in 1..n : i # n + 1 /\ i \in 1..(n + 1)
  OBVIOUS
<1>5. n + 1 \in 1..(n + 1)
  OBVIOUS
<1> HIDE DEF g, d, D
<1>6. \A i \in 1..(n + 1) : TakenBy(i, g[i])
  BY <1>1, <1>3 DEF Placed
<1>7. ASSUME NEW m \in D PROVE d[m] = Cardinality(Later(m))
  <2>1. c[m] = Cardinality(Before(m))
    BY <1>7 DEF Placed, D
  <2>2. CASE m = k
    <3>1. Later(m) = Before(m) \cup {n + 1}
      BY <1>1, <1>3, <1>4, <1>5, <2>2
    <3>2. IsFiniteSet(Before(m)) /\ n + 1 \notin Before(m)
      <4>1. IsFiniteSet(1..n)
        BY FS_Interval
      <4>2. Before(m) \subseteq 1..n
        OBVIOUS
      <4> HIDE DEF Before
      <4>3. IsFiniteSet(Before(m))
        BY <4>1, <4>2, FS_Subset
      <4> QED BY <1>4, <4>2, <4>3
    <3> HIDE DEF Before, Later
    <3>3. Cardinality(Before(m) \cup {n + 1}) = Cardinality(Before(m)) + 1
      BY <3>2, FS_AddElement
    <3> QED BY <1>2, <2>1, <2>2, <3>1, <3>3
  <2>3. CASE m # k
    <3>1. Later(m) = Before(m)
      BY <1>1, <1>3, <1>4, <2>3
    <3> HIDE DEF Before, Later
    <3> QED BY <1>2, <2>1, <2>3, <3>1
  <2> QED BY <2>2, <2>3
<1>8. Placed(g, n + 1, d)
  BY <1>6, <1>7 DEF Placed, D
<1> QED BY <1>1, <1>8 DEF d, D

\* A child of an all group that is given to an item, or to none with an error.
LEMMA InvOfAllChild ==
  ASSUME MatchInv, model.kind = "all", input' = input, pos < Len(kids), pos' = pos + 1, running,
         running' = running, bad' \in BOOLEAN, counts' \in [DOMAIN model.items -> Nat],
         validated \subseteq validated', validated' \subseteq validated \cup {pos + 1},
         ~bad' => /\ ~bad /\ pos + 1 \in validated' /\ kids[pos + 1].valid
                  /\ \E k \in DOMAIN model.items :
                        /\ TakenBy(pos + 1, k)
                        /\ counts' = [counts EXCEPT ![k] = @ + 1]
                        /\ Item(k).max >= 0 => counts[k] + 1 <= Item(k).max
  PROVE  MatchInv'
<1>1. Kept /\ AllPlaced /\ input \in Inputs /\ pos \in 0..Len(kids)
  <2>1. Kept /\ AllPlaced
    BY DEF MatchInv
  <2> QED BY <2>1 DEF Kept
<1>2. Len(kids) \in Nat /\ DOMAIN kids = 1..Len(kids)
  BY <1>1, InputFacts
<1>3. /\ kids' = kids /\ model' = model
      /\ \A k : Item(k)' = Item(k)
      /\ \A i, k : TakenBy(i, k)' <=> TakenBy(i, k)
  BY SameInput
<1>4. Kept'
  <2>1. pos' \in 0..Len(kids) /\ pos + 1 \in DOMAIN kids /\ (pos + 1)..pos' = {pos + 1}
    BY <1>1, <1>2
  <2>2. validated' \subseteq DOMAIN kids
    BY <1>1, <2>1 DEF Kept
  <2>3. ~bad' => (pos + 1)..pos' \subseteq validated' /\ \A j \in validated' : kids[j].valid
    BY <1>1, <2>1 DEF Kept
  <2>4. running' \in BOOLEAN /\ (~bad' => ~bad)
    BY <1>1 DEF Kept
  <2> QED BY <2>1, <2>2, <2>3, <2>4, StepKept
<1>5. ASSUME ~bad'
      PROVE  /\ \E g \in [1..pos' -> DOMAIN model.items] : Placed(g, pos', counts')
             /\ \A k \in DOMAIN model.items : Item(k).max >= 0 => counts'[k] <= Item(k).max
  <2>1. ~bad
    BY <1>5
  <2>2. PICK k \in DOMAIN model.items :
               /\ TakenBy(pos + 1, k)
               /\ counts' = [counts EXCEPT ![k] = @ + 1]
               /\ Item(k).max >= 0 => counts[k] + 1 <= Item(k).max
    BY <1>5
  <2>3. /\ counts \in [DOMAIN model.items -> Nat] /\ pos \in Nat
        /\ \A j \in DOMAIN model.items : Item(j).max >= 0 => counts[j] <= Item(j).max
    BY <1>1, <2>1 DEF AllPlaced
  <2>4. PICK f \in [1..pos -> DOMAIN model.items] : Placed(f, pos, counts)
    BY <1>1, <2>1 DEF AllPlaced
  <2>5. \E g \in [1..(pos + 1) -> DOMAIN model.items] : Placed(g, pos + 1, [counts EXCEPT ![k] = @ + 1])
    BY <1>1, <2>2, <2>3, <2>4, OneMorePlaced
  <2>6. counts'[k] = counts[k] + 1 /\ \A j \in DOMAIN model.items : j # k => counts'[j] = counts[j]
    BY <2>2, <2>3
  <2> QED BY <2>2, <2>3, <2>5, <2>6
<1>6. AllPlaced'
  <2>1. (\E g \in [1..pos -> DOMAIN model.items] : Placed(g, pos, counts))'
          <=> \E g \in [1..pos' -> DOMAIN model.items] : Placed(g, pos', counts')
    BY <1>3 DEF Placed
  <2> QED BY <1>3, <1>5, <2>1 DEF AllPlaced
<1> QED BY <1>3, <1>4, <1>6 DEF MatchInv

\* The item that allSlotFor finds takes the child.
LEMMA SlotFacts ==
  ASSUME input \in Inputs
  PROVE  /\ \A k \in Slots : k \in DOMAIN model.items /\ TakenBy(pos + 1, k)
         /\ Wildcards # {} => Min(Wildcards) \in DOMAIN model.items /\ TakenBy(pos + 1, Min(Wildcards))
<1>1. Len(model.items) \in Nat /\ DOMAIN model.items = 1..Len(model.items)
  BY ModelFacts
<1>2. /\ Named \in SUBSET (0..Len(model.items)) /\ StoodFor \in SUBSET Nat /\ Wildcards \in SUBSET Nat
  BY <1>1 DEF Named, StoodFor, Wildcards
<1>3. Named # {} => Max(Named) \in Named
  BY <1>1, <1>2, MaxOfBounded
<1>4. /\ StoodFor # {} => Min(StoodFor) \in StoodFor
      /\ Wildcards # {} => Min(Wildcards) \in Wildcards
  BY <1>2, MinOfNaturals
<1>5. \A k \in Named \cup StoodFor : k \in DOMAIN model.items /\ TakenBy(pos + 1, k)
  BY DEF Named, StoodFor, TakenBy, Fits
<1>6. \A k \in Wildcards : k \in DOMAIN model.items /\ TakenBy(pos + 1, k)
  BY DEF Wildcards, TakenBy
<1>7. \A k \in Slots : k \in Named \cup StoodFor
  BY <1>3, <1>4 DEF Slots
<1> QED BY <1>4, <1>5, <1>6, <1>7

\* A child of an all group that no item takes.
LEMMA InvOfAllUnexpected ==
  ASSUME MatchInv, AllUnexpected
  PROVE  MatchInv'
<1>1. /\ model.kind = "all" /\ input' = input /\ pos < Len(kids) /\ pos' = pos + 1 /\ running
      /\ running' = running /\ bad' = TRUE /\ counts' = counts /\ validated' = validated
  BY DEF AllUnexpected, AtAllChild, At
<1>2. counts' \in [DOMAIN model.items -> Nat]
  BY <1>1 DEF MatchInv, AllPlaced
<1>3. bad' \in BOOLEAN /\ validated \subseteq validated' /\ validated' \subseteq validated \cup {pos + 1}
  BY <1>1
<1> QED BY <1>1, <1>2, <1>3, InvOfAllChild

\* One more of an item is a count of natural numbers again.
LEMMA CountOne ==
  ASSUME MatchInv, model.kind = "all", NEW k \in DOMAIN model.items,
         counts' = [counts EXCEPT ![k] = @ + 1]
  PROVE  /\ counts' \in [DOMAIN model.items -> Nat] /\ counts[k] \in Nat
         /\ ~Over(k) => (Item(k).max >= 0 => counts[k] + 1 <= Item(k).max)
<1>1. counts \in [DOMAIN model.items -> Nat] /\ input \in Inputs
  BY DEF MatchInv, AllPlaced, Kept
<1>2. Item(k).max \in Int
  BY <1>1, ModelFacts
<1>3. counts' \in [DOMAIN model.items -> Nat] /\ counts[k] \in Nat
  BY <1>1
<1>4. ~Over(k) => (Item(k).max >= 0 => counts[k] + 1 <= Item(k).max)
  BY <1>2, <1>3 DEF Over
<1> QED BY <1>3, <1>4

\* A child that an element of an all group takes.
LEMMA InvOfAllElement ==
  ASSUME MatchInv, AllElement
  PROVE  MatchInv'
<1>1. /\ model.kind = "all" /\ input' = input /\ pos < Len(kids) /\ pos' = pos + 1 /\ running
      /\ running' = running
  BY DEF AllElement, AtAllChild, At
<1>2. PICK k \in Slots :
         IF IsAbstract(pos + 1, Item(k))
         THEN bad' = TRUE /\ UNCHANGED <<counts, validated>>
         ELSE /\ counts' = [counts EXCEPT ![k] = @ + 1]
              /\ bad' = (bad \/ Over(k) \/ ~kids[pos + 1].valid)
              /\ validated' = IF Over(k) THEN validated ELSE validated \cup {pos + 1}
  BY DEF AllElement
<1>3. input \in Inputs /\ bad \in BOOLEAN
  BY DEF MatchInv, Kept
<1>4. k \in DOMAIN model.items /\ TakenBy(pos + 1, k)
  BY <1>3, SlotFacts
<1>5. CASE IsAbstract(pos + 1, Item(k))
  <2>1. counts' \in [DOMAIN model.items -> Nat]
    BY <1>1, <1>2, <1>5 DEF MatchInv, AllPlaced
  <2>2. bad' \in BOOLEAN /\ bad' /\ validated' = validated
    BY <1>2, <1>5
  <2>3. validated \subseteq validated' /\ validated' \subseteq validated \cup {pos + 1}
    BY <2>2
  <2> QED BY <1>1, <2>1, <2>2, <2>3, InvOfAllChild
<1>6. CASE ~IsAbstract(pos + 1, Item(k))
  <2>1. /\ counts' = [counts EXCEPT ![k] = @ + 1]
        /\ bad' = (bad \/ Over(k) \/ ~kids[pos + 1].valid)
        /\ validated' = IF Over(k) THEN validated ELSE validated \cup {pos + 1}
    BY <1>2, <1>6
  <2>2. /\ counts' \in [DOMAIN model.items -> Nat]
        /\ ~Over(k) => (Item(k).max >= 0 => counts[k] + 1 <= Item(k).max)
    BY <1>1, <1>4, <2>1, CountOne
  <2>3. bad' \in BOOLEAN
    BY <2>1
  <2>4. ~bad' => ~bad /\ ~Over(k) /\ kids[pos + 1].valid
    BY <2>1
  <2>5. /\ validated \subseteq validated' /\ validated' \subseteq validated \cup {pos + 1}
        /\ ~bad' => pos + 1 \in validated'
    BY <2>1, <2>4
  <2> QED BY <1>1, <1>4, <2>1, <2>2, <2>3, <2>4, <2>5, InvOfAllChild
<1> QED BY <1>5, <1>6

\* A child that a wildcard of an all group takes.
LEMMA InvOfAllWildcard ==
  ASSUME MatchInv, AllWildcard
  PROVE  MatchInv'
<1> DEFINE k == Min(Wildcards)
<1>1. /\ model.kind = "all" /\ input' = input /\ pos < Len(kids) /\ pos' = pos + 1 /\ running
      /\ running' = running /\ Wildcards # {}
      /\ counts' = [counts EXCEPT ![k] = @ + 1]
      /\ bad' = (bad \/ Over(k) \/ ~Declared(pos + 1) \/ ~kids[pos + 1].valid)
      /\ validated' = IF Declared(pos + 1) THEN validated \cup {pos + 1} ELSE validated
  BY DEF AllWildcard, AtAllChild, At
<1>2. input \in Inputs /\ bad \in BOOLEAN
  BY DEF MatchInv, Kept
<1>3. k \in DOMAIN model.items /\ TakenBy(pos + 1, k)
  BY <1>1, <1>2, SlotFacts
<1> HIDE DEF k
<1>4. /\ counts' \in [DOMAIN model.items -> Nat]
      /\ ~Over(k) => (Item(k).max >= 0 => counts[k] + 1 <= Item(k).max)
  BY <1>1, <1>3, CountOne
<1>5. bad' \in BOOLEAN
  BY <1>1
<1>6. ~bad' => ~bad /\ ~Over(k) /\ Declared(pos + 1) /\ kids[pos + 1].valid
  BY <1>1
<1>7. /\ validated \subseteq validated' /\ validated' \subseteq validated \cup {pos + 1}
      /\ ~bad' => pos + 1 \in validated'
  BY <1>1, <1>6
<1> QED BY <1>1, <1>3, <1>4, <1>5, <1>6, <1>7, InvOfAllChild

\* The end of an all group: an item whose name is its own has its minimum.
LEMMA InvOfAllEnd ==
  ASSUME MatchInv, AllEnd
  PROVE  MatchInv'
<1>1. /\ model.kind = "all" /\ input' = input /\ pos = Len(kids) /\ pos' = pos
      /\ running' = FALSE /\ counts' = counts /\ validated' = validated
      /\ bad' = (bad \/ \E k \in DOMAIN model.items : Short(k))
  BY DEF AllEnd, At, Return
<1>2. Kept /\ AllPlaced
  BY <1>1 DEF MatchInv
<1>3. input \in Inputs /\ bad \in BOOLEAN /\ counts \in [DOMAIN model.items -> Nat]
  BY <1>2 DEF Kept, AllPlaced
<1>4. bad' \in BOOLEAN /\ (~bad' => ~bad /\ \A k \in DOMAIN model.items : ~Short(k))
  BY <1>1, <1>3
<1>5. /\ kids' = kids /\ model' = model
      /\ \A k : Item(k)' = Item(k)
      /\ \A i, k : TakenBy(i, k)' <=> TakenBy(i, k)
      /\ \A k : OwnName(k)' <=> OwnName(k)
  BY <1>1, SameInput
<1>6. Kept'
  BY <1>1, <1>2, <1>4, <1>5 DEF Kept
<1>7. ASSUME NEW k \in DOMAIN model.items, ~Short(k), OwnName(k) PROVE counts[k] >= Item(k).min
  <2> DEFINE same == {j \in DOMAIN model.items : IsElement(j) /\ Item(j).name[2] = Item(k).name[2]}
  <2>1. Item(k).min \in Int /\ counts[k] \in Nat /\ k \in Nat
    BY <1>3, ModelFacts
  <2>2. CASE IsElement(k)
    <3>1. same = {k}
      BY <1>7, <2>2 DEF OwnName
    <3>2. Max({k}) = k
      <4>1. {k} \in SUBSET (0..k) /\ {k} # {}
        BY <2>1
      <4> QED BY <2>1, <4>1, MaxOfBounded
    <3>3. ~(counts[Max(same)] < Item(k).min)
      BY <1>7, <2>2 DEF Short
    <3> HIDE DEF same
    <3> QED BY <2>1, <3>1, <3>2, <3>3
  <2>3. CASE ~IsElement(k)
    <3>1. ~(counts[k] < Item(k).min)
      BY <1>7, <2>3 DEF Short
    <3> QED BY <2>1, <3>1
  <2> QED BY <2>2, <2>3
<1>8. AllPlaced'
  <2>1. (\E g \in [1..pos -> DOMAIN model.items] : Placed(g, pos, counts))'
          <=> \E g \in [1..pos -> DOMAIN model.items] : Placed(g, pos, counts)
    BY <1>1, <1>5 DEF Placed
  <2>2. ~bad' => \A k \in DOMAIN model.items : OwnName(k) => counts[k] >= Item(k).min
    BY <1>4, <1>7
  <2> QED BY <1>1, <1>2, <1>4, <1>5, <2>1, <2>2, ZenonT(30) DEF AllPlaced
<1> QED BY <1>1, <1>5, <1>6, <1>8 DEF MatchInv

\* Before the first step nothing is matched.
LEMMA InvOfInit ==
  ASSUME Init
  PROVE  MatchInv
<1>1. /\ input \in Inputs /\ pos = 0 /\ item = 1 /\ iterations = 0 /\ bad = FALSE
      /\ counts = [k \in DOMAIN model.items |-> 0] /\ validated = {} /\ running = TRUE
  BY DEF Init
<1>2. Len(kids) \in Nat /\ 1 \in Positions
  BY <1>1, InputFacts DEF Positions
<1>3. /\ Len(model.items) \in Nat /\ DOMAIN model.items = 1..Len(model.items) /\ model.max \in Int
      /\ \A k \in DOMAIN model.items : Item(k).max \in Int
      /\ Len(particles) \in DOMAIN particles /\ model = particles[Len(particles)]
  BY <1>1, ModelFacts
<1>4. Kept
  <2>1. pos \in 0..Len(kids) /\ 1..pos = {}
    BY <1>1, <1>2
  <2> QED BY <1>1, <2>1 DEF Kept
<1>5. \A k \in DOMAIN particles : Ends[k] \in Landings
  BY <1>1, EndsUnfolds
<1>6. SequenceFollowed
  <2>2. 0 \in 0..Len(model.items)
    BY <1>3
  <2>3. Chained(Ends, model.items, 1)[0] = {1}
    <3> DEFINE reach == Chained(Ends, model.items, 1)
    <3>1. \A n \in 0..Len(model.items) :
            reach[n] = IF n = 0 THEN {1} ELSE UNION {Ends[model.items[n]][j] : j \in reach[n - 1]}
      BY <1>1, ModelChained
    <3> HIDE DEF reach
    <3>2. reach[0] = {1}
      BY <2>2, <3>1
    <3> QED BY <3>2 DEF reach
  <2>4. pos + 1 = 1 /\ item - 1 = 0
    BY <1>1
  <2> QED BY <1>1, <1>3, <2>3, <2>4 DEF SequenceFollowed
<1>7. ChoiceRepeated
  <2>1. Once(Ends, model) \in Landings
    BY <1>1, ModelOnce
  <2>2. Times(Once(Ends, model), 1, 0) = {1}
    <3>1. 0 \in Nat
      OBVIOUS
    <3> QED BY <1>2, <2>1, <3>1, TimesUnfolds
  <2> QED BY <1>1, <1>3, <2>2 DEF ChoiceRepeated
<1>8. AllPlaced
  <2> DEFINE f == [i \in 1..0 |-> 0]
  <2>1. \A i \in 1..pos : FALSE
    BY <1>1
  <2>2. f \in [1..pos -> DOMAIN model.items]
    BY <1>1
  <2> HIDE DEF f
  <2>3. \A k \in DOMAIN model.items : counts[k] = 0 /\ {i \in 1..pos : f[i] = k} = {}
    BY <1>1, <2>1
  <2>4. Placed(f, pos, counts)
    BY <2>1, <2>3, FS_EmptySet DEF Placed
  <2>5. counts \in [DOMAIN model.items -> Nat]
    BY <1>1
  <2> QED BY <1>1, <1>3, <2>2, <2>3, <2>4, <2>5 DEF AllPlaced
<1> QED BY <1>1, <1>4, <1>6, <1>7, <1>8 DEF MatchInv

\* A step that changes nothing.
LEMMA InvOfStutter ==
  ASSUME MatchInv, vars' = vars
  PROVE  MatchInv'
<1>1. /\ input' = input /\ pos' = pos /\ item' = item /\ iterations' = iterations /\ counts' = counts
      /\ bad' = bad /\ validated' = validated /\ running' = running
  BY DEF vars
<1>2. /\ kids' = kids /\ model' = model /\ Ends' = Ends /\ Once(Ends, model)' = Once(Ends, model)
      /\ \A k : Item(k)' = Item(k)
      /\ \A i, k : TakenBy(i, k)' <=> TakenBy(i, k)
      /\ \A k : OwnName(k)' <=> OwnName(k)
      /\ AllOutermost' <=> AllOutermost
  BY <1>1, SameInput
<1>3. Kept'
  BY <1>1, <1>2 DEF MatchInv, Kept
<1>4. SequenceFollowed' <=> SequenceFollowed
  <2>1. Chained(Ends, model.items, 1)' = Chained(Ends, model.items, 1)
    BY <1>2
  <2> QED BY <1>1, <1>2, <2>1 DEF SequenceFollowed
<1>5. ChoiceRepeated' <=> ChoiceRepeated
  <2>1. Times(Once(Ends, model), 1, iterations)' = Times(Once(Ends, model), 1, iterations)
    BY <1>1, <1>2
  <2> QED BY <1>1, <1>2, <2>1 DEF ChoiceRepeated
<1>6. AllPlaced' <=> AllPlaced
  <2>1. (\E g \in [1..pos -> DOMAIN model.items] : Placed(g, pos, counts))'
          <=> \E g \in [1..pos -> DOMAIN model.items] : Placed(g, pos, counts)
    BY <1>1, <1>2 DEF Placed
  <2> QED BY <1>1, <1>2, <2>1, ZenonT(30) DEF AllPlaced
<1> QED BY <1>1, <1>2, <1>3, <1>4, <1>5, <1>6 DEF MatchInv

\* The children before pos were validated without an error and stand for a
\* match of the items, repetitions or counts so far (the match as far as no
\* all group is inside another group): after every step of
\* validateContentModel, for every content model and all children.
THEOREM MatchInvariant == Spec => []MatchInv
<1>1. Init => MatchInv
  BY InvOfInit
<1>2. ASSUME MatchInv, [Next]_vars PROVE MatchInv'
  <2>1. CASE EmptyContent
    BY <1>2, <2>1, InvOfEmpty
  <2>2. CASE SequenceItem
    BY <1>2, <2>2, InvOfSequenceItem
  <2>3. CASE SequenceEnd
    BY <1>2, <2>3, InvOfSequenceEnd
  <2>4. CASE ChoiceEmpty \/ ChoiceEnd
    BY <1>2, <2>4, InvOfChoiceEnd
  <2>5. CASE ChoiceItem
    BY <1>2, <2>5, InvOfChoiceItem
  <2>6. CASE ChoiceNoMatch
    BY <1>2, <2>6, InvOfChoiceNoMatch
  <2>7. CASE AllElement
    BY <1>2, <2>7, InvOfAllElement
  <2>8. CASE AllWildcard
    BY <1>2, <2>8, InvOfAllWildcard
  <2>9. CASE AllUnexpected
    BY <1>2, <2>9, InvOfAllUnexpected
  <2>10. CASE AllEnd
    BY <1>2, <2>10, InvOfAllEnd
  <2>11. CASE vars' = vars
    BY <1>2, <2>11, InvOfStutter
  <2>12. CASE Done
    BY <2>11, <2>12 DEF Done, vars
  <2> QED BY <1>2, <2>1, <2>2, <2>3, <2>4, <2>5, <2>6, <2>7, <2>8, <2>9, <2>10, <2>11, <2>12
        DEF Next, Step
<1> QED BY <1>1, <1>2, PTL DEF Spec

\* What the loop over a sequence consumed is one repetition of the sequence.
LEMMA SequenceSound ==
  ASSUME MatchInv, Accepted, EnforcedOccurs, AllOutermost, model.kind = "sequence"
  PROVE  Len(kids) + 1 \in Ends[Len(particles)][1]
<1> DEFINE once == Once(Ends, model)
<1>1. /\ Kept /\ SequenceFollowed /\ ~bad /\ ~running /\ model.min = 1 /\ model.max = 1
  BY DEF MatchInv, Accepted, EnforcedOccurs
<1>2. input \in Inputs
  BY <1>1 DEF Kept
<1>3. /\ Len(model.items) \in Nat /\ Len(kids) \in Nat /\ 1 \in Positions
      /\ Len(particles) \in DOMAIN particles /\ model = particles[Len(particles)]
  BY <1>2, ModelFacts, InputFacts DEF Positions
<1>4. Len(kids) + 1 \in Chained(Ends, model.items, 1)[Len(model.items)]
  <2>1. item - 1 = Len(model.items) /\ pos = Len(kids)
    BY <1>1, <1>3 DEF SequenceFollowed
  <2> QED BY <1>1, <2>1 DEF SequenceFollowed
<1>5. once[1] = Chained(Ends, model.items, 1)[Len(model.items)]
  BY <1>3 DEF Once
<1>6. once \in Landings
  BY <1>2, <1>3, ModelOnce
<1> HIDE DEF once
<1>7. Times(once, 1, 0) = {1} /\ Times(once, 1, 0 + 1) = UNION {once[j] : j \in Times(once, 1, 0)}
  <2>1. 0 \in Nat
    OBVIOUS
  <2> QED BY <1>3, <1>6, <2>1, TimesUnfolds
<1>8. Len(kids) + 1 \in Times(once, 1, 1)
  BY <1>4, <1>5, <1>7
<1>9. 1 \in Counts(model)
  BY <1>1 DEF Counts
<1>10. Ends[Len(particles)][1] = UNION {Times(once, 1, n) : n \in Counts(model)}
  BY <1>2, <1>3, EndsUnfolds DEF once
<1> QED BY <1>8, <1>9, <1>10

\* What the loop over a choice consumed is as many repetitions as it counted.
LEMMA ChoiceSound ==
  ASSUME MatchInv, Accepted, EnforcedOccurs, AllOutermost, model.kind = "choice"
  PROVE  Len(kids) + 1 \in Ends[Len(particles)][1]
<1> DEFINE once == Once(Ends, model)
<1>1. /\ Kept /\ ChoiceRepeated /\ ~bad /\ ~running /\ model.min <= 1
  BY DEF MatchInv, Accepted, EnforcedOccurs
<1>2. input \in Inputs
  BY <1>1 DEF Kept
<1>3. /\ Len(kids) \in Nat /\ 1 \in Positions /\ model.min \in Int /\ model.max \in Int
      /\ Len(particles) \in DOMAIN particles /\ model = particles[Len(particles)]
  BY <1>2, ModelFacts, InputFacts DEF Positions
<1>4. /\ pos = Len(kids) /\ Len(kids) + 1 \in Times(once, 1, iterations)
      /\ iterations \in 0..Len(kids) /\ (model.max >= 0 => iterations <= model.max)
      /\ (iterations = 0 => model.min <= 0)
  BY <1>1 DEF ChoiceRepeated
<1>5. iterations >= model.min
  BY <1>1, <1>3, <1>4
<1>6. iterations \in Counts(model)
  BY <1>2, <1>3, <1>4, <1>5, CountsFacts
<1>7. Ends[Len(particles)][1] = UNION {Times(once, 1, n) : n \in Counts(model)}
  BY <1>2, <1>3, EndsUnfolds
<1> HIDE DEF once
<1> QED BY <1>4, <1>6, <1>7

\* The items of an all group took as many children as they may.
LEMMA AllSound ==
  ASSUME MatchInv, Accepted, EnforcedOccurs, model.kind = "all"
  PROVE  AllTakes(model, 1, Len(kids))
<1> DEFINE K == Len(kids)
<1>1. /\ Kept /\ AllPlaced /\ ~bad /\ ~running
      /\ \A k \in DOMAIN model.items : OwnName(k)
  BY DEF MatchInv, Accepted, EnforcedOccurs, OwnName
<1>2. input \in Inputs
  BY <1>1 DEF Kept
<1>3. K \in Nat
  BY <1>2, InputFacts
<1>4. /\ pos = K /\ counts \in [DOMAIN model.items -> Nat]
      /\ \A k \in DOMAIN model.items : counts[k] >= Item(k).min
      /\ \A k \in DOMAIN model.items : Item(k).max >= 0 => counts[k] <= Item(k).max
  BY <1>1 DEF AllPlaced
<1>5. PICK f \in [1..K -> DOMAIN model.items] : Placed(f, K, counts)
  BY <1>1, <1>4 DEF AllPlaced
<1>6. ASSUME NEW k \in DOMAIN model.items
      PROVE  Cardinality({i \in 1..K : f[i] = k}) \in Counts(Item(k))
  <2> DEFINE S == {i \in 1..K : f[i] = k}
  <2>1. counts[k] = Cardinality(S)
    BY <1>5 DEF Placed
  <2>2. IsFiniteSet(1..K) /\ Cardinality(1..K) = K
    <3>1. 1 \in Int /\ K \in Int
      BY <1>3
    <3>2. Cardinality(1..K) = IF 1 > K THEN 0 ELSE K - 1 + 1
      BY <3>1, FS_Interval
    <3> HIDE DEF K
    <3>3. Cardinality(1..K) = K
      BY <1>3, <3>2
    <3> QED BY <3>1, <3>3, FS_Interval
  <2>3. S \in SUBSET (1..K)
    OBVIOUS
  <2> HIDE DEF S
  <2>4. Cardinality(S) <= K
    <3> DEFINE T == 1..K
    <3>1. IsFiniteSet(T) /\ S \in SUBSET T /\ Cardinality(T) = K
      BY <2>2, <2>3
    <3> HIDE DEF T
    <3>2. Cardinality(S) <= Cardinality(T)
      BY <3>1, FS_Subset
    <3> QED BY <3>1, <3>2
  <2>5. counts[k] \in 0..K
    BY <1>3, <1>4, <2>1, <2>4
  <2>6. Item(k).min \in Int /\ Item(k).max \in Int
    BY <1>2, ModelFacts
  <2>7. counts[k] \in Counts(Item(k))
    BY <1>2, <1>4, <2>5, <2>6, CountsFacts
  <2> QED BY <2>1, <2>7 DEF S
<1>7. \A i \in 1..K : TakenBy(i, f[i])
  BY <1>5 DEF Placed
<1> QED BY <1>5, <1>6, <1>7 DEF AllTakes, TakenBy, IsElement, Item

\* Whatever the greedy match accepts, with all its branches, repetitions and
\* wildcards, the content model admits by its definition, unless an all group
\* is inside another group; and every child of it was validated and is valid,
\* whatever the model: for every content model and all children.
THEOREM AcceptedIsAdmitted == Spec => []Sound
<1>1. ASSUME MatchInv, Accepted
      PROVE  /\ EnforcedOccurs /\ AllOutermost => Admitted
             /\ validated = 1..Len(kids) /\ \A i \in 1..Len(kids) : kids[i].valid
  <2>1. Kept /\ ~bad /\ ~running
    BY <1>1 DEF MatchInv, Accepted
  <2>2. /\ model.kind \in {"sequence", "choice", "all", "empty"}
        /\ DOMAIN kids = 1..Len(kids) /\ Len(kids) \in Nat /\ kids \in Seq(Child)
    BY <2>1, ModelFacts, InputFacts DEF Kept
  <2>3. pos = Len(kids)
    <3>1. model.kind = "empty" => Len(kids) = 0 /\ pos \in 0..Len(kids)
      BY <1>1, <2>1 DEF MatchInv, Kept
    <3>2. model.kind # "empty" => pos = Len(kids)
      BY <1>1, <2>1, <2>2 DEF MatchInv, SequenceFollowed, ChoiceRepeated, AllPlaced
    <3> QED BY <3>1, <3>2
  <2>4. validated = 1..Len(kids) /\ \A i \in 1..Len(kids) : kids[i].valid
    BY <2>1, <2>2, <2>3 DEF Kept
  <2>5. ASSUME EnforcedOccurs, AllOutermost PROVE Admitted
    <3>1. CASE model.kind = "empty"
      BY <1>1, <2>1, <3>1 DEF MatchInv, Admitted
    <3>2. CASE model.kind = "all"
      BY <1>1, <2>5, <3>2, AllSound DEF Admitted
    <3>3. CASE model.kind = "sequence"
      BY <1>1, <2>5, <3>3, SequenceSound DEF Admitted
    <3>4. CASE model.kind = "choice"
      BY <1>1, <2>5, <3>4, ChoiceSound DEF Admitted
    <3> QED BY <2>2, <3>1, <3>2, <3>3, <3>4
  <2> QED BY <2>4, <2>5
<1>2. MatchInv => Sound
  BY <1>1 DEF Sound
<1> QED BY <1>2, MatchInvariant, PTL

-----------------------------------------------------------------------------
(* Where no choice is open.  What a model is made of is a tree: no two     *)
(* items of a group have a particle in common, so a child is caught by one *)
(* of them at most.                                                        *)

Items(k) == IF IsGroup(k) THEN {particles[k].items[n] : n \in DOMAIN particles[k].items} ELSE {}
HasItems(S) == \A k \in S : Items(k) \subseteq S

\* A particle with its items, theirs and so on.
Under(k) == {m \in DOMAIN particles : \A S \in SUBSET DOMAIN particles : k \in S /\ HasItems(S) => m \in S}

\* The items of a group are particles before it.
LEMMA ItemsFacts ==
  ASSUME input \in Inputs, NEW k \in DOMAIN particles
  PROVE  /\ k \in Nat \ {0}
         /\ \A m \in Items(k) : m \in DOMAIN particles /\ m \in Nat /\ m < k /\ m # Len(particles)
         /\ IsGroup(k) => /\ Len(particles[k].items) \in Nat
                          /\ DOMAIN particles[k].items = 1..Len(particles[k].items)
                          /\ \A n \in 1..Len(particles[k].items) : particles[k].items[n] \in Items(k)
<1>1. k \in 1..Len(particles) /\ Len(particles) \in Nat
  BY InputFacts
<1>2. CASE IsGroup(k)
  <2>1. particles[k].kind \notin {"element", "any"}
    BY <1>2 DEF IsGroup
  <2>2. /\ Len(particles[k].items) \in Nat
        /\ DOMAIN particles[k].items = 1..Len(particles[k].items)
        /\ \A n \in DOMAIN particles[k].items : /\ particles[k].items[n] \in 1..(k - 1)
                                                /\ particles[k].items[n] \in DOMAIN particles
                                                /\ particles[k].items[n] # Len(particles)
    BY <2>1, ParticleFacts
  <2>3. \A m \in Items(k) : m \in 1..(k - 1) /\ m \in DOMAIN particles /\ m # Len(particles)
    BY <1>2, <2>2 DEF Items
  <2>4. \A m \in 1..(k - 1) : m \in Nat /\ m < k
    BY <1>1
  <2>5. \A n \in 1..Len(particles[k].items) : particles[k].items[n] \in Items(k)
    BY <1>2, <2>2 DEF Items
  <2> QED BY <1>1, <2>2, <2>3, <2>4, <2>5
<1>3. CASE ~IsGroup(k)
  BY <1>1, <1>3 DEF Items
<1> QED BY <1>2, <1>3

\* What is under a particle: itself, what is under its items, and nothing after it;
\* each but itself is an item of another.
LEMMA UnderFacts ==
  ASSUME input \in Inputs, NEW k \in DOMAIN particles
  PROVE  /\ Under(k) \in SUBSET DOMAIN particles /\ k \in Under(k) /\ HasItems(Under(k))
         /\ \A m \in Items(k) : Under(m) \subseteq Under(k)
         /\ \A m \in Under(k) : m <= k /\ (m # k => \E y \in Under(k) : m \in Items(y))
<1>1. Under(k) \in SUBSET DOMAIN particles /\ k \in Under(k)
  BY DEF Under
<1>2. ASSUME NEW m \in Under(k), NEW x \in Items(m) PROVE x \in Under(k)
  <2>1. x \in DOMAIN particles /\ m \in DOMAIN particles
    BY <1>1, <1>2, ItemsFacts
  <2>2. ASSUME NEW S \in SUBSET DOMAIN particles, k \in S, HasItems(S) PROVE x \in S
    BY <1>2, <2>2 DEF Under, HasItems
  <2> QED BY <2>1, <2>2 DEF Under
<1>3. HasItems(Under(k))
  BY <1>2 DEF HasItems
<1>4. ASSUME NEW m \in Items(k) PROVE Under(m) \subseteq Under(k)
  <2>1. m \in Under(k)
    BY <1>1, <1>2, <1>4
  <2> QED BY <1>1, <1>3, <2>1 DEF Under
<1> DEFINE S == {m \in Under(k) : m <= k}
           T == {m \in Under(k) : m # k => \E y \in Under(k) : m \in Items(y)}
<1>5. Under(k) \subseteq S
  <2>1. k \in S /\ S \in SUBSET DOMAIN particles
    BY <1>1, ItemsFacts
  <2>2. HasItems(S)
    <3>1. ASSUME NEW m \in S, NEW x \in Items(m) PROVE x \in S
      <4>1. m \in DOMAIN particles /\ x \in Under(k) /\ k \in Nat /\ m <= k
        BY <1>1, <1>2, <3>1, ItemsFacts
      <4>2. x \in Nat /\ m \in Nat /\ x < m
        BY <3>1, <4>1, ItemsFacts
      <4> QED BY <4>1, <4>2
    <3> QED BY <3>1 DEF HasItems
  <2> QED BY <2>1, <2>2 DEF Under
<1>6. Under(k) \subseteq T
  <2>1. k \in T /\ T \in SUBSET DOMAIN particles
    BY <1>1
  <2>2. HasItems(T)
    BY <1>2 DEF HasItems
  <2> HIDE DEF T
  <2> QED BY <2>1, <2>2 DEF Under
<1> QED BY <1>1, <1>3, <1>4, <1>5, <1>6

\* A particle is an item of one group only, and once.
LEMMA OneParent ==
  ASSUME input \in Inputs, Distinct, NEW k \in DOMAIN particles, NEW y \in DOMAIN particles,
         NEW m \in Items(k), m \in Items(y)
  PROVE  k = y
<1>1. IsGroup(k) /\ IsGroup(y)
  BY DEF Items
<1>2. PICK n \in DOMAIN particles[k].items, j \in DOMAIN particles[y].items :
         m = particles[k].items[n] /\ m = particles[y].items[j]
  BY <1>1 DEF Items
<1>3. <<k, n>> \in Uses /\ <<y, j>> \in Uses
  <2>1. k \in DOMAIN particles \ Leaves /\ y \in DOMAIN particles \ Leaves
    BY <1>1 DEF Leaves
  <2> QED BY <1>2, <2>1 DEF Uses
<1>4. Used(<<k, n>>) = m /\ Used(<<y, j>>) = m
  BY <1>2 DEF Used
<1> QED BY <1>3, <1>4 DEF Distinct

\* Where every particle is an item once, two items of a group have nothing under both.
LEMMA Siblings ==
  ASSUME input \in Inputs, Distinct, NEW k \in DOMAIN particles, IsGroup(k),
         NEW n \in DOMAIN particles[k].items, NEW j \in DOMAIN particles[k].items, n # j
  PROVE  Under(particles[k].items[n]) \cap Under(particles[k].items[j]) = {}
<1> DEFINE a == particles[k].items[n]
           b == particles[k].items[j]
           X == Under(a) \cap Under(b)
<1>1. /\ a \in Items(k) /\ b \in Items(k) /\ a \in DOMAIN particles /\ b \in DOMAIN particles
      /\ a \in Nat /\ b \in Nat /\ k \in Nat /\ a < k /\ b < k
  <2>1. a \in Items(k) /\ b \in Items(k)
    BY DEF Items
  <2> QED BY <2>1, ItemsFacts
<1>2. a # b
  <2>1. <<k, n>> \in Uses /\ <<k, j>> \in Uses /\ <<k, n>> # <<k, j>>
    BY DEF Leaves, Uses
  <2> QED BY <2>1 DEF Distinct, Used
<1> HIDE DEF a, b
<1>3. /\ Under(a) \in SUBSET DOMAIN particles /\ Under(b) \in SUBSET DOMAIN particles
      /\ \A m \in Under(a) : m <= a /\ (m # a => \E y \in Under(a) : m \in Items(y))
      /\ \A m \in Under(b) : m <= b /\ (m # b => \E y \in Under(b) : m \in Items(y))
  BY <1>1, UnderFacts
<1>4. \A m \in Items(k), y \in DOMAIN particles : m \in Items(y) => k = y
  BY OneParent
<1>5. a \notin Under(b) /\ b \notin Under(a)
  <2>1. k \notin Under(a) /\ k \notin Under(b)
    BY <1>1, <1>3
  <2> QED BY <1>1, <1>2, <1>3, <1>4, <2>1
<1> SUFFICES ASSUME X # {} PROVE FALSE
  BY DEF a, b
<1>6. X \in SUBSET (0..a) /\ X # {}
  <2>1. \A x \in X : x \in Nat /\ x <= a
    BY <1>3, ItemsFacts
  <2> QED BY <1>1, <2>1
<1>7. PICK x \in X : \A y \in X : y <= x
  <2> HIDE DEF X
  <2> QED BY <1>1, <1>6, MaxOfBounded
<1>8. x \in Under(a) /\ x \in Under(b) /\ x # a /\ x # b
  BY <1>5, <1>7
<1>9. PICK y \in Under(a), z \in Under(b) : x \in Items(y) /\ x \in Items(z)
  BY <1>3, <1>8
<1>10. y = z /\ y \in DOMAIN particles /\ x \in DOMAIN particles
  <2>1. y \in DOMAIN particles /\ z \in DOMAIN particles /\ x \in DOMAIN particles
    BY <1>3, <1>8, <1>9
  <2> QED BY <1>9, <2>1, OneParent
<1>11. x < y /\ x \in Nat /\ y \in Nat
  BY <1>9, <1>10, ItemsFacts
<1> QED BY <1>7, <1>9, <1>10, <1>11

\* A leaf that takes child i, and a particle with such a leaf.
Catches(p, i) == IF p.kind = "any" THEN Admits(p, i) ELSE Fits(i, p)
Caught(k, i) == i \in DOMAIN kids /\ \E m \in Under(k) : ~IsGroup(m) /\ Catches(particles[m], i)

\* No two leaves catch the same child.
LEMMA OneCatches ==
  ASSUME input \in Inputs, Distinct, NEW i \in DOMAIN kids, NEW j \in Leaves, NEW k \in Leaves,
         Catches(particles[j], i), Catches(particles[k], i)
  PROVE  j = k
<1>1. Name(i) \in QName /\ Name(i)[1] = kids[i].ns /\ Name(i)[2] = kids[i].local
  <2>1. kids[i] \in Child
    BY InputFacts
  <2> QED BY <2>1 DEF Child, Name, QName
<1>2. \A p : Catches(p, i) => Takes(p, Name(i))
  BY <1>1 DEF Catches, Takes, Admits, Fits, IsNamed, Stands
<1> QED BY <1>1, <1>2 DEF Distinct

\* So two items of a group catch no child both.
LEMMA CaughtApart ==
  ASSUME input \in Inputs, Distinct, NEW k \in DOMAIN particles, IsGroup(k),
         NEW n \in DOMAIN particles[k].items, NEW j \in DOMAIN particles[k].items, n # j, NEW i,
         Caught(particles[k].items[n], i)
  PROVE  ~Caught(particles[k].items[j], i)
<1> DEFINE a == particles[k].items[n]
           b == particles[k].items[j]
<1>1. Under(a) \cap Under(b) = {} /\ Under(a) \subseteq DOMAIN particles /\ Under(b) \subseteq DOMAIN particles
  <2>1. Under(a) \cap Under(b) = {}
    BY Siblings
  <2> QED BY <2>1 DEF Under
<1> HIDE DEF a, b
<1> SUFFICES ASSUME Caught(a, i), Caught(b, i) PROVE FALSE
  BY DEF a, b
<1>2. PICK x \in Under(a), y \in Under(b) : /\ ~IsGroup(x) /\ Catches(particles[x], i)
                                           /\ ~IsGroup(y) /\ Catches(particles[y], i)
  BY DEF Caught
<1>3. x \in Leaves /\ y \in Leaves /\ i \in DOMAIN kids
  BY <1>1, <1>2 DEF Leaves, Caught
<1>4. x = y
  BY <1>2, <1>3, OneCatches
<1> QED BY <1>1, <1>2, <1>4

\* A group catches what an item of it catches.
LEMMA CaughtByGroup ==
  ASSUME input \in Inputs, NEW k \in DOMAIN particles, NEW m \in Items(k), NEW i, Caught(m, i)
  PROVE  Caught(k, i)
<1>1. Under(m) \subseteq Under(k)
  BY UnderFacts
<1> QED BY <1>1 DEF Caught

-----------------------------------------------------------------------------
(* The two recursive conditions on models, and the ways through a model.   *)

\* A truth value for every particle, made of those of its items.
MadeOfItems(F) ==
  /\ F \in [[1..Len(particles) -> BOOLEAN] \X (1..Len(particles)) -> BOOLEAN]
  /\ \A f, g \in [1..Len(particles) -> BOOLEAN] : \A k \in 1..Len(particles) :
       (\A m \in Items(k) : f[m] = g[m]) => F[<<f, k>>] = F[<<g, k>>]

\* There is a function with the truth values that F makes of those of the items.
LEMMA OfItemsExists ==
  ASSUME input \in Inputs, NEW F, MadeOfItems(F)
  PROVE  \E f \in [1..Len(particles) -> BOOLEAN] : \A k \in 1..Len(particles) : f[k] = F[<<f, k>>]
<1> DEFINE N == Len(particles)
<1>0. BOOLEAN # {}
  <2>1. TRUE \in BOOLEAN
    OBVIOUS
  <2> QED BY <2>1
<1>1. N \in Nat /\ DOMAIN particles = 1..N /\ 1 <= N + 1
  BY InputFacts
<1>a. /\ F \in [[1..N -> BOOLEAN] \X (1..N) -> BOOLEAN]
      /\ \A f, g \in [1..N -> BOOLEAN] : \A k \in 1..N :
           (\A m \in Items(k) : f[m] = g[m]) => F[<<f, k>>] = F[<<g, k>>]
  BY DEF MadeOfItems
<1>2. \A f, g \in [1..N -> BOOLEAN] : \A k \in 1..N :
        (\A j \in 1..(k - 1) : f[j] = g[j]) => F[<<f, k>>] = F[<<g, k>>]
  <2> TAKE f, g \in [1..N -> BOOLEAN]
  <2> TAKE k \in 1..N
  <2> HAVE \A j \in 1..(k - 1) : f[j] = g[j]
  <2>1. \A m \in Items(k) : m \in 1..(k - 1)
    <3>1. \A m \in Items(k) : m \in DOMAIN particles /\ m \in Nat /\ m < k /\ k \in Nat
      BY <1>1, ItemsFacts
    <3> QED BY <1>1, <3>1
  <2>2. \A m \in Items(k) : f[m] = g[m]
    BY <2>1
  <2> HIDE DEF N
  <2> QED BY <1>a, <2>2, Zenon
<1>3. MadeOfEarlier(F, 1, N, BOOLEAN)
  <2> HIDE DEF N
  <2> QED BY <1>a, <1>2, Zenon DEF MadeOfEarlier
<1> HIDE DEF N
<1>4. MadeBy(F, 1, N, BOOLEAN) # {}
  BY <1>0, <1>1, <1>3, RecursiveFunction
<1> QED BY <1>4 DEF MadeBy, N

\* One repetition of a particle that can be empty, when f says it of its items.
EmptyOnce(f, k) ==
  LET Empty(n) == particles[particles[k].items[n]].min <= 0 \/ f[particles[k].items[n]]
  IN  CASE particles[k].kind = "sequence" -> \A n \in DOMAIN particles[k].items : Empty(n)
        [] particles[k].kind = "choice" -> \E n \in DOMAIN particles[k].items : Empty(n)
        [] OTHER -> FALSE

\* Emptiable has its defining equation at every particle.
LEMMA EmptiableUnfolds ==
  ASSUME input \in Inputs
  PROVE  \A k \in DOMAIN particles : Emptiable[k] <=> EmptyOnce(Emptiable, k)
<1> DEFINE D == 1..Len(particles)
           F == [fk \in [D -> BOOLEAN] \X D |-> EmptyOnce(fk[1], fk[2])]
<1>0. DOMAIN particles = D
  BY InputFacts
<1>1. \A f, k : EmptyOnce(f, k) \in BOOLEAN
  BY DEF EmptyOnce
<1>2. ASSUME NEW f, NEW g, NEW k \in D, \A m \in Items(k) : f[m] = g[m]
      PROVE  EmptyOnce(f, k) = EmptyOnce(g, k)
  <2>1. CASE particles[k].kind \in {"sequence", "choice"}
    <3>1. \A n \in DOMAIN particles[k].items : f[particles[k].items[n]] = g[particles[k].items[n]]
      BY <1>2, <2>1 DEF Items, IsGroup
    <3> QED BY <2>1, <3>1 DEF EmptyOnce
  <2>2. CASE particles[k].kind \notin {"sequence", "choice"}
    BY <2>2 DEF EmptyOnce
  <2> QED BY <2>1, <2>2
<1>3. \A f \in [D -> BOOLEAN], k \in D : F[<<f, k>>] = EmptyOnce(f, k)
  OBVIOUS
<1>4. MadeOfItems(F)
  <2>1. F \in [[D -> BOOLEAN] \X D -> BOOLEAN]
    BY <1>1
  <2> HIDE DEF F
  <2>2. ASSUME NEW f \in [D -> BOOLEAN], NEW g \in [D -> BOOLEAN], NEW k \in D,
               \A m \in Items(k) : f[m] = g[m]
        PROVE  F[<<f, k>>] = F[<<g, k>>]
    <3>1. EmptyOnce(f, k) = EmptyOnce(g, k)
      BY <1>2, <2>2
    <3>2. F[<<f, k>>] = EmptyOnce(f, k) /\ F[<<g, k>>] = EmptyOnce(g, k)
      BY <1>3
    <3> QED BY <3>1, <3>2
  <2> QED BY <2>1, <2>2 DEF MadeOfItems
<1>5. PICK f \in [D -> BOOLEAN] : \A k \in D : f[k] = F[<<f, k>>]
  <2> HIDE DEF F
  <2> QED BY <1>4, OfItemsExists
<1>6. f = [k \in D |-> EmptyOnce(f, k)]
  <2> HIDE DEF F
  <2> QED BY <1>3, <1>5
<1>7. Emptiable = CHOOSE e : e = [k \in DOMAIN particles |-> EmptyOnce(e, k)]
  BY Zenon DEF Emptiable, EmptyOnce
<1>8. Emptiable = [k \in D |-> EmptyOnce(Emptiable, k)]
  <2> HIDE DEF D
  <2> QED BY <1>0, <1>6, <1>7
<1> HIDE DEF D
<1> QED BY <1>0, <1>8

\* A particle that occurs once, as its items do.
OccursOnce(f, k) ==
  /\ particles[k].max = 1
  /\ IsGroup(k) => \A n \in DOMAIN particles[k].items : f[particles[k].items[n]]

\* NoRepeats has its defining equation at every particle.
LEMMA NoRepeatsUnfolds ==
  ASSUME input \in Inputs
  PROVE  \A k \in DOMAIN particles : NoRepeats[k] <=> OccursOnce(NoRepeats, k)
<1> DEFINE D == 1..Len(particles)
           F == [fk \in [D -> BOOLEAN] \X D |-> OccursOnce(fk[1], fk[2])]
<1>0. DOMAIN particles = D
  BY InputFacts
<1>1. \A f, k : OccursOnce(f, k) \in BOOLEAN
  BY DEF OccursOnce
<1>2. ASSUME NEW f, NEW g, NEW k \in D, \A m \in Items(k) : f[m] = g[m]
      PROVE  OccursOnce(f, k) = OccursOnce(g, k)
  BY <1>2 DEF OccursOnce, Items
<1>3. \A f \in [D -> BOOLEAN], k \in D : F[<<f, k>>] = OccursOnce(f, k)
  OBVIOUS
<1>4. MadeOfItems(F)
  <2>1. F \in [[D -> BOOLEAN] \X D -> BOOLEAN]
    BY <1>1
  <2> HIDE DEF F
  <2>2. ASSUME NEW f \in [D -> BOOLEAN], NEW g \in [D -> BOOLEAN], NEW k \in D,
               \A m \in Items(k) : f[m] = g[m]
        PROVE  F[<<f, k>>] = F[<<g, k>>]
    <3>1. OccursOnce(f, k) = OccursOnce(g, k)
      BY <1>2, <2>2
    <3>2. F[<<f, k>>] = OccursOnce(f, k) /\ F[<<g, k>>] = OccursOnce(g, k)
      BY <1>3
    <3> QED BY <3>1, <3>2
  <2> QED BY <2>1, <2>2 DEF MadeOfItems
<1>5. PICK f \in [D -> BOOLEAN] : \A k \in D : f[k] = F[<<f, k>>]
  <2> HIDE DEF F
  <2> QED BY <1>4, OfItemsExists
<1>6. f = [k \in D |-> OccursOnce(f, k)]
  <2> HIDE DEF F
  <2> QED BY <1>3, <1>5
<1>7. NoRepeats = CHOOSE e : e = [k \in DOMAIN particles |-> OccursOnce(e, k)]
  BY Zenon DEF NoRepeats, OccursOnce
<1>8. NoRepeats = [k \in D |-> OccursOnce(NoRepeats, k)]
  <2> HIDE DEF D
  <2> QED BY <1>0, <1>6, <1>7
<1> HIDE DEF D
<1> QED BY <1>0, <1>8

\* A way of n steps, each from where the one before ended: the m-th leads to
\* one of e[m].
Way(c, e, n) == \A m \in 1..n : c[m - 1] \in Positions /\ c[m] \in Positions /\ c[m] \in e[m][c[m - 1]]

\* What sets hold that are made one of the other, there is a way to.
Reaching(U, e, i, N) ==
  /\ U[0] = {i}
  /\ \A n \in 1..N : U[n] = UNION {e[n][j] : j \in U[n - 1]}
  /\ \A n \in 0..N : U[n] \in SUBSET Positions

\* What is reached after N steps is the end of a way of N steps.
LEMMA WayTo ==
  ASSUME NEW N \in Nat, NEW i \in Positions, NEW e, NEW U, Reaching(U, e, i, N)
  PROVE  \A x \in U[N] : \E c : c[0] = i /\ c[N] = x /\ Way(c, e, N)
<1> DEFINE T == {n \in 0..N : \A x \in U[n] : \E c : c[0] = i /\ c[n] = x /\ Way(c, e, n)}
<1>1. ASSUME NEW n \in 0..N, \A j \in 0..(n - 1) : j \in T PROVE n \in T
  <2> SUFFICES ASSUME NEW x \in U[n] PROVE \E c : c[0] = i /\ c[n] = x /\ Way(c, e, n)
    OBVIOUS
  <2>1. CASE n = 0
    <3> DEFINE c == [m \in {0} |-> i]
    <3>1. c[0] = i /\ c[0] = x
      BY <2>1 DEF Reaching
    <3>2. Way(c, e, 0)
      BY DEF Way
    <3> QED BY <2>1, <3>1, <3>2
  <2>2. CASE n # 0
    <3>1. n \in 1..N /\ n - 1 \in 0..(n - 1) /\ n - 1 \in 0..N
      BY <2>2
    <3>2. PICK j \in U[n - 1] : x \in e[n][j]
      BY <3>1 DEF Reaching
    <3>3. PICK b : b[0] = i /\ b[n - 1] = j /\ Way(b, e, n - 1)
      BY <1>1, <3>1, <3>2
    <3>4. j \in Positions /\ x \in Positions
      BY <3>1, <3>2 DEF Reaching
    <3> DEFINE c == [m \in 0..n |-> IF m = n THEN x ELSE b[m]]
    <3>5. /\ c[0] = i /\ c[n] = x /\ c[n - 1] = j
          /\ \A m \in 1..(n - 1) : c[m] = b[m] /\ c[m - 1] = b[m - 1]
      BY <2>2, <3>1, <3>3
    <3> HIDE DEF c
    <3>6. Way(c, e, n)
      <4> SUFFICES ASSUME NEW m \in 1..n
                   PROVE  c[m - 1] \in Positions /\ c[m] \in Positions /\ c[m] \in e[m][c[m - 1]]
        BY DEF Way
      <4>1. CASE m = n
        BY <3>2, <3>4, <3>5, <4>1
      <4>2. CASE m # n
        <5>1. m \in 1..(n - 1)
          BY <3>1, <4>2
        <5> QED BY <3>3, <3>5, <5>1 DEF Way
      <4> QED BY <4>1, <4>2
    <3> QED BY <3>5, <3>6
  <2> QED BY <2>1, <2>2
<1>2. \A n \in 0..N : n \in T
  <2> HIDE DEF T
  <2>1. 0 \in Nat /\ N \in Int
    OBVIOUS
  <2> QED BY <1>1, <2>1, FromTheFirst
<1>3. N \in 0..N
  OBVIOUS
<1> QED BY <1>2, <1>3

\* The way through the items of a sequence, and through repetitions.
ItemEnds(items) == [m \in DOMAIN items |-> Ends[items[m]]]
\* Where a sequence of items may end, a way through them ends.
LEMMA ChainedWay ==
  ASSUME NEW items, Len(items) \in Nat, DOMAIN items = 1..Len(items),
         \A n \in 1..Len(items) : Ends[items[n]] \in Landings, NEW i \in Positions,
         NEW x \in Chained(Ends, items, i)[Len(items)]
  PROVE  \E c : c[0] = i /\ c[Len(items)] = x /\ Way(c, ItemEnds(items), Len(items))
<1> DEFINE N == Len(items)
           U == Chained(Ends, items, i)
           e == ItemEnds(items)
<1>1. \A n \in 0..N : /\ U[n] \in SUBSET Positions
                      /\ U[n] = IF n = 0 THEN {i} ELSE UNION {Ends[items[n]][j] : j \in U[n - 1]}
  BY ChainedUnfolds
<1>2. \A n \in 1..N : e[n] = Ends[items[n]]
  BY DEF ItemEnds
<1> HIDE DEF U, e, N
<1>3. N \in Nat /\ 0 \in 0..N /\ \A n \in 1..N : n \in 0..N /\ n # 0
  BY DEF N
<1>4. ASSUME NEW n \in 1..N PROVE U[n] = UNION {e[n][j] : j \in U[n - 1]}
  <2>1. U[n] = UNION {Ends[items[n]][j] : j \in U[n - 1]} /\ e[n] = Ends[items[n]]
    BY <1>1, <1>2, <1>3
  <2> QED BY <2>1
<1>a. U[0] = {i} /\ \A n \in 0..N : U[n] \in SUBSET Positions
  BY <1>1, <1>3
<1>b. Reaching(U, e, i, N)
  BY <1>a, <1>4 DEF Reaching
<1>5. \A y \in U[N] : \E c : c[0] = i /\ c[N] = y /\ Way(c, e, N)
  BY <1>3, <1>b, WayTo
<1> QED BY <1>5 DEF U, e, N

\* Where N repetitions may end, a way of N repetitions ends.
LEMMA TimesWay ==
  ASSUME NEW once \in Landings, NEW i \in Positions, NEW N \in Nat, NEW x \in Times(once, i, N)
  PROVE  \E c : c[0] = i /\ c[N] = x /\ Way(c, [m \in 1..N |-> once], N)
<1> DEFINE U == TimesUpto(once, i, N)
           e == [m \in 1..N |-> once]
<1>1. \A n \in 0..N : /\ U[n] \in SUBSET Positions
                      /\ U[n] = IF n = 0 THEN {i} ELSE UNION {once[j] : j \in U[n - 1]}
  BY TimesUptoUnfolds
<1>2. x \in U[N]
  BY TimesIsLast
<1>3. \A n \in 1..N : e[n] = once
  OBVIOUS
<1> HIDE DEF U, e
<1>4. 0 \in 0..N /\ \A n \in 1..N : n \in 0..N /\ n # 0
  OBVIOUS
<1>5. ASSUME NEW n \in 1..N PROVE U[n] = UNION {e[n][j] : j \in U[n - 1]}
  <2>1. U[n] = UNION {once[j] : j \in U[n - 1]} /\ e[n] = once
    BY <1>1, <1>3, <1>4
  <2> QED BY <2>1
<1>a. U[0] = {i} /\ \A n \in 0..N : U[n] \in SUBSET Positions
  BY <1>1, <1>4
<1>b. Reaching(U, e, i, N)
  BY <1>a, <1>5 DEF Reaching
<1>6. \A y \in U[N] : \E c : c[0] = i /\ c[N] = y /\ Way(c, e, N)
  BY <1>b, WayTo
<1> QED BY <1>2, <1>6 DEF e

\* A way whose steps never go back.
LEMMA WayForward ==
  ASSUME NEW N \in Nat, NEW c, \A m \in 1..N : c[m - 1] \in Nat /\ c[m] \in Nat /\ c[m - 1] <= c[m],
         c[0] \in Nat
  PROVE  \A n \in 0..N : \A m \in 0..n : c[m] \in Nat /\ c[m] <= c[n]
<1> DEFINE T == {n \in 0..N : \A m \in 0..n : c[m] \in Nat /\ c[m] <= c[n]}
<1>1. ASSUME NEW n \in 0..N, \A j \in 0..(n - 1) : j \in T PROVE n \in T
  <2>1. CASE n = 0
    BY <2>1
  <2>2. CASE n # 0
    <3>1. n \in 1..N /\ n - 1 \in 0..(n - 1) /\ n - 1 \in T
      BY <1>1, <2>2
    <3>2. c[n - 1] \in Nat /\ c[n] \in Nat /\ c[n - 1] <= c[n]
      BY <3>1
    <3>3. \A m \in 0..n : m = n \/ m \in 0..(n - 1)
      BY <3>1
    <3> QED BY <3>1, <3>2, <3>3
  <2> QED BY <2>1, <2>2
<1>2. \A n \in 0..N : n \in T
  <2> HIDE DEF T
  <2>1. 0 \in Nat /\ N \in Int
    OBVIOUS
  <2> QED BY <1>1, <2>1, FromTheFirst
<1> QED BY <1>2

-----------------------------------------------------------------------------
(* What a particle matches is determined by where it may end and what      *)
(* comes after it.                                                         *)

AllUsable == \A i \in DOMAIN kids : Usable(i)
Exact(r, n) == r.used = n /\ ~r.err /\ ~r.errors

\* Particle k may take a child at j.
Continues(k, j) == \E y \in Ends[k][j] : y > j

\* Particle k matches nothing at a child it does not catch; where it may end,
\* it does end if it does not catch the next child, or if nothing in it is
\* repeated and it may begin again there.
Determined(k) ==
  \A i \in Positions :
    /\ ~Caught(k, i) => /\ Match[k][i].used = 0 /\ ~Match[k][i].errors
                        /\ Match[k][i].err <=> 0 < particles[k].min
    /\ \A j \in Ends[k][i] :
         /\ i <= j
         /\ IF i < j THEN Caught(k, i) ELSE particles[k].min <= 0
         /\ ~Caught(k, j) => Exact(Match[k][i], j - i)
         /\ i < j /\ NoRepeats[k] /\ Continues(k, j) => Exact(Match[k][i], j - i)

\* The counts a particle admits are between its minimum and its maximum.
LEMMA CountsBounds ==
  ASSUME input \in Inputs, NEW p, p.min \in Int, p.max \in Int, NEW n \in Counts(p)
  PROVE  n \in Nat /\ n >= p.min /\ (p.max >= 0 => n <= p.max)
<1>1. n \in Nat
  BY CountsType
<1>2. n >= p.min /\ (p.max >= 0 => n \in 0..p.max)
  <2>1. ~(p.max < 0) <=> p.max >= 0
    OBVIOUS
  <2> QED BY <2>1 DEF Counts
<1> QED BY <1>1, <1>2

\* A run ends at a child that is not in the set, unless at the limit.
LEMMA RunEnds ==
  ASSUME input \in Inputs, NEW i \in Positions, NEW max \in Int, NEW S,
         Run(i, Limit(max, i), S) < Limit(max, i), Run(i, Limit(max, i), S) < Rest(i)
  PROVE  i + Run(i, Limit(max, i), S) \notin S
<1> DEFINE limit == Limit(max, i)
           n == Run(i, limit, S)
           runs == {m \in 0..Rest(i) : m <= limit /\ i..(i + m - 1) \subseteq S}
<1>1. i \in Nat /\ Rest(i) \in Nat /\ n \in 0..Rest(i) /\ \A j \in i..(i + n - 1) : j \in S
  BY RestFacts, RunFacts
<1>2. limit \in Int
  BY <1>1 DEF Limit
<1>3. n = Max(runs)
  BY DEF Run
<1> HIDE DEF limit, n
<1> SUFFICES ASSUME i + n \in S PROVE FALSE
  BY DEF n, limit
<1>4. n < limit /\ n < Rest(i)
  BY DEF n, limit
<1>5. n + 1 \in runs
  <2>1. n + 1 \in 0..Rest(i) /\ n + 1 <= limit
    BY <1>1, <1>2, <1>4
  <2>2. \A j \in i..(i + (n + 1) - 1) : j \in i..(i + n - 1) \/ j = i + n
    BY <1>1
  <2>3. i..(i + (n + 1) - 1) \subseteq S
    BY <1>1, <2>2
  <2> QED BY <2>1, <2>3
<1>6. runs \in SUBSET (0..Rest(i))
  OBVIOUS
<1> HIDE DEF runs
<1>7. n + 1 <= Max(runs)
  BY <1>1, <1>5, <1>6, MaxOfBounded
<1> QED BY <1>1, <1>3, <1>7

\* An element or a wildcard takes the children it catches, up to its limit.
LEMMA LeafMatched ==
  ASSUME input \in Inputs, AllUsable, NEW k \in DOMAIN particles, particles[k].kind \in {"element", "any"},
         NEW i \in Positions
  PROVE  LET p == particles[k]
             r == Match[k][i]
         IN  /\ r.used \in 0..Rest(i) /\ r.used <= Limit(p.max, i)
             /\ \A j \in i..(i + r.used - 1) : Catches(p, j)
             /\ r.used < Limit(p.max, i) /\ r.used < Rest(i) => ~Catches(p, i + r.used)
             /\ ~r.errors /\ (r.err <=> r.used < p.min)
<1> DEFINE p == particles[k]
           limit == Limit(p.max, i)
           S == IF p.kind = "any" THEN {j \in DOMAIN kids : Admits(p, j)}
                ELSE {j \in DOMAIN kids : Fits(j, p) /\ ~IsAbstract(j, p)}
           n == Run(i, limit, S)
           r == Match[k][i]
<1>1. p.min \in Int /\ p.max \in Int
  BY ParticleFacts
<1>2. Rest(i) \in Nat /\ i \in Nat /\ \A u \in Nat : u < Rest(i) => i + u \in DOMAIN kids
  BY RestFacts, InputFacts
<1>3. limit \in Nat /\ n \in 0..Rest(i) /\ \A j \in i..(i + n - 1) : j \in S
  <2>1. limit \in Int /\ (p.max >= 0 => limit = p.max) /\ (p.max < 0 => limit = Rest(i) + 1)
    BY <1>1, <1>2 DEF Limit
  <2> HIDE DEF S
  <2>2. n \in 0..Rest(i) /\ \A j \in i..(i + n - 1) : j \in S
    BY <1>1, RunFacts
  <2> HIDE DEF limit, n
  <2> QED BY <1>1, <1>2, <2>1, <2>2
<1>4. \A j \in DOMAIN kids : j \in S <=> Catches(p, j)
  <2>1. \A j \in DOMAIN kids : Fits(j, p) => ~IsAbstract(j, p)
    <3> SUFFICES ASSUME NEW j \in DOMAIN kids, Fits(j, p) PROVE ~IsAbstract(j, p)
      OBVIOUS
    <3>1. \A q \in AbstractNames : q[2] # kids[j].local
      BY DEF AllUsable, Usable
    <3>2. Name(j)[2] = kids[j].local
      BY DEF Name
    <3> QED BY <3>1, <3>2 DEF IsAbstract, IsNamed
  <2> QED BY <2>1 DEF Catches
<1>5. n <= limit
  <2> HIDE DEF S
  <2>1. n \in {m \in 0..Rest(i) : m <= limit /\ i..(i + m - 1) \subseteq S}
    <3> DEFINE runs == {m \in 0..Rest(i) : m <= limit /\ i..(i + m - 1) \subseteq S}
    <3>1. 0 \in runs
      <4>1. i..(i + 0 - 1) = {}
        BY <1>2
      <4> HIDE DEF limit
      <4> QED BY <1>2, <1>3, <4>1
    <3>2. runs \in SUBSET (0..Rest(i)) /\ runs # {} /\ n = Max(runs)
      BY <3>1 DEF Run
    <3> HIDE DEF runs
    <3>3. Max(runs) \in runs
      BY <1>2, <3>2, MaxOfBounded
    <3> QED BY <3>2, <3>3 DEF runs
  <2> QED BY <2>1
<1>6. n < limit /\ n < Rest(i) => i + n \notin S
  <2> HIDE DEF S
  <2> QED BY <1>1, RunEnds
<1>7. \A j \in i..(i + n - 1) : j \in DOMAIN kids /\ Catches(p, j)
  BY <1>3, <1>4
<1>8. n < limit /\ n < Rest(i) => ~Catches(p, i + n)
  BY <1>2, <1>3, <1>4, <1>6
<1>9. r = Matched(Match, p, i)
  BY MatchUnfolds
<1>10. r.used = n /\ ~r.errors /\ (r.err <=> n < p.min)
  <2>1. \A j \in DOMAIN kids : Declared(j) /\ kids[j].valid
    BY DEF AllUsable, Usable
  <2>2. CASE p.kind = "element"
    <3> DEFINE T == {j \in DOMAIN kids : Fits(j, p) /\ ~IsAbstract(j, p)}
               errors == \E j \in i..(i + n - 1) : ~kids[j].valid
    <3>1. r = MatchElement(p, i) /\ S = T
      BY <1>9, <2>2 DEF Matched
    <3>2. ~(n < limit /\ n < Rest(i) /\ Fits(i + n, p))
      BY <1>8, <2>2 DEF Catches
    <3>3. MatchElement(p, i) = IF n < limit /\ n < Rest(i) /\ Fits(i + n, p)
                                 THEN Result(n + 1, FALSE, TRUE, i..(i + n - 1))
                                 ELSE Result(n, n < p.min, errors, i..(i + n - 1))
      BY <3>1 DEF MatchElement
    <3>4. ~errors
      BY <1>7, <2>1
    <3> HIDE DEF n, errors, S, T, limit, p, r
    <3>5. r = Result(n, n < p.min, errors, i..(i + n - 1))
      BY <3>1, <3>2, <3>3
    <3> QED BY <3>4, <3>5 DEF Result
  <2>3. CASE p.kind = "any"
    <3> DEFINE errors == \E j \in i..(i + n - 1) : ~Declared(j) \/ ~kids[j].valid
               done == {j \in i..(i + n - 1) : Declared(j)}
    <3>1. r = MatchAny(p, i)
      BY <1>9, <2>3 DEF Matched
    <3>2. MatchAny(p, i) = Result(n, n < p.min, errors, done)
      BY <2>3 DEF MatchAny
    <3>3. ~errors
      BY <1>7, <2>1
    <3> HIDE DEF n, errors, done, S, limit, p, r
    <3>4. r = Result(n, n < p.min, errors, done)
      BY <3>1, <3>2
    <3> QED BY <3>3, <3>4 DEF Result
  <2> QED BY <2>2, <2>3
<1> HIDE DEF n, S, limit
<1> QED BY <1>3, <1>5, <1>7, <1>8, <1>10 DEF limit

\* Where an element or a wildcard may end.
LEMMA LeafEnds ==
  ASSUME input \in Inputs, NEW k \in DOMAIN particles, particles[k].kind \in {"element", "any"},
         NEW i \in Positions, NEW j \in Ends[k][i]
  PROVE  \E n \in Counts(particles[k]) : /\ n \in 0..Rest(i) /\ j = i + n
                                         /\ \A x \in i..(i + n - 1) : Catches(particles[k], x)
<1> DEFINE p == particles[k]
           once == Once(Ends, p)
<1>1. /\ p.min \in Int /\ p.max \in Int /\ Ends[k] \in Landings
      /\ Ends[k][i] = UNION {Times(once, i, n) : n \in Counts(p)}
  BY ParticleFacts, EndsUnfolds
<1>2. once \in Landings
  <2>1. \A m \in 1..(k - 1) : Ends[m] \in Landings
    <3>1. \A m \in 1..(k - 1) : m \in DOMAIN particles
      BY InputFacts
    <3> QED BY <3>1, EndsUnfolds
  <2> QED BY <2>1, OnceType
<1>3. PICK n \in Counts(p) : j \in Times(once, i, n)
  BY <1>1
<1>4. n \in Nat
  BY <1>1, CountsType
<1>5. \A x \in Positions : \A y \in once[x] : y = x + 1 /\ x \in DOMAIN kids /\ Catches(p, x)
  BY DEF Once, Catches
<1>6. i \in Nat /\ Len(kids) \in Nat /\ j \in Positions /\ DOMAIN kids = 1..Len(kids)
      /\ Rest(i) = Len(kids) - i + 1
  BY <1>1, RestFacts, InputFacts DEF Landings, Rest
<1>7. PICK c : c[0] = i /\ c[n] = j /\ Way(c, [m \in 1..n |-> once], n)
  <2> HIDE DEF once
  <2> QED BY <1>2, <1>3, <1>4, TimesWay
<1> HIDE DEF once
<1>8. \A m \in 1..n : c[m] = c[m - 1] + 1 /\ c[m - 1] \in DOMAIN kids /\ Catches(p, c[m - 1])
  BY <1>5, <1>7 DEF Way
<1> DEFINE T == {m \in 0..n : c[m] = i + m}
<1>9. ASSUME NEW m \in 0..n, \A x \in 0..(m - 1) : x \in T PROVE m \in T
  <2>1. CASE m = 0
    BY <1>6, <1>7, <2>1
  <2>2. CASE m # 0
    <3>1. m \in 1..n /\ m - 1 \in T
      BY <1>4, <1>9, <2>2
    <3>2. c[m] = c[m - 1] + 1 /\ c[m - 1] = i + (m - 1)
      BY <1>8, <3>1
    <3> QED BY <1>4, <1>6, <3>1, <3>2
  <2> QED BY <2>1, <2>2
<1>10. \A m \in 0..n : m \in T
  <2> HIDE DEF T
  <2>1. 0 \in Nat /\ n \in Int
    BY <1>4
  <2> QED BY <1>9, <2>1, FromTheFirst
<1>11. j = i + n
  BY <1>4, <1>7, <1>10
<1>12. \A x \in i..(i + n - 1) : x \in DOMAIN kids /\ Catches(p, x)
  <2> SUFFICES ASSUME NEW x \in i..(i + n - 1) PROVE x \in DOMAIN kids /\ Catches(p, x)
    OBVIOUS
  <2>1. x - i \in 0..n /\ (x - i) + 1 \in 1..n /\ ((x - i) + 1) - 1 = x - i /\ i + (x - i) = x
    BY <1>4, <1>6
  <2>2. c[x - i] = x
    BY <1>10, <2>1
  <2> QED BY <1>8, <2>1, <2>2
<1>13. n \in 0..Rest(i)
  <2>1. CASE n = 0
    BY <1>6, <2>1 DEF Positions
  <2>2. CASE n # 0
    <3>1. i + n - 1 \in i..(i + n - 1)
      BY <1>4, <1>6, <2>2
    <3>2. i + n - 1 \in 1..Len(kids)
      BY <1>6, <1>12, <3>1
    <3> QED BY <1>4, <1>6, <3>2
  <2> QED BY <2>1, <2>2
<1> QED BY <1>11, <1>12, <1>13

\* An element or a wildcard is determined: its run stops at the first child it does not catch.
LEMMA LeafDetermined ==
  ASSUME input \in Inputs, AllUsable, NEW k \in DOMAIN particles, particles[k].kind \in {"element", "any"}
  PROVE  Determined(k)
<1> DEFINE p == particles[k]
<1>1. p.min \in Int /\ p.max \in Int /\ DOMAIN kids = 1..Len(kids) /\ Len(kids) \in Nat
  BY ParticleFacts, InputFacts
<1>2. \A i : Caught(k, i) <=> i \in DOMAIN kids /\ Catches(p, i)
  <2>1. ~IsGroup(k)
    BY DEF IsGroup
  <2>2. Under(k) = {k}
    <3>1. HasItems({k}) /\ {k} \in SUBSET DOMAIN particles
      BY <2>1 DEF HasItems, Items
    <3>2. Under(k) \subseteq {k} /\ k \in Under(k)
      BY <3>1 DEF Under
    <3> QED BY <3>2
  <2> QED BY <2>1, <2>2 DEF Caught
<1> SUFFICES ASSUME NEW i \in Positions
             PROVE  /\ ~Caught(k, i) => /\ Match[k][i].used = 0 /\ ~Match[k][i].errors
                                        /\ Match[k][i].err <=> 0 < p.min
                    /\ \A j \in Ends[k][i] :
                         /\ i <= j
                         /\ IF i < j THEN Caught(k, i) ELSE p.min <= 0
                         /\ ~Caught(k, j) => Exact(Match[k][i], j - i)
                         /\ i < j /\ NoRepeats[k] /\ Continues(k, j) => Exact(Match[k][i], j - i)
  BY DEF Determined
<1> DEFINE r == Match[k][i]
           limit == Limit(p.max, i)
<1>3. /\ r.used \in 0..Rest(i) /\ r.used <= limit
      /\ \A j \in i..(i + r.used - 1) : Catches(p, j)
      /\ r.used < limit /\ r.used < Rest(i) => ~Catches(p, i + r.used)
      /\ ~r.errors /\ (r.err <=> r.used < p.min)
  BY LeafMatched
<1>4. /\ i \in Nat /\ Rest(i) \in Nat /\ i + Rest(i) = Len(kids) + 1
      /\ \A u \in Nat : u < Rest(i) => i + u \in DOMAIN kids
  BY RestFacts, InputFacts
<1>5. limit = IF p.max < 0 THEN Rest(i) + 1 ELSE p.max
  BY DEF Limit
<1> HIDE DEF r, limit, p
<1>6. ~Caught(k, i) => r.used = 0
  <2> SUFFICES ASSUME r.used # 0 PROVE Caught(k, i)
    OBVIOUS
  <2>1. i \in i..(i + r.used - 1) /\ 0 < Rest(i) /\ i + 0 = i
    BY <1>3, <1>4
  <2>2. i \in DOMAIN kids
    BY <1>4, <2>1
  <2> QED BY <1>2, <1>3, <2>1, <2>2
<1>7. ASSUME NEW j \in Ends[k][i]
      PROVE  /\ i <= j
             /\ IF i < j THEN Caught(k, i) ELSE p.min <= 0
             /\ ~Caught(k, j) => Exact(r, j - i)
             /\ i < j /\ NoRepeats[k] => Exact(r, j - i)
  <2>1. PICK n \in Counts(p) : n \in 0..Rest(i) /\ j = i + n /\ \A x \in i..(i + n - 1) : Catches(p, x)
    BY LeafEnds DEF p
  <2>2. n \in Nat /\ n >= p.min /\ (p.max >= 0 => n <= p.max)
    BY <1>1, <2>1, CountsBounds
  <2>3. n <= limit /\ limit \in Int
    BY <1>1, <1>4, <1>5, <2>1, <2>2
  <2>4. n <= r.used
    <3> SUFFICES ASSUME r.used < n PROVE FALSE
      BY <1>3, <2>2
    <3>1. i + r.used \in i..(i + n - 1) /\ r.used < limit /\ r.used < Rest(i)
      BY <1>3, <1>4, <2>1, <2>2, <2>3
    <3> QED BY <1>3, <2>1, <3>1
  <2>5. i < j => Caught(k, i)
    <3> SUFFICES ASSUME i < j PROVE Caught(k, i)
      OBVIOUS
    <3>1. i \in i..(i + n - 1) /\ 0 < Rest(i) /\ i + 0 = i
      BY <1>4, <2>1, <2>2
    <3> QED BY <1>2, <1>4, <2>1, <3>1
  <2>6. ~Caught(k, j) => r.used = n
    <3> SUFFICES ASSUME n < r.used PROVE Caught(k, j)
      BY <1>3, <2>2, <2>4
    <3>1. j \in i..(i + r.used - 1) /\ n < Rest(i)
      BY <1>3, <1>4, <2>1, <2>2
    <3>2. j \in DOMAIN kids
      BY <1>4, <2>1, <2>2, <3>1
    <3> QED BY <1>2, <1>3, <3>1, <3>2
  <2>7. i < j /\ NoRepeats[k] => r.used = n
    <3>1. NoRepeats[k] => p.max = 1
      BY NoRepeatsUnfolds DEF OccursOnce, p
    <3>2. NoRepeats[k] => limit = 1
      BY <1>5, <3>1
    <3> QED BY <1>3, <1>4, <2>1, <2>2, <2>4, <3>2
  <2>8. j - i = n /\ i <= j /\ j \in Nat
    BY <1>4, <2>1, <2>2
  <2>9. r.used = n => Exact(r, j - i)
    BY <1>1, <1>3, <2>2, <2>8 DEF Exact
  <2>10. i >= j => p.min <= 0
    BY <1>1, <1>4, <2>1, <2>2
  <2> QED BY <1>4, <2>5, <2>6, <2>7, <2>8, <2>9, <2>10
<1>8. \A j \in Ends[k][i] :
        /\ i <= j
        /\ IF i < j THEN Caught(k, i) ELSE p.min <= 0
        /\ ~Caught(k, j) => Exact(r, j - i)
        /\ i < j /\ NoRepeats[k] /\ Continues(k, j) => Exact(r, j - i)
  BY <1>7
<1> QED BY <1>3, <1>6, <1>8 DEF r, p

-----------------------------------------------------------------------------
(* One repetition of a sequence: a way through its items.                  *)

ItemsDetermined(k) == \A m \in Items(k) : Determined(m)

\* A way that never goes back moves on for the first time where it is.
LEMMA WayMoves ==
  ASSUME NEW N \in Nat, NEW c, \A n \in 0..N : \A m \in 0..n : c[m] \in Nat /\ c[m] <= c[n],
         NEW n \in 0..N, c[n] < c[N]
  PROVE  \E m \in (n + 1)..N : c[m - 1] = c[n] /\ c[m - 1] < c[m]
<1> DEFINE S == {m \in (n + 1)..N : c[n] < c[m]}
<1>1. n \in Nat /\ N \in 0..N /\ n # N
  OBVIOUS
<1>2. N \in S
  BY <1>1
<1>3. S \in SUBSET Nat
  BY <1>1
<1>4. PICK m \in S : \A j \in S : m <= j
  <2> HIDE DEF S
  <2> QED BY <1>2, <1>3, LeastNatural
<1>5. m \in (n + 1)..N /\ c[n] < c[m] /\ m - 1 \in n..N /\ m - 1 \in 0..N /\ n \in 0..(m - 1)
  BY <1>1, <1>4
<1>6. m - 1 \notin S
  BY <1>3, <1>4, <1>5
<1>7. m - 1 = n \/ m - 1 \in (n + 1)..N
  BY <1>1, <1>5
<1>8. ~(c[n] < c[m - 1])
  BY <1>1, <1>5, <1>6, <1>7
<1>9. c[m - 1] = c[n]
  BY <1>1, <1>5, <1>8
<1> QED BY <1>5, <1>9

\* The items of a sequence on a way through it.
SequenceWay(c, k) == Way(c, ItemEnds(particles[k].items), Len(particles[k].items))
ItemAt(k, n) == particles[k].items[n]

\* A way through a sequence of determined items goes from position to position, never back.
LEMMA SequenceSteps ==
  ASSUME input \in Inputs, NEW k \in DOMAIN particles, particles[k].kind = "sequence", ItemsDetermined(k),
         NEW c, SequenceWay(c, k), c[0] \in Positions
  PROVE  LET N == Len(particles[k].items)
         IN  /\ N \in Nat /\ DOMAIN particles[k].items = 1..N /\ IsGroup(k)
             /\ \A n \in 1..N : /\ ItemAt(k, n) \in Items(k) /\ Determined(ItemAt(k, n))
                                /\ c[n - 1] \in Positions /\ c[n] \in Positions
                                /\ c[n] \in Ends[ItemAt(k, n)][c[n - 1]]
             /\ \A n \in 0..N : c[n] \in Positions /\ \A m \in 0..n : c[m] \in Nat /\ c[m] <= c[n]
<1> DEFINE N == Len(particles[k].items)
<1>1. /\ N \in Nat /\ DOMAIN particles[k].items = 1..N /\ IsGroup(k)
      /\ \A n \in 1..N : ItemAt(k, n) \in Items(k)
  <2>1. IsGroup(k)
    BY DEF IsGroup
  <2> QED BY <2>1, ItemsFacts DEF ItemAt
<1>2. ASSUME NEW n \in 1..N
      PROVE  /\ Determined(ItemAt(k, n))
             /\ c[n - 1] \in Positions /\ c[n] \in Positions /\ c[n] \in Ends[ItemAt(k, n)][c[n - 1]]
  <2>1. ItemEnds(particles[k].items)[n] = Ends[ItemAt(k, n)]
    BY <1>1 DEF ItemEnds, ItemAt
  <2> QED BY <1>1, <2>1 DEF SequenceWay, Way, ItemsDetermined
<1>3. \A x \in Positions : x \in Nat
  BY RestFacts
<1>4. \A n \in 1..N : c[n - 1] \in Nat /\ c[n] \in Nat /\ c[n - 1] <= c[n]
  BY <1>2, <1>3 DEF Determined
<1>5. \A n \in 0..N : \A m \in 0..n : c[m] \in Nat /\ c[m] <= c[n]
  <2> HIDE DEF N
  <2> QED BY <1>1, <1>3, <1>4, WayForward
<1>6. \A n \in 0..N : c[n] \in Positions
  <2>1. \A n \in 0..N : n = 0 \/ n \in 1..N
    BY <1>1
  <2> QED BY <1>2, <2>1
<1> QED BY <1>1, <1>2, <1>5, <1>6

\* The first item on a way to take a child catches it, and so does the sequence.
LEMMA SequenceCatches ==
  ASSUME input \in Inputs, NEW k \in DOMAIN particles, particles[k].kind = "sequence", ItemsDetermined(k),
         NEW c, SequenceWay(c, k), c[0] \in Positions, NEW n \in 0..Len(particles[k].items),
         c[n] < c[Len(particles[k].items)]
  PROVE  /\ Caught(k, c[n])
         /\ \E m \in (n + 1)..Len(particles[k].items) :
              /\ m \in 1..Len(particles[k].items) /\ c[m - 1] = c[n]
              /\ Caught(ItemAt(k, m), c[n]) /\ Continues(ItemAt(k, m), c[n])
              /\ \A x \in (n + 1)..(m - 1) : c[x - 1] = c[n] /\ c[x] = c[n]
<1> DEFINE N == Len(particles[k].items)
<1>1. /\ N \in Nat
      /\ \A x \in 1..N : /\ ItemAt(k, x) \in Items(k) /\ Determined(ItemAt(k, x))
                         /\ c[x - 1] \in Positions /\ c[x] \in Positions
                         /\ c[x] \in Ends[ItemAt(k, x)][c[x - 1]]
      /\ \A x \in 0..N : \A m \in 0..x : c[m] \in Nat /\ c[m] <= c[x]
  BY SequenceSteps
<1> HIDE DEF N
<1>2. PICK m \in (n + 1)..N : c[m - 1] = c[n] /\ c[m - 1] < c[m]
  BY <1>1, WayMoves DEF N
<1>3. m \in 1..N /\ n \in Nat
  BY <1>1, <1>2 DEF N
<1>4. Caught(ItemAt(k, m), c[n])
  BY <1>1, <1>2, <1>3 DEF Determined
<1>5. Continues(ItemAt(k, m), c[n])
  BY <1>1, <1>2, <1>3 DEF Continues
<1>6. Caught(k, c[n])
  BY <1>1, <1>3, <1>4, CaughtByGroup
<1>7. ASSUME NEW x \in (n + 1)..(m - 1) PROVE c[x - 1] = c[n] /\ c[x] = c[n]
  <2>1. /\ x \in 0..N /\ x - 1 \in 0..N /\ m - 1 \in 0..N
        /\ n \in 0..x /\ n \in 0..(x - 1) /\ x \in 0..(m - 1) /\ x - 1 \in 0..(m - 1)
    BY <1>1, <1>2, <1>3, <1>7
  <2>2. c[n] <= c[x] /\ c[n] <= c[x - 1] /\ c[x] <= c[m - 1] /\ c[x - 1] <= c[m - 1]
        /\ c[x] \in Nat /\ c[x - 1] \in Nat /\ c[n] \in Nat
    BY <1>1, <2>1
  <2> QED BY <1>2, <2>2
<1> QED BY <1>2, <1>3, <1>4, <1>5, <1>6, <1>7 DEF N

\* Another repetition begins where the way c ends, and nothing in k occurs
\* more than once in one.
Again(c, k) ==
  /\ ~Emptiable[k] /\ \A m \in Items(k) : NoRepeats[m]
  /\ \E d : /\ SequenceWay(d, k) /\ d[0] = c[Len(particles[k].items)]
            /\ d[0] < d[Len(particles[k].items)]

\* Along a way through a sequence each item is matched as far as the way goes with it, if
\* the sequence does not catch the child after it or begins again there.
LEMMA SequenceExact ==
  ASSUME input \in Inputs, Distinct, NEW k \in DOMAIN particles, particles[k].kind = "sequence",
         ItemsDetermined(k), NEW c, SequenceWay(c, k), c[0] \in Positions,
         ~Caught(k, c[Len(particles[k].items)]) \/ Again(c, k)
  PROVE  \A n \in 1..Len(particles[k].items) : Exact(Match[ItemAt(k, n)][c[n - 1]], c[n] - c[n - 1])
<1> DEFINE N == Len(particles[k].items)
<1>1. /\ N \in Nat /\ DOMAIN particles[k].items = 1..N /\ IsGroup(k)
      /\ \A n \in 1..N : /\ ItemAt(k, n) \in Items(k) /\ Determined(ItemAt(k, n))
                         /\ c[n - 1] \in Positions /\ c[n] \in Positions
                         /\ c[n] \in Ends[ItemAt(k, n)][c[n - 1]]
      /\ \A n \in 0..N : c[n] \in Positions /\ \A m \in 0..n : c[m] \in Nat /\ c[m] <= c[n]
  BY SequenceSteps
<1>2. \A n, m \in 1..N : \A x : n # m /\ Caught(ItemAt(k, m), x) => ~Caught(ItemAt(k, n), x)
  BY <1>1, CaughtApart DEF ItemAt
<1> HIDE DEF N
<1> SUFFICES ASSUME NEW n \in 1..N PROVE Exact(Match[ItemAt(k, n)][c[n - 1]], c[n] - c[n - 1])
  BY DEF N
<1>3. n \in 0..N /\ N \in 0..N /\ n \in 0..N /\ n \in Nat /\ n \in 0..N
  BY <1>1
<1>4. ~Caught(ItemAt(k, n), c[n]) => Exact(Match[ItemAt(k, n)][c[n - 1]], c[n] - c[n - 1])
  BY <1>1 DEF Determined
<1>5. CASE c[n] < c[N]
  <2>1. PICK m \in (n + 1)..N : m \in 1..N /\ Caught(ItemAt(k, m), c[n])
    BY <1>3, <1>5, SequenceCatches DEF N
  <2>2. m # n
    BY <1>3, <2>1
  <2> QED BY <1>2, <1>4, <2>1, <2>2
<1>6. CASE ~(c[n] < c[N])
  <2>1. c[n] = c[N] /\ c[N] \in Positions /\ c[N] \in Nat
    BY <1>1, <1>3, <1>6
  <2>2. CASE ~Caught(k, c[N])
    <3>1. ~Caught(ItemAt(k, n), c[N])
      BY <1>1, <2>2, CaughtByGroup
    <3> QED BY <1>4, <2>1, <3>1
  <2>3. CASE Again(c, k)
    <3>1. PICK d : SequenceWay(d, k) /\ d[0] = c[N] /\ d[0] < d[N]
      BY <2>3 DEF Again, N
    <3>2. 0 \in 0..N /\ d[0] \in Positions
      BY <1>1, <2>1, <3>1
    <3>3. PICK m \in (0 + 1)..N :
            /\ m \in 1..N /\ d[m - 1] = d[0]
            /\ Caught(ItemAt(k, m), d[0]) /\ Continues(ItemAt(k, m), d[0])
            /\ \A x \in (0 + 1)..(m - 1) : d[x - 1] = d[0] /\ d[x] = d[0]
      BY <3>1, <3>2, SequenceCatches DEF N
    <3>4. CASE m # n
      BY <1>2, <1>4, <2>1, <3>1, <3>3, <3>4
    <3>5. CASE m = n /\ c[n - 1] < c[n]
      <4>1. NoRepeats[ItemAt(k, n)] /\ Continues(ItemAt(k, n), c[n])
        BY <1>1, <2>1, <2>3, <3>1, <3>3, <3>5 DEF Again
      <4> QED BY <1>1, <3>5, <4>1 DEF Determined
    <3>6. CASE m = n /\ ~(c[n - 1] < c[n])
      <4>1. ASSUME NEW x \in 1..N PROVE particles[ItemAt(k, x)].min <= 0
        <5>1. CASE x < n
          <6>1. x \in (0 + 1)..(m - 1)
            BY <1>3, <3>6, <5>1
          <6>2. d[x] \in Ends[ItemAt(k, x)][d[x - 1]] /\ d[x - 1] \in Positions /\ d[x] = d[x - 1]
            BY <3>1, <3>2, <3>3, <6>1, SequenceSteps DEF N
          <6>3. ~(d[x - 1] < d[x])
            BY <2>1, <3>1, <3>3, <6>1
          <6> QED BY <1>1, <6>2, <6>3 DEF Determined
        <5>2. CASE x >= n
          <6>1. /\ x - 1 \in 0..N /\ x \in 0..N /\ n - 1 \in 0..N /\ n - 1 \in 0..(x - 1)
                /\ x \in 0..N /\ x - 1 \in 0..x /\ n \in 0..x
            BY <1>1, <1>3, <5>2
          <6>2. c[n - 1] <= c[x - 1] /\ c[x - 1] <= c[x] /\ c[x] <= c[N] /\ c[n - 1] \in Nat
                /\ c[x - 1] \in Nat /\ c[x] \in Nat
            <7>1. x \in 0..N /\ N \in 0..N
              BY <1>3, <6>1
            <7> QED BY <1>1, <6>1, <7>1
          <6>3. ~(c[x - 1] < c[x])
            BY <2>1, <3>6, <6>2
          <6> QED BY <1>1, <6>3 DEF Determined
        <5> QED BY <1>3, <5>1, <5>2
      <4>2. EmptyOnce(Emptiable, k)
        BY <1>1, <4>1 DEF EmptyOnce, ItemAt
      <4>3. Emptiable[k]
        BY <4>2, EmptiableUnfolds
      <4> QED BY <2>3, <4>3 DEF Again
    <3> QED BY <3>4, <3>5, <3>6
  <2> QED BY <2>2, <2>3 DEF N
<1> QED BY <1>5, <1>6

\* Two results in a row: the children add up, and the error is that of the second.
LEMMA ThenFields ==
  ASSUME NEW r, NEW s
  PROVE  /\ Then(r, s).used = r.used + s.used
         /\ ~s.err => ~Then(r, s).err
         /\ ~r.errors /\ ~s.errors => ~Then(r, s).errors
<1>1. Then(r, s) = [used |-> r.used + s.used, err |-> s.err, errors |-> (r.errors \/ s.errors),
                    done |-> r.done \cup s.done]
  BY DEF Then, Result
<1>2. Then(r, s).used = r.used + s.used
  BY <1>1
<1>3. ASSUME ~s.err PROVE ~Then(r, s).err
  BY <1>1, <1>3
<1>4. ASSUME ~r.errors, ~s.errors PROVE ~Then(r, s).errors
  <2> DEFINE b == r.errors \/ s.errors
  <2>1. ~b
    BY <1>4
  <2>2. Then(r, s) = [used |-> r.used + s.used, err |-> s.err, errors |-> b, done |-> r.done \cup s.done]
    BY <1>1
  <2> HIDE DEF b
  <2> QED BY <2>1, <2>2
<1> QED BY <1>2, <1>3, <1>4

\* Two exact results in a row are exact.
LEMMA ThenExact ==
  ASSUME NEW r, NEW s, ~r.err, ~r.errors, ~s.err, ~s.errors
  PROVE  Exact(Then(r, s), r.used + s.used)
BY ThenFields DEF Exact

\* What the items of a sequence match one after the other.
LEMMA ItemsExact ==
  ASSUME input \in Inputs, NEW items, Len(items) \in Nat,
         \A n \in 1..Len(items) : Match[items[n]] \in Outcomes,
         NEW c, \A n \in 0..Len(items) : c[n] \in Positions,
         \A n \in 1..Len(items) : Exact(Match[items[n]][c[n - 1]], c[n] - c[n - 1])
  PROVE  \A n \in 0..Len(items) : Exact(UptoItems(Match, items, c[0])[n], c[n] - c[0])
<1> DEFINE N == Len(items)
           u == UptoItems(Match, items, c[0])
           T == {n \in 0..N : Exact(u[n], c[n] - c[0])}
<1>1. 0 \in 0..N /\ c[0] \in Positions /\ \A n \in 0..N : c[n] \in Nat
  <2>1. 0 \in 0..N
    OBVIOUS
  <2> QED BY <2>1, RestFacts
<1>2. ItemByItem(Match, items, c[0])
  BY <1>1, ItemsUnfold
<1>3. \A n \in 0..N : u[n] = IF n = 0 THEN Nothing ELSE NextItem(Match, items, c[0], n, u[n - 1])
  BY <1>2 DEF ItemByItem
<1> HIDE DEF u
<1>4. ASSUME NEW n \in 0..N, \A m \in 0..(n - 1) : m \in T PROVE n \in T
  <2>1. CASE n = 0
    <3>1. u[n] = Nothing /\ c[n] - c[0] = 0
      BY <1>1, <1>3, <2>1
    <3>2. Exact(Nothing, 0)
      BY DEF Exact, Nothing, Result
    <3> QED BY <3>1, <3>2
  <2>2. CASE n # 0
    <3>1. n \in 1..N /\ n - 1 \in 0..(n - 1) /\ n - 1 \in 0..N
      BY <2>2
    <3>2. Exact(u[n - 1], c[n - 1] - c[0])
      BY <1>4, <3>1
    <3> DEFINE s == Match[items[n]][c[n - 1]]
    <3>3. c[0] + u[n - 1].used = c[n - 1] /\ ~u[n - 1].err /\ ~u[n - 1].errors
      BY <1>1, <3>1, <3>2 DEF Exact
    <3>4. u[n] = Then(u[n - 1], s)
      BY <1>3, <2>2, <3>3 DEF NextItem
    <3>5. Exact(s, c[n] - c[n - 1])
      BY <3>1
    <3> HIDE DEF s
    <3>6. Exact(Then(u[n - 1], s), u[n - 1].used + s.used)
      BY <3>3, <3>5, ThenExact DEF Exact
    <3>7. u[n - 1].used + s.used = c[n] - c[0]
      <4>1. u[n - 1].used = c[n - 1] - c[0] /\ s.used = c[n] - c[n - 1]
        BY <3>2, <3>5 DEF Exact
      <4>2. c[n] \in Nat /\ c[n - 1] \in Nat /\ c[0] \in Nat
        BY <1>1, <3>1
      <4> QED BY <4>1, <4>2
    <3> QED BY <3>4, <3>6, <3>7
  <2> QED BY <2>1, <2>2
<1>5. \A n \in 0..N : n \in T
  <2> HIDE DEF T
  <2>1. 0 \in Nat /\ N \in Int
    OBVIOUS
  <2> QED BY <1>4, <2>1, FromTheFirst
<1> QED BY <1>5 DEF u

\* Items none of which takes a child take none together.
LEMMA ItemsNothing ==
  ASSUME input \in Inputs, NEW items, Len(items) \in Nat, NEW i \in Positions,
         \A n \in 1..Len(items) : /\ Match[items[n]] \in Outcomes
                                  /\ Match[items[n]][i].used = 0 /\ ~Match[items[n]][i].errors
  PROVE  MatchItems(Match, items, i).used = 0 /\ ~MatchItems(Match, items, i).errors
<1> DEFINE N == Len(items)
           u == UptoItems(Match, items, i)
           T == {n \in 0..N : u[n].used = 0 /\ ~u[n].errors}
<1>1. i \in Nat /\ N \in 0..N
  BY RestFacts
<1>2. ItemByItem(Match, items, i)
  BY ItemsUnfold
<1>3. \A n \in 0..N : u[n] = IF n = 0 THEN Nothing ELSE NextItem(Match, items, i, n, u[n - 1])
  BY <1>2 DEF ItemByItem
<1> HIDE DEF u
<1>4. ASSUME NEW n \in 0..N, \A m \in 0..(n - 1) : m \in T PROVE n \in T
  <2>1. CASE n = 0
    <3>1. u[n] = Nothing
      BY <1>3, <2>1
    <3> QED BY <3>1 DEF Nothing, Result
  <2>2. CASE n # 0
    <3>1. n \in 1..N /\ n - 1 \in 0..(n - 1)
      BY <2>2
    <3>2. u[n - 1].used = 0 /\ ~u[n - 1].errors
      BY <1>4, <3>1
    <3>3. i + u[n - 1].used = i
      BY <1>1, <3>2
    <3> DEFINE s == Match[items[n]][i]
    <3>4. u[n] = u[n - 1] \/ u[n] = Then(u[n - 1], s)
      BY <1>3, <2>2, <3>3 DEF NextItem
    <3>5. s.used = 0 /\ ~s.errors
      BY <3>1
    <3> HIDE DEF s
    <3>6. Then(u[n - 1], s).used = u[n - 1].used + s.used /\ ~Then(u[n - 1], s).errors
      BY <3>2, <3>5, ThenFields
    <3>7. u[n - 1].used + s.used = 0
      BY <3>2, <3>5
    <3> QED BY <3>2, <3>4, <3>6, <3>7
  <2> QED BY <2>1, <2>2
<1>5. \A n \in 0..N : n \in T
  <2> HIDE DEF T
  <2>1. 0 \in Nat /\ N \in Int
    OBVIOUS
  <2> QED BY <1>4, <2>1, FromTheFirst
<1> QED BY <1>1, <1>5, ItemsIsLast DEF u

\* One repetition of a group, as it is matched and as it is defined.
OnceDetermined(k) ==
  LET once == OnceMatched(Match, particles[k])
      ends == Once(Ends, particles[k])
  IN  \A i \in Positions :
        /\ ~Caught(k, i) => once[i].used = 0 /\ ~once[i].errors
        /\ \A j \in ends[i] :
             /\ j \in Positions /\ i < j /\ Caught(k, i)
             /\ ~Caught(k, j) => Exact(once[i], j - i)
             /\ (\A m \in Items(k) : NoRepeats[m]) /\ (\E y \in ends[j] : TRUE) => Exact(once[i], j - i)

\* One repetition of a sequence of determined items is determined.
LEMMA SequenceOnce ==
  ASSUME input \in Inputs, Distinct, NEW k \in DOMAIN particles, particles[k].kind = "sequence",
         ItemsDetermined(k), ~Emptiable[k]
  PROVE  OnceDetermined(k)
<1> DEFINE items == particles[k].items
           N == Len(items)
           once == OnceMatched(Match, particles[k])
           ends == Once(Ends, particles[k])
<1>1. /\ N \in Nat /\ DOMAIN items = 1..N /\ IsGroup(k)
      /\ \A n \in 1..N : /\ items[n] \in Items(k) /\ items[n] \in DOMAIN particles
                         /\ Match[items[n]] \in Outcomes /\ Ends[items[n]] \in Landings
  <2>1. IsGroup(k)
    BY DEF IsGroup
  <2>2. N \in Nat /\ DOMAIN items = 1..N /\ \A n \in 1..N : items[n] \in Items(k)
    BY <2>1, ItemsFacts
  <2>3. \A n \in 1..N : items[n] \in DOMAIN particles
    BY <2>2, ItemsFacts
  <2> QED BY <2>1, <2>2, <2>3, MatchUnfolds, EndsUnfolds
<1>2. \A i \in Positions : once[i] = MatchItems(Match, items, i) /\ ends[i] = Chained(Ends, items, i)[N]
  BY DEF OnceMatched, Once
<1>3. ASSUME NEW i \in Positions, NEW j \in ends[i]
      PROVE  \E c : c[0] = i /\ c[N] = j /\ SequenceWay(c, k)
  <2>1. j \in Chained(Ends, items, i)[N] /\ \A n \in 1..N : Ends[items[n]] \in Landings
    BY <1>1, <1>2, <1>3
  <2> HIDE DEF items, N, ends
  <2>2. \E c : c[0] = i /\ c[Len(items)] = j /\ Way(c, ItemEnds(items), Len(items))
    BY <1>1, <2>1, ChainedWay DEF N
  <2> QED BY <2>2 DEF SequenceWay, items, N
<1> HIDE DEF once, ends
<1>4. ASSUME NEW c, SequenceWay(c, k), c[0] \in Positions PROVE c[N] \in Positions /\ c[0] < c[N]
  <2>1. /\ \A n \in 0..N : c[n] \in Positions /\ \A m \in 0..n : c[m] \in Nat /\ c[m] <= c[n]
        /\ \A n \in 1..N : /\ Determined(items[n])
                           /\ c[n - 1] \in Positions /\ c[n] \in Ends[items[n]][c[n - 1]]
    BY <1>4, SequenceSteps DEF ItemAt
  <2>2. 0 \in 0..N /\ N \in 0..N
    BY <1>1
  <2> SUFFICES ASSUME c[N] <= c[0] PROVE FALSE
    BY <2>1, <2>2
  <2>3. ASSUME NEW n \in 1..N PROVE particles[items[n]].min <= 0
    <3>1. n \in 0..N /\ n - 1 \in 0..N /\ 0 \in 0..(n - 1) /\ n \in 0..N /\ n - 1 \in 0..n
      BY <1>1
    <3>2. c[0] <= c[n - 1] /\ c[n - 1] <= c[n] /\ c[n] <= c[N] /\ c[0] \in Nat /\ c[n] \in Nat
          /\ c[n - 1] \in Nat /\ c[N] \in Nat
      BY <2>1, <2>2, <3>1
    <3>3. ~(c[n - 1] < c[n])
      <4> HIDE DEF items, N
      <4> QED BY <3>2
    <3> QED BY <2>1, <3>3 DEF Determined
  <2>4. EmptyOnce(Emptiable, k)
    BY <1>1, <2>3 DEF EmptyOnce
  <2> QED BY <2>4, EmptiableUnfolds
<1>5. ASSUME NEW i \in Positions, ~Caught(k, i) PROVE once[i].used = 0 /\ ~once[i].errors
  <2>1. \A n \in 1..N : Match[items[n]][i].used = 0 /\ ~Match[items[n]][i].errors
    <3>1. \A n \in 1..N : ~Caught(items[n], i) /\ Determined(items[n])
      BY <1>1, <1>5, CaughtByGroup DEF ItemsDetermined
    <3> HIDE DEF items, N
    <3> QED BY <3>1 DEF Determined
  <2>2. Len(items) \in Nat /\ \A n \in 1..Len(items) : Match[items[n]] \in Outcomes
    BY <1>1
  <2>3. once[i] = MatchItems(Match, items, i)
    BY <1>2
  <2>4. \A n \in 1..Len(items) : Match[items[n]][i].used = 0 /\ ~Match[items[n]][i].errors
    BY <2>1
  <2> HIDE DEF items, N
  <2>5. MatchItems(Match, items, i).used = 0 /\ ~MatchItems(Match, items, i).errors
    BY <2>2, <2>4, ItemsNothing
  <2> QED BY <2>3, <2>5
<1>6. ASSUME NEW i \in Positions, NEW j \in ends[i]
      PROVE  /\ j \in Positions /\ i < j /\ Caught(k, i)
             /\ ~Caught(k, j) => Exact(once[i], j - i)
             /\ (\A m \in Items(k) : NoRepeats[m]) /\ (\E y \in ends[j] : TRUE) => Exact(once[i], j - i)
  <2>1. PICK c : c[0] = i /\ c[N] = j /\ SequenceWay(c, k)
    BY <1>3
  <2>2. j \in Positions /\ i < j
    BY <1>4, <2>1
  <2>3. Caught(k, i)
    <3>1. 0 \in 0..N
      BY <1>1
    <3> QED BY <2>1, <2>2, <3>1, SequenceCatches
  <2>4. ASSUME ~Caught(k, c[N]) \/ Again(c, k) PROVE Exact(once[i], j - i)
    <3>1. \A n \in 1..N : Exact(Match[items[n]][c[n - 1]], c[n] - c[n - 1])
      BY <2>1, <2>4, SequenceExact DEF ItemAt
    <3>2. \A n \in 0..N : c[n] \in Positions
      BY <2>1, SequenceSteps
    <3>3. N \in 0..N
      BY <1>1
    <3>4. Exact(UptoItems(Match, items, c[0])[N], c[N] - c[0])
      BY <1>1, <3>1, <3>2, <3>3, ItemsExact
    <3> QED BY <1>2, <2>1, <3>4, ItemsIsLast
  <2>5. ASSUME \A m \in Items(k) : NoRepeats[m], NEW y \in ends[j] PROVE Again(c, k)
    <3>1. PICK d : d[0] = j /\ d[N] = y /\ SequenceWay(d, k)
      BY <1>3, <2>2
    <3>2. d[0] < d[N]
      BY <1>4, <2>2, <3>1
    <3> QED BY <2>1, <2>5, <3>1, <3>2 DEF Again
  <2> QED BY <2>1, <2>2, <2>3, <2>4, <2>5
<1> QED BY <1>5, <1>6 DEF OnceDetermined, once, ends

-----------------------------------------------------------------------------
(* One repetition of a choice: one item of it.                             *)

\* No match of a choice that is none too many is longer than the longest.
LEMMA LongestMost ==
  ASSUME input \in Inputs, NEW items, NEW match, DOMAIN items = 1..Len(items),
         \A n \in 1..Len(items) : match[items[n]] \in Outcomes, NEW i \in Positions,
         NEW n \in 1..Len(items), ~match[items[n]][i].err
  PROVE  match[items[n]][i].used <= MatchLongest(match, items, i).used
<1> DEFINE tried == {match[items[m]][i] : m \in DOMAIN items}
           lengths == {0} \cup {t.used : t \in {u \in tried : ~u.err}}
           x == match[items[n]][i]
<1>1. \A t \in tried : t.used \in 0..Rest(i)
  <2>1. \A m \in 1..Len(items) : match[items[m]][i].used \in 0..Rest(i)
    <3>1. ASSUME NEW m \in 1..Len(items) PROVE match[items[m]][i].used \in 0..Rest(i)
      <4>1. match[items[m]] \in Outcomes
        OBVIOUS
      <4> DEFINE o == match[items[m]]
      <4> HIDE DEF o
      <4>2. o[i] \in Results /\ o[i].used <= Rest(i)
        BY <4>1 DEF Outcomes, o
      <4>3. Rest(i) \in Nat
        BY RestFacts, InputFacts
      <4> QED BY <4>2, <4>3 DEF Results, o
    <3> QED BY <3>1
  <2> QED BY <2>1
<1>2. x \in tried
  OBVIOUS
<1>3. MatchLongest(match, items, i).used = Max(lengths)
  BY DEF MatchLongest, Result
<1>4. Rest(i) \in Nat
  BY RestFacts, InputFacts
<1> HIDE DEF tried, x
<1>5. lengths \in SUBSET (0..Rest(i)) /\ x.used \in lengths
  BY <1>1, <1>2, <1>4 DEF x
<1> HIDE DEF lengths
<1>6. x.used <= Max(lengths)
  BY <1>4, <1>5, MaxOfBounded
<1> QED BY <1>3, <1>6 DEF x

\* A choice of which one item alone matches something.
LEMMA LongestExact ==
  ASSUME input \in Inputs, NEW items, DOMAIN items = 1..Len(items),
         \A n \in 1..Len(items) : Match[items[n]] \in Outcomes, NEW i \in Positions,
         NEW n \in 1..Len(items), NEW u, u # 0, Exact(Match[items[n]][i], u),
         \A m \in 1..Len(items) : m # n => Match[items[m]][i].used = 0 /\ ~Match[items[m]][i].errors
  PROVE  Exact(MatchLongest(Match, items, i), u)
<1> DEFINE r == MatchLongest(Match, items, i)
<1>1. /\ r \in ResultsAt(i) /\ ~r.err
      /\ r.used # 0 => \E m \in 1..Len(items) : Match[items[m]][i].used = r.used /\ ~Match[items[m]][i].err
      /\ r.errors <=> \E m \in 1..Len(items) : Match[items[m]][i].errors
  BY LongestFacts
<1>2. Match[items[n]][i].used <= r.used
  BY LongestMost DEF Exact
<1> HIDE DEF r
<1>3. Match[items[n]][i].used = u /\ ~Match[items[n]][i].errors /\ u \in Nat /\ r.used \in Nat
  BY <1>1 DEF Exact, Outcomes, Results, ResultsAt
<1>4. r.used # 0
  BY <1>2, <1>3
<1>5. PICK m \in 1..Len(items) : Match[items[m]][i].used = r.used
  BY <1>1, <1>4
<1>6. m = n
  BY <1>4, <1>5
<1>7. r.used = u
  BY <1>3, <1>5, <1>6
<1>8. ~r.errors
  BY <1>1, <1>3
<1> QED BY <1>1, <1>7, <1>8 DEF Exact, r

\* An item of a choice that takes a child, where the others match nothing.
ItemTakes(k, n, i, u) ==
  /\ u # 0 /\ Exact(Match[ItemAt(k, n)][i], u)
  /\ \A m \in DOMAIN particles[k].items :
       m # n => Match[ItemAt(k, m)][i].used = 0 /\ ~Match[ItemAt(k, m)][i].errors

\* Where a choice of determined items may end, one item takes the children up to there and
\* the others none.
LEMMA ChoiceTakes ==
  ASSUME input \in Inputs, Distinct, NEW k \in DOMAIN particles, particles[k].kind = "choice",
         ItemsDetermined(k), ~Emptiable[k], NEW i \in Positions, NEW j \in Once(Ends, particles[k])[i]
  PROVE  /\ j \in Positions /\ i < j /\ Caught(k, i)
         /\ \/ ~Caught(k, j)
            \/ (\A m \in Items(k) : NoRepeats[m]) /\ (\E y \in Once(Ends, particles[k])[j] : TRUE)
            => \E n \in DOMAIN particles[k].items : ItemTakes(k, n, i, j - i)
<1> DEFINE items == particles[k].items
           N == Len(items)
           ends == Once(Ends, particles[k])
<1>1. /\ N \in Nat /\ DOMAIN items = 1..N /\ IsGroup(k)
      /\ \A n \in 1..N : items[n] \in Items(k) /\ items[n] \in DOMAIN particles /\ Ends[items[n]] \in Landings
  <2>1. IsGroup(k)
    BY DEF IsGroup
  <2>2. N \in Nat /\ DOMAIN items = 1..N /\ \A n \in 1..N : items[n] \in Items(k)
    BY <2>1, ItemsFacts
  <2>3. \A n \in 1..N : items[n] \in DOMAIN particles
    BY <2>2, ItemsFacts
  <2> QED BY <2>1, <2>2, <2>3, EndsUnfolds
<1>2. \A x \in Positions : ends[x] = UNION {Ends[items[n]][x] : n \in DOMAIN items}
  BY DEF Once
<1>3. ASSUME NEW x \in Positions, NEW y \in ends[x] PROVE \E n \in 1..N : y \in Ends[items[n]][x]
  BY <1>1, <1>2, <1>3
<1>4. \A n \in 1..N : Determined(items[n]) /\ ~(particles[items[n]].min <= 0)
  <2>1. \A n \in 1..N : Determined(items[n])
    BY <1>1 DEF ItemsDetermined
  <2>2. ~EmptyOnce(Emptiable, k)
    BY EmptiableUnfolds
  <2>3. \A n \in DOMAIN items : ~(particles[items[n]].min <= 0)
    BY <2>2 DEF EmptyOnce
  <2> QED BY <1>1, <2>1, <2>3
<1>5. \A n, m \in 1..N : \A x : n # m /\ Caught(items[m], x) => ~Caught(items[n], x)
  BY <1>1, CaughtApart
<1>6. \A n \in 1..N : \A x : Caught(items[n], x) => Caught(k, x)
  BY <1>1, CaughtByGroup
<1> HIDE DEF ends, N, items
<1>7. ASSUME NEW x \in Positions, NEW n \in 1..N, NEW y \in Ends[items[n]][x]
      PROVE  y \in Positions /\ x < y /\ Caught(items[n], x)
  <2>1. y \in Positions /\ x \in Nat /\ y \in Nat
    <3>1. y \in Positions
      BY <1>1, <1>7 DEF Landings
    <3> QED BY <3>1, RestFacts
  <2>2. x <= y /\ IF x < y THEN Caught(items[n], x) ELSE particles[items[n]].min <= 0
    BY <1>4, <1>7 DEF Determined
  <2> QED BY <1>4, <2>1, <2>2
<1>8. PICK n \in 1..N : j \in Ends[items[n]][i]
  BY <1>3 DEF ends
<1>9. j \in Positions /\ i < j /\ Caught(items[n], i) /\ Caught(k, i)
  BY <1>6, <1>7, <1>8
<1>10. ~Caught(items[n], j) => Exact(Match[items[n]][i], j - i)
  BY <1>4, <1>8 DEF Determined
<1>11. ASSUME \A m \in Items(k) : NoRepeats[m], NEW y \in ends[j] PROVE Exact(Match[items[n]][i], j - i)
  <2>1. PICK m \in 1..N : y \in Ends[items[m]][j]
    BY <1>3, <1>9, <1>11
  <2>2. j < y /\ Caught(items[m], j)
    BY <1>7, <1>9, <2>1
  <2>3. CASE m # n
    BY <1>5, <1>10, <2>2, <2>3
  <2>4. CASE m = n
    <3>1. Continues(items[n], j) /\ NoRepeats[items[n]]
      BY <1>1, <1>11, <2>1, <2>2, <2>4 DEF Continues
    <3> QED BY <1>4, <1>8, <1>9, <3>1 DEF Determined
  <2> QED BY <2>3, <2>4
<1>12. ASSUME Exact(Match[items[n]][i], j - i) PROVE \E x \in DOMAIN items : ItemTakes(k, x, i, j - i)
  <2>1. j - i # 0
    BY <1>9, RestFacts
  <2>2. \A m \in 1..N : m # n => Match[items[m]][i].used = 0 /\ ~Match[items[m]][i].errors
    BY <1>4, <1>5, <1>9 DEF Determined
  <2>3. ItemTakes(k, n, i, j - i)
    BY <1>1, <1>12, <2>1, <2>2 DEF ItemTakes, ItemAt, items
  <2> QED BY <1>1, <2>3
<1>13. ASSUME \/ ~Caught(k, j)
              \/ (\A m \in Items(k) : NoRepeats[m]) /\ (\E y \in ends[j] : TRUE)
       PROVE  Exact(Match[items[n]][i], j - i)
  BY <1>6, <1>10, <1>11, <1>13
<1> QED BY <1>9, <1>12, <1>13 DEF items, ends

\* One repetition of a choice of determined items is determined.
LEMMA ChoiceOnce ==
  ASSUME input \in Inputs, Distinct, NEW k \in DOMAIN particles, particles[k].kind = "choice",
         ItemsDetermined(k), ~Emptiable[k]
  PROVE  OnceDetermined(k)
<1> DEFINE items == particles[k].items
           N == Len(items)
           once == OnceMatched(Match, particles[k])
           ends == Once(Ends, particles[k])
<1>1. /\ N \in Nat /\ DOMAIN items = 1..N /\ IsGroup(k)
      /\ \A n \in 1..N : items[n] \in Items(k) /\ Match[items[n]] \in Outcomes
  <2>1. IsGroup(k)
    BY DEF IsGroup
  <2>2. N \in Nat /\ DOMAIN items = 1..N /\ \A n \in 1..N : items[n] \in Items(k)
    BY <2>1, ItemsFacts
  <2>3. \A n \in 1..N : items[n] \in DOMAIN particles
    BY <2>2, ItemsFacts
  <2> QED BY <2>1, <2>2, <2>3, MatchUnfolds
<1>2. \A i \in Positions : once[i] = MatchLongest(Match, items, i)
  BY DEF OnceMatched
<1> HIDE DEF once, ends, N, items
<1>3. ASSUME NEW i \in Positions, ~Caught(k, i) PROVE once[i].used = 0 /\ ~once[i].errors
  <2>1. \A n \in 1..N : ~Caught(items[n], i)
    BY <1>1, <1>3, CaughtByGroup
  <2>2. \A n \in 1..N : Match[items[n]][i].used = 0 /\ ~Match[items[n]][i].errors
    BY <1>1, <2>1 DEF Determined, ItemsDetermined
  <2> DEFINE r == MatchLongest(Match, items, i)
  <2>3. /\ r.used # 0 => \E m \in 1..Len(items) : Match[items[m]][i].used = r.used /\ ~Match[items[m]][i].err
        /\ r.errors <=> \E m \in 1..Len(items) : Match[items[m]][i].errors
    BY <1>1, LongestFacts DEF N
  <2> QED BY <1>2, <2>2, <2>3 DEF N
<1>4. ASSUME NEW i \in Positions, NEW j \in ends[i]
      PROVE  /\ j \in Positions /\ i < j /\ Caught(k, i)
             /\ ~Caught(k, j) => Exact(once[i], j - i)
             /\ (\A m \in Items(k) : NoRepeats[m]) /\ (\E y \in ends[j] : TRUE) => Exact(once[i], j - i)
  <2>1. /\ j \in Positions /\ i < j /\ Caught(k, i)
        /\ \/ ~Caught(k, j)
           \/ (\A m \in Items(k) : NoRepeats[m]) /\ (\E y \in ends[j] : TRUE)
           => \E n \in DOMAIN items : ItemTakes(k, n, i, j - i)
    BY <1>4, ChoiceTakes DEF ends, items
  <2>2. ASSUME NEW n \in DOMAIN items, ItemTakes(k, n, i, j - i) PROVE Exact(once[i], j - i)
    <3>1. /\ j - i # 0 /\ Exact(Match[items[n]][i], j - i)
          /\ \A m \in 1..N : m # n => Match[items[m]][i].used = 0 /\ ~Match[items[m]][i].errors
      BY <1>1, <2>2 DEF ItemTakes, ItemAt, items
    <3>2. Exact(MatchLongest(Match, items, i), j - i)
      BY <1>1, <2>2, <3>1, LongestExact DEF N
    <3> QED BY <1>2, <3>2
  <2> QED BY <2>1, <2>2
<1> QED BY <1>3, <1>4 DEF OnceDetermined, once, ends

-----------------------------------------------------------------------------
(* A group: its repetitions, one after the other.                          *)

\* Where the repetitions of p have got to after n rounds, and where they ended.
Going(st, u) == st.more /\ Exact(st.r, u)
Ended(st, u, short) == ~st.more /\ st.r.used = u /\ ~st.r.errors /\ (st.r.err <=> short)

\* c is where every repetition ends, as it is matched.
Repetitions(c, once, N) ==
  /\ \A n \in 0..N : c[n] \in Positions
  /\ \A n \in 1..N : c[n - 1] < c[n] /\ Exact(once[c[n - 1]], c[n] - c[n - 1])

\* As long as there are exact repetitions the loop goes on with what they took.
LEMMA RoundsGo ==
  ASSUME input \in Inputs, NEW p, p.min \in Int, p.max \in Int, NEW once \in Outcomes, NEW N \in Nat,
         NEW c, Repetitions(c, once, N), p.max >= 0 => N <= p.max
  PROVE  \A n \in 0..N : /\ n \in 0..Rest(c[0]) /\ n <= c[n] - c[0]
                         /\ Going(Rounds(p, c[0], once)[n], c[n] - c[0])
<1> DEFINE i == c[0]
           u == Rounds(p, i, once)
           T == {n \in 0..N : /\ n \in 0..Rest(i) /\ n <= c[n] - i
                              /\ Going(u[n], c[n] - i)}
<1>1. i \in Positions /\ \A n \in 0..N : c[n] \in Positions
  <2>1. 0 \in 0..N
    OBVIOUS
  <2> QED BY <2>1 DEF Repetitions
<1>2. /\ i \in Nat /\ Len(kids) \in Nat /\ Rest(i) \in Nat /\ i + Rest(i) = Len(kids) + 1
      /\ \A n \in 0..N : c[n] \in Nat /\ c[n] <= Len(kids) + 1
  <2>1. \A n \in 0..N : c[n] \in Nat /\ c[n] <= Len(kids) + 1
    BY <1>1, InputFacts DEF Positions
  <2> QED BY <1>1, <2>1, RestFacts, InputFacts
<1>3. \A n \in 0..(Rest(i) + 1) :
        u[n] = IF n = 0 THEN [r |-> Nothing, more |-> TRUE] ELSE NextRound(p, i, once, n, u[n - 1])
  BY <1>1, RoundsUnfold
<1> HIDE DEF u, i
<1>4. ASSUME NEW n \in 0..N, \A m \in 0..(n - 1) : m \in T PROVE n \in T
  <2>1. CASE n = 0
    <3>a. 0 \in 0..(Rest(i) + 1) /\ c[n] = i
      BY <1>2, <2>1 DEF i
    <3>b. u[n] = [r |-> Nothing, more |-> TRUE]
      BY <1>3, <2>1, <3>a
    <3>1. u[n] = [r |-> Nothing, more |-> TRUE] /\ c[n] - i = 0
      BY <1>2, <3>a, <3>b
    <3>2. Exact(Nothing, 0)
      BY DEF Exact, Nothing, Result
    <3>3. Going(u[n], c[n] - i)
      BY <3>1, <3>2 DEF Going
    <3> QED BY <1>2, <2>1, <3>1, <3>3
  <2>2. CASE n # 0
    <3>1. n \in 1..N /\ n - 1 \in 0..(n - 1) /\ n - 1 \in 0..N /\ n - 1 \in Nat
      BY <2>2
    <3>2. n - 1 <= c[n - 1] - i /\ Going(u[n - 1], c[n - 1] - i)
      BY <1>4, <3>1
    <3>3. c[n - 1] < c[n] /\ Exact(once[c[n - 1]], c[n] - c[n - 1])
      BY <3>1 DEF Repetitions
    <3>4. c[n] \in Nat /\ c[n - 1] \in Nat /\ c[n] <= Len(kids) + 1
      BY <1>2, <3>1
    <3>5. n <= c[n] - i /\ n \in 0..Rest(i)
      BY <1>2, <3>1, <3>2, <3>3, <3>4
    <3> DEFINE r == u[n - 1].r
               s == once[c[n - 1]]
    <3>6. u[n - 1].more /\ Exact(r, c[n - 1] - i)
      BY <3>2 DEF Going
    <3>7. Exact(s, c[n] - c[n - 1])
      BY <3>3
    <3>8. u[n] = NextRound(p, i, once, n, u[n - 1])
      BY <1>2, <1>3, <2>2, <3>5
    <3>9. i + r.used = c[n - 1] /\ r.used # Rest(i)
      BY <1>2, <3>3, <3>4, <3>6 DEF Exact
    <3>10. ~(n > Limit(p.max, i))
      BY <1>2, <3>1, <3>5 DEF Limit
    <3>11. ~(s.err \/ s.used = 0)
      BY <3>3, <3>4, <3>7 DEF Exact
    <3>12. u[n] = [r |-> Then(r, s), more |-> TRUE]
      BY <3>6, <3>8, <3>9, <3>10, <3>11 DEF NextRound
    <3> HIDE DEF r, s
    <3>13. Exact(Then(r, s), r.used + s.used)
      BY <3>6, <3>7, ThenExact DEF Exact
    <3>14. r.used + s.used = c[n] - i
      <4>1. r.used = c[n - 1] - i /\ s.used = c[n] - c[n - 1]
        BY <3>6, <3>7 DEF Exact
      <4> QED BY <1>2, <3>4, <4>1
    <3>15. Going(u[n], c[n] - i)
      BY <3>12, <3>13, <3>14 DEF Going
    <3> QED BY <3>5, <3>15
  <2> QED BY <2>1, <2>2
<1>5. \A n \in 0..N : n \in T
  <2> HIDE DEF T
  <2>1. 0 \in Nat /\ N \in Int
    OBVIOUS
  <2> QED BY <1>4, <2>1, FromTheFirst
<1> QED BY <1>5 DEF u, i

\* A failed repetition without an error of its own takes nothing from what came before.
LEMMA AfterFields ==
  ASSUME NEW r, NEW s, ~r.errors, ~s.errors
  PROVE  After(r, s).used = r.used /\ ~After(r, s).errors
<1> DEFINE b == r.errors \/ s.errors
<1>1. After(r, s) = [used |-> r.used, err |-> r.err, errors |-> b, done |-> r.done \cup s.done]
  BY DEF After, Result
<1>2. ~b
  OBVIOUS
<1> HIDE DEF b
<1> QED BY <1>1, <1>2

\* A loop that stops after n repetitions is short of its minimum exactly when n is.
LEMMA StoppedEnds ==
  ASSUME NEW p, NEW n \in Nat, NEW t \in Results, ~t.errors
  PROVE  Ended(Stopped(p, n + 1, t), t.used, n < p.min)
<1> DEFINE short == n < p.min
           x == [t EXCEPT !.err = short]
<1>1. x.used = t.used /\ ~x.errors /\ (x.err <=> short)
  BY DEF Results
<1>2. Stopped(p, n + 1, t) = [r |-> x, more |-> FALSE]
  <2>1. (n + 1) - 1 = n
    OBVIOUS
  <2> QED BY <2>1 DEF Stopped
<1> HIDE DEF x, short
<1>3. Ended([r |-> x, more |-> FALSE], t.used, short)
  BY <1>1 DEF Ended
<1> QED BY <1>2, <1>3 DEF short

\* They end at the limit, or where one matches nothing.
LEMMA RepeatDetermined ==
  ASSUME input \in Inputs, NEW p, p.min \in Int, p.max \in Int, NEW once \in Outcomes, NEW N \in Nat,
         NEW c, Repetitions(c, once, N), p.max >= 0 => N <= p.max,
         p.max = N \/ (once[c[N]].used = 0 /\ ~once[c[N]].errors)
  PROVE  LET r == Repeat(p, c[0], once)
         IN  r.used = c[N] - c[0] /\ ~r.errors /\ (r.err <=> N < p.min)
<1> DEFINE i == c[0]
           u == Rounds(p, i, once)
           M == Rest(i) + 1
           T == {n \in (N + 1)..M : Ended(u[n], c[N] - i, N < p.min)}
<1>1. N \in 0..N /\ 0 \in 0..N
  OBVIOUS
<1>2. i \in Positions /\ c[N] \in Positions
  BY <1>1 DEF Repetitions
<1>3. Rest(i) \in Nat /\ i \in Nat /\ c[N] \in Nat
  BY <1>2, RestFacts, InputFacts
<1>4. N \in 0..Rest(i) /\ Going(u[N], c[N] - i)
  BY <1>1, RoundsGo
<1>5. \A n \in 0..M :
        /\ u[n] \in RoundsAt(i)
        /\ u[n] = IF n = 0 THEN [r |-> Nothing, more |-> TRUE] ELSE NextRound(p, i, once, n, u[n - 1])
  BY <1>2, RoundsUnfold
<1> HIDE DEF u, i
<1>6. Ended(u[N + 1], c[N] - i, N < p.min)
  <2> DEFINE r == u[N].r
             s == once[c[N]]
  <2>1. u[N].more /\ r.used = c[N] - i /\ ~r.err /\ ~r.errors
    BY <1>4 DEF Going, Exact
  <2>2. i + r.used = c[N]
    BY <1>3, <2>1
  <2>3. u[N + 1] = NextRound(p, i, once, N + 1, u[N])
    <3>1. N + 1 \in 0..M /\ N + 1 # 0 /\ (N + 1) - 1 = N
      BY <1>3, <1>4
    <3> QED BY <1>5, <3>1
  <2>4. r \in ResultsAt(i) /\ r \in Results
    <3>1. N \in 0..M
      BY <1>3, <1>4
    <3> QED BY <1>5, <3>1 DEF RoundsAt, ResultsAt
  <2>5. s \in ResultsAt(c[N]) /\ s \in Results
    BY <1>2 DEF Outcomes, ResultsAt
  <2>6. u[N + 1] = IF N + 1 > Limit(p.max, i) \/ (p.kind = "choice" /\ r.used = Rest(i))
                     THEN Stopped(p, N + 1, r)
                   ELSE IF s.err \/ s.used = 0 THEN Stopped(p, N + 1, After(r, s))
                   ELSE [r |-> Then(r, s), more |-> TRUE]
    BY <2>1, <2>2, <2>3 DEF NextRound
  <2> HIDE DEF r, s
  <2>7. CASE N + 1 > Limit(p.max, i) \/ (p.kind = "choice" /\ r.used = Rest(i))
    BY <2>1, <2>4, <2>6, <2>7, StoppedEnds
  <2>8. CASE ~(N + 1 > Limit(p.max, i) \/ (p.kind = "choice" /\ r.used = Rest(i)))
    <3>1. p.max # N
      BY <2>8 DEF Limit
    <3>2. s.used = 0 /\ ~s.errors
      BY <3>1 DEF s
    <3>3. u[N + 1] = Stopped(p, N + 1, After(r, s))
      BY <2>6, <2>8, <3>2
    <3>4. After(r, s) \in Results
      BY <1>2, <2>2, <2>4, <2>5, ResultTypes DEF ResultsAt
    <3>5. After(r, s).used = r.used /\ ~After(r, s).errors
      BY <2>1, <2>4, <2>5, <3>2, AfterFields
    <3> QED BY <2>1, <3>3, <3>4, <3>5, StoppedEnds
  <2> QED BY <2>7, <2>8
<1>7. ASSUME NEW n \in (N + 1)..M, \A m \in (N + 1)..(n - 1) : m \in T PROVE n \in T
  <2>1. CASE n = N + 1
    BY <1>6, <2>1
  <2>2. CASE n # N + 1
    <3>1. n - 1 \in (N + 1)..(n - 1) /\ n \in 0..M /\ n # 0
      BY <1>3, <2>2
    <3>2. Ended(u[n - 1], c[N] - i, N < p.min)
      BY <1>7, <3>1
    <3>3. u[n] = NextRound(p, i, once, n, u[n - 1])
      BY <1>5, <3>1
    <3>4. ~u[n - 1].more
      BY <3>2 DEF Ended
    <3>5. u[n] = u[n - 1]
      BY <3>3, <3>4 DEF NextRound
    <3> QED BY <3>2, <3>5
  <2> QED BY <2>1, <2>2
<1>8. \A n \in (N + 1)..M : n \in T
  <2> HIDE DEF T
  <2>1. N + 1 \in Nat /\ M \in Int
    BY <1>3
  <2> HIDE DEF M
  <2> QED BY <1>7, <2>1, FromTheFirst
<1>9. M \in (N + 1)..M
  BY <1>3, <1>4
<1>10. Ended(u[M], c[N] - i, N < p.min)
  BY <1>8, <1>9
<1>11. Repeat(p, i, once) = u[M].r
  BY RepeatIsLast DEF u
<1> HIDE DEF M
<1> QED BY <1>10, <1>11 DEF Ended, i

-----------------------------------------------------------------------------
(* Every particle inside a greedy model is determined.                     *)

\* What one repetition is determined by, repetitions are.
LEMMA GroupDetermined ==
  ASSUME input \in Inputs, NEW k \in DOMAIN particles, particles[k].kind \in {"sequence", "choice"},
         OnceDetermined(k), particles[k].max # 1 => \A m \in Items(k) : NoRepeats[m]
  PROVE  Determined(k)
<1> DEFINE p == particles[k]
           once == OnceMatched(Match, p)
           ends == Once(Ends, p)
<1>1. p.min \in Int /\ p.max \in Int /\ once \in Outcomes /\ ends \in Landings
  <2>1. \A m \in 1..(k - 1) : Match[m] \in Outcomes /\ Ends[m] \in Landings
    <3>1. \A m \in 1..(k - 1) : m \in DOMAIN particles
      BY InputFacts
    <3> QED BY <3>1, MatchUnfolds, EndsUnfolds
  <2> QED BY <2>1, ParticleFacts, OnceMatchedType, OnceType
<1>2. \A i \in Positions : Match[k][i] = Repeat(p, i, once)
  BY MatchUnfolds, MatchedGroup
<1>3. \A i \in Positions : Ends[k][i] = UNION {Times(ends, i, n) : n \in Counts(p)}
  BY EndsUnfolds
<1>4. /\ \A i \in Positions : ~Caught(k, i) => once[i].used = 0 /\ ~once[i].errors
      /\ \A i \in Positions : \A j \in ends[i] :
           /\ j \in Positions /\ i < j /\ Caught(k, i)
           /\ ~Caught(k, j) => Exact(once[i], j - i)
           /\ (\A m \in Items(k) : NoRepeats[m]) /\ (\E y \in ends[j] : TRUE) => Exact(once[i], j - i)
  BY DEF OnceDetermined
<1>5. NoRepeats[k] => p.max = 1 /\ \A m \in Items(k) : NoRepeats[m]
  BY NoRepeatsUnfolds DEF OccursOnce, Items
<1>6. \A i \in Positions : i \in Nat
  BY RestFacts
<1> HIDE DEF once, ends
<1>7. ASSUME NEW i \in Positions, NEW j \in Ends[k][i]
      PROVE  \E n \in Counts(p) : \E c : c[0] = i /\ c[n] = j /\ n \in Nat /\ Way(c, [m \in 1..n |-> ends], n)
  <2>1. PICK n \in Counts(p) : j \in Times(ends, i, n)
    BY <1>3, <1>7
  <2>2. n \in Nat
    BY <1>1, CountsType
  <2> QED BY <1>1, <2>1, <2>2, TimesWay
<1>8. ASSUME NEW i \in Positions, NEW n \in Nat, NEW c, c[0] = i, Way(c, [m \in 1..n |-> ends], n)
      PROVE  /\ \A m \in 1..n : /\ c[m - 1] \in Positions /\ c[m] \in Positions /\ c[m] \in ends[c[m - 1]]
                                /\ c[m - 1] < c[m] /\ Caught(k, c[m - 1])
             /\ \A m \in 0..n : c[m] \in Positions
             /\ i <= c[n] /\ (n # 0 => i < c[n])
  <2>1. \A m \in 1..n : /\ c[m - 1] \in Positions /\ c[m] \in Positions /\ c[m] \in ends[c[m - 1]]
    BY <1>8 DEF Way
  <2>2. \A m \in 1..n : c[m - 1] < c[m] /\ Caught(k, c[m - 1])
    BY <1>4, <2>1
  <2>3. \A m \in 0..n : m = 0 \/ m \in 1..n
    OBVIOUS
  <2>4. \A m \in 0..n : c[m] \in Positions
    BY <1>8, <2>1, <2>3
  <2>5. \A m \in 0..n : \A x \in 0..m : c[x] \in Nat /\ c[x] <= c[m]
    <3>1. \A m \in 1..n : c[m - 1] \in Nat /\ c[m] \in Nat /\ c[m - 1] <= c[m]
      BY <1>6, <2>1, <2>2
    <3> QED BY <1>6, <1>8, <3>1, WayForward
  <2>6. i <= c[n]
    <3>1. n \in 0..n /\ 0 \in 0..n
      OBVIOUS
    <3> QED BY <1>8, <2>5, <3>1
  <2>7. n # 0 => i < c[n]
    <3> SUFFICES ASSUME n # 0 PROVE i < c[n]
      OBVIOUS
    <3>1. 1 \in 1..n /\ 1 \in 0..n /\ n \in 0..n /\ 1 - 1 = 0
      OBVIOUS
    <3>2. c[0] < c[1] /\ c[1] <= c[n] /\ c[1] \in Nat /\ c[n] \in Nat /\ c[0] \in Nat
      <4>1. c[1 - 1] < c[1]
        BY <2>2, <3>1
      <4>2. c[1] <= c[n] /\ c[1] \in Nat
        BY <2>5, <3>1
      <4>3. c[0] \in Positions /\ c[n] \in Positions
        BY <2>4, <3>1, <1>8
      <4> QED BY <1>6, <3>1, <4>1, <4>2, <4>3
    <3> QED BY <1>8, <3>2
  <2> QED BY <2>1, <2>2, <2>4, <2>6, <2>7
<1> HIDE DEF p
<1>9. ASSUME NEW i \in Positions, ~Caught(k, i)
      PROVE  Match[k][i].used = 0 /\ ~Match[k][i].errors /\ (Match[k][i].err <=> 0 < p.min)
  <2> DEFINE c == [m \in {0} |-> i]
  <2>1. c[0] = i
    OBVIOUS
  <2> HIDE DEF c
  <2>2. Repetitions(c, once, 0)
    BY <2>1 DEF Repetitions
  <2>3. once[c[0]].used = 0 /\ ~once[c[0]].errors
    BY <1>4, <1>9, <2>1
  <2> DEFINE r == Repeat(p, c[0], once)
  <2>4. r.used = c[0] - c[0] /\ ~r.errors /\ (r.err <=> 0 < p.min)
    BY <1>1, <2>2, <2>3, RepeatDetermined
  <2>5. r = Match[k][i]
    BY <1>2, <2>1
  <2>6. c[0] - c[0] = 0
    BY <1>6, <2>1
  <2> QED BY <2>4, <2>5, <2>6
<1>10. ASSUME NEW i \in Positions, NEW j \in Ends[k][i]
       PROVE  /\ i <= j
              /\ IF i < j THEN Caught(k, i) ELSE p.min <= 0
              /\ ~Caught(k, j) => Exact(Match[k][i], j - i)
              /\ i < j /\ NoRepeats[k] /\ Continues(k, j) => Exact(Match[k][i], j - i)
  <2>1. PICK n \in Counts(p) : \E c : c[0] = i /\ c[n] = j /\ n \in Nat /\ Way(c, [m \in 1..n |-> ends], n)
    BY <1>7
  <2>2. PICK c : c[0] = i /\ c[n] = j /\ n \in Nat /\ Way(c, [m \in 1..n |-> ends], n)
    BY <2>1
  <2>3. /\ \A m \in 1..n : /\ c[m - 1] \in Positions /\ c[m] \in Positions /\ c[m] \in ends[c[m - 1]]
                           /\ c[m - 1] < c[m] /\ Caught(k, c[m - 1])
        /\ \A m \in 0..n : c[m] \in Positions
        /\ i <= j /\ (n # 0 => i < j)
    BY <1>8, <2>2
  <2>4. n \in Nat /\ n >= p.min /\ (p.max >= 0 => n <= p.max)
    BY <1>1, <2>1, CountsBounds
  <2>5. i \in Nat /\ j \in Nat /\ j \in Positions
    <3>1. n \in 0..n
      BY <2>4
    <3> QED BY <1>6, <2>2, <2>3, <3>1
  <2>6. i < j => Caught(k, i)
    <3> SUFFICES ASSUME i < j PROVE Caught(k, i)
      OBVIOUS
    <3>1. n # 0
      BY <2>2, <2>5
    <3>2. 1 \in 1..n /\ 1 - 1 = 0
      BY <2>4, <3>1
    <3>3. Caught(k, c[1 - 1])
      BY <2>3, <3>2
    <3> QED BY <2>2, <3>2, <3>3
  <2>7. ~(i < j) => p.min <= 0
    BY <1>1, <2>3, <2>4
  <2>8. ASSUME n # 0 => Exact(once[c[n - 1]], c[n] - c[n - 1]),
               p.max = n \/ (once[j].used = 0 /\ ~once[j].errors)
        PROVE  Exact(Match[k][i], j - i)
    <3>1. ASSUME NEW m \in 1..n, m # n PROVE Exact(once[c[m - 1]], c[m] - c[m - 1])
      <4>1. p.max # 1
        BY <1>1, <2>4, <3>1
      <4>2. m + 1 \in 1..n /\ (m + 1) - 1 = m
        BY <2>4, <3>1
      <4>3. c[m + 1] \in ends[c[m]]
        BY <2>3, <4>2
      <4>4. c[m - 1] \in Positions /\ c[m] \in ends[c[m - 1]]
        BY <2>3
      <4> QED BY <1>4, <4>1, <4>3, <4>4 DEF p
    <3>2. Repetitions(c, once, n)
      <4>1. \A m \in 1..n : c[m - 1] < c[m] /\ Exact(once[c[m - 1]], c[m] - c[m - 1])
        BY <2>3, <2>8, <3>1
      <4> QED BY <2>3, <4>1 DEF Repetitions
    <3> DEFINE r == Repeat(p, c[0], once)
    <3>3. r.used = c[n] - c[0] /\ ~r.errors /\ (r.err <=> n < p.min)
      BY <1>1, <2>2, <2>4, <2>8, <3>2, RepeatDetermined
    <3>4. r = Match[k][i]
      BY <1>2, <2>2
    <3>5. ~(n < p.min)
      BY <1>1, <2>4
    <3> HIDE DEF r
    <3> QED BY <2>2, <3>3, <3>4, <3>5 DEF Exact
  <2>9. ASSUME n # 0 PROVE /\ c[n - 1] \in Positions /\ c[n] \in ends[c[n - 1]]
    <3>1. n \in 1..n
      BY <2>4, <2>9
    <3> QED BY <2>3, <3>1
  <2>10. ASSUME ~Caught(k, j) PROVE Exact(Match[k][i], j - i)
    <3>1. once[j].used = 0 /\ ~once[j].errors
      BY <1>4, <2>5, <2>10
    <3>2. n # 0 => Exact(once[c[n - 1]], c[n] - c[n - 1])
      BY <1>4, <2>2, <2>9, <2>10
    <3> QED BY <2>8, <3>1, <3>2
  <2>11. ASSUME i < j, NoRepeats[k], Continues(k, j) PROVE Exact(Match[k][i], j - i)
    <3>1. n # 0
      BY <2>2, <2>5, <2>11
    <3>2. p.max = n
      BY <1>1, <1>5, <2>4, <2>11, <3>1 DEF p
    <3>3. PICK y \in Ends[k][j] : y > j
      BY <2>11 DEF Continues
    <3>4. \E x \in ends[j] : TRUE
      <4>1. PICK m \in Counts(p) : \E d : d[0] = j /\ d[m] = y /\ m \in Nat /\ Way(d, [x \in 1..m |-> ends], m)
        BY <1>7, <2>5
      <4>2. PICK d : d[0] = j /\ d[m] = y /\ m \in Nat /\ Way(d, [x \in 1..m |-> ends], m)
        BY <4>1
      <4>3. m # 0
        BY <2>5, <3>3, <4>2
      <4>4. 1 \in 1..m /\ 1 - 1 = 0
        BY <4>2, <4>3
      <4>5. d[1] \in ends[d[1 - 1]]
        BY <1>8, <2>5, <4>2, <4>4
      <4> QED BY <4>2, <4>4, <4>5
    <3>5. Exact(once[c[n - 1]], c[n] - c[n - 1])
      BY <1>4, <1>5, <2>2, <2>9, <2>11, <3>1, <3>4
    <3> QED BY <2>8, <3>2, <3>5
  <2> QED BY <2>3, <2>6, <2>7, <2>10, <2>11
<1> QED BY <1>9, <1>10 DEF Determined, p

\* The items of a group can be matched without a choice.
LEMMA PlainItems ==
  ASSUME input \in Inputs, Plain, NEW k \in DOMAIN particles, IsGroup(k), NEW m \in Items(k)
  PROVE  ~Emptiable[m] /\ (particles[k].max # 1 => NoRepeats[m])
<1>1. k \in (1..Len(particles)) \ Leaves
  BY InputFacts DEF Leaves
<1>2. PICK n \in DOMAIN particles[k].items : m = particles[k].items[n]
  BY DEF Items
<1> QED BY <1>1, <1>2 DEF Plain

\* All that is inside the model is determined.
LEMMA AllDetermined ==
  ASSUME input \in Inputs, AllUsable, Distinct, Plain, AllOutermost
  PROVE  \A k \in DOMAIN particles : \A m \in Items(k) : Determined(m)
<1> DEFINE N == Len(particles)
           Inner(m) == m # N /\ ~Emptiable[m] => Determined(m)
           T == {k \in 1..N : Inner(k)}
<1>1. N \in Nat /\ DOMAIN particles = 1..N
  BY InputFacts
<1> HIDE DEF N
<1>2. ASSUME NEW k \in 1..N, \A j \in 1..(k - 1) : j \in T PROVE k \in T
  <2> SUFFICES ASSUME k # N, ~Emptiable[k] PROVE Determined(k)
    OBVIOUS
  <2>1. k \in DOMAIN particles
    BY <1>1
  <2>2. CASE particles[k].kind \in {"element", "any"}
    BY <2>1, <2>2, LeafDetermined
  <2>3. CASE particles[k].kind \in {"sequence", "choice"}
    <3>1. IsGroup(k)
      BY <2>3 DEF IsGroup
    <3>2. \A m \in Items(k) : ~Emptiable[m] /\ (particles[k].max # 1 => NoRepeats[m])
      BY <2>1, <3>1, PlainItems
    <3>3. \A m \in Items(k) : m \in 1..(k - 1) /\ m # N
      <4>1. \A m \in Items(k) : m \in Nat \ {0} /\ m < k /\ m # N /\ k \in Nat
        BY <2>1, ItemsFacts DEF N
      <4> QED BY <4>1
    <3>4. \A m \in Items(k) : Determined(m)
      BY <1>2, <3>2, <3>3
    <3>5. ItemsDetermined(k)
      BY <3>4 DEF ItemsDetermined
    <3>6. OnceDetermined(k)
      BY <2>1, <2>3, <3>5, SequenceOnce, ChoiceOnce
    <3> QED BY <2>1, <2>3, <3>2, <3>6, GroupDetermined
  <2>4. particles[k].kind \in {"element", "any", "sequence", "choice"}
    <3>1. /\ particles[k].kind \in {"element", "any", "sequence", "choice", "all", "empty"}
          /\ particles[k].kind \in {"all", "empty"} => k = N
      BY <2>1, ParticleFacts DEF N, AllOutermost
    <3> QED BY <3>1
  <2> QED BY <2>2, <2>3, <2>4
<1>3. \A k \in 1..N : k \in T
  <2> HIDE DEF T
  <2>1. 1 \in Nat /\ N \in Int
    BY <1>1
  <2> QED BY <1>2, <2>1, FromTheFirst
<1> SUFFICES ASSUME NEW k \in DOMAIN particles, NEW m \in Items(k) PROVE Determined(m)
  OBVIOUS
<1>4. IsGroup(k)
  BY DEF Items
<1>5. m \in 1..N /\ m # N
  BY <1>1, ItemsFacts DEF N
<1>6. ~Emptiable[m]
  BY <1>4, PlainItems
<1> QED BY <1>3, <1>5, <1>6

-----------------------------------------------------------------------------
(* The loop over the top-level model, where no choice is open: it follows  *)
(* every way in which the model admits the children.                       *)

\* Greedy, with the other premises of Complete.
Foregone == Greedy /\ EnforcedOccurs /\ AllOutermost /\ AllUsable

Top == Len(particles)
ModelWay(c) == c[0] = 1 /\ c[Len(model.items)] = Len(kids) + 1 /\ SequenceWay(c, Top)
RepeatedWay(c, n) ==
  /\ n \in Counts(model) /\ c[0] = 1 /\ c[n] = Len(kids) + 1
  /\ Way(c, [m \in 1..n |-> Once(Ends, model)], n)
Given(f, k, n) == Cardinality({i \in 1..n : f[i] = k})
AllWay(f) ==
  /\ f \in [1..Len(kids) -> DOMAIN model.items]
  /\ \A i \in 1..Len(kids) : TakenBy(i, f[i])
  /\ \A k \in DOMAIN model.items : Given(f, k, Len(kids)) \in Counts(Item(k))

\* Where the loop is on a way.
AtItem(c) == ~bad /\ (running => pos + 1 = c[item - 1])
AtRepetition(c, n) == ~bad /\ iterations \in 0..n /\ pos + 1 = c[iterations]
AtChild(f) == ~bad /\ \A k \in DOMAIN model.items : counts[k] = Given(f, k, pos)

Follows ==
  Foregone =>
    /\ model.kind = "empty" /\ kids = <<>> => ~bad
    /\ model.kind = "sequence" => \A c : ModelWay(c) => AtItem(c)
    /\ model.kind = "choice" => \A c, n : RepeatedWay(c, n) => AtRepetition(c, n)
    /\ model.kind = "all" => \A f : AllWay(f) => AtChild(f)

\* The conditions on a model, of any particles.
EmptiableOf(ps) ==
  CHOOSE e : e = [k \in DOMAIN ps |->
    LET Empty(n) == ps[ps[k].items[n]].min <= 0 \/ e[ps[k].items[n]]
    IN  CASE ps[k].kind = "sequence" -> \A n \in DOMAIN ps[k].items : Empty(n)
          [] ps[k].kind = "choice" -> \E n \in DOMAIN ps[k].items : Empty(n)
          [] OTHER -> FALSE]
NoRepeatsOf(ps) ==
  CHOOSE e : e = [k \in DOMAIN ps |->
    /\ ps[k].max = 1
    /\ ps[k].kind \in {"sequence", "choice", "all"} => \A n \in DOMAIN ps[k].items : e[ps[k].items[n]]]
UsesOf(ps, groups) == UNION {{k} \X DOMAIN ps[k].items : k \in groups}

\* The premise is about the input alone.
LEMMA SamePremise ==
  ASSUME input' = input
  PROVE  Foregone' <=> Foregone
<1>1. /\ kids' = kids /\ particles' = particles /\ model' = model
      /\ \A k : Item(k)' = Item(k)
      /\ \A k : IsElement(k)' <=> IsElement(k)
      /\ AllOutermost' <=> AllOutermost
  BY SameInput
<1>2. Emptiable = EmptiableOf(particles) /\ Emptiable' = EmptiableOf(particles')
  BY Zenon DEF Emptiable, EmptiableOf
<1>3. NoRepeats = NoRepeatsOf(particles) /\ NoRepeats' = NoRepeatsOf(particles')
  BY Zenon DEF NoRepeats, IsGroup, NoRepeatsOf
<1>4. Emptiable' = Emptiable /\ NoRepeats' = NoRepeats
  BY <1>1, <1>2, <1>3, Zenon
<1>5. Leaves' = Leaves
  BY <1>1 DEF Leaves, IsGroup
<1>6. Plain' <=> Plain
  BY <1>1, <1>4, <1>5 DEF Plain
<1>7. Uses = UsesOf(particles, DOMAIN particles \ Leaves) /\ Uses' = UsesOf(particles', DOMAIN particles' \ Leaves')
  BY Zenon DEF Uses, UsesOf
<1>8. Uses' = Uses
  BY <1>1, <1>5, <1>7, Zenon
<1>9. Distinct' <=> Distinct
  BY <1>1, <1>5, <1>8 DEF Distinct, Used, Takes
<1>10. Greedy' <=> Greedy
  BY <1>1, <1>4, <1>6, <1>9 DEF Greedy
<1>11. EnforcedOccurs' <=> EnforcedOccurs
  BY <1>1 DEF EnforcedOccurs
<1>12. \A i : Usable(i)' <=> Usable(i)
  BY <1>1 DEF Usable, Declared, Name
<1>13. AllUsable' <=> AllUsable
  BY <1>1, <1>12 DEF AllUsable
<1> QED BY <1>1, <1>10, <1>11, <1>13 DEF Foregone

\* So are the ways through the model.
LEMMA SameWays ==
  ASSUME input' = input
  PROVE  /\ \A c : ModelWay(c)' <=> ModelWay(c)
         /\ \A c, n : RepeatedWay(c, n)' <=> RepeatedWay(c, n)
         /\ \A f : AllWay(f)' <=> AllWay(f)
<1>1. /\ kids' = kids /\ particles' = particles /\ model' = model /\ Ends' = Ends
      /\ Once(Ends, model)' = Once(Ends, model)
      /\ \A k : Item(k)' = Item(k)
      /\ \A i, k : TakenBy(i, k)' <=> TakenBy(i, k)
  BY SameInput
<1>2. Top' = Top /\ Positions' = Positions /\ \A p : Counts(p)' = Counts(p)
  BY <1>1 DEF Top, Positions, Counts
<1>3. \A c : SequenceWay(c, Top)' <=> SequenceWay(c, Top)
  BY <1>1, <1>2 DEF SequenceWay, Way, ItemEnds
<1>4. \A c : ModelWay(c)' <=> ModelWay(c)
  BY <1>1, <1>3 DEF ModelWay
<1>5. \A c, n : RepeatedWay(c, n)' <=> RepeatedWay(c, n)
  BY <1>1, <1>2 DEF RepeatedWay, Way
<1>6. \A f : AllWay(f)' <=> AllWay(f)
  BY <1>1, <1>2 DEF AllWay
<1> QED BY <1>4, <1>5, <1>6

\* What the premises say of the top-level model.
LEMMA ForegoneFacts ==
  ASSUME input \in Inputs, Foregone, model.kind # "empty"
  PROVE  /\ Top \in DOMAIN particles /\ model = particles[Top] /\ Distinct /\ AllUsable /\ IsGroup(Top)
         /\ ItemsDetermined(Top)
         /\ \A m \in Items(Top) : model.max # 1 => NoRepeats[m]
         /\ model.kind = "choice" => ~Emptiable[Top]
         /\ ~Caught(Top, Len(kids) + 1) /\ Len(kids) + 1 \in Positions /\ 1 \in Positions
<1>1. Top \in DOMAIN particles /\ model = particles[Top] /\ model.kind \in {"sequence", "choice", "all", "empty"}
  BY ModelFacts DEF Top
<1>2. Distinct /\ Plain /\ AllUsable /\ AllOutermost /\ (model.kind = "choice" => ~Emptiable[Top])
  BY DEF Foregone, Greedy, Top
<1>3. IsGroup(Top)
  BY <1>1 DEF IsGroup
<1>4. ItemsDetermined(Top)
  BY <1>1, <1>2, AllDetermined DEF ItemsDetermined
<1>5. \A m \in Items(Top) : model.max # 1 => NoRepeats[m]
  BY <1>1, <1>2, <1>3, PlainItems
<1>6. ~Caught(Top, Len(kids) + 1) /\ Len(kids) + 1 \in Positions /\ 1 \in Positions
  <2>1. Len(kids) \in Nat /\ DOMAIN kids = 1..Len(kids)
    BY InputFacts
  <2> QED BY <2>1 DEF Caught, Positions
<1> QED BY <1>1, <1>2, <1>3, <1>4, <1>5, <1>6
-----------------------------------------------------------------------------

\* An item of a sequence.
LEMMA FollowsItem ==
  ASSUME MatchInv, Follows, SequenceItem
  PROVE  Follows'
<1>1. /\ input \in Inputs /\ input' = input /\ running /\ model.kind = "sequence"
      /\ item <= Len(model.items) /\ item \in 1..(Len(model.items) + 1) /\ bad \in BOOLEAN
      /\ pos \in 0..Len(kids)
  BY DEF MatchInv, Kept, SequenceFollowed, SequenceItem, At
<1>2. model' = model
  BY <1>1, SameInput
<1> SUFFICES ASSUME Foregone', NEW c, ModelWay(c)' PROVE AtItem(c)'
  BY <1>1, <1>2 DEF Follows
<1>3. Foregone /\ ModelWay(c)
  BY <1>1, SamePremise, SameWays
<1>4. ~bad /\ pos + 1 = c[item - 1]
  BY <1>1, <1>3 DEF Follows, AtItem
<1>5. /\ Top \in DOMAIN particles /\ model = particles[Top] /\ Distinct /\ AllUsable /\ ItemsDetermined(Top)
      /\ ~Caught(Top, Len(kids) + 1) /\ 1 \in Positions
  BY <1>1, <1>3, ForegoneFacts
<1>6. item \in 1..Len(model.items) /\ Len(model.items) \in Nat
  BY <1>1, ModelFacts
<1> DEFINE r == MatchItem(item)
<1>7. Exact(r, c[item] - c[item - 1])
  <2>1. Exact(Match[ItemAt(Top, item)][c[item - 1]], c[item] - c[item - 1])
    BY <1>1, <1>3, <1>5, <1>6, SequenceExact DEF ModelWay
  <2> QED BY <1>4, <1>5, <2>1 DEF MatchItem, ItemAt
<1>8. /\ bad' = (bad \/ r.errors \/ r.err)
      /\ IF r.err THEN UNCHANGED <<pos, item>> ELSE pos' = pos + r.used /\ item' = item + 1
  BY DEF SequenceItem, AddErrors
<1>9. c[item] \in Nat /\ c[item - 1] \in Nat
  <2>1. \A n \in 0..Len(model.items) : c[n] \in Positions
    BY <1>1, <1>3, <1>5, SequenceSteps DEF ModelWay
  <2>2. item \in 0..Len(model.items) /\ item - 1 \in 0..Len(model.items)
    BY <1>6
  <2> QED BY <1>1, <2>1, <2>2, RestFacts
<1> HIDE DEF r
<1>10. ~bad'
  BY <1>4, <1>7, <1>8 DEF Exact
<1>11. pos' + 1 = c[item' - 1]
  <2>1. pos' = pos + r.used /\ item' = item + 1 /\ r.used = c[item] - c[item - 1]
    BY <1>7, <1>8 DEF Exact
  <2>2. item' - 1 = item
    BY <1>6, <2>1
  <2> QED BY <1>1, <1>4, <1>9, <2>1, <2>2
<1> QED BY <1>10, <1>11 DEF AtItem

\* The end of a sequence.
LEMMA FollowsSequenceEnd ==
  ASSUME MatchInv, Follows, SequenceEnd
  PROVE  Follows'
<1>1. /\ input \in Inputs /\ input' = input /\ running /\ model.kind = "sequence"
      /\ item > Len(model.items) /\ item \in 1..(Len(model.items) + 1) /\ bad \in BOOLEAN
      /\ pos \in 0..Len(kids) /\ bad' = (bad \/ pos < Len(kids)) /\ running' = FALSE
  BY DEF MatchInv, Kept, SequenceFollowed, SequenceEnd, At, Return
<1>2. model' = model
  BY <1>1, SameInput
<1> SUFFICES ASSUME Foregone', NEW c, ModelWay(c)' PROVE AtItem(c)'
  BY <1>1, <1>2 DEF Follows
<1>3. Foregone /\ ModelWay(c)
  BY <1>1, SamePremise, SameWays
<1>4. ~bad /\ pos + 1 = c[item - 1]
  BY <1>1, <1>3 DEF Follows, AtItem
<1>5. item - 1 = Len(model.items) /\ Len(kids) \in Nat
  <2>1. Len(model.items) \in Nat /\ Len(kids) \in Nat
    BY <1>1, ModelFacts, InputFacts
  <2> QED BY <1>1, <2>1
<1>6. ~(pos < Len(kids))
  BY <1>1, <1>3, <1>4, <1>5 DEF ModelWay
<1> QED BY <1>1, <1>4, <1>6 DEF AtItem
-----------------------------------------------------------------------------

\* The steps of a way through the repetitions of a choice.
LEMMA RepeatedSteps ==
  ASSUME input \in Inputs, Foregone, model.kind = "choice", NEW c, NEW n, RepeatedWay(c, n)
  PROVE  /\ n \in Nat /\ (model.max >= 0 => n <= model.max) /\ n >= model.min
         /\ \A m \in 0..n : c[m] \in Positions /\ c[m] \in Nat
         /\ \A m \in 1..n : c[m - 1] < c[m]
         /\ \A m \in 0..(n - 1) :
              \E k \in DOMAIN model.items : ItemTakes(Top, k, c[m], c[m + 1] - c[m])
<1> DEFINE ends == Once(Ends, model)
<1>1. /\ Top \in DOMAIN particles /\ model = particles[Top] /\ Distinct /\ ItemsDetermined(Top) /\ ~Emptiable[Top]
      /\ \A m \in Items(Top) : model.max # 1 => NoRepeats[m]
      /\ ~Caught(Top, Len(kids) + 1) /\ 1 \in Positions
  BY ForegoneFacts
<1>2. model.min \in Int /\ model.max \in Int
  BY ModelFacts
<1>3. n \in Nat /\ (model.max >= 0 => n <= model.max) /\ n >= model.min
  BY <1>2, CountsBounds DEF RepeatedWay
<1>4. \A m \in 1..n : c[m - 1] \in Positions /\ c[m] \in Positions /\ c[m] \in ends[c[m - 1]]
  BY DEF RepeatedWay, Way
<1>5. c[0] = 1 /\ c[n] = Len(kids) + 1
  BY DEF RepeatedWay
<1> HIDE DEF ends
<1>6. \A m \in 0..n : c[m] \in Positions /\ c[m] \in Nat
  <2>1. \A m \in 0..n : m = 0 \/ m \in 1..n
    BY <1>3
  <2>2. \A m \in 0..n : c[m] \in Positions
    BY <1>1, <1>4, <1>5, <2>1
  <2> QED BY <2>2, RestFacts
<1>7. \A m \in 1..n : c[m - 1] < c[m]
  BY <1>1, <1>4, ChoiceTakes DEF ends
<1>8. ASSUME NEW m \in 0..(n - 1) PROVE \E k \in DOMAIN model.items : ItemTakes(Top, k, c[m], c[m + 1] - c[m])
  <2>1. m + 1 \in 1..n /\ (m + 1) - 1 = m
    BY <1>3
  <2>2. c[m] \in Positions /\ c[m + 1] \in ends[c[m]]
    BY <1>4, <2>1
  <2>3. CASE m + 1 = n
    BY <1>1, <1>5, <2>2, <2>3, ChoiceTakes DEF ends
  <2>4. CASE m + 1 # n
    <3>1. (m + 1) + 1 \in 1..n /\ ((m + 1) + 1) - 1 = m + 1
      BY <1>3, <2>4
    <3>2. c[(m + 1) + 1] \in ends[c[m + 1]]
      BY <1>4, <3>1
    <3>3. \A x \in Items(Top) : NoRepeats[x]
      BY <1>1, <1>2, <1>3, <3>1
    <3> QED BY <1>1, <2>2, <3>2, <3>3, ChoiceTakes DEF ends
  <2> QED BY <2>3, <2>4
<1> QED BY <1>3, <1>6, <1>7, <1>8

\* A repetition on a way ends before it or at its end.
LEMMA RepetitionBefore ==
  ASSUME input \in Inputs, Foregone, model.kind = "choice", NEW c, NEW n, RepeatedWay(c, n),
         AtRepetition(c, n), pos \in 0..Len(kids), pos < Len(kids)
  PROVE  iterations \in 0..(n - 1) /\ iterations + 1 \in 0..n
<1>1. n \in Nat /\ c[n] = Len(kids) + 1 /\ iterations \in 0..n /\ pos + 1 = c[iterations]
  BY RepeatedSteps DEF RepeatedWay, AtRepetition
<1>2. iterations # n
  BY <1>1, InputFacts
<1> QED BY <1>1, <1>2

\* A repetition of a choice, matched or not.
LEMMA FollowsChoiceItem ==
  ASSUME MatchInv, Follows, ChoiceItem \/ ChoiceNoMatch
  PROVE  Follows'
<1>1. /\ input \in Inputs /\ input' = input /\ running /\ model.kind = "choice"
      /\ pos \in 0..Len(kids) /\ pos < Len(kids) /\ bad \in BOOLEAN
  BY DEF MatchInv, Kept, ChoiceItem, ChoiceNoMatch, At
<1>2. model' = model
  BY <1>1, SameInput
<1> SUFFICES ASSUME Foregone', NEW c, NEW n, RepeatedWay(c, n)' PROVE AtRepetition(c, n)'
  BY <1>1, <1>2 DEF Follows
<1>3. Foregone /\ RepeatedWay(c, n)
  BY <1>1, SamePremise, SameWays
<1>4. AtRepetition(c, n)
  BY <1>1, <1>3 DEF Follows
<1>5. ~bad /\ pos + 1 = c[iterations] /\ iterations \in 0..(n - 1) /\ iterations + 1 \in 0..n /\ n \in Nat
      /\ (model.max >= 0 => n <= model.max) /\ model.max \in Int
  BY <1>1, <1>3, <1>4, RepetitionBefore, RepeatedSteps, ModelFacts DEF AtRepetition
<1> DEFINE u == c[iterations + 1] - c[iterations]
<1>6. PICK k \in DOMAIN model.items : ItemTakes(Top, k, c[iterations], u)
  BY <1>1, <1>3, <1>5, RepeatedSteps
<1>7. model = particles[Top] /\ Len(model.items) \in Nat /\ DOMAIN model.items = 1..Len(model.items)
  BY <1>1, ModelFacts DEF Top
<1>8. /\ u # 0 /\ Exact(MatchItem(k), u)
      /\ \A m \in DOMAIN model.items : m # k => MatchItem(m).used = 0 /\ ~MatchItem(m).errors
  BY <1>5, <1>6, <1>7 DEF ItemTakes, ItemAt, MatchItem
<1>9. c[iterations] \in Nat /\ c[iterations + 1] \in Nat
  <2>1. iterations \in 0..n
    BY <1>5
  <2> QED BY <1>1, <1>3, <1>5, <2>1, RepeatedSteps
<1>10. Matching = {k}
  <2>1. MatchItem(k).used > 0 /\ ~MatchItem(k).err
    <3>1. MatchItem(k).used \in Nat
      BY <1>1, ItemMatched
    <3> QED BY <1>8, <3>1 DEF Exact
  <2>2. \A m \in Matching : m = k
    <3>1. \A m \in Matching : m \in DOMAIN model.items /\ MatchItem(m).used > 0
      BY DEF Matching
    <3>2. ~(0 > 0)
      OBVIOUS
    <3> QED BY <1>8, <3>1, <3>2
  <2>3. k \in Matching
    BY <2>1 DEF Matching
  <2> QED BY <2>2, <2>3
<1>11. Min(Matching) = k
  <2>1. {k} \in SUBSET Nat
    BY <1>7
  <2>2. Min({k}) \in {k}
    BY <2>1, MinOfNaturals
  <2> QED BY <1>10, <2>2
<1>12. ~Tried(k).errors
  <2>1. \A m \in 1..k : m \in DOMAIN model.items
    BY <1>7
  <2>2. \A m \in 1..k : ~MatchItem(m).errors
    BY <1>8, <2>1 DEF Exact
  <2>3. ~(\E r \in {MatchItem(j) : j \in 1..k} : r.errors)
    BY <2>2
  <2> QED BY <2>3 DEF Tried
<1>13. ChoiceItem
  BY <1>10 DEF ChoiceNoMatch
<1> DEFINE over == model.max >= 0 /\ iterations + 1 > model.max
<1>14. pos' = pos + MatchItem(k).used /\ bad' = (bad \/ Tried(k).errors \/ over) /\ iterations' = iterations + 1
  BY <1>11, <1>13 DEF ChoiceItem
<1>15. ~over
  BY <1>5
<1>16. ~bad'
  BY <1>5, <1>12, <1>14, <1>15
<1>17. pos' + 1 = c[iterations']
  <2>1. pos' = pos + u
    BY <1>8, <1>14 DEF Exact
  <2>2. pos \in Nat /\ pos + 1 = c[iterations] /\ iterations' = iterations + 1
    BY <1>1, <1>5, <1>14, InputFacts
  <2>3. u = c[iterations'] - c[iterations]
    BY <2>2
  <2>4. c[iterations] \in Nat /\ c[iterations'] \in Nat
    BY <1>9, <2>2
  <2> HIDE DEF u
  <2> QED BY <2>1, <2>2, <2>3, <2>4
<1> QED BY <1>5, <1>14, <1>16, <1>17 DEF AtRepetition

\* The end of a choice.
LEMMA FollowsChoiceEnd ==
  ASSUME MatchInv, Follows, ChoiceEmpty \/ ChoiceEnd
  PROVE  Follows'
<1>1. /\ input \in Inputs /\ input' = input /\ running /\ model.kind = "choice"
      /\ pos' = pos /\ iterations' = iterations /\ bad \in BOOLEAN
  BY DEF MatchInv, Kept, ChoiceEmpty, ChoiceEnd, At
<1>2. model' = model
  BY <1>1, SameInput
<1> SUFFICES ASSUME Foregone', NEW c, NEW n, RepeatedWay(c, n)' PROVE AtRepetition(c, n)'
  BY <1>1, <1>2 DEF Follows
<1>3. Foregone /\ RepeatedWay(c, n)
  BY <1>1, SamePremise, SameWays
<1>4. AtRepetition(c, n)
  BY <1>1, <1>3 DEF Follows
<1>5. ~bad'
  <2>1. CASE ChoiceEnd
    BY <1>4, <2>1 DEF ChoiceEnd, Return, AtRepetition
  <2>2. CASE ChoiceEmpty
    <3>1. kids = <<>> /\ bad' = (bad \/ model.min > 0)
      BY <2>2 DEF ChoiceEmpty, Return
    <3>2. /\ n \in Nat /\ n >= model.min /\ model.min \in Int
          /\ \A m \in 0..n : c[m] \in Positions /\ c[m] \in Nat
          /\ \A m \in 1..n : c[m - 1] < c[m]
      BY <1>1, <1>3, RepeatedSteps, ModelFacts
    <3>3. n = 0
      <4> SUFFICES ASSUME n # 0 PROVE FALSE
        OBVIOUS
      <4>1. 1 \in 1..n /\ 0 \in 0..n /\ 1 \in 0..n /\ 1 - 1 = 0
        BY <3>2
      <4>2. c[0] < c[1] /\ c[0] \in 1..1 /\ c[1] \in 1..1
        <5>1. Positions = 1..1
          BY <3>1 DEF Positions
        <5>2. c[1 - 1] < c[1]
          BY <3>2, <4>1
        <5> QED BY <3>2, <4>1, <5>1, <5>2
      <4> QED BY <4>2
    <3>4. ~(model.min > 0)
      BY <3>2, <3>3
    <3> QED BY <1>4, <3>1, <3>4 DEF AtRepetition
  <2> QED BY <2>1, <2>2
<1> QED BY <1>1, <1>4, <1>5 DEF AtRepetition

-----------------------------------------------------------------------------
\* One more element or wildcard of an all group takes it, or none.
LEMMA CountUpto ==
  ASSUME NEW n \in Nat, NEW f, NEW k
  PROVE  /\ Given(f, k, n) \in Nat
         /\ Given(f, k, n + 1) = Given(f, k, n) + (IF f[n + 1] = k THEN 1 ELSE 0)
         /\ \A m \in 0..n : Given(f, k, m) <= Given(f, k, n)
<1> DEFINE S(m) == {i \in 1..m : f[i] = k}
<1>1. \A m \in Nat : IsFiniteSet(S(m)) /\ Cardinality(S(m)) \in Nat
  <2> SUFFICES ASSUME NEW m \in Nat PROVE IsFiniteSet(S(m)) /\ Cardinality(S(m)) \in Nat
    OBVIOUS
  <2>1. IsFiniteSet(1..m) /\ S(m) \subseteq 1..m
    BY FS_Interval
  <2> HIDE DEF S
  <2> QED BY <2>1, FS_Subset, FS_CardinalityType
<1>2. Cardinality(S(n + 1)) = Cardinality(S(n)) + (IF f[n + 1] = k THEN 1 ELSE 0)
  <2>1. n + 1 \notin S(n) /\ \A i : i \in 1..(n + 1) <=> i \in 1..n \/ i = n + 1
    OBVIOUS
  <2>2. CASE f[n + 1] = k
    <3>1. S(n + 1) = S(n) \cup {n + 1}
      BY <2>1, <2>2
    <3> HIDE DEF S
    <3>2. Cardinality(S(n) \cup {n + 1}) = Cardinality(S(n)) + 1
      BY <1>1, <2>1, FS_AddElement
    <3> QED BY <2>2, <3>1, <3>2
  <2>3. CASE f[n + 1] # k
    <3>1. S(n + 1) = S(n)
      BY <2>1, <2>3
    <3> HIDE DEF S
    <3> QED BY <1>1, <2>3, <3>1
  <2> QED BY <2>2, <2>3
<1>3. ASSUME NEW m \in 0..n PROVE Cardinality(S(m)) <= Cardinality(S(n))
  <2>1. S(m) \subseteq S(n)
    OBVIOUS
  <2> HIDE DEF S
  <2> QED BY <1>1, <2>1, FS_Subset
<1> QED BY <1>1, <1>2, <1>3 DEF Given

\* On a way through an all group, no other item takes a child.
LEMMA OneTakes ==
  ASSUME input \in Inputs, Foregone, model.kind = "all", NEW f, AllWay(f), NEW i \in 1..Len(kids),
         NEW k \in DOMAIN model.items, TakenBy(i, k)
  PROVE  k = f[i]
<1> DEFINE j == f[i]
<1>1. /\ Top \in DOMAIN particles /\ model = particles[Top] /\ Distinct /\ IsGroup(Top)
      /\ i \in DOMAIN kids /\ particles \in Models
  BY ForegoneFacts, InputFacts
<1>2. j \in DOMAIN model.items /\ TakenBy(i, j)
  BY DEF AllWay
<1> HIDE DEF j
<1>3. ASSUME NEW m \in DOMAIN model.items, TakenBy(i, m)
      PROVE  model.items[m] \in Leaves /\ Catches(particles[model.items[m]], i)
  <2>1. model.items[m] \in DOMAIN particles
    BY ModelFacts
  <2>2. particles[Top] \in Group
    BY <1>1 DEF Models, Top
  <2>3. particles[model.items[m]].kind \in {"element", "any"}
    BY <1>1, <2>2 DEF Models
  <2>4. model.items[m] \in Leaves
    BY <2>1, <2>3 DEF Leaves, IsGroup
  <2>5. Catches(particles[model.items[m]], i)
    BY <1>3, <2>3 DEF TakenBy, IsElement, Item, Catches
  <2> QED BY <2>4, <2>5
<1>4. model.items[k] = model.items[j]
  BY <1>1, <1>2, <1>3, OneCatches
<1>5. <<Top, k>> \in Uses /\ <<Top, j>> \in Uses
  <2>1. Top \in DOMAIN particles \ Leaves
    BY <1>1 DEF Leaves
  <2> QED BY <1>1, <1>2, <2>1 DEF Uses
<1>6. Used(<<Top, k>>) = Used(<<Top, j>>)
  BY <1>1, <1>4 DEF Used
<1> QED BY <1>1, <1>5, <1>6 DEF Distinct, j

\* What is known of the next child on a way through an all group.
LEMMA NextOnWay ==
  ASSUME MatchInv, Follows, Foregone, model.kind = "all", pos < Len(kids), NEW f, AllWay(f)
  PROVE  LET k == f[pos + 1]
         IN  /\ k \in DOMAIN model.items /\ TakenBy(pos + 1, k)
             /\ \A m \in DOMAIN model.items : TakenBy(pos + 1, m) => m = k
             /\ ~bad /\ ~Over(k) /\ Declared(pos + 1) /\ kids[pos + 1].valid
             /\ ~IsAbstract(pos + 1, Item(k)) \/ ~IsElement(k)
             /\ \A m \in DOMAIN model.items :
                  Given(f, m, pos + 1) = counts[m] + (IF m = k THEN 1 ELSE 0)
<1> DEFINE i == pos + 1
           k == f[i]
<1>1. /\ input \in Inputs /\ pos \in 0..Len(kids) /\ counts \in [DOMAIN model.items -> Nat]
      /\ Len(kids) \in Nat /\ DOMAIN kids = 1..Len(kids)
  <2>1. Kept /\ AllPlaced
    BY DEF MatchInv
  <2>2. input \in Inputs
    BY <2>1 DEF Kept
  <2> QED BY <2>1, <2>2, InputFacts DEF Kept, AllPlaced
<1>2. i \in 1..Len(kids) /\ pos \in Nat
  BY <1>1
<1>3. k \in DOMAIN model.items /\ TakenBy(i, k)
  BY <1>2 DEF AllWay
<1>4. \A m \in DOMAIN model.items : TakenBy(i, m) => m = k
  BY <1>1, <1>2, OneTakes
<1>5. ~bad /\ \A m \in DOMAIN model.items : counts[m] = Given(f, m, pos)
  BY DEF Follows, AtChild
<1>6. Usable(i)
  BY <1>1, <1>2 DEF Foregone, AllUsable
<1>7. ~Over(k)
  <2>1. Item(k).min \in Int /\ Item(k).max \in Int
    BY <1>1, <1>3, ModelFacts
  <2> DEFINE all == Given(f, k, Len(kids))
             now == Given(f, k, pos)
             next == Given(f, k, pos + 1)
  <2>2. all \in Counts(Item(k))
    BY <1>3 DEF AllWay
  <2>3. Item(k).max >= 0 => all <= Item(k).max
    BY <1>1, <2>1, <2>2, CountsBounds
  <2>4. next = now + 1 /\ now \in Nat
    BY <1>2, CountUpto
  <2>5. next <= all /\ all \in Nat
    <3>1. pos + 1 \in 0..Len(kids)
      BY <1>1, <1>2
    <3> QED BY <1>1, <3>1, CountUpto
  <2>6. counts[k] = now
    BY <1>3, <1>5
  <2> HIDE DEF all, now, next, k
  <2> QED BY <2>1, <2>3, <2>4, <2>5, <2>6 DEF Over
<1>8. ~IsAbstract(i, Item(k)) \/ ~IsElement(k)
  <2> SUFFICES ASSUME IsElement(k) PROVE ~IsAbstract(i, Item(k))
    OBVIOUS
  <2>1. Fits(i, Item(k))
    BY <1>3 DEF TakenBy
  <2>2. \A q \in AbstractNames : q[2] # kids[i].local
    BY <1>6 DEF Usable
  <2>3. Name(i)[2] = kids[i].local
    BY DEF Name
  <2> HIDE DEF i, k
  <2> QED BY <2>1, <2>2, <2>3 DEF IsAbstract, IsNamed
<1>9. ASSUME NEW m \in DOMAIN model.items
      PROVE  Given(f, m, pos + 1) = counts[m] + (IF m = k THEN 1 ELSE 0)
  <2>1. Given(f, m, pos + 1) = Given(f, m, pos) + (IF f[pos + 1] = m THEN 1 ELSE 0)
    BY <1>2, CountUpto
  <2> QED BY <1>5, <2>1
<1> QED BY <1>3, <1>4, <1>5, <1>6, <1>7, <1>8, <1>9 DEF Usable

\* A child of an all group that its item takes.
LEMMA FollowsTaken ==
  ASSUME MatchInv, Follows, model.kind = "all", input' = input, pos < Len(kids), pos' = pos + 1,
         Foregone => \A f : AllWay(f) => ~bad' /\ counts' = [counts EXCEPT ![f[pos + 1]] = @ + 1]
  PROVE  Follows'
<1>1. model' = model
  BY SameInput
<1> SUFFICES ASSUME Foregone', NEW f, AllWay(f)' PROVE AtChild(f)'
  BY <1>1 DEF Follows
<1>2. Foregone /\ AllWay(f)
  BY SamePremise, SameWays
<1>3. ~bad' /\ counts' = [counts EXCEPT ![f[pos + 1]] = @ + 1]
  BY <1>2
<1>4. ASSUME NEW m \in DOMAIN model.items PROVE counts'[m] = Given(f, m, pos + 1)
  <2> DEFINE k == f[pos + 1]
  <2>1. k \in DOMAIN model.items /\ Given(f, m, pos + 1) = counts[m] + (IF m = k THEN 1 ELSE 0)
    BY <1>2, NextOnWay
  <2>2. counts \in [DOMAIN model.items -> Nat]
    BY DEF MatchInv, AllPlaced
  <2>3. counts' = [counts EXCEPT ![k] = @ + 1]
    BY <1>3
  <2> HIDE DEF k
  <2>4. CASE m = k
    BY <2>1, <2>2, <2>3, <2>4
  <2>5. CASE m # k
    BY <2>1, <2>2, <2>3, <2>5
  <2> QED BY <2>4, <2>5
<1> QED BY <1>1, <1>3, <1>4 DEF AtChild

\* An element of an all group.
LEMMA FollowsElement ==
  ASSUME MatchInv, Follows, AllElement
  PROVE  Follows'
<1>1. /\ input \in Inputs /\ model.kind = "all" /\ input' = input /\ pos < Len(kids) /\ pos' = pos + 1
  BY DEF MatchInv, Kept, AllElement, AtAllChild, At
<1>2. ASSUME Foregone, NEW f, AllWay(f) PROVE ~bad' /\ counts' = [counts EXCEPT ![f[pos + 1]] = @ + 1]
  <2> DEFINE k == f[pos + 1]
  <2>1. /\ \A m \in DOMAIN model.items : TakenBy(pos + 1, m) => m = k
        /\ ~bad /\ ~Over(k) /\ kids[pos + 1].valid
        /\ ~IsAbstract(pos + 1, Item(k)) \/ ~IsElement(k)
    BY <1>1, <1>2, NextOnWay
  <2>2. PICK j \in Slots :
          IF IsAbstract(pos + 1, Item(j))
          THEN bad' = TRUE /\ UNCHANGED <<counts, validated>>
          ELSE /\ counts' = [counts EXCEPT ![j] = @ + 1]
               /\ bad' = (bad \/ Over(j) \/ ~kids[pos + 1].valid)
               /\ validated' = IF Over(j) THEN validated ELSE validated \cup {pos + 1}
    BY DEF AllElement
  <2>3. j = k /\ IsElement(j)
    <3>1. j \in DOMAIN model.items /\ TakenBy(pos + 1, j)
      BY <1>1, SlotFacts
    <3>2. j \in Named \cup StoodFor
      <4>1. Len(model.items) \in Nat /\ DOMAIN model.items = 1..Len(model.items)
        BY <1>1, ModelFacts
      <4>2. Named \in SUBSET (0..Len(model.items)) /\ StoodFor \in SUBSET Nat
        BY <4>1 DEF Named, StoodFor
      <4>3. Named # {} => Max(Named) \in Named
        BY <4>1, <4>2, MaxOfBounded
      <4>4. StoodFor # {} => Min(StoodFor) \in StoodFor
        BY <4>2, MinOfNaturals
      <4> QED BY <4>3, <4>4 DEF Slots
    <3> QED BY <2>1, <3>1, <3>2 DEF Named, StoodFor
  <2> HIDE DEF k
  <2>4. ~IsAbstract(pos + 1, Item(j))
    BY <2>1, <2>3
  <2> QED BY <2>1, <2>2, <2>3, <2>4 DEF k
<1> QED BY <1>1, <1>2, FollowsTaken

\* A wildcard of an all group.
LEMMA FollowsWildcard ==
  ASSUME MatchInv, Follows, AllWildcard
  PROVE  Follows'
<1>1. /\ input \in Inputs /\ model.kind = "all" /\ input' = input /\ pos < Len(kids) /\ pos' = pos + 1
      /\ Wildcards # {} /\ counts' = [counts EXCEPT ![Min(Wildcards)] = @ + 1]
      /\ bad' = (bad \/ Over(Min(Wildcards)) \/ ~Declared(pos + 1) \/ ~kids[pos + 1].valid)
  BY DEF MatchInv, Kept, AllWildcard, AtAllChild, At
<1>2. ASSUME Foregone, NEW f, AllWay(f) PROVE ~bad' /\ counts' = [counts EXCEPT ![f[pos + 1]] = @ + 1]
  <2> DEFINE k == f[pos + 1]
             j == Min(Wildcards)
  <2>1. /\ \A m \in DOMAIN model.items : TakenBy(pos + 1, m) => m = k
        /\ ~bad /\ ~Over(k) /\ Declared(pos + 1) /\ kids[pos + 1].valid
    BY <1>1, <1>2, NextOnWay
  <2>2. j \in DOMAIN model.items /\ TakenBy(pos + 1, j)
    BY <1>1, SlotFacts
  <2>3. j = k
    BY <2>1, <2>2
  <2> QED BY <1>1, <2>1, <2>3
<1> QED BY <1>1, <1>2, FollowsTaken

\* On a way through an all group no child is unexpected.
LEMMA FollowsUnexpected ==
  ASSUME MatchInv, Follows, AllUnexpected
  PROVE  Follows'
<1>1. /\ input \in Inputs /\ model.kind = "all" /\ input' = input /\ pos < Len(kids) /\ pos' = pos + 1
      /\ Slots = {} /\ Wildcards = {}
  BY DEF MatchInv, Kept, AllUnexpected, AtAllChild, At
<1>2. ASSUME Foregone, NEW f, AllWay(f) PROVE FALSE
  <2> DEFINE k == f[pos + 1]
  <2>1. k \in DOMAIN model.items /\ TakenBy(pos + 1, k)
    BY <1>1, <1>2, NextOnWay
  <2> HIDE DEF k
  <2>2. Named = {} /\ StoodFor = {}
    BY <1>1 DEF Slots
  <2>3. k \in Named \cup StoodFor \cup Wildcards
    BY <2>1 DEF TakenBy, Fits, Named, StoodFor, Wildcards
  <2> QED BY <1>1, <2>2, <2>3
<1> QED BY <1>1, <1>2, FollowsTaken

\* The end of an all group.
LEMMA FollowsAllEnd ==
  ASSUME MatchInv, Follows, AllEnd
  PROVE  Follows'
<1>1. /\ input \in Inputs /\ model.kind = "all" /\ input' = input /\ pos = Len(kids) /\ pos' = pos
      /\ counts' = counts /\ bad' = (bad \/ \E k \in DOMAIN model.items : Short(k))
  BY DEF MatchInv, Kept, AllEnd, At, Return
<1>2. model' = model
  BY <1>1, SameInput
<1> SUFFICES ASSUME Foregone', NEW f, AllWay(f)' PROVE AtChild(f)'
  BY <1>1, <1>2 DEF Follows
<1>3. Foregone /\ AllWay(f)
  BY <1>1, SamePremise, SameWays
<1>4. AtChild(f)
  BY <1>1, <1>3 DEF Follows
<1>5. ASSUME NEW k \in DOMAIN model.items PROVE ~Short(k)
  <2> DEFINE same == {j \in DOMAIN model.items : IsElement(j) /\ Item(j).name[2] = Item(k).name[2]}
  <2>1. /\ Item(k).min \in Int /\ Item(k).max \in Int
        /\ k \in Nat
    BY <1>1, ModelFacts
  <2>2. counts[k] \in Counts(Item(k))
    BY <1>1, <1>3, <1>4 DEF AllWay, AtChild
  <2>3. counts[k] \in Nat /\ counts[k] >= Item(k).min
    BY <1>1, <2>1, <2>2, CountsBounds
  <2>4. ~(counts[k] < Item(k).min)
    BY <2>1, <2>3
  <2>5. CASE IsElement(k)
    <3>1. same = {k}
      BY <1>1, <1>3, <2>5 DEF Foregone, EnforcedOccurs
    <3>2. Max({k}) = k
      <4>1. {k} \in SUBSET (0..k) /\ {k} # {}
        BY <2>1
      <4> QED BY <2>1, <4>1, MaxOfBounded
    <3>3. Short(k) <=> counts[Max(same)] < Item(k).min
      BY <2>5 DEF Short
    <3> HIDE DEF same
    <3> QED BY <2>4, <3>1, <3>2, <3>3
  <2>6. CASE ~IsElement(k)
    <3>1. Short(k) <=> counts[k] < Item(k).min
      BY <2>6 DEF Short
    <3> QED BY <2>4, <3>1
  <2> QED BY <2>5, <2>6
<1>6. ~bad'
  BY <1>1, <1>4, <1>5 DEF AtChild
<1> QED BY <1>1, <1>2, <1>4, <1>6 DEF AtChild
-----------------------------------------------------------------------------

\* Empty content.
LEMMA FollowsEmpty ==
  ASSUME MatchInv, Follows, EmptyContent
  PROVE  Follows'
<1>1. input' = input /\ model.kind = "empty" /\ bad' = (bad \/ kids # <<>>)
  BY DEF EmptyContent, At, Return
<1>2. model' = model /\ kids' = kids /\ (Foregone' <=> Foregone)
  BY <1>1, SameInput, SamePremise
<1> QED BY <1>1, <1>2 DEF Follows

\* A step that changes nothing.
LEMMA FollowsStutter ==
  ASSUME Follows, vars' = vars
  PROVE  Follows'
<1>1. /\ input' = input /\ pos' = pos /\ item' = item /\ iterations' = iterations /\ counts' = counts
      /\ bad' = bad /\ running' = running
  BY DEF vars
<1>2. model' = model /\ kids' = kids
  BY <1>1, SameInput
<1>3. Foregone' <=> Foregone
  BY <1>1, SamePremise
<1>4. /\ \A c : ModelWay(c)' <=> ModelWay(c)
      /\ \A c, n : RepeatedWay(c, n)' <=> RepeatedWay(c, n)
      /\ \A f : AllWay(f)' <=> AllWay(f)
  BY <1>1, SameWays
<1>5. /\ \A c : AtItem(c)' <=> AtItem(c)
      /\ \A c, n : AtRepetition(c, n)' <=> AtRepetition(c, n)
      /\ \A f : AtChild(f)' <=> AtChild(f)
  BY <1>1, <1>2 DEF AtItem, AtRepetition, AtChild
<1> QED BY <1>1, <1>2, <1>3, <1>4, <1>5 DEF Follows

\* The first state is the beginning of every way.
LEMMA FollowsInit ==
  ASSUME Init
  PROVE  Follows
<1>1. /\ input \in Inputs /\ pos = 0 /\ item = 1 /\ iterations = 0 /\ bad = FALSE /\ running = TRUE
      /\ counts = [k \in DOMAIN model.items |-> 0]
  BY DEF Init
<1>2. \A c : ModelWay(c) => AtItem(c)
  BY <1>1 DEF ModelWay, AtItem
<1>3. ASSUME NEW c, NEW n, RepeatedWay(c, n) PROVE AtRepetition(c, n)
  <2>1. model.min \in Int /\ model.max \in Int
    BY <1>1, ModelFacts
  <2>2. n \in Nat
    BY <1>1, <1>3, <2>1, CountsBounds DEF RepeatedWay
  <2> QED BY <1>1, <1>3, <2>2 DEF RepeatedWay, AtRepetition
<1>4. ASSUME NEW f PROVE AtChild(f)
  <2>1. \A k : {i \in 1..0 : f[i] = k} = {}
    OBVIOUS
  <2> QED BY <1>1, <2>1, FS_EmptySet DEF AtChild, Given
<1> QED BY <1>1, <1>2, <1>3, <1>4 DEF Follows

\* Where no choice is open, the loop is, after every step and on every way in
\* which the model admits the children, where the way is.
THEOREM FollowsEveryWay == Spec => []Follows
<1>1. Init => Follows
  BY FollowsInit
<1>2. ASSUME MatchInv, Follows, [Next]_vars PROVE Follows'
  <2>1. CASE EmptyContent
    BY <1>2, <2>1, FollowsEmpty
  <2>2. CASE SequenceItem
    BY <1>2, <2>2, FollowsItem
  <2>3. CASE SequenceEnd
    BY <1>2, <2>3, FollowsSequenceEnd
  <2>4. CASE ChoiceEmpty \/ ChoiceEnd
    BY <1>2, <2>4, FollowsChoiceEnd
  <2>5. CASE ChoiceItem \/ ChoiceNoMatch
    BY <1>2, <2>5, FollowsChoiceItem
  <2>6. CASE AllElement
    BY <1>2, <2>6, FollowsElement
  <2>7. CASE AllWildcard
    BY <1>2, <2>7, FollowsWildcard
  <2>8. CASE AllUnexpected
    BY <1>2, <2>8, FollowsUnexpected
  <2>9. CASE AllEnd
    BY <1>2, <2>9, FollowsAllEnd
  <2>10. CASE vars' = vars
    BY <1>2, <2>10, FollowsStutter
  <2>11. CASE Done
    BY <2>10, <2>11 DEF Done, vars
  <2> QED BY <1>2, <2>1, <2>2, <2>3, <2>4, <2>5, <2>6, <2>7, <2>8, <2>9, <2>10, <2>11 DEF Next, Step
<1> QED BY <1>1, <1>2, MatchInvariant, PTL DEF Spec

\* What the model admits there is a way for.
LEMMA AdmittedWay ==
  ASSUME input \in Inputs, Foregone, Admitted, model.kind # "empty"
  PROVE  /\ model.kind = "sequence" => \E c : ModelWay(c)
         /\ model.kind = "choice" => \E c, n : RepeatedWay(c, n)
         /\ model.kind = "all" => \E f : AllWay(f)
<1> DEFINE once == Once(Ends, model)
<1>1. /\ Top \in DOMAIN particles /\ model = particles[Top] /\ 1 \in Positions
      /\ model.min \in Int /\ model.max \in Int /\ once \in Landings
  BY ForegoneFacts, ModelFacts, ModelOnce
<1>2. ASSUME model.kind \in {"sequence", "choice"}
      PROVE  \E n \in Counts(model) : n \in Nat /\ Len(kids) + 1 \in Times(once, 1, n)
  <2>1. Len(kids) + 1 \in Ends[Top][1]
    BY <1>2 DEF Admitted, Top
  <2>2. Ends[Top][1] = UNION {Times(once, 1, n) : n \in Counts(model)}
    BY <1>1, EndsUnfolds
  <2> HIDE DEF once
  <2>3. PICK n \in Counts(model) : Len(kids) + 1 \in Times(once, 1, n)
    BY <2>1, <2>2
  <2> QED BY <1>1, <2>3, CountsType
<1>3. ASSUME model.kind = "sequence" PROVE \E c : ModelWay(c)
  <2> DEFINE items == model.items
             N == Len(items)
  <2>1. PICK n \in Counts(model) : n \in Nat /\ Len(kids) + 1 \in Times(once, 1, n)
    BY <1>2, <1>3
  <2>2. n = 1
    <3>1. model.min = 1 /\ model.max = 1
      BY <1>3 DEF Foregone, EnforcedOccurs
    <3>2. n >= 1 /\ n <= 1
      BY <1>1, <2>1, <3>1, CountsBounds
    <3> QED BY <2>1, <3>2
  <2>3. Times(once, 1, 1) = once[1]
    <3> HIDE DEF once
    <3>1. Times(once, 1, 0) = {1} /\ Times(once, 1, 0 + 1) = UNION {once[j] : j \in Times(once, 1, 0)}
      <4>1. 0 \in Nat
        OBVIOUS
      <4> QED BY <1>1, <4>1, TimesUnfolds
    <3>2. 0 + 1 = 1
      OBVIOUS
    <3>3. Times(once, 1, 1) = UNION {once[j] : j \in {1}}
      BY <3>1, <3>2
    <3>4. {once[j] : j \in {1}} = {once[1]}
      OBVIOUS
    <3>5. UNION {once[1]} = once[1]
      OBVIOUS
    <3> QED BY <3>3, <3>4, <3>5
  <2>4. once[1] = Chained(Ends, items, 1)[N]
    BY <1>1, <1>3 DEF Once
  <2>5. /\ N \in Nat /\ DOMAIN items = 1..N
        /\ \A m \in 1..N : Ends[items[m]] \in Landings
    BY ModelFacts, EndsUnfolds
  <2> HIDE DEF once, items, N
  <2>6. Len(kids) + 1 \in Chained(Ends, items, 1)[N]
    BY <2>1, <2>2, <2>3, <2>4
  <2>7. /\ Len(items) \in Nat /\ DOMAIN items = 1..Len(items) /\ 1 \in Positions
        /\ \A m \in 1..Len(items) : Ends[items[m]] \in Landings
        /\ Len(kids) + 1 \in Chained(Ends, items, 1)[Len(items)]
    BY <1>1, <2>5, <2>6 DEF N
  <2>8. \E c : c[0] = 1 /\ c[Len(items)] = Len(kids) + 1 /\ Way(c, ItemEnds(items), Len(items))
    <3> DEFINE x == Len(kids) + 1
    <3>1. x \in Chained(Ends, items, 1)[Len(items)]
      BY <2>7
    <3> HIDE DEF x
    <3>2. \E c : c[0] = 1 /\ c[Len(items)] = x /\ Way(c, ItemEnds(items), Len(items))
      BY <2>7, <3>1, ChainedWay
    <3> QED BY <3>2 DEF x
  <2> QED BY <1>1, <2>8 DEF ModelWay, SequenceWay, items
<1>4. ASSUME model.kind = "choice" PROVE \E c, n : RepeatedWay(c, n)
  <2>1. PICK n \in Counts(model) : n \in Nat /\ Len(kids) + 1 \in Times(once, 1, n)
    BY <1>2, <1>4
  <2> HIDE DEF once
  <2>2. \E c : c[0] = 1 /\ c[n] = Len(kids) + 1 /\ Way(c, [m \in 1..n |-> once], n)
    BY <1>1, <2>1, TimesWay
  <2> QED BY <2>1, <2>2 DEF RepeatedWay, once
<1>5. ASSUME model.kind = "all" PROVE \E f : AllWay(f)
  BY <1>5 DEF Admitted, AllTakes, AllWay, TakenBy, Given, IsElement, Item
<1> QED BY <1>3, <1>4, <1>5

\* Where no choice is open, nothing that the content model admits is rejected:
\* however the branches and repetitions of a model are nested, a particle
\* matches exactly what the definition gives it; all groups inside other groups
\* excepted.
THEOREM AdmittedIsAccepted == Spec => []Complete
<1>1. MatchInv /\ Follows => Complete
  <2> SUFFICES ASSUME MatchInv, Follows, Foregone, Admitted PROVE ~bad
    <3>1. (\A i \in 1..Len(kids) : Usable(i)) /\ MatchInv => AllUsable
      BY InputFacts DEF MatchInv, Kept, AllUsable
    <3> QED BY <3>1 DEF Complete, Foregone
  <2>1. input \in Inputs /\ model.kind \in {"sequence", "choice", "all", "empty"}
    BY ModelFacts DEF MatchInv, Kept
  <2>2. CASE model.kind = "empty"
    BY <2>2 DEF Admitted, Follows
  <2>3. CASE model.kind = "sequence"
    BY <2>1, <2>3, AdmittedWay DEF Follows, AtItem
  <2>4. CASE model.kind = "choice"
    BY <2>1, <2>4, AdmittedWay DEF Follows, AtRepetition
  <2>5. CASE model.kind = "all"
    BY <2>1, <2>5, AdmittedWay DEF Follows, AtChild
  <2> QED BY <2>1, <2>2, <2>3, <2>4, <2>5
<1> QED BY <1>1, MatchInvariant, FollowsEveryWay, PTL
=============================================================================
