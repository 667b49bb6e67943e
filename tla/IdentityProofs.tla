--------------------------- MODULE IdentityProofs ---------------------------
(***************************************************************************)
(* Proofs about Identity, for every document, every set of constraints and *)
(* every precision: an accepted document keeps its keys and its keyrefs,   *)
(* and a rejected one breaks a constraint.                                 *)
(*                                                                         *)
(* Three things have to be known before the walk is looked at.  Joining    *)
(* keys with NUL is one-to-one where no key holds a NUL, so equal tuples   *)
(* are equal values.  What a path selects is a set of nodes, and a field   *)
(* counts each of them once where its alternatives select different ones.  *)
(* And the nearest element that has a key is the element itself or that of *)
(* its parent, which is how the stack of scopes grows.  The functions that *)
(* recurse (Joined, Below, Select) are unfolded by RecursiveFunction.      *)
(***************************************************************************)
EXTENDS Identity, WellFoundedInduction, SequenceTheorems, TLAPS

\* A set of natural numbers that is not empty has a least member.
LEMMA LeastNatural ==
  ASSUME NEW S \in SUBSET Nat, S # {}
  PROVE  \E j \in S : \A i \in S : j <= i
<1> DEFINE R == {ss \in Nat \X Nat : ss[1] < ss[2]}
<1>1. IsWellFoundedOn(R, Nat)
  BY NatLessThanWellFounded, Zenon DEF OpToRel
<1>2. PICK x \in S : \A y \in S : ~(<<y, x>> \in R)
  <2> HIDE DEF R
  <2> QED BY <1>1, WFMin
<1>3. \A y \in S : ~(y < x)
  BY <1>2
<1> QED BY <1>3

\* F makes the value at i of those before i.
MadeOfEarlier(F, n, S) ==
  /\ F \in [[0..n -> S] \X (0..n) -> S]
  /\ \A f, g \in [0..n -> S] : \A i \in 0..n :
       (\A j \in 0..(i - 1) : f[j] = g[j]) => F[<<f, i>>] = F[<<g, i>>]

MadeBy(F, n, S) == {f \in [0..n -> S] : \A i \in 0..n : f[i] = F[<<f, i>>]}

\* A function on 0..n whose values are made of those before them exists.
LEMMA RecursiveFunction ==
  ASSUME NEW S, S # {}, NEW n \in Nat, NEW F, MadeOfEarlier(F, n, S)
  PROVE  MadeBy(F, n, S) # {}
<1> DEFINE Partial(m) == {g \in [0..n -> S] : \A i \in 0..(m - 1) : g[i] = F[<<g, i>>]}
           bad == {m \in 0..(n + 1) : Partial(m) = {}}
<1>1. bad = {}
  <2> HIDE DEF Partial
  <2> SUFFICES ASSUME bad # {} PROVE FALSE
    OBVIOUS
  <2>1. PICK m \in bad : \A i \in bad : m <= i
    <3>1. bad \in SUBSET Nat
      OBVIOUS
    <3> HIDE DEF bad
    <3> QED BY <3>1, LeastNatural
  <2>2. m \in 0..(n + 1) /\ Partial(m) = {}
    OBVIOUS
  <2>3. CASE m = 0
    <3>1. PICK x : x \in S
      OBVIOUS
    <3> DEFINE g == [i \in 0..n |-> x]
    <3>2. g \in [0..n -> S] /\ \A i \in 0..(m - 1) : FALSE
      BY <2>3, <3>1
    <3> HIDE DEF g
    <3>3. g \in Partial(m)
      BY <3>2 DEF Partial
    <3> QED BY <2>2, <3>3
  <2>4. CASE m # 0
    <3>1. m - 1 \in 0..n /\ m - 1 \in 0..(n + 1) /\ ~(m <= m - 1)
      BY <2>2, <2>4
    <3>2. Partial(m - 1) # {}
      <4>1. m - 1 \notin bad
        <5> HIDE DEF bad
        <5> QED BY <2>1, <3>1
      <4> QED BY <3>1, <4>1
    <3>3. PICK g : g \in Partial(m - 1)
      BY <3>2
    <3>4. g \in [0..n -> S] /\ \A i \in 0..((m - 1) - 1) : g[i] = F[<<g, i>>]
      BY <3>3 DEF Partial
    <3>5. F[<<g, m - 1>>] \in S
      BY <3>1, <3>4 DEF MadeOfEarlier
    <3> DEFINE h == [g EXCEPT ![m - 1] = F[<<g, m - 1>>]]
    <3>6. /\ h \in [0..n -> S] /\ h[m - 1] = F[<<g, m - 1>>]
          /\ \A i \in 0..n : i # m - 1 => h[i] = g[i]
      BY <3>1, <3>4, <3>5
    <3> HIDE DEF h
    <3>7. ASSUME NEW i \in 0..(m - 1) PROVE h[i] = F[<<h, i>>]
      <4>1. i \in 0..n /\ \A j \in 0..(i - 1) : j \in 0..n /\ j # m - 1
        BY <3>1
      <4>2. F[<<h, i>>] = F[<<g, i>>]
        BY <3>4, <3>6, <4>1, ZenonT(60) DEF MadeOfEarlier
      <4>3. CASE i = m - 1
        BY <3>6, <4>2, <4>3
      <4>4. CASE i # m - 1
        <5>1. i \in 0..((m - 1) - 1)
          BY <3>1, <4>4
        <5> QED BY <3>4, <3>6, <4>1, <4>2, <4>4, <5>1
      <4> QED BY <4>3, <4>4
    <3>8. h \in Partial(m)
      BY <3>6, <3>7 DEF Partial
    <3> QED BY <2>2, <3>8
  <2> QED BY <2>3, <2>4
<1>2. n + 1 \in 0..(n + 1) /\ \A i \in 0..n : i \in 0..((n + 1) - 1)
  OBVIOUS
<1>3. Partial(n + 1) # {}
  <2> HIDE DEF Partial
  <2> QED BY <1>1, <1>2
<1>4. PICK f : f \in Partial(n + 1)
  BY <1>3
<1> QED BY <1>2, <1>4 DEF MadeBy

\* What is joined after each of the keys.
Upto(keys) ==
  CHOOSE f : f = [i \in 0..Len(keys) |->
                    IF i = 0 THEN <<>>
                    ELSE (IF i = 1 THEN <<>> ELSE Append(f[i - 1], NUL)) \o keys[i]]

\* What Joined builds, prefix by prefix.
LEMMA JoinedIsLast == ASSUME NEW keys PROVE Joined(keys) = Upto(keys)[Len(keys)]
BY Zenon DEF Joined, Upto

\* One more key: NUL and the key are appended to what was joined.
LEMMA UptoUnfolds ==
  ASSUME NEW C, NUL \in C, NEW keys \in Seq(Seq(C)), NEW n \in 0..Len(keys)
  PROVE  /\ Upto(keys)[n] \in Seq(C)
         /\ Upto(keys)[n] = IF n = 0 THEN <<>>
                            ELSE (IF n = 1 THEN <<>> ELSE Append(Upto(keys)[n - 1], NUL)) \o keys[n]
<1> DEFINE S == Seq(C)
           N == Len(keys)
           Body(f, i) == IF i = 0 THEN <<>>
                         ELSE (IF i = 1 THEN <<>> ELSE Append(f[i - 1], NUL)) \o keys[i]
           F == [fi \in [0..N -> S] \X (0..N) |-> Body(fi[1], fi[2])]
<1>1. N \in Nat /\ S # {} /\ \A i \in 1..N : keys[i] \in S
  OBVIOUS
<1>2. ASSUME NEW f \in [0..N -> S], NEW i \in 0..N PROVE Body(f, i) \in S
  <2> HIDE DEF S
  <2>1. i # 0 => i - 1 \in 0..N /\ i \in 1..N
    BY <1>1
  <2>2. i # 0 => f[i - 1] \in S /\ keys[i] \in S
    BY <1>1, <2>1
  <2> QED BY <2>2 DEF S
<1>3. \A f, g \in [0..N -> S] : \A i \in 0..N :
         (\A j \in 0..(i - 1) : f[j] = g[j]) => Body(f, i) = Body(g, i)
  <2> TAKE f, g \in [0..N -> S]
  <2> TAKE i \in 0..N
  <2>1. i # 0 => i - 1 \in 0..(i - 1)
    BY <1>1
  <2> QED BY <2>1
<1>4. /\ F \in [[0..N -> S] \X (0..N) -> S]
      /\ \A f \in [0..N -> S] : \A i \in 0..N : F[<<f, i>>] = Body(f, i)
  <2> HIDE DEF Body
  <2> QED BY <1>2
<1>5. PICK f \in [0..N -> S] : \A i \in 0..N : f[i] = F[<<f, i>>]
  <2>1. \A f, g \in [0..N -> S] : \A i \in 0..N :
           (\A j \in 0..(i - 1) : f[j] = g[j]) => F[<<f, i>>] = F[<<g, i>>]
    <3> HIDE DEF F, S, N, Body
    <3> TAKE f, g \in [0..N -> S]
    <3> TAKE i \in 0..N
    <3> HAVE \A j \in 0..(i - 1) : f[j] = g[j]
    <3>1. Body(f, i) = Body(g, i)
      BY <1>3
    <3> QED BY <1>4, <3>1
  <2> HIDE DEF F, S, N, Body
  <2>2. MadeOfEarlier(F, N, S)
    BY <1>4, <2>1 DEF MadeOfEarlier
  <2>3. S # {} /\ N \in Nat
    BY <1>1
  <2>4. MadeBy(F, N, S) # {}
    BY <2>2, <2>3, RecursiveFunction
  <2> QED BY <2>4 DEF MadeBy
<1>6. f = [i \in 0..N |-> Body(f, i)]
  <2> HIDE DEF F, Body
  <2> QED BY <1>4, <1>5
<1>7. Upto(keys) = [i \in 0..N |-> Body(Upto(keys), i)]
  BY <1>6 DEF Upto
<1>8. Upto(keys)[n] = Body(Upto(keys), n)
  <2> HIDE DEF Body
  <2> QED BY <1>7
<1> DEFINE wrong == {i \in 0..Len(keys) : Upto(keys)[i] \notin Seq(C)}
<1>9. wrong = {}
  <2> SUFFICES ASSUME wrong # {} PROVE FALSE
    OBVIOUS
  <2>1. PICK m \in wrong : \A i \in wrong : m <= i
    <3>1. wrong \in SUBSET Nat
      OBVIOUS
    <3> HIDE DEF wrong
    <3> QED BY <3>1, LeastNatural
  <2>2. m \in 0..Len(keys) /\ Upto(keys)[m] \notin Seq(C)
    OBVIOUS
  <2>3. \A i \in 0..(m - 1) : Upto(keys)[i] \in Seq(C)
    BY <2>1
  <2>4. Upto(keys)[m] = Body(Upto(keys), m)
    <3> HIDE DEF Body, wrong
    <3> QED BY <1>7, <2>2
  <2>5. m = 0 => Upto(keys)[m] \in Seq(C)
    BY <2>4
  <2>6. m # 0 => Upto(keys)[m - 1] \in Seq(C)
    BY <1>1, <2>2, <2>3
  <2>7. m # 0 => Upto(keys)[m] \in Seq(C)
    <3> HIDE DEF wrong
    <3>1. SUFFICES ASSUME m # 0 PROVE Upto(keys)[m] \in Seq(C)
      OBVIOUS
    <3>2. Upto(keys)[m - 1] \in Seq(C)
      BY <2>6, <3>1
    <3> QED BY <1>2, <2>2, <2>4, <3>2
  <2> QED BY <2>2, <2>5, <2>7
<1> QED BY <1>8, <1>9

\* Where the n-th key begins in what is joined.
Offset(keys, n) == IF n = 1 THEN 0 ELSE Len(Upto(keys)[n - 1]) + 1

\* Where the n-th key stands in what is joined, and NUL before it.
LEMMA UptoStep ==
  ASSUME NEW C, NUL \in C, NEW keys \in Seq(Seq(C)), NEW n \in 1..Len(keys)
  PROVE  /\ Upto(keys)[n] \in Seq(C) /\ Len(Upto(keys)[n]) \in Nat
         /\ Upto(keys)[n - 1] \in Seq(C) /\ Len(Upto(keys)[n - 1]) \in Nat
         /\ Offset(keys, n) \in Nat /\ Len(keys[n]) \in Nat
         /\ Len(Upto(keys)[n]) = Offset(keys, n) + Len(keys[n])
         /\ \A p \in 1..Len(keys[n]) : Upto(keys)[n][Offset(keys, n) + p] = keys[n][p]
         /\ n # 1 => Upto(keys)[n][Offset(keys, n)] = NUL
         /\ \A p \in 1..Len(Upto(keys)[n - 1]) : Upto(keys)[n][p] = Upto(keys)[n - 1][p]
<1> DEFINE u == Upto(keys)[n]
           v == Upto(keys)[n - 1]
           key == keys[n]
<1>1. n \in 0..Len(keys) /\ n - 1 \in 0..Len(keys) /\ n # 0 /\ Len(keys) \in Nat
  OBVIOUS
<1>2. key \in Seq(C) /\ Len(key) \in Nat
  OBVIOUS
<1>3. u \in Seq(C) /\ v \in Seq(C) /\ u = (IF n = 1 THEN <<>> ELSE Append(v, NUL)) \o key
  BY <1>1, UptoUnfolds
<1>4. n = 1 => v = <<>>
  BY <1>1, UptoUnfolds
<1> DEFINE o == Offset(keys, n)
<1>5. o = IF n = 1 THEN 0 ELSE Len(v) + 1
  BY DEF Offset
<1> HIDE DEF u, v, key, o
<1>6. Len(v) \in Nat /\ Len(u) \in Nat /\ o \in Nat
  BY <1>3, <1>5
<1>7. CASE n = 1
  <2>1. u = key /\ v = <<>> /\ o = 0
    BY <1>2, <1>3, <1>4, <1>5, <1>7
  <2>2. /\ Len(u) = o + Len(key)
        /\ \A p \in 1..Len(key) : u[o + p] = key[p]
        /\ \A p \in 1..Len(v) : u[p] = v[p]
    BY <1>2, <2>1
  <2> QED BY <1>2, <1>3, <1>6, <1>7, <2>2 DEF u, v, key, o
<1>8. CASE n # 1
  <2> DEFINE w == Append(v, NUL)
  <2>1. /\ w \in Seq(C) /\ Len(w) = o /\ w[o] = NUL
        /\ \A p \in 1..Len(v) : w[p] = v[p]
    BY <1>3, <1>5, <1>6, <1>8
  <2>2. u = w \o key /\ o = Len(v) + 1
    BY <1>3, <1>5, <1>8
  <2> HIDE DEF w
  <2>a. \A p \in 1..Len(key) : u[o + p] = key[p]
    BY <1>2, <1>6, <2>1, <2>2, SMTT(30)
  <2>b. \A p \in 1..o : u[p] = w[p]
    BY <1>2, <1>6, <2>1, <2>2
  <2>3. /\ Len(u) = o + Len(key)
        /\ \A p \in 1..Len(key) : u[o + p] = key[p]
        /\ \A p \in 1..o : u[p] = w[p]
    <3>1. Len(w \o key) = Len(w) + Len(key)
      <4>1. w \in Seq(C) /\ key \in Seq(C)
        BY <1>2, <2>1
      <4> QED BY <4>1, ConcatProperties
    <3> QED BY <2>1, <2>2, <2>a, <2>b, <3>1
  <2>4. o \in 1..o /\ \A p \in 1..Len(v) : p \in 1..o
    BY <1>6, <2>2
  <2>5. u[o] = NUL /\ \A p \in 1..Len(v) : u[p] = v[p]
    BY <2>1, <2>3, <2>4
  <2> QED BY <1>2, <1>3, <1>6, <2>3, <2>5 DEF u, v, key, o
<1> QED BY <1>7, <1>8

\* What is joined early stays at the front.
LEMMA UptoPrefix ==
  ASSUME NEW C, NUL \in C, NEW keys \in Seq(Seq(C)), NEW n \in 0..Len(keys), NEW m \in n..Len(keys)
  PROVE  /\ Upto(keys)[n] \in Seq(C) /\ Upto(keys)[m] \in Seq(C)
         /\ Len(Upto(keys)[n]) <= Len(Upto(keys)[m])
         /\ \A p \in 1..Len(Upto(keys)[n]) : Upto(keys)[m][p] = Upto(keys)[n][p]
<1> DEFINE U(i) == Upto(keys)[i]
           Stays(i) == Len(U(n)) <= Len(U(i)) /\ \A p \in 1..Len(U(n)) : U(i)[p] = U(n)[p]
           bad == {i \in n..Len(keys) : ~Stays(i)}
<1>1. Len(keys) \in Nat /\ n \in Nat /\ m \in 0..Len(keys)
  OBVIOUS
<1>2. \A i \in 0..Len(keys) : U(i) \in Seq(C) /\ Len(U(i)) \in Nat
  BY UptoUnfolds
<1>3. bad = {}
  <2> SUFFICES ASSUME bad # {} PROVE FALSE
    OBVIOUS
  <2>1. bad \in SUBSET Nat
    BY <1>1
  <2>2. PICK i \in bad : \A j \in bad : i <= j
    <3> HIDE DEF bad
    <3> QED BY <2>1, LeastNatural
  <2>3. i \in n..Len(keys) /\ ~Stays(i)
    OBVIOUS
  <2> HIDE DEF Stays
  <2>4. i # n
    <3>1. Stays(n)
      BY <1>1, <1>2 DEF Stays
    <3> QED BY <2>3, <3>1
  <2>5. i - 1 \in n..Len(keys) /\ i \in 1..Len(keys) /\ ~(i <= i - 1)
    BY <1>1, <2>3, <2>4
  <2>6. Stays(i - 1)
    BY <2>2, <2>5
  <2>7. /\ \A p \in 1..Len(U(i - 1)) : U(i)[p] = U(i - 1)[p]
        /\ Len(U(i)) = Offset(keys, i) + Len(keys[i])
        /\ Len(keys[i]) \in Nat /\ Len(U(i - 1)) \in Nat
        /\ i # 1 => Offset(keys, i) = Len(U(i - 1)) + 1
        /\ i = 1 => Offset(keys, i) = 0
    <3>1. /\ \A p \in 1..Len(U(i - 1)) : U(i)[p] = U(i - 1)[p]
          /\ Len(U(i)) = Offset(keys, i) + Len(keys[i])
          /\ Len(keys[i]) \in Nat /\ Len(U(i - 1)) \in Nat
      BY <2>5, UptoStep
    <3>2. /\ i # 1 => Offset(keys, i) = Len(U(i - 1)) + 1
          /\ i = 1 => Offset(keys, i) = 0
      BY DEF Offset
    <3> QED BY <3>1, <3>2
  <2>8. i = 1 => Len(U(i - 1)) = 0
    BY <2>5, UptoUnfolds
  <2>9. Len(U(i - 1)) <= Len(U(i))
    BY <2>5, <2>7, <2>8, SMTT(30)
  <2>10. Len(U(n)) \in Nat /\ Len(U(i - 1)) \in Nat /\ Len(U(i)) \in Nat
    BY <1>1, <1>2, <2>3, <2>7
  <2>11. Stays(i)
    <3> HIDE DEF U
    <3>1. Len(U(n)) <= Len(U(i - 1)) /\ \A p \in 1..Len(U(n)) : U(i - 1)[p] = U(n)[p]
      BY <2>6 DEF Stays
    <3>2. Len(U(n)) <= Len(U(i))
      BY <2>9, <2>10, <3>1
    <3>3. ASSUME NEW p \in 1..Len(U(n)) PROVE U(i)[p] = U(n)[p]
      <4>1. p \in 1..Len(U(i - 1))
        BY <2>10, <3>1
      <4> QED BY <2>7, <3>1, <4>1
    <3> QED BY <3>2, <3>3 DEF Stays
  <2> QED BY <2>3, <2>11
<1>4. Stays(m)
  BY <1>3
<1> QED BY <1>1, <1>2, <1>4

\* What is joined depends on the keys alone.
LEMMA UptoAgree ==
  ASSUME NEW C, NUL \in C, NEW a \in Seq(Seq(C)), NEW b \in Seq(Seq(C)),
         NEW n \in 0..Len(a), n \in 0..Len(b), \A i \in 1..n : a[i] = b[i]
  PROVE  Upto(a)[n] = Upto(b)[n]
<1> DEFINE bad == {i \in 0..n : Upto(a)[i] # Upto(b)[i]}
<1>1. Len(a) \in Nat /\ Len(b) \in Nat /\ n \in Nat
  OBVIOUS
<1>2. bad = {}
  <2> SUFFICES ASSUME bad # {} PROVE FALSE
    OBVIOUS
  <2>1. bad \in SUBSET Nat
    BY <1>1
  <2>2. PICK i \in bad : \A j \in bad : i <= j
    <3> HIDE DEF bad
    <3> QED BY <2>1, LeastNatural
  <2>3. i \in 0..Len(a) /\ i \in 0..Len(b) /\ i \in 0..n /\ Upto(a)[i] # Upto(b)[i]
    BY <1>1
  <2>4. i # 0 => i - 1 \in 0..n /\ ~(i <= i - 1) /\ a[i] = b[i]
    BY <1>1, <2>3
  <2>5. i # 0 => Upto(a)[i - 1] = Upto(b)[i - 1]
    BY <2>2, <2>4
  <2>6. /\ Upto(a)[i] = IF i = 0 THEN <<>>
                        ELSE (IF i = 1 THEN <<>> ELSE Append(Upto(a)[i - 1], NUL)) \o a[i]
        /\ Upto(b)[i] = IF i = 0 THEN <<>>
                        ELSE (IF i = 1 THEN <<>> ELSE Append(Upto(b)[i - 1], NUL)) \o b[i]
    BY <2>3, UptoUnfolds
  <2> QED BY <2>3, <2>4, <2>5, <2>6
<1> QED BY <1>1, <1>2

\* Keys of which none is another followed by U+0000.
ApartAtNUL(K) == \A x, y \in K :
  x # y /\ Len(x) <= Len(y) =>
    (\E p \in 1..Len(x) : x[p] # y[p]) \/ (Len(x) < Len(y) /\ y[Len(x) + 1] # NUL)

\* The first key that differs, were there one.
LEMMA NoFirstDifference ==
  ASSUME NEW C, NUL \in C, NEW K \in SUBSET Seq(C), ApartAtNUL(K),
         NEW a \in Seq(K), NEW b \in Seq(K), Joined(a) = Joined(b),
         NEW n \in 1..Len(a), n \in 1..Len(b), \A i \in 1..(n - 1) : a[i] = b[i],
         Len(a[n]) <= Len(b[n])
  PROVE  a[n] = b[n]
<1> SUFFICES ASSUME a[n] # b[n] PROVE FALSE
  OBVIOUS
<1>1. a \in Seq(Seq(C)) /\ b \in Seq(Seq(C)) /\ Len(a) \in Nat /\ Len(b) \in Nat
  OBVIOUS
<1>2. a[n] \in K /\ b[n] \in K /\ Len(a[n]) \in Nat /\ Len(b[n]) \in Nat
  OBVIOUS
<1> DEFINE s == Joined(a)
           o == Offset(a, n)
<1>3. n - 1 \in 0..Len(a) /\ n - 1 \in 0..Len(b) /\ n \in 0..Len(a) /\ n \in 0..Len(b)
  BY <1>1
<1>4. Upto(a)[n - 1] = Upto(b)[n - 1] /\ Offset(b, n) = o
  BY <1>1, <1>3, UptoAgree DEF Offset
<1>5. s = Upto(a)[Len(a)] /\ s = Upto(b)[Len(b)]
  BY JoinedIsLast
<1>6. /\ o \in Nat
      /\ Len(Upto(a)[n]) = o + Len(a[n]) /\ Len(Upto(b)[n]) = o + Len(b[n])
      /\ \A p \in 1..Len(a[n]) : Upto(a)[n][o + p] = a[n][p]
      /\ \A p \in 1..Len(b[n]) : Upto(b)[n][o + p] = b[n][p]
  <2>1. /\ o \in Nat /\ Len(Upto(a)[n]) = o + Len(a[n])
        /\ \A p \in 1..Len(a[n]) : Upto(a)[n][o + p] = a[n][p]
    BY <1>1, UptoStep
  <2>2. /\ Len(Upto(b)[n]) = Offset(b, n) + Len(b[n])
        /\ \A p \in 1..Len(b[n]) : Upto(b)[n][Offset(b, n) + p] = b[n][p]
    <3>1. n \in 1..Len(b) /\ b \in Seq(Seq(C))
      BY <1>1
    <3> HIDE DEF s, o
    <3> QED BY <3>1, UptoStep
  <2> HIDE DEF o
  <2> QED BY <1>4, <2>1, <2>2
<1>7. /\ Len(Upto(a)[n]) <= Len(s) /\ Len(Upto(b)[n]) <= Len(s)
      /\ \A p \in 1..Len(Upto(a)[n]) : s[p] = Upto(a)[n][p]
      /\ \A p \in 1..Len(Upto(b)[n]) : s[p] = Upto(b)[n][p]
  <2>1. Len(a) \in n..Len(a) /\ Len(b) \in n..Len(b)
    BY <1>1
  <2>2. /\ Len(Upto(a)[n]) <= Len(Upto(a)[Len(a)])
        /\ \A p \in 1..Len(Upto(a)[n]) : Upto(a)[Len(a)][p] = Upto(a)[n][p]
    BY <1>1, <1>3, <2>1, UptoPrefix
  <2>3. /\ Len(Upto(b)[n]) <= Len(Upto(b)[Len(b)])
        /\ \A p \in 1..Len(Upto(b)[n]) : Upto(b)[Len(b)][p] = Upto(b)[n][p]
    BY <1>1, <1>3, <2>1, UptoPrefix
  <2> HIDE DEF s
  <2> QED BY <1>5, <2>2, <2>3
<1> HIDE DEF s, o
<1>8. \A p \in 1..Len(a[n]) : s[o + p] = a[n][p]
  <2> TAKE p \in 1..Len(a[n])
  <2>1. o + p \in 1..Len(Upto(a)[n])
    BY <1>2, <1>6
  <2> QED BY <1>6, <1>7, <2>1
<1>9. \A p \in 1..Len(b[n]) : s[o + p] = b[n][p]
  <2> TAKE p \in 1..Len(b[n])
  <2>1. o + p \in 1..Len(Upto(b)[n])
    BY <1>2, <1>6
  <2> QED BY <1>6, <1>7, <2>1
<1>10. Len(a[n]) < Len(b[n]) /\ b[n][Len(a[n]) + 1] # NUL
  <2>1. \A p \in 1..Len(a[n]) : a[n][p] = b[n][p]
    <3>1. \A p \in 1..Len(a[n]) : p \in 1..Len(b[n])
      BY <1>2
    <3> QED BY <1>8, <1>9, <3>1
  <2> QED BY <1>2, <2>1 DEF ApartAtNUL
<1>11. s[o + Len(a[n]) + 1] # NUL /\ o + Len(a[n]) + 1 <= Len(s)
  <2>1. Len(a[n]) + 1 \in 1..Len(b[n]) /\ o + (Len(a[n]) + 1) = o + Len(a[n]) + 1
    BY <1>2, <1>6, <1>10, SMTT(30)
  <2>2. s[o + (Len(a[n]) + 1)] = b[n][Len(a[n]) + 1]
    BY <1>9, <2>1
  <2>3. Len(s) \in Nat
    BY <1>1, <1>5, UptoUnfolds
  <2>4. o + Len(b[n]) <= Len(s) /\ Len(a[n]) < Len(b[n])
    BY <1>6, <1>7, <1>10
  <2>5. o + Len(a[n]) + 1 <= Len(s)
    BY <1>2, <1>6, <2>3, <2>4, SMTT(30)
  <2> QED BY <1>10, <2>1, <2>2, <2>5
<1>12. CASE n = Len(a)
  <2>1. Len(s) = o + Len(a[n])
    BY <1>5, <1>6, <1>12
  <2> QED BY <1>2, <1>6, <1>11, <2>1
<1>13. CASE n # Len(a)
  <2>1. n + 1 \in 1..Len(a) /\ n + 1 \in 0..Len(a) /\ Len(a) \in (n + 1)..Len(a) /\ n + 1 # 1 /\ (n + 1) - 1 = n
    BY <1>1, <1>13
  <2>2. Offset(a, n + 1) = o + Len(a[n]) + 1
    BY <1>6, <2>1 DEF Offset
  <2>3. /\ Upto(a)[n + 1][o + Len(a[n]) + 1] = NUL
        /\ Len(Upto(a)[n + 1]) = o + Len(a[n]) + 1 + Len(a[n + 1]) /\ Len(a[n + 1]) \in Nat
    <3> DEFINE m == n + 1
    <3>1. m \in 1..Len(a) /\ m # 1
      BY <2>1
    <3> HIDE DEF m
    <3>2. /\ Upto(a)[m][Offset(a, m)] = NUL /\ Len(a[m]) \in Nat
          /\ Len(Upto(a)[m]) = Offset(a, m) + Len(a[m])
      BY <1>1, <3>1, UptoStep
    <3> QED BY <2>2, <3>2 DEF m
  <2>4. \A p \in 1..Len(Upto(a)[n + 1]) : s[p] = Upto(a)[n + 1][p]
    <3> DEFINE m == n + 1
    <3>1. m \in 0..Len(a) /\ Len(a) \in m..Len(a)
      BY <2>1
    <3> HIDE DEF m
    <3>2. \A p \in 1..Len(Upto(a)[m]) : Upto(a)[Len(a)][p] = Upto(a)[m][p]
      BY <1>1, <3>1, UptoPrefix
    <3> QED BY <1>5, <3>2 DEF m
  <2>5. o + Len(a[n]) + 1 \in 1..Len(Upto(a)[n + 1])
    <3>1. o \in Nat /\ Len(a[n]) \in Nat
      BY <1>2, <1>6
    <3> DEFINE l == Len(Upto(a)[n + 1])
               m == Len(a[n + 1])
               j == Len(a[n])
    <3>2. l = o + j + 1 + m /\ m \in Nat /\ j \in Nat
      BY <2>3, <3>1
    <3> HIDE DEF l, m, j
    <3>3. o + j + 1 \in 1..l
      BY <3>1, <3>2
    <3> QED BY <3>3 DEF l, j
  <2> QED BY <1>11, <2>3, <2>4, <2>5
<1> QED BY <1>12, <1>13

\* Of two joins that are equal neither has more keys.
LEMMA NoMoreKeys ==
  ASSUME NEW C, NUL \in C, NEW K \in SUBSET Seq(C), <<>> \notin K,
         NEW a \in Seq(K), NEW b \in Seq(K), Joined(a) = Joined(b),
         Len(a) <= Len(b), \A i \in 1..Len(a) : a[i] = b[i]
  PROVE  Len(a) = Len(b)
<1> SUFFICES ASSUME Len(a) < Len(b) PROVE FALSE
  OBVIOUS
<1>1. a \in Seq(Seq(C)) /\ b \in Seq(Seq(C)) /\ Len(a) \in Nat /\ Len(b) \in Nat
  OBVIOUS
<1> DEFINE n == Len(a) + 1
<1>2. /\ n \in 1..Len(b) /\ n - 1 = Len(a) /\ n - 1 \in 0..Len(a) /\ n - 1 \in 0..Len(b)
      /\ n \in 0..Len(b) /\ Len(b) \in n..Len(b) /\ \A i \in 1..(n - 1) : a[i] = b[i]
  BY <1>1
<1>3. b[n] \in Seq(C) /\ b[n] # <<>> /\ Len(b[n]) \in Nat \ {0}
  <2>1. b[n] \in K
    BY <1>2
  <2>2. b[n] \in Seq(C) /\ b[n] # <<>>
    BY <2>1
  <2> QED BY <2>2, EmptySeq
<1> HIDE DEF n
<1>4. Upto(a)[n - 1] = Upto(b)[n - 1]
  BY <1>1, <1>2, UptoAgree
<1>5. Joined(a) = Upto(a)[n - 1] /\ Joined(b) = Upto(b)[Len(b)]
  BY <1>2, JoinedIsLast
<1>6. Len(Upto(b)[n]) <= Len(Upto(b)[Len(b)])
  BY <1>1, <1>2, UptoPrefix
<1>7. /\ Len(Upto(b)[n]) = Offset(b, n) + Len(b[n]) /\ Len(Upto(b)[n - 1]) \in Nat
      /\ Len(Upto(b)[n]) \in Nat /\ Offset(b, n) \in Nat
      /\ n # 1 => Offset(b, n) = Len(Upto(b)[n - 1]) + 1
  <2>1. /\ Len(Upto(b)[n]) = Offset(b, n) + Len(b[n]) /\ Len(Upto(b)[n - 1]) \in Nat
        /\ Len(Upto(b)[n]) \in Nat /\ Offset(b, n) \in Nat
    BY <1>1, <1>2, UptoStep
  <2> QED BY <2>1 DEF Offset
<1>8. n = 1 => Len(Upto(b)[n - 1]) = 0
  BY <1>1, <1>2, UptoUnfolds
<1>9. Len(Upto(b)[n]) <= Len(Upto(b)[n - 1])
  BY <1>4, <1>5, <1>6
<1> QED BY <1>2, <1>3, <1>7, <1>8, <1>9

\* Keys that U+0000 keeps apart are what was joined.
LEMMA JoinedApart ==
  ASSUME NEW C, NUL \in C, NEW K \in SUBSET Seq(C), <<>> \notin K, ApartAtNUL(K),
         NEW a \in Seq(K), NEW b \in Seq(K), Joined(a) = Joined(b)
  PROVE  a = b
<1>1. Len(a) \in Nat /\ Len(b) \in Nat
  OBVIOUS
<1> DEFINE bad == {i \in 1..Len(a) : i <= Len(b) /\ a[i] # b[i]}
<1>2. bad = {}
  <2> SUFFICES ASSUME bad # {} PROVE FALSE
    OBVIOUS
  <2>1. bad \in SUBSET Nat
    BY <1>1
  <2>2. PICK n \in bad : \A j \in bad : n <= j
    <3> HIDE DEF bad
    <3> QED BY <2>1, LeastNatural
  <2>3. n \in 1..Len(a) /\ n \in 1..Len(b) /\ a[n] # b[n]
    BY <1>1
  <2>4. \A i \in 1..(n - 1) : a[i] = b[i]
    <3> TAKE i \in 1..(n - 1)
    <3>1. i \in 1..Len(a) /\ i <= Len(b) /\ ~(n <= i)
      BY <1>1, <2>3
    <3> QED BY <2>2, <3>1
  <2>5. Len(a[n]) \in Nat /\ Len(b[n]) \in Nat
    BY <2>3
  <2> HIDE DEF bad
  <2>6. CASE Len(a[n]) <= Len(b[n])
    BY <2>3, <2>4, <2>6, NoFirstDifference, ZenonT(60)
  <2>7. CASE Len(b[n]) <= Len(a[n])
    BY <2>3, <2>4, <2>7, NoFirstDifference
  <2> QED BY <2>5, <2>6, <2>7
<1>3. CASE Len(a) <= Len(b)
  <2>1. \A i \in 1..Len(a) : a[i] = b[i]
    <3> TAKE i \in 1..Len(a)
    <3>1. i <= Len(b)
      BY <1>1, <1>3
    <3>2. i \notin bad
      BY <1>2
    <3> QED BY <3>1, <3>2
  <2>2. Len(a) = Len(b)
    BY <1>3, <2>1, NoMoreKeys
  <2> QED BY <2>1, <2>2
<1>4. CASE Len(b) <= Len(a)
  <2>1. \A i \in 1..Len(b) : b[i] = a[i]
    <3> TAKE i \in 1..Len(b)
    <3>1. i \in 1..Len(a) /\ i <= Len(b)
      BY <1>1, <1>4
    <3>2. i \notin bad
      BY <1>2
    <3> QED BY <3>1, <3>2
  <2>2. Len(a) = Len(b)
    BY <1>4, <2>1, NoMoreKeys
  <2> QED BY <2>1, <2>2
<1> QED BY <1>1, <1>3, <1>4

-----------------------------------------------------------------------------
APath == [descendant : BOOLEAN, steps : Seq(STRING), attr : STRING]

\* What a document and its constraints are made of.
LEMMA InputTyped ==
  ASSUME input \in Inputs
  PROVE  /\ nodes \in Seq(Node) /\ Len(nodes) \in Nat \ {0} /\ 1 \in Nodes
         /\ \A n \in Nodes : /\ n \in Nat /\ n # 0 /\ nodes[n] \in Node
                             /\ nodes[n].parent \in 0..(n - 1)
                             /\ nodes[n].parent # 0 => nodes[n].parent \in Nodes
                             /\ ConstraintsOf(n) \in Seq(IdentityConstraint)
                             /\ Len(ConstraintsOf(n)) \in Nat
         /\ All \subseteq IdentityConstraint
         /\ \A v, w \in DocValues : v.space = w.space /\ v.chars = w.chars => v.number = w.number
<1>1. /\ input.nodes \in Seq(Node) /\ input.constraints \in Seq(Seq(IdentityConstraint))
      /\ input.nodes # <<>> /\ Len(input.constraints) = Len(input.nodes)
      /\ \A n \in DOMAIN input.nodes : input.nodes[n].parent < n
      /\ \A v, w \in ValuesOf(input.nodes) :
           v.space = w.space /\ v.chars = w.chars => v.number = w.number
  BY IdentityAssumption DEF Input
<1>2. Len(nodes) \in Nat \ {0} /\ DOMAIN nodes = Nodes /\ 1 \in Nodes
  BY <1>1, EmptySeq DEF nodes, Nodes
<1>3. ASSUME NEW n \in Nodes
      PROVE  /\ n \in Nat /\ n # 0 /\ nodes[n] \in Node /\ nodes[n].parent \in 0..(n - 1)
             /\ nodes[n].parent # 0 => nodes[n].parent \in Nodes
             /\ ConstraintsOf(n) \in Seq(IdentityConstraint)
             /\ Len(ConstraintsOf(n)) \in Nat
  <2>1. n \in Nat /\ n # 0 /\ n <= Len(nodes)
    BY <1>2 DEF Nodes
  <2>2. nodes[n] \in Node /\ nodes[n].parent < n /\ nodes[n].parent \in Nat
    <3>1. n \in DOMAIN input.nodes /\ n \in 1..Len(input.nodes)
      BY <1>1 DEF nodes, Nodes
    <3>2. input.nodes[n] \in Node /\ input.nodes[n].parent < n
      BY <1>1, <3>1
    <3> QED BY <3>2 DEF nodes, Node
  <2>3. n \in 1..Len(input.constraints)
    BY <1>1, <2>1 DEF nodes
  <2>4. ConstraintsOf(n) \in Seq(IdentityConstraint)
    BY <1>1, <2>3 DEF ConstraintsOf
  <2>5. Len(ConstraintsOf(n)) \in Nat
    BY <2>4
  <2> QED BY <1>2, <2>1, <2>2, <2>4, <2>5 DEF Nodes
<1>4. All \subseteq IdentityConstraint
  BY <1>3 DEF All, ToSet
<1>5. \A v, w \in DocValues : v.space = w.space /\ v.chars = w.chars => v.number = w.number
  BY <1>1 DEF DocValues, nodes
<1> QED BY <1>1, <1>2, <1>3, <1>4, <1>5 DEF nodes

\* A node below another is its child, or below it with its own parent.
LEMMA BelowUnfolds ==
  ASSUME input \in Inputs, NEW n \in Nodes, NEW m \in Nodes
  PROVE  m \in Below(n) <=> \/ nodes[m].parent = n
                            \/ nodes[m].parent # 0 /\ nodes[m].parent \in Below(n)
<1> DEFINE S == BOOLEAN
           N == Len(nodes)
           P == [i \in 0..N |-> IF i = 0 THEN 0 ELSE nodes[i].parent]
           Body(f, i) == i # 0 /\ (nodes[i].parent = n \/ f[nodes[i].parent])
           F == [fi \in [0..N -> S] \X (0..N) |-> Body(fi[1], fi[2])]
           W == CHOOSE w : w = [i \in 0..N |-> Body(w, i)]
<1>1. N \in Nat /\ S # {} /\ \A i \in 0..N : i # 0 => i \in Nodes /\ nodes[i].parent \in 0..(i - 1)
  <2>1. N \in Nat /\ S # {}
    BY InputTyped
  <2>2. \A i \in 0..N : i # 0 => i \in Nodes
    BY <2>1 DEF Nodes
  <2>3. \A i \in Nodes : nodes[i].parent \in 0..(i - 1)
    BY InputTyped
  <2> QED BY <2>1, <2>2, <2>3
<1>2. \A f, g \in [0..N -> S] : \A i \in 0..N :
         (\A j \in 0..(i - 1) : f[j] = g[j]) => Body(f, i) = Body(g, i)
  <2> TAKE f, g \in [0..N -> S]
  <2> TAKE i \in 0..N
  <2> HAVE \A j \in 0..(i - 1) : f[j] = g[j]
  <2>1. i # 0 => f[nodes[i].parent] = g[nodes[i].parent]
    BY <1>1
  <2> QED BY <2>1, Zenon
<1>3. /\ F \in [[0..N -> S] \X (0..N) -> S]
      /\ \A f \in [0..N -> S] : \A i \in 0..N : F[<<f, i>>] = Body(f, i)
  <2>1. \A f, i : Body(f, i) \in S
    OBVIOUS
  <2> HIDE DEF Body
  <2> QED BY <2>1
<1>4. PICK f \in [0..N -> S] : \A i \in 0..N : f[i] = F[<<f, i>>]
  <2>1. \A f, g \in [0..N -> S] : \A i \in 0..N :
           (\A j \in 0..(i - 1) : f[j] = g[j]) => F[<<f, i>>] = F[<<g, i>>]
    <3> HIDE DEF F, S, N, Body
    <3> TAKE f, g \in [0..N -> S]
    <3> TAKE i \in 0..N
    <3> HAVE \A j \in 0..(i - 1) : f[j] = g[j]
    <3>1. Body(f, i) = Body(g, i)
      BY <1>2
    <3> QED BY <1>3, <3>1
  <2>3. S # {} /\ N \in Nat
    BY <1>1
  <2> HIDE DEF F, S, N, Body
  <2>2. MadeOfEarlier(F, N, S)
    BY <1>3, <2>1 DEF MadeOfEarlier
  <2>4. MadeBy(F, N, S) # {}
    BY <2>2, <2>3, RecursiveFunction
  <2> QED BY <2>4 DEF MadeBy
<1>5. f = [i \in 0..N |-> Body(f, i)]
  <2> HIDE DEF F, Body
  <2> QED BY <1>3, <1>4
<1>6. W = [i \in 0..N |-> Body(W, i)]
  <2> HIDE DEF Body
  <2> QED BY <1>5
<1>7. \A i \in 0..N : W[i] = Body(W, i)
  <2> HIDE DEF W, Body
  <2> QED BY <1>6
<1>8. \A i \in Nodes : i \in Below(n) <=> W[i]
  BY Zenon DEF Below
<1> HIDE DEF W
<1>9. ~W[0]
  <2>1. 0 \in 0..N
    BY <1>1
  <2> QED BY <1>7, <2>1, Zenon
<1>10. m \in 0..N /\ m # 0 /\ nodes[m].parent \in 0..N /\ (nodes[m].parent # 0 => nodes[m].parent \in Nodes)
  BY <1>1, InputTyped DEF Nodes
<1>11. W[m] = (nodes[m].parent = n \/ W[nodes[m].parent])
  BY <1>7, <1>10, Zenon
<1>12. nodes[m].parent = 0 => ~W[nodes[m].parent]
  BY <1>9, Zenon
<1> QED BY <1>8, <1>10, <1>11, <1>12, Zenon

\* A path selects nodes of the document.
LEMMA SelectIsNodes ==
  ASSUME input \in Inputs, NEW t \in Nodes, NEW path \in APath
  PROVE  Select(t, path) \subseteq Nodes
<1> DEFINE S == SUBSET Nodes
           N == Len(path.steps)
           Body(f, i) ==
             IF i = 0 THEN {t} \cup (IF path.descendant THEN Below(t) ELSE {})
             ELSE {m \in UNION {Children(n) : n \in f[i - 1]} :
                     path.steps[i] \in {"*", nodes[m].name}}
           F == [fi \in [0..N -> S] \X (0..N) |-> Body(fi[1], fi[2])]
           W == CHOOSE w : w = [i \in 0..N |-> Body(w, i)]
<1>1. N \in Nat /\ S # {}
  <2>1. path.steps \in Seq(STRING)
    BY DEF APath
  <2>2. {} \in S
    OBVIOUS
  <2> QED BY <2>1, <2>2
<1>2. \A f, i : Body(f, i) \in S
  BY DEF Below, Children
<1>3. \A f, g \in [0..N -> S] : \A i \in 0..N :
         (\A j \in 0..(i - 1) : f[j] = g[j]) => Body(f, i) = Body(g, i)
  <2> HIDE DEF N
  <2> TAKE f, g \in [0..N -> S]
  <2> TAKE i \in 0..N
  <2> HAVE \A j \in 0..(i - 1) : f[j] = g[j]
  <2>1. i # 0 => f[i - 1] = g[i - 1]
    BY <1>1
  <2> QED BY <2>1, Zenon
<1>4. /\ F \in [[0..N -> S] \X (0..N) -> S]
      /\ \A f \in [0..N -> S] : \A i \in 0..N : F[<<f, i>>] = Body(f, i)
  <2> HIDE DEF Body
  <2> QED BY <1>2
<1>5. PICK f \in [0..N -> S] : \A i \in 0..N : f[i] = F[<<f, i>>]
  <2>1. \A f, g \in [0..N -> S] : \A i \in 0..N :
           (\A j \in 0..(i - 1) : f[j] = g[j]) => F[<<f, i>>] = F[<<g, i>>]
    <3> HIDE DEF F, S, N, Body
    <3> TAKE f, g \in [0..N -> S]
    <3> TAKE i \in 0..N
    <3> HAVE \A j \in 0..(i - 1) : f[j] = g[j]
    <3>1. Body(f, i) = Body(g, i)
      BY <1>3
    <3> QED BY <1>4, <3>1
  <2>3. S # {} /\ N \in Nat
    BY <1>1
  <2> HIDE DEF F, S, N, Body
  <2>2. MadeOfEarlier(F, N, S)
    BY <1>4, <2>1 DEF MadeOfEarlier
  <2>4. MadeBy(F, N, S) # {}
    BY <2>2, <2>3, RecursiveFunction
  <2> QED BY <2>4 DEF MadeBy
<1>6. f = [i \in 0..N |-> Body(f, i)]
  <2> HIDE DEF F, Body
  <2> QED BY <1>4, <1>5
<1>7. W = [i \in 0..N |-> Body(W, i)]
  <2> HIDE DEF Body
  <2> QED BY <1>6
<1>8. N \in 0..N
  BY <1>1
<1>9. W[N] = Body(W, N)
  <2> HIDE DEF W, Body
  <2> QED BY <1>7, <1>8
<1>10. Select(t, path) = W[N]
  BY Zenon DEF Select
<1> HIDE DEF W, Body
<1> QED BY <1>2, <1>9, <1>10

\* Nodes that a constraint selects and paths of its fields.
LEMMA FieldTyped ==
  ASSUME NEW c \in IdentityConstraint
  PROVE  /\ c.selector \in Seq(APath) /\ Len(c.fields) \in Nat
         /\ DOMAIN c.fields = 1..Len(c.fields)
         /\ \A i \in DOMAIN c.fields : c.fields[i] \in Seq(APath) /\ c.fields[i] \in ToSet(c.fields)
<1>1. c.selector \in Paths /\ c.fields \in Seq(Paths)
  BY DEF IdentityConstraint
<1>2. Paths = Seq(APath)
  BY DEF Paths, APath
<1> QED BY <1>1, <1>2 DEF ToSet

\* A selector selects nodes of the document.
LEMMA SelectedNodes ==
  ASSUME input \in Inputs, NEW n \in Nodes, NEW c \in IdentityConstraint
  PROVE  SelectNodes(n, c.selector) \subseteq Nodes
<1>1. \A p \in ToSet(c.selector) : p \in APath
  BY FieldTyped DEF ToSet
<1> QED BY <1>1, SelectIsNodes DEF SelectNodes

\* What a path finds is a value of the document, and an exact one if all are.
LEMMA FoundTyped ==
  ASSUME input \in Inputs, NEW t \in Nodes, NEW path \in APath, NEW x \in Found(t, path)
  PROVE  x[3] \in Value /\ x[3] \in DocValues /\ (ExactValues => Exact(x[3]))
<1>1. Select(t, path) \subseteq Nodes
  BY SelectIsNodes
<1>2. ASSUME NEW m \in Nodes
      PROVE  /\ nodes[m].value \in Value /\ nodes[m].value \in DocValues
             /\ \A a \in nodes[m].attrs : a[2] \in Value /\ a[2] \in DocValues
  <2>1. nodes[m] \in Node /\ m \in DOMAIN nodes
    BY InputTyped DEF Nodes
  <2>2. nodes[m].value \in Value /\ \A a \in nodes[m].attrs : a[2] \in Value
    BY <2>1 DEF Node
  <2>3. nodes[m].value \in DocValues /\ \A a \in nodes[m].attrs : a[2] \in DocValues
    BY <2>1 DEF DocValues, ValuesOf
  <2> QED BY <2>2, <2>3
<1>5. SUFFICES x[3] \in Value /\ x[3] \in DocValues
  BY DEF ExactValues
<1>3. CASE path.attr = ""
  <2>1. PICK m \in Select(t, path) : x = <<m, "", nodes[m].value>>
    BY <1>3 DEF Found
  <2>2. x[3] = nodes[m].value
    BY <2>1
  <2> QED BY <1>1, <1>2, <2>2
<1>4. CASE path.attr # ""
  <2>1. PICK m \in Select(t, path) : \E a \in nodes[m].attrs : x = <<m, a[1], a[2]>>
    BY <1>4 DEF Found
  <2>2. PICK a \in nodes[m].attrs : x = <<m, a[1], a[2]>>
    BY <2>1
  <2>3. x[3] = a[2]
    BY <2>2
  <2> QED BY <1>1, <1>2, <2>3
<1> QED BY <1>3, <1>4

\* What the paths of a field find is what they select.
LEMMA ValuesSelected ==
  ASSUME NEW t, NEW f
  PROVE  /\ \A v \in Values(t, f) : v[2] \in Selected(t, f)
         /\ \A x \in Selected(t, f) : \E v \in Values(t, f) : v[2] = x
<1>1. ASSUME NEW v \in Values(t, f) PROVE v[2] \in Selected(t, f)
  BY DEF Values, Selected, ToSet
<1>2. ASSUME NEW x \in Selected(t, f) PROVE \E v \in Values(t, f) : v[2] = x
  <2>1. PICK p \in DOMAIN f : x \in Found(t, f[p])
    BY DEF Selected, ToSet
  <2>2. <<p, x>> \in Values(t, f)
    BY <2>1 DEF Values
  <2> QED BY <2>2
<1> QED BY <1>1, <1>2

\* A field with one value selects one node, which has that value.
LEMMA SingleSelected ==
  ASSUME NEW t, NEW f, Single(Values(t, f))
  PROVE  /\ Single(Selected(t, f))
         /\ \A x \in Selected(t, f) : FieldKey(t, f) = ValueKey(x[3])
<1>1. PICK v : Values(t, f) = {v}
  BY DEF Single
<1>2. Selected(t, f) = {v[2]}
  BY <1>1, ValuesSelected
<1>3. (CHOOSE w \in Values(t, f) : TRUE) = v
  BY <1>1
<1> QED BY <1>2, <1>3 DEF Single, FieldKey

\* A node that one alternative alone selects is counted once.
LEMMA SingleValue ==
  ASSUME NEW t, NEW f, Single(Selected(t, f)),
         \A p, q \in DOMAIN f : p # q => Found(t, f[p]) \cap Found(t, f[q]) = {}
  PROVE  Single(Values(t, f))
<1>1. PICK x : Selected(t, f) = {x}
  BY DEF Single
<1>2. PICK v \in Values(t, f) : v[2] = x
  BY <1>1, ValuesSelected
<1>3. ASSUME NEW w \in Values(t, f) PROVE w = v
  <2>1. w[2] = x
    BY <1>1, ValuesSelected
  <2>2. PICK p \in DOMAIN f : \E y \in Found(t, f[p]) : v = <<p, y>>
    BY DEF Values
  <2>3. PICK q \in DOMAIN f : \E y \in Found(t, f[q]) : w = <<q, y>>
    BY DEF Values
  <2>4. x \in Found(t, f[p]) /\ x \in Found(t, f[q]) /\ v = <<p, x>> /\ w = <<q, x>>
    BY <1>2, <2>1, <2>2, <2>3
  <2> QED BY <2>4
<1> QED BY <1>2, <1>3 DEF Single

\* The field fieldTuple stops at.
LEMMA FirstBadField ==
  ASSUME NEW t, NEW c \in IdentityConstraint, ~HasTuple(t, c)
  PROVE  /\ FirstBad(t, c) \in DOMAIN c.fields
         /\ ~Single(Values(t, c.fields[FirstBad(t, c)]))
         /\ \A j \in 1..(FirstBad(t, c) - 1) : Single(Values(t, c.fields[j]))
<1> DEFINE bad == {i \in DOMAIN c.fields : ~Single(Values(t, c.fields[i]))}
<1>1. DOMAIN c.fields = 1..Len(c.fields) /\ Len(c.fields) \in Nat
  BY FieldTyped
<1>2. bad # {} /\ bad \in SUBSET Nat
  BY <1>1 DEF HasTuple
<1>3. PICK i \in bad : \A j \in bad : i <= j
  <2> HIDE DEF bad
  <2> QED BY <1>2, LeastNatural
<1>4. \A j \in 1..(i - 1) : Single(Values(t, c.fields[j]))
  <2> TAKE j \in 1..(i - 1)
  <2>1. j \in DOMAIN c.fields /\ ~(i <= j)
    BY <1>1
  <2> QED BY <1>3, <2>1
<1>5. /\ i \in DOMAIN c.fields /\ ~Single(Values(t, c.fields[i]))
      /\ \A j \in 1..(i - 1) : Single(Values(t, c.fields[j]))
  BY <1>4
<1> QED BY <1>5 DEF FirstBad

\* A node without an error has a value in each field, or none in the first
\* that is not single.
LEMMA NoFieldError ==
  ASSUME NEW n, NEW c \in IdentityConstraint, FieldErrors(n, c) = {},
         NEW t \in SelectNodes(n, c.selector)
  PROVE  /\ HasTuple(t, c) \/ (c.kind # "key" /\ Values(t, c.fields[FirstBad(t, c)]) = {})
         /\ FieldsSingle(t, c) /\ (c.kind = "key" => Complete(t, c))
         /\ Complete(t, c) <=> HasTuple(t, c)
<1>1. HasTuple(t, c) \/ (c.kind # "key" /\ Values(t, c.fields[FirstBad(t, c)]) = {})
  BY DEF FieldErrors
<1>2. CASE HasTuple(t, c)
  <2>1. Complete(t, c)
    BY <1>2, SingleSelected DEF HasTuple, Complete
  <2>2. FieldsSingle(t, c)
    BY <2>1 DEF Complete, FieldsSingle, Single
  <2> QED BY <1>1, <1>2, <2>1, <2>2
<1>3. CASE ~HasTuple(t, c)
  <2> DEFINE b == FirstBad(t, c)
  <2>1. /\ b \in DOMAIN c.fields /\ DOMAIN c.fields = 1..Len(c.fields) /\ Len(c.fields) \in Nat
        /\ \A j \in 1..(b - 1) : Single(Values(t, c.fields[j]))
    BY <1>3, FirstBadField, FieldTyped
  <2>2. c.kind # "key" /\ Values(t, c.fields[b]) = {}
    BY <1>1, <1>3
  <2>3. Selected(t, c.fields[b]) = {}
    BY <2>2, ValuesSelected
  <2> HIDE DEF b
  <2>4. ~Complete(t, c)
    BY <2>1, <2>3 DEF Complete, Single
  <2>5. FieldsSingle(t, c)
    <3> SUFFICES ASSUME NEW i \in DOMAIN c.fields,
                        \A j \in 1..(i - 1) : Selected(t, c.fields[j]) # {},
                        NEW v \in Selected(t, c.fields[i]), NEW w \in Selected(t, c.fields[i])
                 PROVE  v = w
      BY DEF FieldsSingle
    <3>1. i <= b
      BY <2>1, <2>3
    <3>2. i # b
      BY <2>3
    <3>3. Single(Values(t, c.fields[i]))
      BY <2>1, <3>1, <3>2
    <3> QED BY <3>3, SingleSelected DEF Single
  <2> QED BY <1>1, <1>3, <2>2, <2>4, <2>5
<1> QED BY <1>2, <1>3

\* An error is one of the document, when no node is counted twice.
LEMMA FieldErrorIsOne ==
  ASSUME FieldsApart, NEW n \in Nodes, NEW c \in ToSet(ConstraintsOf(n)), c \in IdentityConstraint,
         FieldErrors(n, c) # {}
  PROVE  \E t \in SelectNodes(n, c.selector) :
            ~FieldsSingle(t, c) \/ (c.kind = "key" /\ ~Complete(t, c))
<1>1. PICK t \in SelectNodes(n, c.selector) :
         ~HasTuple(t, c) /\ (c.kind = "key" \/ Values(t, c.fields[FirstBad(t, c)]) # {})
  BY DEF FieldErrors
<1> DEFINE b == FirstBad(t, c)
           f == c.fields[b]
<1>2. b \in DOMAIN c.fields /\ ~Single(Values(t, f)) /\ \A j \in 1..(b - 1) : Single(Values(t, c.fields[j]))
  BY <1>1, FirstBadField
<1>3. \A j \in 1..(b - 1) : Selected(t, c.fields[j]) # {}
  <2>1. \A j \in 1..(b - 1) : Single(Selected(t, c.fields[j]))
    BY <1>2, SingleSelected
  <2> QED BY <2>1 DEF Single
<1>4. f \in ToSet(c.fields)
  BY <1>2, FieldTyped
<1>5. \A p, q \in DOMAIN f : p # q => Found(t, f[p]) \cap Found(t, f[q]) = {}
  <2> HIDE DEF f
  <2> QED BY <1>1, <1>4 DEF FieldsApart, FieldApart
<1>6. ~Single(Selected(t, f))
  <2> HIDE DEF f, b
  <2> QED BY <1>2, <1>5, SingleValue
<1>7. CASE Selected(t, f) = {}
  <2>1. Values(t, f) = {}
    BY <1>7, ValuesSelected
  <2>2. ~Complete(t, c)
    BY <1>2, <1>6 DEF Complete
  <2> QED BY <1>1, <2>1, <2>2
<1>8. CASE Selected(t, f) # {}
  <2>1. \E v, w \in Selected(t, f) : v # w
    <3> HIDE DEF f
    <3> QED BY <1>6, <1>8 DEF Single
  <2>2. ~FieldsSingle(t, c)
    BY <1>2, <1>3, <2>1 DEF FieldsSingle
  <2> QED BY <1>1, <2>2
<1> QED BY <1>7, <1>8

-----------------------------------------------------------------------------
KeyChar == {"n", "s", "-0", NUL} \cup STRING \cup Int
KeysOfValues == {ValueKey(v) : v \in {w \in Value : Exact(w)}}

\* The key of a value is a sequence of key characters, never an empty one.
LEMMA ValueKeyTyped ==
  /\ NUL \in KeyChar /\ <<>> \notin KeysOfValues /\ KeysOfValues \subseteq Seq(KeyChar)
  /\ \A v \in Value : ValueKey(v) \in Seq(KeyChar)
<1>1. ASSUME NEW v \in Value PROVE ValueKey(v) \in Seq(KeyChar) /\ ValueKey(v) # <<>>
  <2>1. CASE v.keyed = "number"
    <3>1. Float(v.number) \in Int
      BY <2>1 DEF Value, Float
    <3>2. ValueKey(v) = <<"n", Float(v.number)>>
      BY <2>1 DEF ValueKey
    <3>3. "n" \in KeyChar /\ Float(v.number) \in KeyChar
      BY <3>1 DEF KeyChar
    <3> QED BY <3>2, <3>3
  <2>3. CASE v.keyed = "-0"
    <3>1. ValueKey(v) = <<"-0">>
      BY <2>3 DEF ValueKey
    <3>2. "-0" \in KeyChar
      BY DEF KeyChar
    <3>3. <<"-0">> \in Seq(KeyChar) /\ <<"-0">> # <<>>
      BY <3>2
    <3> QED BY <3>1, <3>3
  <2>2. CASE v.keyed = "text"
    <3>1. v.chars \in Seq(KeyChar)
      BY <2>2 DEF Value, KeyChar
    <3>2. <<"s">> \in Seq(KeyChar) /\ Len(<<"s">>) = 1
      <4>1. "s" \in KeyChar
        BY DEF KeyChar
      <4> QED BY <4>1
    <3>3. ValueKey(v) = <<"s">> \o v.chars
      BY <2>2 DEF ValueKey
    <3>4. ValueKey(v) \in Seq(KeyChar) /\ Len(ValueKey(v)) = 1 + Len(v.chars) /\ Len(v.chars) \in Nat
      BY <3>1, <3>2, <3>3, ConcatProperties
    <3> QED BY <3>4
  <2> QED BY <2>1, <2>2, <2>3 DEF Value
<1>2. NUL \in KeyChar
  BY DEF KeyChar
<1> QED BY <1>1, <1>2 DEF KeysOfValues

\* The same value has one key, when it has one spelling.
LEMMA SameKey ==
  ASSUME SpelledAlike, NEW v \in Value, NEW w \in Value, v \in DocValues, w \in DocValues,
         SameValue(v, w)
  PROVE  ValueKey(v) = ValueKey(w)
<1>1. v.keyed = w.keyed /\ (v.keyed = "text" => v.chars = w.chars)
  BY DEF SpelledAlike
<1>2. v.keyed # "text" => v.number = w.number
  BY DEF Value, SameValue
<1> QED BY <1>1, <1>2 DEF ValueKey, Value

\* The characters of a text's key.
LEMMA TextKey ==
  ASSUME NEW v \in Value, v.keyed = "text"
  PROVE  /\ v.chars \in Seq(STRING) /\ Len(v.chars) \in Nat
         /\ Len(ValueKey(v)) = Len(v.chars) + 1 /\ ValueKey(v)[1] = "s"
         /\ \A p \in 1..Len(v.chars) : ValueKey(v)[p + 1] = v.chars[p]
<1>1. v.chars \in Seq(STRING) /\ Len(v.chars) \in Nat
  BY DEF Value
<1>2. ValueKey(v) = <<"s">> \o v.chars
  BY DEF ValueKey
<1> DEFINE ch == v.chars
           s == <<"s">>
<1>3. s \in Seq(KeyChar) /\ Len(s) = 1 /\ s[1] = "s" /\ ch \in Seq(KeyChar) /\ Len(ch) \in Nat
  <2>1. "s" \in KeyChar /\ STRING \subseteq KeyChar
    BY DEF KeyChar
  <2>2. ch \in Seq(KeyChar) /\ Len(ch) \in Nat
    BY <1>1 DEF Value, KeyChar
  <2>3. s \in Seq(KeyChar) /\ Len(s) = 1 /\ s[1] = "s"
    BY <2>1
  <2> QED BY <2>2, <2>3
<1> HIDE DEF ch, s
<1>4. Len(s \o ch) = 1 + Len(ch) /\ \A i \in 1..(1 + Len(ch)) : (s \o ch)[i] = IF i <= 1 THEN s[i] ELSE ch[i - 1]
  <2>1. /\ Len(s \o ch) = Len(s) + Len(ch)
        /\ \A i \in 1..(Len(s) + Len(ch)) : (s \o ch)[i] = IF i <= Len(s) THEN s[i] ELSE ch[i - Len(s)]
    BY <1>3, ConcatProperties
  <2> QED BY <1>3, <2>1
<1>5. (s \o ch)[1] = "s"
  <2>1. 1 \in 1..(1 + Len(ch))
    BY <1>3
  <2> QED BY <1>3, <1>4, <2>1
<1>6. \A p \in 1..Len(ch) : (s \o ch)[p + 1] = ch[p]
  <2> TAKE p \in 1..Len(ch)
  <2>1. p + 1 \in 1..(1 + Len(ch)) /\ ~(p + 1 <= 1) /\ (p + 1) - 1 = p
    BY <1>3
  <2> QED BY <1>4, <2>1
<1>7. Len(s \o ch) = Len(ch) + 1
  BY <1>3, <1>4
<1> QED BY <1>1, <1>2, <1>5, <1>6, <1>7 DEF s, ch

\* An exact number is its own key, and the zero with a sign has one of its own.
LEMMA NumberKey ==
  ASSUME NEW v \in Value, v.keyed = "number", Exact(v)
  PROVE  ValueKey(v) = <<"n", v.number>>
BY DEF ValueKey, Exact, Float

LEMMA ZeroKey ==
  ASSUME NEW v \in Value, v.keyed = "-0"
  PROVE  ValueKey(v) = <<"-0">> /\ v.number = 0
BY DEF ValueKey, Value

\* The branch a value takes is the first character of its key.
LEMMA KeyBranch ==
  ASSUME NEW v \in Value, Exact(v)
  PROVE  /\ v.keyed \in {"number", "-0", "text"}
         /\ v.keyed = "number" => ValueKey(v)[1] = "n" /\ Len(ValueKey(v)) = 2
         /\ v.keyed = "-0" => ValueKey(v)[1] = "-0" /\ Len(ValueKey(v)) = 1
         /\ v.keyed = "text" => /\ ValueKey(v)[1] = "s" /\ Len(v.chars) \in Nat
                                /\ Len(ValueKey(v)) = Len(v.chars) + 1
<1>1. v.keyed \in {"number", "-0", "text"}
  BY DEF Value
<1> QED BY <1>1, NumberKey, ZeroKey, TextKey

\* Exact values of one key are the same.
LEMMA KeySame ==
  ASSUME input \in Inputs, ExactValues, NEW v \in Value, NEW w \in Value,
         v \in DocValues, w \in DocValues, ValueKey(v) = ValueKey(w)
  PROVE  SameValue(v, w)
<1>1. Exact(v) /\ Exact(w)
  BY DEF ExactValues
<1>2. v.keyed = w.keyed
  BY <1>1, KeyBranch
<1>3. CASE v.keyed = "text"
  <2>1. /\ Len(v.chars) = Len(w.chars) /\ v.chars \in Seq(STRING) /\ w.chars \in Seq(STRING)
        /\ \A p \in 1..Len(v.chars) : v.chars[p] = w.chars[p]
    <3>3. /\ Len(v.chars) \in Nat /\ Len(ValueKey(v)) = Len(v.chars) + 1 /\ v.chars \in Seq(STRING)
          /\ Len(w.chars) \in Nat /\ Len(ValueKey(w)) = Len(w.chars) + 1 /\ w.chars \in Seq(STRING)
      <4>1. w.keyed = "text"
        BY <1>2, <1>3
      <4> QED BY <1>3, <4>1, TextKey
    <3>1. Len(v.chars) = Len(w.chars) /\ v.chars \in Seq(STRING) /\ w.chars \in Seq(STRING)
      <4>1. Len(v.chars) + 1 = Len(w.chars) + 1
        BY <3>3
      <4> QED BY <3>3, <4>1
    <3>2. \A p \in 1..Len(v.chars) : ValueKey(v)[p + 1] = v.chars[p] /\ ValueKey(w)[p + 1] = w.chars[p]
      BY <1>2, <1>3, <3>1, TextKey
    <3> QED BY <3>1, <3>2
  <2>2. v.chars = w.chars
    BY <2>1
  <2>3. v.space = w.space
    BY <1>2, <1>3, <2>2 DEF ExactValues, LooksLike
  <2>4. v.number = w.number
    BY <2>2, <2>3, InputTyped
  <2> QED BY <2>2, <2>3, <2>4 DEF SameValue
<1>4. CASE v.keyed # "text"
  <2>1. v.number = w.number
    BY <1>1, <1>2, <1>4, NumberKey, ZeroKey DEF Value
  <2>2. v.space = w.space /\ v.space # "string"
    BY <1>2, <1>4, <2>1 DEF ExactValues, LooksLike, Value
  <2> QED BY <2>1, <2>2 DEF SameValue
<1> QED BY <1>3, <1>4

\* No exact value's key is another's, followed by U+0000.
LEMMA KeysApart == ApartAtNUL(KeysOfValues)
<1> SUFFICES ASSUME NEW v \in Value, NEW w \in Value, Exact(v), Exact(w),
                    ValueKey(v) # ValueKey(w), Len(ValueKey(v)) <= Len(ValueKey(w)),
                    \A p \in 1..Len(ValueKey(v)) : ValueKey(v)[p] = ValueKey(w)[p]
             PROVE  /\ Len(ValueKey(v)) < Len(ValueKey(w))
                    /\ ValueKey(w)[Len(ValueKey(v)) + 1] # NUL
  BY DEF ApartAtNUL, KeysOfValues
<1>1. ValueKey(v) \in Seq(KeyChar) /\ ValueKey(w) \in Seq(KeyChar)
  BY ValueKeyTyped
<1>2. Len(ValueKey(v)) < Len(ValueKey(w))
  <2> DEFINE x == ValueKey(v)
             y == ValueKey(w)
  <2>1. x \in Seq(KeyChar) /\ y \in Seq(KeyChar) /\ Len(x) <= Len(y) /\ x # y
        /\ \A p \in 1..Len(x) : x[p] = y[p]
    BY <1>1
  <2> HIDE DEF x, y
  <2>2. Len(x) # Len(y)
    BY <2>1
  <2>3. Len(x) < Len(y)
    BY <2>1, <2>2
  <2> QED BY <2>3 DEF x, y
<1>3. Len(ValueKey(v)) \in Nat \ {0} /\ ValueKey(v)[1] = ValueKey(w)[1]
  <2>1. Len(ValueKey(v)) \in Nat \ {0}
    BY KeyBranch
  <2>2. 1 \in 1..Len(ValueKey(v))
    BY <2>1
  <2> QED BY <2>1, <2>2
<1>4. v.keyed = w.keyed
  BY <1>3, KeyBranch
<1>5. w.keyed = "text"
  BY <1>2, <1>4, KeyBranch
<1>6. /\ Len(ValueKey(w)) = Len(w.chars) + 1 /\ Len(w.chars) \in Nat
      /\ \A p \in 1..Len(w.chars) : ValueKey(w)[p + 1] = w.chars[p]
  BY <1>5, TextKey
<1>7. Len(ValueKey(v)) \in 1..Len(w.chars)
  BY <1>2, <1>3, <1>6
<1>8. w.chars[Len(ValueKey(v))] # NUL
  BY <1>5, <1>6, <1>7, TextKey DEF Exact, ToSet
<1> QED BY <1>2, <1>6, <1>7, <1>8

\* The keys of the fields of a node that has them all.
FieldKeys(t, c) == [i \in DOMAIN c.fields |-> FieldKey(t, c.fields[i])]

\* The keys fieldTuple joins are those of the nodes the fields select.
LEMMA FieldKeysAre ==
  ASSUME NEW t, NEW c \in IdentityConstraint, HasTuple(t, c)
  PROVE  /\ FieldTuple(t, c) = Joined(FieldKeys(t, c)) /\ Len(FieldKeys(t, c)) = Len(c.fields)
         /\ \A i \in DOMAIN c.fields :
              /\ Single(Selected(t, c.fields[i]))
              /\ \A x \in Selected(t, c.fields[i]) : FieldKeys(t, c)[i] = ValueKey(x[3])
<1>1. DOMAIN c.fields = 1..Len(c.fields) /\ Len(c.fields) \in Nat
  BY FieldTyped
<1>2. Len(FieldKeys(t, c)) = Len(c.fields)
  BY <1>1 DEF FieldKeys
<1>3. FieldTuple(t, c) = Joined(FieldKeys(t, c))
  BY Zenon DEF FieldTuple, FieldKeys
<1>4. ASSUME NEW i \in DOMAIN c.fields
      PROVE  /\ Single(Selected(t, c.fields[i]))
             /\ \A x \in Selected(t, c.fields[i]) : FieldKeys(t, c)[i] = ValueKey(x[3])
  <2>1. Single(Values(t, c.fields[i])) /\ FieldKeys(t, c)[i] = FieldKey(t, c.fields[i])
    BY DEF HasTuple, FieldKeys
  <2> QED BY <2>1, SingleSelected
<1> QED BY <1>2, <1>3, <1>4

\* A value that a field selects is one of the document.
LEMMA SelectedTyped ==
  ASSUME input \in Inputs, NEW t \in Nodes, NEW c \in IdentityConstraint, NEW i \in DOMAIN c.fields,
         NEW x \in Selected(t, c.fields[i])
  PROVE  x[3] \in Value /\ x[3] \in DocValues /\ (ExactValues => Exact(x[3]))
<1>1. PICK p \in ToSet(c.fields[i]) : x \in Found(t, p)
  BY DEF Selected
<1>2. p \in APath
  BY <1>1, FieldTyped DEF ToSet
<1> QED BY <1>1, <1>2, FoundTyped

\* The same values give one tuple, when they are spelled alike.
LEMMA TupleOfSame ==
  ASSUME input \in Inputs, SpelledAlike, NEW t \in Nodes, NEW u \in Nodes,
         NEW c \in IdentityConstraint, NEW d \in IdentityConstraint,
         HasTuple(t, c), HasTuple(u, d), SameTuple(t, c, u, d)
  PROVE  FieldTuple(t, c) = FieldTuple(u, d)
<1>1. DOMAIN c.fields = DOMAIN d.fields
  BY FieldTyped DEF SameTuple
<1>2. ASSUME NEW i \in DOMAIN c.fields PROVE FieldKeys(t, c)[i] = FieldKeys(u, d)[i]
  <2>1. PICK v \in Selected(t, c.fields[i]), w \in Selected(u, d.fields[i]) : SameValue(v[3], w[3])
    BY DEF SameTuple
  <2>2. ValueKey(v[3]) = ValueKey(w[3])
    BY <1>1, <2>1, SameKey, SelectedTyped
  <2> QED BY <1>1, <2>1, <2>2, FieldKeysAre
<1>3. FieldKeys(t, c) = FieldKeys(u, d)
  BY <1>1, <1>2 DEF FieldKeys
<1> QED BY <1>3, FieldKeysAre

\* One tuple is of the same values, when they are exact.
LEMMA SameOfTuple ==
  ASSUME input \in Inputs, ExactValues, NEW t \in Nodes, NEW u \in Nodes,
         NEW c \in IdentityConstraint, NEW d \in IdentityConstraint,
         HasTuple(t, c), HasTuple(u, d), FieldTuple(t, c) = FieldTuple(u, d)
  PROVE  SameTuple(t, c, u, d)
<1>1. ASSUME NEW s \in Nodes, NEW e \in IdentityConstraint, HasTuple(s, e), NEW i \in DOMAIN e.fields
      PROVE  \E x \in Selected(s, e.fields[i]) :
                /\ x[3] \in Value /\ x[3] \in DocValues /\ Exact(x[3])
                /\ FieldKeys(s, e)[i] = ValueKey(x[3])
  <2>1. PICK x : x \in Selected(s, e.fields[i])
    BY <1>1, FieldKeysAre DEF Single
  <2>2. FieldKeys(s, e)[i] = ValueKey(x[3])
    BY <1>1, <2>1, FieldKeysAre
  <2>5. x[3] \in Value /\ x[3] \in DocValues /\ Exact(x[3])
    BY <1>1, <2>1, SelectedTyped
  <2> QED BY <2>1, <2>2, <2>5
<1>2. ASSUME NEW s \in Nodes, NEW e \in IdentityConstraint, HasTuple(s, e)
      PROVE  FieldKeys(s, e) \in Seq(KeysOfValues)
  <2>1. DOMAIN e.fields = 1..Len(e.fields) /\ Len(e.fields) \in Nat
    BY FieldTyped
  <2>2. \A i \in DOMAIN e.fields : FieldKeys(s, e)[i] \in KeysOfValues
    BY <1>1, <1>2 DEF KeysOfValues
  <2> DEFINE l == Len(e.fields)
  <2>3. FieldKeys(s, e) = [i \in 1..l |-> FieldKeys(s, e)[i]]
    BY <2>1 DEF FieldKeys
  <2>4. l \in Nat /\ \A i \in 1..l : FieldKeys(s, e)[i] \in KeysOfValues
    BY <2>1, <2>2
  <2> HIDE DEF l
  <2> QED BY <2>3, <2>4
<1>3. FieldKeys(t, c) = FieldKeys(u, d)
  <2> DEFINE a == FieldKeys(t, c)
             b == FieldKeys(u, d)
  <2>1. a \in Seq(KeysOfValues) /\ b \in Seq(KeysOfValues)
    BY <1>2
  <2>2. Joined(a) = Joined(b)
    BY FieldKeysAre
  <2>3. ApartAtNUL(KeysOfValues) /\ NUL \in KeyChar /\ <<>> \notin KeysOfValues
        /\ KeysOfValues \in SUBSET Seq(KeyChar)
    BY KeysApart, ValueKeyTyped
  <2> HIDE DEF a, b
  <2>4. a = b
    BY <2>1, <2>2, <2>3, JoinedApart
  <2> QED BY <2>4 DEF a, b
<1>4. Len(c.fields) = Len(d.fields) /\ DOMAIN c.fields = DOMAIN d.fields
  <2>1. Len(c.fields) = Len(d.fields)
    BY <1>3, FieldKeysAre
  <2> QED BY <2>1, FieldTyped
<1>5. ASSUME NEW i \in DOMAIN c.fields
      PROVE  \E v \in Selected(t, c.fields[i]), w \in Selected(u, d.fields[i]) : SameValue(v[3], w[3])
  <2>1. PICK v \in Selected(t, c.fields[i]) :
           v[3] \in Value /\ v[3] \in DocValues /\ FieldKeys(t, c)[i] = ValueKey(v[3])
    BY <1>1
  <2>2. PICK w \in Selected(u, d.fields[i]) :
           w[3] \in Value /\ w[3] \in DocValues /\ FieldKeys(u, d)[i] = ValueKey(w[3])
    BY <1>1, <1>4
  <2>3. SameValue(v[3], w[3])
    BY <1>3, <2>1, <2>2, KeySame
  <2> QED BY <2>3
<1> QED BY <1>4, <1>5 DEF SameTuple

\* A key that reports nothing holds.
LEMMA SilentKeyHolds ==
  ASSUME input \in Inputs, SpelledAlike, NEW n \in Nodes, NEW c \in IdentityConstraint,
         FieldErrors(n, c) = {}, Repeats(n, c) = {}
  PROVE  KeyHolds(n, c)
<1>1. \A t \in SelectNodes(n, c.selector) :
         FieldsSingle(t, c) /\ (c.kind = "key" => Complete(t, c))
  BY NoFieldError
<1>2. ASSUME NEW t \in SelectNodes(n, c.selector), NEW u \in SelectNodes(n, c.selector),
             t # u, Complete(t, c), Complete(u, c), SameTuple(t, c, u, c)
      PROVE  FALSE
  <2>1. HasTuple(t, c) /\ HasTuple(u, c)
    BY <1>2, NoFieldError
  <2>6. t \in Nodes /\ u \in Nodes
    BY <1>2, SelectedNodes
  <2>2. FieldTuple(t, c) = FieldTuple(u, c)
    BY <1>2, <2>1, <2>6, TupleOfSame
  <2>3. t \in Targets(n, c) /\ u \in Targets(n, c)
    BY <2>1 DEF Targets
  <2> DEFINE pairs == {q \in Targets(n, c) \X Targets(n, c) :
                         q[1] # q[2] /\ FieldTuple(q[1], c) = FieldTuple(q[2], c)}
  <2>4. <<t, u>> \in pairs
    BY <1>2, <2>2, <2>3
  <2>5. <<n, c.name, "repeat">> \in Repeats(n, c)
    <3> HIDE DEF pairs
    <3>1. Repeats(n, c) = {<<n, c.name, "repeat">> : q \in pairs}
      BY DEF Repeats, pairs
    <3> QED BY <2>4, <3>1
  <2> QED BY <2>5
<1> QED BY <1>1, <1>2 DEF KeyHolds

\* A key that reports something is broken.
LEMMA LoudKeyBroken ==
  ASSUME input \in Inputs, ExactValues, FieldsApart,
         NEW n \in Nodes, NEW c \in ToSet(ConstraintsOf(n)), c \in IdentityConstraint,
         FieldErrors(n, c) # {} \/ Repeats(n, c) # {}
  PROVE  ~KeyHolds(n, c)
<1>1. CASE FieldErrors(n, c) # {}
  BY <1>1, FieldErrorIsOne DEF KeyHolds
<1>2. CASE Repeats(n, c) # {}
  <2>1. PICK p \in Targets(n, c) \X Targets(n, c) :
           p[1] # p[2] /\ FieldTuple(p[1], c) = FieldTuple(p[2], c)
    BY <1>2 DEF Repeats
  <2> DEFINE t == p[1]
             u == p[2]
  <2>2. t \in Targets(n, c) /\ u \in Targets(n, c) /\ t # u /\ FieldTuple(t, c) = FieldTuple(u, c)
    BY <2>1
  <2> HIDE DEF t, u
  <2>3. /\ t \in SelectNodes(n, c.selector) /\ u \in SelectNodes(n, c.selector)
        /\ HasTuple(t, c) /\ HasTuple(u, c)
    BY <2>2 DEF Targets
  <2>4. t \in Nodes /\ u \in Nodes
    BY <2>3, SelectedNodes
  <2>5. SameTuple(t, c, u, c)
    BY <2>2, <2>3, <2>4, SameOfTuple
  <2>6. Complete(t, c) /\ Complete(u, c)
    BY <2>3, SingleSelected DEF HasTuple, Complete
  <2> QED BY <2>2, <2>3, <2>5, <2>6 DEF KeyHolds
<1> QED BY <1>1, <1>2

\* A keyref that finds its table and reports nothing holds.
LEMMA SilentKeyrefHolds ==
  ASSUME input \in Inputs, ExactValues, NEW n \in Nodes, NEW c \in IdentityConstraint, IsKeyref(c),
         NEW tables, tables = {KeyTable(h[1], h[2]) : h \in Hosts(n, ReferKey(c))},
         SelectNodes(n, c.selector) # {} =>
           /\ tables # {} /\ FieldErrors(n, c) = {}
           /\ \A table \in tables : Unresolved(n, c, table) = {}
  PROVE  KeyrefHolds(n, c)
<1> DEFINE selected == SelectNodes(n, c.selector)
           hosts == Hosts(n, ReferKey(c))
<1>1. \A t \in selected : FieldsSingle(t, c)
  BY NoFieldError
<1>2. selected # {} => hosts # {}
  OBVIOUS
<1>3. ASSUME NEW t \in selected, Complete(t, c), NEW h \in hosts
      PROVE  \E u \in SelectNodes(h[1], h[2].selector) : Complete(u, h[2]) /\ SameTuple(t, c, u, h[2])
  <2>1. h[1] \in Nodes /\ h[2] \in IdentityConstraint
    BY InputTyped DEF Hosts
  <2>2. HasTuple(t, c)
    BY <1>3, NoFieldError
  <2>3. t \in Targets(n, c)
    BY <2>2 DEF Targets
  <2>4. FieldTuple(t, c) \in KeyTable(h[1], h[2])
    <3>1. KeyTable(h[1], h[2]) \in tables
      BY <1>3
    <3>2. Unresolved(n, c, KeyTable(h[1], h[2])) = {}
      BY <1>3, <3>1
    <3> QED BY <2>3, <3>2 DEF Unresolved
  <2>5. PICK u \in Targets(h[1], h[2]) : FieldTuple(t, c) = FieldTuple(u, h[2])
    BY <2>4 DEF KeyTable
  <2>6. u \in SelectNodes(h[1], h[2].selector) /\ HasTuple(u, h[2])
    BY <2>5 DEF Targets
  <2>7. t \in Nodes /\ u \in Nodes
    BY <1>3, <2>1, <2>6, SelectedNodes
  <2>8. SameTuple(t, c, u, h[2])
    BY <2>1, <2>2, <2>5, <2>6, <2>7, SameOfTuple
  <2>9. Complete(u, h[2])
    BY <2>6, SingleSelected DEF HasTuple, Complete
  <2> QED BY <2>6, <2>8, <2>9
<1> QED BY <1>1, <1>2, <1>3, Zenon DEF KeyrefHolds

\* A field whose alternatives find different nodes counts each once.
LEMMA CompleteHasTuple ==
  ASSUME FieldsApart, NEW n \in Nodes, NEW c \in ToSet(ConstraintsOf(n)), c \in IdentityConstraint,
         NEW t \in SelectNodes(n, c.selector), Complete(t, c)
  PROVE  HasTuple(t, c)
<1> SUFFICES ASSUME NEW i \in DOMAIN c.fields PROVE Single(Values(t, c.fields[i]))
  BY DEF HasTuple
<1>1. c.fields[i] \in ToSet(c.fields)
  BY FieldTyped
<1>2. \A p, q \in DOMAIN c.fields[i] : p # q => Found(t, c.fields[i][p]) \cap Found(t, c.fields[i][q]) = {}
  BY <1>1 DEF FieldsApart, FieldApart
<1>3. Single(Selected(t, c.fields[i]))
  BY DEF Complete
<1> QED BY <1>2, <1>3, SingleValue

\* A keyref that reports something is broken.
LEMMA LoudKeyrefBroken ==
  ASSUME input \in Inputs, SpelledAlike, FieldsApart,
         NEW n \in Nodes, NEW c \in ToSet(ConstraintsOf(n)), c \in IdentityConstraint, IsKeyref(c),
         NEW tables, tables = {KeyTable(h[1], h[2]) : h \in Hosts(n, ReferKey(c))},
         SelectNodes(n, c.selector) # {},
         \/ tables = {} \/ FieldErrors(n, c) # {}
         \/ \E table \in tables : Unresolved(n, c, table) # {}
  PROVE  ~KeyrefHolds(n, c)
<1> DEFINE selected == SelectNodes(n, c.selector)
           hosts == Hosts(n, ReferKey(c))
<1>1. CASE tables = {}
  <2>1. hosts = {}
    BY <1>1
  <2> QED BY <2>1, Zenon DEF KeyrefHolds
<1>2. CASE FieldErrors(n, c) # {}
  <2>1. c.kind # "key"
    BY DEF IsKeyref
  <2>2. \E t \in selected : ~FieldsSingle(t, c)
    BY <1>2, <2>1, FieldErrorIsOne
  <2> QED BY <2>2, Zenon DEF KeyrefHolds
<1>3. CASE \E table \in tables : Unresolved(n, c, table) # {}
  <2>1. PICK h \in hosts : Unresolved(n, c, KeyTable(h[1], h[2])) # {}
    BY <1>3
  <2>2. PICK t \in Targets(n, c) : FieldTuple(t, c) \notin KeyTable(h[1], h[2])
    BY <2>1 DEF Unresolved
  <2>3. t \in selected /\ HasTuple(t, c)
    BY <2>2 DEF Targets
  <2>4. Complete(t, c)
    BY <2>3, SingleSelected DEF HasTuple, Complete
  <2>5. h[1] \in Nodes /\ h[2] \in IdentityConstraint /\ h[2] \in ToSet(ConstraintsOf(h[1]))
    BY InputTyped DEF Hosts, KeysAt
  <2>6. ASSUME NEW u \in SelectNodes(h[1], h[2].selector), Complete(u, h[2]), SameTuple(t, c, u, h[2])
        PROVE  FALSE
    <3>1. HasTuple(u, h[2])
      BY <2>5, <2>6, CompleteHasTuple
    <3>4. t \in Nodes /\ u \in Nodes
      BY <2>3, <2>5, <2>6, SelectedNodes
    <3>2. FieldTuple(t, c) = FieldTuple(u, h[2])
      BY <2>3, <2>5, <2>6, <3>1, <3>4, TupleOfSame
    <3>3. u \in Targets(h[1], h[2])
      BY <3>1 DEF Targets
    <3> QED BY <2>2, <3>2, <3>3 DEF KeyTable
  <2>7. SUFFICES ASSUME KeyrefHolds(n, c) PROVE FALSE
    OBVIOUS
  <2>8. \A s \in selected : Complete(s, c) =>
           \A g \in hosts : \E u \in SelectNodes(g[1], g[2].selector) :
              Complete(u, g[2]) /\ SameTuple(s, c, u, g[2])
    BY <2>7, Zenon DEF KeyrefHolds
  <2> QED BY <2>1, <2>3, <2>4, <2>6, <2>8
<1> QED BY <1>1, <1>2, <1>3
-----------------------------------------------------------------------------

\* The nearest host of a key: the element itself, or its parent's.
LEMMA HostsOfParent ==
  ASSUME input \in Inputs, NEW n \in Nodes, NEW q
  PROVE  Hosts(n, q) = IF KeysAt(n, q) # {} THEN {<<n, d>> : d \in KeysAt(n, q)}
                       ELSE IF nodes[n].parent = 0 THEN {} ELSE Hosts(nodes[n].parent, q)
<1> DEFINE p == nodes[n].parent
<1>1. n \in Nat /\ p \in 0..(n - 1) /\ (p # 0 => p \in Nodes)
  BY InputTyped
<1>2. \A h \in Nodes : h \in Nat /\ h # 0
  BY InputTyped
<1>a. \A m \in Nodes : \A d \in KeysAt(m, q) : d \in All
  BY DEF KeysAt, All
<1>3. ASSUME NEW h \in Nodes PROVE n \in Below(h) <=> p # 0 /\ (p = h \/ p \in Below(h))
  BY <1>2, BelowUnfolds
<1>4. \A h \in Nodes : h \in Hosting(n, q) <=> KeysAt(h, q) # {} /\ (h = n \/ (p # 0 /\ (p = h \/ p \in Below(h))))
  BY <1>3 DEF Hosting
<1>5. p # 0 => \A h \in Nodes : h \in Hosting(p, q) <=> KeysAt(h, q) # {} /\ (p = h \/ p \in Below(h))
  BY DEF Hosting
<1>6. \A h \in Hosting(n, q) : h \in Nodes /\ h <= n
  <2>1. \A h, m \in Nodes : m \in Below(h) => h < m
    <3> DEFINE bad == {m \in Nodes : \E h \in Nodes : m \in Below(h) /\ ~(h < m)}
    <3>1. bad = {}
      <4> SUFFICES ASSUME bad # {} PROVE FALSE
        OBVIOUS
      <4>1. bad \in SUBSET Nat
        BY <1>2
      <4>2. PICK m \in bad : \A j \in bad : m <= j
        <5> HIDE DEF bad
        <5> QED BY <4>1, LeastNatural
      <4>3. PICK h \in Nodes : m \in Nodes /\ m \in Below(h) /\ ~(h < m)
        OBVIOUS
      <4> DEFINE r == nodes[m].parent
      <4>4. r \in 0..(m - 1) /\ (r # 0 => r \in Nodes) /\ m \in Nat /\ h \in Nat
        BY <4>3, InputTyped
      <4>5. r = h \/ (r # 0 /\ r \in Below(h))
        BY <4>3, BelowUnfolds
      <4>6. r # h
        BY <4>3, <4>4
      <4>7. r \in Nodes /\ r \in Below(h) /\ ~(m <= r)
        BY <4>4, <4>5, <4>6
      <4>8. r \notin bad
        <5> HIDE DEF bad
        <5> QED BY <4>2, <4>7
      <4>9. h < r
        BY <4>7, <4>8
      <4> QED BY <4>3, <4>4, <4>9
    <3> QED BY <3>1
  <2> QED BY <1>1, <1>2, <2>1 DEF Hosting
<1>7. CASE KeysAt(n, q) # {}
  <2>1. n \in Hosting(n, q)
    BY <1>4, <1>7
  <2>2. \A h \in Hosting(n, q) : (\A m \in Hosting(n, q) : m <= h) <=> h = n
    <3> TAKE h \in Hosting(n, q)
    <3>1. h \in Nat /\ h <= n /\ n \in Nat
      BY <1>1, <1>2, <1>6
    <3>2. (\A m \in Hosting(n, q) : m <= h) => n <= h
      BY <2>1
    <3> QED BY <1>6, <3>1, <3>2
  <2>3. ASSUME NEW g \in Hosts(n, q) PROVE g \in {<<n, d>> : d \in KeysAt(n, q)}
    <3>1. g[1] = n /\ g[2] \in KeysAt(n, q) /\ g = <<g[1], g[2]>>
      BY <2>2 DEF Hosts
    <3> QED BY <3>1
  <2>4. ASSUME NEW d \in KeysAt(n, q) PROVE <<n, d>> \in Hosts(n, q)
    <3>1. <<n, d>> \in Nodes \X All /\ <<n, d>>[1] = n /\ <<n, d>>[2] = d
      BY <1>a
    <3> QED BY <2>1, <2>2, <3>1 DEF Hosts
  <2> QED BY <1>7, <2>3, <2>4
<1>8. CASE KeysAt(n, q) = {} /\ p = 0
  <2>1. Hosting(n, q) = {}
    BY <1>4, <1>6, <1>8
  <2> QED BY <1>8, <2>1 DEF Hosts
<1>9. CASE KeysAt(n, q) = {} /\ p # 0
  <2>1. Hosting(n, q) = Hosting(p, q)
    <3>1. \A h \in Nodes : h \in Hosting(n, q) <=> h \in Hosting(p, q)
      BY <1>4, <1>5, <1>9
    <3> QED BY <3>1 DEF Hosting
  <2>2. Hosts(n, q) = Hosts(p, q)
    BY <2>1 DEF Hosts
  <2> QED BY <1>9, <2>2
<1> QED BY <1>7, <1>8, <1>9

-----------------------------------------------------------------------------
\* A bounded set of natural numbers that is not empty has a greatest member.
LEMMA GreatestNatural ==
  ASSUME NEW N \in Nat, NEW S \in SUBSET (1..N), S # {}
  PROVE  \E j \in S : \A i \in S : i <= j
<1> DEFINE T == {N - i : i \in S}
<1>1. T \in SUBSET Nat /\ T # {}
  <2>1. \A i \in S : N - i \in Nat
    OBVIOUS
  <2> QED BY <2>1
<1>2. PICK l \in T : \A i \in T : l <= i
  <2> HIDE DEF T
  <2> QED BY <1>1, LeastNatural
<1>3. PICK j \in S : l = N - j
  OBVIOUS
<1>4. \A i \in S : N - j <= N - i
  BY <1>2, <1>3
<1>5. \A i \in S : i \in Int
  OBVIOUS
<1> QED BY <1>3, <1>4, <1>5

\* The innermost table is the one pushed last, if it has the name.
LEMMA TableForPushed ==
  ASSUME NEW A, NEW ss \in Seq(A), NEW s \in A, NEW q
  PROVE  TableFor(q, Append(ss, s)) = IF q \in DOMAIN s THEN {s[q]} ELSE TableFor(q, ss)
<1> DEFINE l == Len(ss)
           tt == Append(ss, s)
           at == {i \in DOMAIN ss : q \in DOMAIN ss[i]}
           att == {i \in DOMAIN tt : q \in DOMAIN tt[i]}
<1>1. /\ l \in Nat /\ DOMAIN ss = 1..l /\ DOMAIN tt = 1..(l + 1)
      /\ tt[l + 1] = s /\ \A i \in 1..l : tt[i] = ss[i]
  OBVIOUS
<1>2. /\ TableFor(q, ss) = IF at = {} THEN {} ELSE {ss[CHOOSE i \in at : \A j \in at : j <= i][q]}
      /\ TableFor(q, tt) = IF att = {} THEN {} ELSE {tt[CHOOSE i \in att : \A j \in att : j <= i][q]}
  BY Zenon DEF TableFor
<1>3. CASE q \in DOMAIN s
  <2>1. l + 1 \in att /\ \A i \in att : i <= l + 1 /\ i \in Nat
    BY <1>1, <1>3
  <2> HIDE DEF tt, att
  <2>2. (CHOOSE i \in att : \A j \in att : j <= i) = l + 1
    <3>1. \A i \in att : (\A j \in att : j <= i) => i = l + 1
      BY <1>1, <2>1
    <3> QED BY <2>1, <3>1
  <2>3. TableFor(q, tt) = {s[q]}
    BY <1>1, <1>2, <2>1, <2>2
  <2> QED BY <1>3, <2>3 DEF tt
<1>4. CASE q \notin DOMAIN s
  <2>1. att = at
    <3>1. \A i \in att : i # l + 1
      BY <1>1, <1>4
    <3>2. \A i \in att : i \in at
      <4> TAKE i \in att
      <4>1. i \in 1..l
        BY <1>1, <3>1
      <4> QED BY <1>1, <4>1
    <3>3. \A i \in at : i \in att
      <4> TAKE i \in at
      <4>1. i \in 1..l /\ i \in 1..(l + 1)
        BY <1>1
      <4> QED BY <1>1, <4>1
    <3> HIDE DEF at, att
    <3> QED BY <3>2, <3>3
  <2>2. at \in SUBSET (1..l)
    BY <1>1
  <2> HIDE DEF tt, att, at
  <2>3. CASE at = {}
    BY <1>2, <1>4, <2>1, <2>3 DEF tt
  <2>4. CASE at # {}
    <3>1. \E j \in at : \A i \in at : i <= j
      BY <1>1, <2>2, <2>4, GreatestNatural
    <3> DEFINE m == CHOOSE i \in at : \A j \in at : j <= i
    <3>2. m \in 1..l
      BY <2>2, <3>1
    <3>3. tt[m] = ss[m]
      BY <1>1, <3>2
    <3>4. TableFor(q, tt) = {tt[m][q]} /\ TableFor(q, ss) = {ss[m][q]}
      BY <1>2, <2>1, <2>4, Zenon
    <3> QED BY <1>4, <3>3, <3>4 DEF tt
  <2> QED BY <2>3, <2>4
<1> QED BY <1>3, <1>4

\* Without scopes there is no table.
LEMMA TableForNone == ASSUME NEW q PROVE TableFor(q, <<>>) = {}
BY DEF TableFor

\* The operators of the document, of what they are made of.
BelowOf(ns, n) ==
  LET within[m \in 0..Len(ns)] == m # 0 /\ (ns[m].parent = n \/ within[ns[m].parent])
  IN  {m \in 1..Len(ns) : within[m]}
SelectOf(ns, below, base, path) ==
  LET after[i \in 0..Len(path.steps)] ==
        IF i = 0 THEN {base} \cup (IF path.descendant THEN below ELSE {})
        ELSE {m \in UNION {{o \in 1..Len(ns) : ns[o].parent = n} : n \in after[i - 1]} :
                path.steps[i] \in {"*", ns[m].name}}
  IN  after[Len(path.steps)]
FoundOf(ns, selected, path) ==
  IF path.attr = "" THEN {<<m, "", ns[m].value>> : m \in selected}
  ELSE UNION {{<<m, a[1], a[2]>> : a \in {b \in ns[m].attrs : path.attr \in {"*", b[1]}}} :
                m \in selected}
ReferOf(registered, local, c) ==
  IF c.refer \in registered THEN c.refer
  ELSE IF Cardinality(local) = 1 THEN CHOOSE q \in local : TRUE
  ELSE <<>>

\* What depends on the document alone.
LEMMA SameInput ==
  ASSUME input' = input
  PROVE  /\ nodes' = nodes /\ Nodes' = Nodes /\ All' = All
         /\ \A n : ConstraintsOf(n)' = ConstraintsOf(n)
         /\ \A n, c : SelectNodes(n, c.selector)' = SelectNodes(n, c.selector)
         /\ \A n, c : KeyTable(n, c)' = KeyTable(n, c)
         /\ \A c : ScopeKey(c)' = ScopeKey(c)
         /\ \A n, q : Hosts(n, q)' = Hosts(n, q)
         /\ \A n, c : KeyHolds(n, c)' <=> KeyHolds(n, c)
         /\ \A n, c : KeyrefHolds(n, c)' <=> KeyrefHolds(n, c)
         /\ (SchemaFaulty' <=> SchemaFaulty) /\ (ExactValues' <=> ExactValues)
         /\ (SpelledAlike' <=> SpelledAlike) /\ (Told' <=> Told)
         /\ (FieldsApart' <=> FieldsApart) /\ (OneSchema' <=> OneSchema) /\ (Broken' <=> Broken)
<1>1. nodes' = nodes /\ Nodes' = Nodes
  BY DEF nodes, Nodes
<1>2. \A n : ConstraintsOf(n)' = ConstraintsOf(n)
  BY DEF ConstraintsOf
<1>3. All' = All
  BY <1>1, <1>2 DEF All
<1>4. \A n : Children(n)' = Children(n)
  BY <1>1 DEF Children
<1>5. \A n : Below(n)' = Below(n)
  <2> TAKE n
  <2>1. Below(n) = BelowOf(nodes, n) /\ Below(n)' = BelowOf(nodes', n)
    BY Zenon DEF Below, BelowOf, Nodes
  <2> QED BY <1>1, <2>1, Zenon
<1>6. \A n, p : Select(n, p)' = Select(n, p)
  <2> TAKE n, p
  <2>1. nodes' = nodes /\ Below(n)' = Below(n)
    BY <1>1, <1>5
  <2>2. Select(n, p) = SelectOf(nodes, Below(n), n, p)
    BY Zenon DEF Select, SelectOf, Children, Nodes
  <2>3. Select(n, p)' = SelectOf(nodes', Below(n)', n, p)
    BY Zenon DEF Select, SelectOf, Children, Nodes
  <2> QED BY <2>1, <2>2, <2>3, Zenon
<1>7. \A n, c : SelectNodes(n, c.selector)' = SelectNodes(n, c.selector)
  BY <1>6 DEF SelectNodes
<1>8. \A t, p : Found(t, p)' = Found(t, p)
  <2> TAKE t, p
  <2>1. nodes' = nodes /\ Select(t, p)' = Select(t, p)
    BY <1>1, <1>6
  <2>2. /\ Found(t, p) = FoundOf(nodes, Select(t, p), p)
        /\ Found(t, p)' = FoundOf(nodes', Select(t, p)', p)
    BY Zenon DEF Found, FoundOf
  <2> QED BY <2>1, <2>2, Zenon
<1>9. \A t, f : Values(t, f)' = Values(t, f) /\ Selected(t, f)' = Selected(t, f)
  BY <1>8 DEF Values, Selected
<1>10. \A t, f : FieldKey(t, f)' = FieldKey(t, f)
  <2> TAKE t, f
  <2>1. Values(t, f)' = Values(t, f)
    BY <1>9
  <2> QED BY <2>1, Zenon DEF FieldKey
<1>11. \A t, c : HasTuple(t, c)' <=> HasTuple(t, c)
  BY <1>9 DEF HasTuple
<1>12. \A t, c : FieldTuple(t, c)' = FieldTuple(t, c)
  <2> TAKE t, c
  <2>1. [i \in DOMAIN c.fields |-> FieldKey(t, c.fields[i])]' = [i \in DOMAIN c.fields |-> FieldKey(t, c.fields[i])]
    BY <1>10
  <2> QED BY <2>1, Zenon DEF FieldTuple
<1>13. \A n, c : Targets(n, c)' = Targets(n, c)
  BY <1>7, <1>11 DEF Targets
<1>14. \A n, c : KeyTable(n, c)' = KeyTable(n, c)
  BY <1>12, <1>13 DEF KeyTable
<1>15. \A schema : Registered(schema)' = Registered(schema)
  BY <1>3 DEF Registered
<1>16. \A c : ByLocal(c)' = ByLocal(c)
  BY <1>15 DEF ByLocal
<1>17. \A c : ReferKey(c)' = ReferKey(c)
  <2> TAKE c
  <2>1. ByLocal(c)' = ByLocal(c) /\ Registered(c.schema)' = Registered(c.schema)
    BY <1>15, <1>16
  <2>2. /\ ReferKey(c) = ReferOf(Registered(c.schema), ByLocal(c), c)
        /\ ReferKey(c)' = ReferOf(Registered(c.schema)', ByLocal(c)', c)
    BY Zenon DEF ReferKey, ReferOf
  <2> QED BY <2>1, <2>2, Zenon
<1>18. SchemaFaulty' <=> SchemaFaulty
  BY <1>3, <1>17 DEF SchemaFaulty
<1>19. \A c : ScopeKey(c)' = ScopeKey(c)
  BY DEF ScopeKey
<1>20. \A t, c, u, d : SameTuple(t, c, u, d)' <=> SameTuple(t, c, u, d)
  BY <1>9 DEF SameTuple
<1>21. \A t, c : (Complete(t, c)' <=> Complete(t, c)) /\ (FieldsSingle(t, c)' <=> FieldsSingle(t, c))
  BY <1>9 DEF Complete, FieldsSingle
<1>22. \A n, c : KeyHolds(n, c)' <=> KeyHolds(n, c)
  BY <1>7, <1>20, <1>21 DEF KeyHolds
<1>23. \A n, q : KeysAt(n, q)' = KeysAt(n, q)
  BY <1>2 DEF KeysAt
<1>24. \A n, q : Hosting(n, q)' = Hosting(n, q)
  BY <1>1, <1>5, <1>23 DEF Hosting
<1>25. \A n, q : Hosts(n, q)' = Hosts(n, q)
  BY <1>1, <1>3, <1>23, <1>24 DEF Hosts
<1>26. \A n, c : KeyrefHolds(n, c)' <=> KeyrefHolds(n, c)
  <2> TAKE n, c
  <2>1. SelectNodes(n, c.selector)' = SelectNodes(n, c.selector) /\ Hosts(n, ReferKey(c))' = Hosts(n, ReferKey(c))
    BY <1>7, <1>17, <1>25
  <2> QED BY <1>7, <1>20, <1>21, <2>1 DEF KeyrefHolds
<1>27. (ExactValues' <=> ExactValues) /\ (SpelledAlike' <=> SpelledAlike)
  BY <1>1 DEF ExactValues, SpelledAlike, DocValues
<1>28. FieldsApart' <=> FieldsApart
  <2>1. \A t, f : FieldApart(t, f)' <=> FieldApart(t, f)
    BY <1>8 DEF FieldApart
  <2>2. ASSUME FieldsApart PROVE FieldsApart'
    <3> SUFFICES ASSUME NEW n \in Nodes', NEW c \in ToSet(ConstraintsOf(n)'),
                        NEW f \in ToSet(c.fields), NEW t \in SelectNodes(n, c.selector)'
                 PROVE  FieldApart(t, f)'
      BY DEF FieldsApart
    <3>1. n \in Nodes /\ c \in ToSet(ConstraintsOf(n)) /\ t \in SelectNodes(n, c.selector)
      BY <1>1, <1>2, <1>7
    <3> QED BY <2>1, <2>2, <3>1 DEF FieldsApart
  <2>3. ASSUME FieldsApart' PROVE FieldsApart
    <3> SUFFICES ASSUME NEW n \in Nodes, NEW c \in ToSet(ConstraintsOf(n)),
                        NEW f \in ToSet(c.fields), NEW t \in SelectNodes(n, c.selector)
                 PROVE  FieldApart(t, f)
      BY DEF FieldsApart
    <3>1. n \in Nodes' /\ c \in ToSet(ConstraintsOf(n)') /\ t \in SelectNodes(n, c.selector)'
      BY <1>1, <1>2, <1>7
    <3> QED BY <2>1, <2>3, <3>1 DEF FieldsApart
  <2> QED BY <2>2, <2>3
<1>29. OneSchema' <=> OneSchema
  BY <1>3 DEF OneSchema
<1>31. Told' <=> Told
  BY <1>27, <1>28 DEF Told
<1>30. Broken' <=> Broken
  BY <1>1, <1>2, <1>3, <1>22, <1>26 DEF Broken
<1> QED BY <1>1, <1>2, <1>3, <1>7, <1>14, <1>18, <1>19, <1>22, <1>25, <1>26, <1>27, <1>28, <1>29, <1>30, <1>31

-----------------------------------------------------------------------------
Names == {ScopeKey(c) : c \in All}
Tables == {KeyTable(m, c) : m \in Nodes, c \in All}
Scope == UNION {[D -> Tables] : D \in SUBSET Names}

TypeOK == /\ input \in Inputs
          /\ phase \in {"schema", "keys", "refs", "end"}
          /\ node \in Nodes
          /\ k \in 1..(Len(ConstraintsOf(node)) + 1)
          /\ scope \in Scope
          /\ scopes \in [Nodes -> Seq(Scope)]

Judged == /\ phase = "schema" => errors = {} /\ node = 1 /\ k = 1 /\ scope = NoScope
          /\ (phase \in {"keys", "refs"} \/ (phase = "end" /\ errors = {})) => ~SchemaFaulty
          /\ phase = "end" /\ errors = {} => node = Len(nodes)

\* The keys and uniques of n among its first constraints.
KeysUpTo(n, j) == {i \in 1..j : ~IsKeyref(ConstraintsOf(n)[i])}

\* A scope with the tables of the keys among the first j constraints of n.
HasTables(s, n, j) ==
  /\ DOMAIN s = {ScopeKey(ConstraintsOf(n)[i]) : i \in KeysUpTo(n, j)}
  /\ \A i \in KeysUpTo(n, j) :
       s[ScopeKey(ConstraintsOf(n)[i])] = KeyTable(n, ConstraintsOf(n)[i])
ScopeBuilt == phase = "keys" /\ OneSchema => HasTables(scope, node, k - 1)

Entered(n) == n < node \/ (n = node /\ phase \in {"refs", "end"})
HostTables(n, q) == {KeyTable(h[1], h[2]) : h \in Hosts(n, q)}
ScopesRight ==
  phase # "schema" /\ ~SchemaFaulty /\ OneSchema =>
    \A n \in Nodes : Entered(n) =>
      \A q : TableFor(q, scopes[n]) = HostTables(n, q)

KeyDone(n, j) == Entered(n) \/ (n = node /\ phase = "keys" /\ j < k)
RefDone(n, j) == n < node \/ (n = node /\ (phase = "end" \/ (phase = "refs" /\ j < k)))
KeysHold ==
  phase # "schema" /\ errors = {} /\ SpelledAlike =>
    \A n \in Nodes : \A j \in DOMAIN ConstraintsOf(n) :
      ~IsKeyref(ConstraintsOf(n)[j]) /\ KeyDone(n, j) => KeyHolds(n, ConstraintsOf(n)[j])
RefsHold ==
  phase # "schema" /\ errors = {} /\ ExactValues /\ OneSchema =>
    \A n \in Nodes : \A j \in DOMAIN ConstraintsOf(n) :
      IsKeyref(ConstraintsOf(n)[j]) /\ RefDone(n, j) => KeyrefHolds(n, ConstraintsOf(n)[j])
ErrorsRight ==
  errors # {} /\ ~SchemaFaulty /\ Told /\ OneSchema => Broken

IdentityInv == TypeOK /\ Judged /\ ScopeBuilt /\ ScopesRight /\ KeysHold /\ RefsHold /\ ErrorsRight

\* What the invariant says of tables depends on the document alone.
LEMMA SameScope ==
  ASSUME input' = input
  PROVE  /\ Scope' = Scope /\ Inputs' = Inputs
         /\ \A s, n, j : HasTables(s, n, j)' <=> HasTables(s, n, j)
         /\ \A n, q : HostTables(n, q)' = HostTables(n, q)
<1>1. Names' = Names /\ Tables' = Tables
  BY SameInput DEF Names, Tables
<1>2. \A n, j : KeysUpTo(n, j)' = KeysUpTo(n, j)
  BY SameInput DEF KeysUpTo
<1>3. \A n, q : HostTables(n, q)' = HostTables(n, q)
  BY SameInput DEF HostTables
<1>4. ASSUME NEW s, NEW n, NEW j PROVE HasTables(s, n, j)' <=> HasTables(s, n, j)
  <2>1. /\ ConstraintsOf(n)' = ConstraintsOf(n) /\ KeysUpTo(n, j)' = KeysUpTo(n, j)
        /\ \A c : ScopeKey(c)' = ScopeKey(c)
        /\ \A c : KeyTable(n, c)' = KeyTable(n, c)
    BY <1>2, SameInput
  <2>2. {ScopeKey(ConstraintsOf(n)[i]) : i \in KeysUpTo(n, j)}' = {ScopeKey(ConstraintsOf(n)[i]) : i \in KeysUpTo(n, j)}
    BY <2>1
  <2> QED BY <2>1, <2>2 DEF HasTables
<1> QED BY <1>1, <1>3, <1>4 DEF Scope

\* Tables that have the type.
LEMMA ScopeTyped ==
  /\ NoScope \in Scope /\ DOMAIN NoScope = {}
  /\ \A n \in Nodes, c \in All, s \in Scope :
       [q \in DOMAIN s \cup {ScopeKey(c)} |-> IF q = ScopeKey(c) THEN KeyTable(n, c) ELSE s[q]] \in Scope
<1>1. NoScope \in [{} -> Tables] /\ {} \in SUBSET Names /\ DOMAIN NoScope = {}
  BY DEF NoScope
<1>2. ASSUME NEW n \in Nodes, NEW c \in All, NEW s \in Scope
      PROVE  [q \in DOMAIN s \cup {ScopeKey(c)} |-> IF q = ScopeKey(c) THEN KeyTable(n, c) ELSE s[q]] \in Scope
  <2>1. PICK D \in SUBSET Names : s \in [D -> Tables]
    BY DEF Scope
  <2>2. KeyTable(n, c) \in Tables /\ ScopeKey(c) \in Names
    BY DEF Tables, Names
  <2>3. D \cup {ScopeKey(c)} \in SUBSET Names /\ DOMAIN s = D
    BY <2>1, <2>2
  <2> DEFINE q0 == ScopeKey(c)
             t0 == KeyTable(n, c)
             E == D \cup {q0}
  <2>4. [q \in E |-> IF q = q0 THEN t0 ELSE s[q]] \in [E -> Tables]
    <3> HIDE DEF q0, t0
    <3> QED BY <2>1, <2>2 DEF q0, t0
  <2> QED BY <2>3, <2>4 DEF Scope
<1> QED BY <1>1, <1>2 DEF Scope

\* In one schema a name is that of one key.
LEMMA OneKey ==
  ASSUME OneSchema, NEW c \in All, NEW d \in All, ~IsKeyref(c), ~IsKeyref(d), KeyOf(c) = KeyOf(d)
  PROVE  c = d
BY DEF OneSchema

\* In one schema a table is stored under the name its key is registered by.
LEMMA ScopeKeyIsKey ==
  ASSUME OneSchema, NEW c \in All
  PROVE  ScopeKey(c) = KeyOf(c)
BY DEF OneSchema, ScopeKey, KeyOf

\* A constraint of an element is one of the document.
LEMMA ConstraintTyped ==
  ASSUME input \in Inputs, NEW n \in Nodes, NEW j \in 1..Len(ConstraintsOf(n))
  PROVE  /\ ConstraintsOf(n)[j] \in ToSet(ConstraintsOf(n)) /\ ConstraintsOf(n)[j] \in All
         /\ ConstraintsOf(n)[j] \in IdentityConstraint
<1>1. ConstraintsOf(n)[j] \in ToSet(ConstraintsOf(n))
  BY InputTyped DEF ToSet
<1>2. ConstraintsOf(n)[j] \in All
  BY <1>1 DEF All
<1> QED BY <1>1, <1>2, InputTyped
-----------------------------------------------------------------------------

\* Nothing is visited yet, and nothing reported.
LEMMA InitInv == Init => IdentityInv
<1> SUFFICES ASSUME Init PROVE IdentityInv
  OBVIOUS
<1> USE DEF Init
<1>1. TypeOK
  <2>1. input \in Inputs
    OBVIOUS
  <2>2. scopes \in [Nodes -> Seq(Scope)]
    BY DEF Nodes, nodes
  <2>3. node \in Nodes /\ k \in 1..(Len(ConstraintsOf(node)) + 1)
    BY <2>1, InputTyped
  <2> QED BY <2>1, <2>2, <2>3, ScopeTyped DEF TypeOK
<1>2. Judged /\ ScopeBuilt /\ ScopesRight /\ KeysHold /\ RefsHold /\ ErrorsRight
  BY DEF Judged, ScopeBuilt, ScopesRight, KeysHold, RefsHold, ErrorsRight
<1> QED BY <1>1, <1>2 DEF IdentityInv

\* A schema that is rejected leaves no document to judge.
LEMMA RejectKeeps ==
  ASSUME IdentityInv, RejectSchema
  PROVE  IdentityInv'
<1> USE DEF RejectSchema, IdentityInv
<1>1. TypeOK'
  BY SameInput, SameScope DEF TypeOK
<1>2. SchemaFaulty' /\ errors' # {} /\ phase' = "end"
  BY SameInput
<1>3. Judged' /\ ScopeBuilt' /\ ScopesRight' /\ KeysHold' /\ RefsHold' /\ ErrorsRight'
  BY <1>2 DEF Judged, ScopeBuilt, ScopesRight, KeysHold, RefsHold, ErrorsRight
<1> QED BY <1>1, <1>3

\* The walk begins at the root, with no tables.
LEMMA AcceptKeeps ==
  ASSUME IdentityInv, AcceptSchema
  PROVE  IdentityInv'
<1> USE DEF AcceptSchema, IdentityInv
<1>1. TypeOK'
  BY SameInput, SameScope DEF TypeOK
<1>2. /\ ~SchemaFaulty' /\ errors' = {} /\ phase' = "keys" /\ node' = 1 /\ k' = 1 /\ scope' = NoScope
      /\ input \in Inputs
  BY SameInput DEF Judged, TypeOK
<1>3. \A n \in Nodes' : n \in Nat \ {0}
  BY <1>2, InputTyped, SameInput
<1>4. \A n : HasTables(NoScope, n, 1 - 1)
  <2>1. \A n : KeysUpTo(n, 1 - 1) = {}
    BY DEF KeysUpTo
  <2> QED BY <2>1, ScopeTyped DEF HasTables
<1>5. Judged' /\ ErrorsRight'
  BY <1>2 DEF Judged, ErrorsRight
<1>6. ScopeBuilt'
  BY <1>2, <1>4, SameScope DEF ScopeBuilt
<1>7. \A n \in Nodes' : ~Entered(n)'
  BY <1>2, <1>3 DEF Entered
<1>8. ScopesRight'
  BY <1>7 DEF ScopesRight
<1>9. KeysHold'
  <2>1. \A n \in Nodes' : \A j \in DOMAIN ConstraintsOf(n)' : ~KeyDone(n, j)'
    <3> SUFFICES ASSUME NEW n \in Nodes', NEW j \in DOMAIN ConstraintsOf(n)' PROVE ~KeyDone(n, j)'
      OBVIOUS
    <3>1. j \in Nat /\ j # 0
      BY <1>2, InputTyped, SameInput
    <3> QED BY <1>2, <1>7, <3>1 DEF KeyDone
  <2> QED BY <2>1 DEF KeysHold
<1>10. RefsHold'
  <2>1. \A n \in Nodes' : \A j : ~RefDone(n, j)'
    BY <1>2, <1>3 DEF RefDone
  <2> QED BY <2>1 DEF RefsHold
<1> QED BY <1>1, <1>5, <1>6, <1>8, <1>9, <1>10

\* buildKeyTable adds the table of its key, and an error when the key is broken.
LEMMA BuildKeeps ==
  ASSUME IdentityInv, BuildTable
  PROVE  IdentityInv'
<1> DEFINE c == ConstraintsOf(node)[k]
<1>0. /\ input' = input /\ phase' = "keys" /\ phase = "keys" /\ node' = node /\ k' = k + 1
      /\ scopes' = scopes /\ k <= Len(ConstraintsOf(node)) /\ ~IsKeyref(c)
      /\ scope' = [q \in DOMAIN scope \cup {ScopeKey(c)} |-> IF q = ScopeKey(c) THEN KeyTable(node, c) ELSE scope[q]]
      /\ errors' = errors \cup FieldErrors(node, c) \cup Repeats(node, c)
  BY DEF BuildTable, AtConstraint, Constraint
<1>1. TypeOK /\ Judged /\ ScopeBuilt /\ ScopesRight /\ KeysHold /\ RefsHold /\ ErrorsRight
  BY DEF IdentityInv
<1>2. /\ input \in Inputs /\ node \in Nodes /\ node \in Nat /\ k \in Nat \ {0} /\ scope \in Scope
      /\ scopes \in [Nodes -> Seq(Scope)] /\ k \in 1..Len(ConstraintsOf(node))
      /\ Len(ConstraintsOf(node)) \in Nat
  <2>1. input \in Inputs /\ node \in Nodes /\ k \in 1..(Len(ConstraintsOf(node)) + 1)
        /\ scope \in Scope /\ scopes \in [Nodes -> Seq(Scope)]
    BY <1>1 DEF TypeOK
  <2>2. Len(ConstraintsOf(node)) \in Nat /\ node \in Nat
    BY <2>1, InputTyped
  <2> QED BY <1>0, <2>1, <2>2
<1>3. c \in ToSet(ConstraintsOf(node)) /\ c \in All /\ c \in IdentityConstraint
  BY <1>2, ConstraintTyped
<1>4. ~SchemaFaulty
  BY <1>0, <1>1 DEF Judged
<1> HIDE DEF c
<1>5. TypeOK'
  <2>1. scope' \in Scope
    BY <1>0, <1>2, <1>3, ScopeTyped
  <2>2. node' \in Nodes' /\ k' \in 1..(Len(ConstraintsOf(node)') + 1)
    BY <1>0, <1>2, SameInput
  <2> QED BY <1>0, <1>2, <2>1, <2>2, SameInput, SameScope DEF TypeOK
<1>6. Judged'
  BY <1>0, <1>4, SameInput DEF Judged
<1>7. ScopeBuilt'
  <2> SUFFICES ASSUME OneSchema
               PROVE  HasTables(scope', node, k)
    <3>1. (k + 1) - 1 = k
      BY <1>2
    <3> QED BY <1>0, <3>1, SameInput, SameScope DEF ScopeBuilt
  <2>1. /\ DOMAIN scope = {ScopeKey(ConstraintsOf(node)[i]) : i \in KeysUpTo(node, k - 1)}
        /\ \A i \in KeysUpTo(node, k - 1) :
             scope[ScopeKey(ConstraintsOf(node)[i])] = KeyTable(node, ConstraintsOf(node)[i])
    BY <1>0, <1>1 DEF ScopeBuilt, HasTables
  <2>2. KeysUpTo(node, k) = KeysUpTo(node, k - 1) \cup {k}
    <3>1. \A i : i \in 1..k <=> i \in 1..(k - 1) \/ i = k
      BY <1>2
    <3> QED BY <1>0, <3>1 DEF KeysUpTo, c
  <2>3. DOMAIN scope' = DOMAIN scope \cup {ScopeKey(c)}
    BY <1>0
  <2>4. ASSUME NEW i \in KeysUpTo(node, k)
        PROVE  scope'[ScopeKey(ConstraintsOf(node)[i])] = KeyTable(node, ConstraintsOf(node)[i])
    <3> DEFINE d == ConstraintsOf(node)[i]
    <3>1. d \in All /\ ~IsKeyref(d)
      <4>1. i \in 1..Len(ConstraintsOf(node)) /\ ~IsKeyref(d)
        BY <1>2 DEF KeysUpTo
      <4> QED BY <1>2, <4>1, ConstraintTyped
    <3> HIDE DEF d
    <3>2. CASE ScopeKey(d) = ScopeKey(c)
      <4>1. d = c
        BY <1>0, <1>3, <1>4, <3>1, <3>2, OneKey, ScopeKeyIsKey
      <4>2. scope'[ScopeKey(c)] = KeyTable(node, c)
        BY <1>0
      <4> QED BY <4>1, <4>2 DEF d
    <3>3. CASE ScopeKey(d) # ScopeKey(c)
      <4>1. i \in KeysUpTo(node, k - 1)
        BY <2>2, <3>3 DEF d, c
      <4>2. ScopeKey(d) \in DOMAIN scope /\ scope[ScopeKey(d)] = KeyTable(node, d)
        BY <2>1, <4>1 DEF d
      <4>3. scope'[ScopeKey(d)] = scope[ScopeKey(d)]
        BY <1>0, <3>3, <4>2
      <4> QED BY <4>2, <4>3 DEF d
    <3> QED BY <3>2, <3>3
  <2>5. DOMAIN scope' = {ScopeKey(ConstraintsOf(node)[i]) : i \in KeysUpTo(node, k)}
    BY <2>1, <2>2, <2>3 DEF c
  <2> QED BY <2>4, <2>5 DEF HasTables
<1>8. ScopesRight'
  <2>1. \A n : Entered(n)' <=> Entered(n)
    BY <1>0 DEF Entered
  <2> QED BY <1>0, <1>1, <1>4, <2>1, SameInput, SameScope DEF ScopesRight
<1>9. \A n, j : KeyDone(n, j)' => KeyDone(n, j) \/ ~(j \in Nat) \/ (n = node /\ j = k)
  BY <1>0, <1>2 DEF KeyDone, Entered
<1>10. KeysHold'
  <2> SUFFICES ASSUME errors' = {}, SpelledAlike, NEW n \in Nodes, NEW j \in DOMAIN ConstraintsOf(n),
                      ~IsKeyref(ConstraintsOf(n)[j]), KeyDone(n, j)'
               PROVE  KeyHolds(n, ConstraintsOf(n)[j])
    BY SameInput, <1>0 DEF KeysHold
  <2>1. errors = {} /\ FieldErrors(node, c) = {} /\ Repeats(node, c) = {} /\ phase # "schema"
    BY <1>0
  <2>2. j \in Nat
    <3>1. input \in Inputs  BY <1>2
    <3>2. ConstraintsOf(n) \in Seq(IdentityConstraint) /\ Len(ConstraintsOf(n)) \in Nat
      BY <3>1, InputTyped
    <3>3. j \in 1..Len(ConstraintsOf(n))  BY <3>2
    <3> QED BY <3>2, <3>3
  <2>3. CASE KeyDone(n, j)
    BY <1>1, <2>1, <2>3 DEF KeysHold
  <2>4. CASE n = node /\ j = k
    BY <1>1, <1>2, <1>3, <2>1, <2>4, SilentKeyHolds DEF c
  <2> QED BY <1>9, <2>2, <2>3, <2>4
<1>11. RefsHold'
  <2>1. \A n, j : RefDone(n, j)' => RefDone(n, j)
    BY <1>0 DEF RefDone
  <2> QED BY <1>0, <1>1, <2>1, SameInput DEF RefsHold
<1>12. ErrorsRight'
  <2> SUFFICES ASSUME errors' # {}, ExactValues, SpelledAlike, FieldsApart, OneSchema PROVE Broken
    BY <1>0, SameInput DEF ErrorsRight, Told
  <2>1. CASE errors # {}
    BY <1>1, <1>4, <2>1 DEF ErrorsRight, Told
  <2>2. CASE errors = {}
    <3>1. FieldErrors(node, c) # {} \/ Repeats(node, c) # {}
      BY <1>0, <2>2
    <3>2. ~KeyHolds(node, c)
      BY <1>2, <1>3, <3>1, LoudKeyBroken
    <3> QED BY <1>0, <1>2, <1>3, <3>2 DEF Broken
  <2> QED BY <2>1, <2>2
<1> QED BY <1>5, <1>6, <1>7, <1>8, <1>10, <1>11, <1>12 DEF IdentityInv

\* A loop passes over the constraints of the other kind.
LEMMA SkipKeeps ==
  ASSUME IdentityInv, SkipConstraint
  PROVE  IdentityInv'
<1> DEFINE c == ConstraintsOf(node)[k]
<1>0. /\ input' = input /\ phase' = phase /\ phase \in {"keys", "refs"} /\ node' = node /\ k' = k + 1
      /\ scopes' = scopes /\ k <= Len(ConstraintsOf(node)) /\ scope' = scope /\ errors' = errors
      /\ phase = "keys" => IsKeyref(c)
      /\ phase = "refs" => ~IsKeyref(c)
  BY DEF SkipConstraint, AtConstraint, Constraint
<1>1. TypeOK /\ Judged /\ ScopeBuilt /\ ScopesRight /\ KeysHold /\ RefsHold /\ ErrorsRight
  BY DEF IdentityInv
<1>2. /\ input \in Inputs /\ node \in Nodes /\ node \in Nat /\ k \in Nat \ {0} /\ scope \in Scope
      /\ scopes \in [Nodes -> Seq(Scope)] /\ k \in 1..Len(ConstraintsOf(node))
      /\ Len(ConstraintsOf(node)) \in Nat
  <2>1. input \in Inputs /\ node \in Nodes /\ k \in 1..(Len(ConstraintsOf(node)) + 1)
        /\ scope \in Scope /\ scopes \in [Nodes -> Seq(Scope)]
    BY <1>1 DEF TypeOK
  <2>2. Len(ConstraintsOf(node)) \in Nat /\ node \in Nat
    BY <2>1, InputTyped
  <2> QED BY <1>0, <2>1, <2>2
<1> HIDE DEF c
<1>4. ~SchemaFaulty
  BY <1>0, <1>1 DEF Judged
<1>5. TypeOK'
  <2>2. node' \in Nodes' /\ k' \in 1..(Len(ConstraintsOf(node)') + 1)
    BY <1>0, <1>2, SameInput
  <2> QED BY <1>0, <1>2, <2>2, SameInput, SameScope DEF TypeOK
<1>6. Judged'
  BY <1>0, <1>4, SameInput DEF Judged
<1>7. ScopeBuilt'
  <2> SUFFICES ASSUME OneSchema, phase = "keys"
               PROVE  HasTables(scope, node, k)
    <3>1. (k + 1) - 1 = k
      BY <1>2
    <3> QED BY <1>0, <3>1, SameInput, SameScope DEF ScopeBuilt
  <2>2. KeysUpTo(node, k) = KeysUpTo(node, k - 1)
    <3>1. \A i : i \in 1..k <=> i \in 1..(k - 1) \/ i = k
      BY <1>2
    <3> QED BY <1>0, <3>1 DEF KeysUpTo, c
  <2> QED BY <1>1, <2>2 DEF ScopeBuilt, HasTables
<1>8. ScopesRight'
  <2>1. \A n : Entered(n)' <=> Entered(n)
    BY <1>0 DEF Entered
  <2> QED BY <1>0, <1>1, <1>4, <2>1, SameInput, SameScope DEF ScopesRight
<1>10. KeysHold'
  <2> SUFFICES ASSUME errors = {}, SpelledAlike, NEW n \in Nodes, NEW j \in DOMAIN ConstraintsOf(n),
                      ~IsKeyref(ConstraintsOf(n)[j]), KeyDone(n, j)'
               PROVE  KeyHolds(n, ConstraintsOf(n)[j])
    BY SameInput, <1>0 DEF KeysHold
  <2>1. DOMAIN ConstraintsOf(n) = 1..Len(ConstraintsOf(n)) /\ Len(ConstraintsOf(n)) \in Nat
    BY <1>2, InputTyped
  <2>2. j \in Nat /\ phase # "schema"
    BY <1>0, <2>1
  <2>3. KeyDone(n, j)
    BY <1>0, <1>2, <2>2 DEF KeyDone, Entered, c
  <2> QED BY <1>1, <2>2, <2>3 DEF KeysHold
<1>11. RefsHold'
  <2> SUFFICES ASSUME errors = {}, ExactValues, OneSchema, NEW n \in Nodes, NEW j \in DOMAIN ConstraintsOf(n),
                      IsKeyref(ConstraintsOf(n)[j]), RefDone(n, j)'
               PROVE  KeyrefHolds(n, ConstraintsOf(n)[j])
    BY SameInput, <1>0 DEF RefsHold
  <2>1. DOMAIN ConstraintsOf(n) = 1..Len(ConstraintsOf(n)) /\ Len(ConstraintsOf(n)) \in Nat
    BY <1>2, InputTyped
  <2>2. j \in Nat /\ phase # "schema"
    BY <1>0, <2>1
  <2>3. RefDone(n, j)
    BY <1>0, <1>2, <2>2 DEF RefDone, c
  <2> QED BY <1>1, <2>2, <2>3 DEF RefsHold
<1>12. ErrorsRight'
  BY <1>0, <1>1, SameInput DEF ErrorsRight
<1> QED BY <1>5, <1>6, <1>7, <1>8, <1>10, <1>11, <1>12 DEF IdentityInv

\* What a step finds at its element.
LEMMA AtElement ==
  ASSUME IdentityInv
  PROVE  /\ input \in Inputs /\ node \in Nodes /\ node \in Nat \ {0} /\ k \in Nat \ {0} /\ scope \in Scope
         /\ scopes \in [Nodes -> Seq(Scope)] /\ k \in 1..(Len(ConstraintsOf(node)) + 1)
         /\ Len(ConstraintsOf(node)) \in Nat
         /\ Judged /\ ScopeBuilt /\ ScopesRight /\ KeysHold /\ RefsHold /\ ErrorsRight
<1>1. input \in Inputs /\ node \in Nodes /\ k \in 1..(Len(ConstraintsOf(node)) + 1)
      /\ scope \in Scope /\ scopes \in [Nodes -> Seq(Scope)]
  BY DEF IdentityInv, TypeOK
<1>2. Len(ConstraintsOf(node)) \in Nat /\ node \in Nat \ {0}
  BY <1>1, InputTyped
<1> QED BY <1>1, <1>2 DEF IdentityInv

\* The tables a scope adds are those of the keys of its element.
LEMMA PushedTables ==
  ASSUME IdentityInv, ~SchemaFaulty, OneSchema, HasTables(scope, node, Len(ConstraintsOf(node))), NEW q
  PROVE  IF KeysAt(node, q) # {}
         THEN q \in DOMAIN scope /\ {scope[q]} = {KeyTable(node, d) : d \in KeysAt(node, q)}
         ELSE q \notin DOMAIN scope
<1>1. input \in Inputs /\ node \in Nodes /\ Len(ConstraintsOf(node)) \in Nat
  BY AtElement
<1> DEFINE l == Len(ConstraintsOf(node))
           con(i) == ConstraintsOf(node)[i]
<1>2. \A i \in KeysUpTo(node, l) : con(i) \in All /\ ~IsKeyref(con(i)) /\ ScopeKey(con(i)) = KeyOf(con(i))
                                   /\ con(i) \in ToSet(ConstraintsOf(node))
  <2> TAKE i \in KeysUpTo(node, l)
  <2>1. i \in 1..l /\ ~IsKeyref(con(i))
    BY DEF KeysUpTo
  <2>2. con(i) \in All /\ con(i) \in ToSet(ConstraintsOf(node))
    BY <1>1, <2>1, ConstraintTyped
  <2> QED BY <2>1, <2>2, ScopeKeyIsKey
<1>3. \A d \in KeysAt(node, q) : \E i \in KeysUpTo(node, l) : d = con(i)
  <2>1. ConstraintsOf(node) \in Seq(IdentityConstraint)
    BY <1>1, InputTyped
  <2> QED BY <2>1 DEF KeysAt, KeysUpTo, ToSet
<1>4. /\ DOMAIN scope = {ScopeKey(con(i)) : i \in KeysUpTo(node, l)}
      /\ \A i \in KeysUpTo(node, l) : scope[ScopeKey(con(i))] = KeyTable(node, con(i))
  BY DEF HasTables
<1> HIDE DEF con, l
<1>5. \A d \in KeysAt(node, q) : KeyOf(d) = q
  BY DEF KeysAt
<1>6. CASE KeysAt(node, q) # {}
  <2>1. PICK d : d \in KeysAt(node, q)
    BY <1>6
  <2>2. PICK i \in KeysUpTo(node, l) : d = con(i)
    BY <1>3, <2>1
  <2>3. ScopeKey(con(i)) = q /\ con(i) \in All /\ ~IsKeyref(con(i))
    BY <1>2, <1>5, <2>1, <2>2
  <2>4. q \in DOMAIN scope /\ scope[q] = KeyTable(node, d)
    BY <1>4, <2>2, <2>3
  <2>5. KeysAt(node, q) = {d}
    <3> SUFFICES ASSUME NEW e \in KeysAt(node, q) PROVE e = d
      BY <2>1
    <3>1. PICK j \in KeysUpTo(node, l) : e = con(j)
      BY <1>3
    <3>2. e \in All /\ ~IsKeyref(e) /\ d \in All /\ ~IsKeyref(d) /\ KeyOf(e) = KeyOf(d)
      BY <1>2, <1>5, <2>1, <2>2, <3>1
    <3> QED BY <3>2, OneKey
  <2> QED BY <1>6, <2>4, <2>5
<1>7. CASE KeysAt(node, q) = {}
  <2>1. ASSUME q \in DOMAIN scope PROVE FALSE
    <3>1. PICK i \in KeysUpTo(node, l) : q = ScopeKey(con(i))
      BY <1>4, <2>1
    <3>2. con(i) \in KeysAt(node, q)
      BY <1>2, <3>1 DEF KeysAt
    <3> QED BY <1>7, <3>2
  <2> QED BY <1>7, <2>1
<1> QED BY <1>6, <1>7

\* Pushing the scope leaves the nearest table of each name.
LEMMA PushedScopes ==
  ASSUME IdentityInv, phase = "keys", OneSchema, k > Len(ConstraintsOf(node)), NEW q
  PROVE  TableFor(q, IF ConstraintsOf(node) = <<>> THEN Outer(node) ELSE Append(Outer(node), scope))
           = HostTables(node, q)
<1> DEFINE p == nodes[node].parent
<1>0. /\ input \in Inputs /\ node \in Nodes /\ node \in Nat \ {0} /\ scope \in Scope
      /\ scopes \in [Nodes -> Seq(Scope)] /\ k = Len(ConstraintsOf(node)) + 1
      /\ Len(ConstraintsOf(node)) \in Nat
  BY AtElement
<1>1. ~SchemaFaulty
  BY AtElement DEF Judged
<1>2. HasTables(scope, node, Len(ConstraintsOf(node)))
  <2>1. k - 1 = Len(ConstraintsOf(node))
    BY <1>0
  <2> QED BY <2>1, AtElement DEF ScopeBuilt
<1>3. p \in 0..(node - 1) /\ (p # 0 => p \in Nodes)
  BY <1>0, InputTyped
<1>4. Outer(node) \in Seq(Scope) /\ TableFor(q, Outer(node)) = IF p = 0 THEN {} ELSE HostTables(p, q)
  <2>1. CASE p = 0
    <3>1. Outer(node) = <<>>
      BY <2>1 DEF Outer
    <3> QED BY <2>1, <3>1, TableForNone
  <2>2. CASE p # 0
    <3>1. Outer(node) = scopes[p] /\ Entered(p) /\ p \in Nodes
      BY <1>0, <1>3, <2>2 DEF Outer, Entered
    <3>2. TableFor(q, scopes[p]) = HostTables(p, q)
      BY <1>1, <3>1, AtElement DEF ScopesRight
    <3> QED BY <1>0, <2>2, <3>1, <3>2
  <2> QED BY <2>1, <2>2
<1>5. HostTables(node, q) = IF KeysAt(node, q) # {} THEN {KeyTable(node, d) : d \in KeysAt(node, q)}
                            ELSE IF p = 0 THEN {} ELSE HostTables(p, q)
  <2>1. Hosts(node, q) = IF KeysAt(node, q) # {} THEN {<<node, d>> : d \in KeysAt(node, q)}
                         ELSE IF p = 0 THEN {} ELSE Hosts(p, q)
    BY <1>0, HostsOfParent
  <2>2. CASE KeysAt(node, q) # {}
    <3>1. Hosts(node, q) = {<<node, d>> : d \in KeysAt(node, q)}
      BY <2>1, <2>2
    <3>2. {KeyTable(h[1], h[2]) : h \in {<<node, d>> : d \in KeysAt(node, q)}}
            = {KeyTable(node, d) : d \in KeysAt(node, q)}
      <4> DEFINE pairs == {<<node, d>> : d \in KeysAt(node, q)}
      <4>1. \A d \in KeysAt(node, q) : <<node, d>> \in pairs /\ <<node, d>>[1] = node /\ <<node, d>>[2] = d
        OBVIOUS
      <4>2. \A h \in pairs : h[1] = node /\ h[2] \in KeysAt(node, q)
        OBVIOUS
      <4> HIDE DEF pairs
      <4>3. {KeyTable(h[1], h[2]) : h \in pairs} \subseteq {KeyTable(node, d) : d \in KeysAt(node, q)}
        BY <4>2
      <4>4. {KeyTable(node, d) : d \in KeysAt(node, q)} \subseteq {KeyTable(h[1], h[2]) : h \in pairs}
        BY <4>1
      <4> QED BY <4>3, <4>4 DEF pairs
    <3> QED BY <2>2, <3>1, <3>2 DEF HostTables
  <2>3. CASE KeysAt(node, q) = {}
    BY <2>1, <2>3 DEF HostTables
  <2> QED BY <2>2, <2>3
<1> HIDE DEF p
<1>6. CASE ConstraintsOf(node) = <<>>
  <2>1. KeysAt(node, q) = {}
    BY <1>6 DEF KeysAt, ToSet
  <2> QED BY <1>4, <1>5, <1>6, <2>1
<1>7. CASE ConstraintsOf(node) # <<>>
  <2>1. TableFor(q, Append(Outer(node), scope)) = IF q \in DOMAIN scope THEN {scope[q]} ELSE TableFor(q, Outer(node))
    BY <1>0, <1>4, TableForPushed
  <2>2. IF KeysAt(node, q) # {}
        THEN q \in DOMAIN scope /\ {scope[q]} = {KeyTable(node, d) : d \in KeysAt(node, q)}
        ELSE q \notin DOMAIN scope
    BY <1>1, <1>2, PushedTables
  <2>3. CASE KeysAt(node, q) # {}
    BY <1>5, <1>7, <2>1, <2>2, <2>3
  <2>4. CASE KeysAt(node, q) = {}
    BY <1>4, <1>5, <1>7, <2>1, <2>2, <2>4
  <2> QED BY <2>3, <2>4
<1> QED BY <1>6, <1>7

\* The copied scopes hold the nearest table of each name; those of other elements stay.
LEMMA PushKeeps ==
  ASSUME IdentityInv, PushScope
  PROVE  IdentityInv'
<1> DEFINE stack == IF ConstraintsOf(node) = <<>> THEN Outer(node) ELSE Append(Outer(node), scope)
<1>0. /\ input' = input /\ phase = "keys" /\ phase' = "refs" /\ node' = node /\ k' = 1
      /\ k > Len(ConstraintsOf(node)) /\ scope' = scope /\ errors' = errors
      /\ scopes' = [scopes EXCEPT ![node] = stack]
  BY DEF PushScope, LoopEnds
<1>1. /\ input \in Inputs /\ node \in Nodes /\ node \in Nat \ {0} /\ k \in Nat \ {0} /\ scope \in Scope
      /\ scopes \in [Nodes -> Seq(Scope)] /\ k \in 1..(Len(ConstraintsOf(node)) + 1)
      /\ Len(ConstraintsOf(node)) \in Nat
      /\ Judged /\ ScopeBuilt /\ ScopesRight /\ KeysHold /\ RefsHold /\ ErrorsRight
  BY AtElement
<1>2. ~SchemaFaulty
  BY <1>0, <1>1 DEF Judged
<1>3. stack \in Seq(Scope)
  <2>1. nodes[node].parent # 0 => nodes[node].parent \in Nodes
    BY <1>1, InputTyped
  <2>2. Outer(node) \in Seq(Scope)
    BY <1>1, <2>1 DEF Outer
  <2> QED BY <1>1, <2>2
<1>4. scopes' \in [Nodes -> Seq(Scope)] /\ scopes'[node] = stack /\ \A n \in Nodes : n # node => scopes'[n] = scopes[n]
  <2> HIDE DEF stack
  <2> QED BY <1>0, <1>1, <1>3
<1>5. OneSchema => \A q : TableFor(q, stack) = HostTables(node, q)
  BY <1>0, PushedScopes
<1> HIDE DEF stack
<1>6. TypeOK'
  <2>1. node' \in Nodes' /\ k' \in 1..(Len(ConstraintsOf(node)') + 1)
    BY <1>0, <1>1, SameInput
  <2> QED BY <1>0, <1>1, <1>4, <2>1, SameInput, SameScope DEF TypeOK
<1>7. Judged' /\ ScopeBuilt' /\ ErrorsRight'
  BY <1>0, <1>1, <1>2, SameInput DEF Judged, ScopeBuilt, ErrorsRight
<1>8. ScopesRight'
  <2> SUFFICES ASSUME OneSchema, NEW n \in Nodes, Entered(n)', NEW q
               PROVE  TableFor(q, scopes'[n]) = HostTables(n, q)
    BY <1>0, SameInput, SameScope DEF ScopesRight
  <2>1. CASE n = node
    BY <1>4, <1>5, <2>1
  <2>2. CASE n # node
    <3>1. Entered(n)
      BY <1>0, <2>2 DEF Entered
    <3> QED BY <1>0, <1>1, <1>2, <1>4, <2>2, <3>1 DEF ScopesRight
  <2> QED BY <2>1, <2>2
<1>9. KeysHold'
  <2> SUFFICES ASSUME errors = {}, SpelledAlike, NEW n \in Nodes, NEW j \in DOMAIN ConstraintsOf(n),
                      ~IsKeyref(ConstraintsOf(n)[j]), KeyDone(n, j)'
               PROVE  KeyHolds(n, ConstraintsOf(n)[j])
    BY SameInput, <1>0 DEF KeysHold
  <2>1. n = node => j < k
    <3>1. DOMAIN ConstraintsOf(node) = 1..Len(ConstraintsOf(node))
      BY <1>1, InputTyped
    <3> QED BY <1>0, <1>1, <3>1
  <2>2. KeyDone(n, j)
    BY <1>0, <2>1 DEF KeyDone, Entered
  <2> QED BY <1>0, <1>1, <2>2 DEF KeysHold
<1>10. RefsHold'
  <2> SUFFICES ASSUME errors = {}, ExactValues, OneSchema, NEW n \in Nodes, NEW j \in DOMAIN ConstraintsOf(n),
                      IsKeyref(ConstraintsOf(n)[j]), RefDone(n, j)'
               PROVE  KeyrefHolds(n, ConstraintsOf(n)[j])
    BY SameInput, <1>0 DEF RefsHold
  <2>1. j \in Nat \ {0}
    <3>1. DOMAIN ConstraintsOf(n) = 1..Len(ConstraintsOf(n)) /\ Len(ConstraintsOf(n)) \in Nat
      BY <1>1, InputTyped
    <3> QED BY <3>1
  <2>2. RefDone(n, j)
    BY <1>0, <2>1 DEF RefDone
  <2> QED BY <1>0, <1>1, <2>2 DEF RefsHold
<1> QED BY <1>6, <1>7, <1>8, <1>9, <1>10 DEF IdentityInv

\* What checkKeyref adds to the errors, and what it means.
Reported(n, c, tables) ==
  IF SelectNodes(n, c.selector) = {} THEN {}
  ELSE IF tables = {} THEN {<<n, c.name, "unbound">>}
  ELSE FieldErrors(n, c) \cup UNION {Unresolved(n, c, t) : t \in tables}

\* A keyref that reports nothing found its table and every value in it.
LEMMA ReportedNothing ==
  ASSUME NEW n, NEW c, NEW tables, Reported(n, c, tables) = {}, SelectNodes(n, c.selector) # {}
  PROVE  /\ tables # {} /\ FieldErrors(n, c) = {}
         /\ \A table \in tables : Unresolved(n, c, table) = {}
<1>1. tables # {}
  BY DEF Reported
<1>2. FieldErrors(n, c) \cup UNION {Unresolved(n, c, t) : t \in tables} = {}
  BY <1>1, Zenon DEF Reported
<1> QED BY <1>1, <1>2

\* A keyref that reports selected a node, and lacked a table, a field or a value.
LEMMA ReportedSomething ==
  ASSUME NEW n, NEW c, NEW tables, Reported(n, c, tables) # {}
  PROVE  /\ SelectNodes(n, c.selector) # {}
         /\ \/ tables = {} \/ FieldErrors(n, c) # {}
            \/ \E table \in tables : Unresolved(n, c, table) # {}
<1>1. SelectNodes(n, c.selector) # {}
  BY Zenon DEF Reported
<1>2. CASE tables # {}
  <2>1. FieldErrors(n, c) \cup UNION {Unresolved(n, c, t) : t \in tables} # {}
    BY <1>1, <1>2, Zenon DEF Reported
  <2> QED BY <1>1, <2>1
<1> QED BY <1>1, <1>2

\* checkKeyref reports exactly the keyrefs that do not hold.
LEMMA CheckKeeps ==
  ASSUME IdentityInv, CheckKeyref
  PROVE  IdentityInv'
<1> DEFINE c == ConstraintsOf(node)[k]
           tables == TableFor(ReferKey(c), scopes[node])
<1>0. /\ input' = input /\ phase = "refs" /\ phase' = "refs" /\ node' = node /\ k' = k + 1
      /\ scopes' = scopes /\ k <= Len(ConstraintsOf(node)) /\ scope' = scope /\ IsKeyref(c)
      /\ errors' = errors \cup Reported(node, c, tables)
  BY DEF CheckKeyref, AtConstraint, Constraint, Reported
<1>1. /\ input \in Inputs /\ node \in Nodes /\ node \in Nat \ {0} /\ scope \in Scope
      /\ scopes \in [Nodes -> Seq(Scope)] /\ k \in 1..(Len(ConstraintsOf(node)) + 1)
      /\ Len(ConstraintsOf(node)) \in Nat /\ k \in Nat \ {0}
      /\ Judged /\ ScopesRight /\ KeysHold /\ RefsHold /\ ErrorsRight
  BY AtElement
<1>2. k \in 1..Len(ConstraintsOf(node)) /\ DOMAIN ConstraintsOf(node) = 1..Len(ConstraintsOf(node))
  BY <1>0, <1>1, InputTyped
<1>3. c \in ToSet(ConstraintsOf(node)) /\ c \in All /\ c \in IdentityConstraint
  BY <1>1, <1>2, ConstraintTyped
<1>4. ~SchemaFaulty
  BY <1>0, <1>1 DEF Judged
<1>5. OneSchema => tables = {KeyTable(h[1], h[2]) : h \in Hosts(node, ReferKey(c))}
  <2> SUFFICES ASSUME OneSchema PROVE tables = HostTables(node, ReferKey(c))
    BY DEF HostTables
  <2>1. Entered(node)
    BY <1>0 DEF Entered
  <2> QED BY <1>0, <1>1, <1>4, <2>1 DEF ScopesRight
<1> HIDE DEF c, tables
<1>6. TypeOK'
  <2>1. node' \in Nodes' /\ k' \in 1..(Len(ConstraintsOf(node)') + 1)
    BY <1>0, <1>1, <1>2, SameInput
  <2> QED BY <1>0, <1>1, <2>1, SameInput, SameScope DEF TypeOK
<1>7. Judged' /\ ScopeBuilt'
  BY <1>0, <1>4, SameInput DEF Judged, ScopeBuilt
<1>8. ScopesRight'
  <2>1. \A n : Entered(n)' <=> Entered(n)
    BY <1>0 DEF Entered
  <2> QED BY <1>0, <1>1, <1>4, <2>1, SameInput, SameScope DEF ScopesRight
<1>9. KeysHold'
  <2> SUFFICES ASSUME errors' = {}, SpelledAlike, NEW n \in Nodes, NEW j \in DOMAIN ConstraintsOf(n),
                      ~IsKeyref(ConstraintsOf(n)[j]), KeyDone(n, j)'
               PROVE  KeyHolds(n, ConstraintsOf(n)[j])
    BY SameInput, <1>0 DEF KeysHold
  <2>1. errors = {} /\ KeyDone(n, j)
    BY <1>0 DEF KeyDone, Entered
  <2> QED BY <1>0, <1>1, <2>1 DEF KeysHold
<1>10. RefsHold'
  <2> SUFFICES ASSUME errors' = {}, ExactValues, OneSchema, NEW n \in Nodes, NEW j \in DOMAIN ConstraintsOf(n),
                      IsKeyref(ConstraintsOf(n)[j]), RefDone(n, j)'
               PROVE  KeyrefHolds(n, ConstraintsOf(n)[j])
    BY SameInput, <1>0 DEF RefsHold
  <2>1. errors = {} /\ Reported(node, c, tables) = {}
    BY <1>0
  <2>2. j \in Nat
    <3>1. input \in Inputs  BY <1>1
    <3>2. ConstraintsOf(n) \in Seq(IdentityConstraint) /\ Len(ConstraintsOf(n)) \in Nat
      BY <3>1, InputTyped
    <3>3. j \in 1..Len(ConstraintsOf(n))  BY <3>2
    <3> QED BY <3>2, <3>3
  <2>3. RefDone(n, j) \/ (n = node /\ j = k)
    BY <1>0, <1>1, <2>2 DEF RefDone
  <2>4. CASE RefDone(n, j)
    BY <1>0, <1>1, <2>1, <2>4 DEF RefsHold
  <2>5. CASE n = node /\ j = k
    <3>1. SelectNodes(node, c.selector) # {} =>
            /\ tables # {} /\ FieldErrors(node, c) = {}
            /\ \A table \in tables : Unresolved(node, c, table) = {}
      BY <2>1, ReportedNothing
    <3>2. KeyrefHolds(node, c)
      BY <1>0, <1>1, <1>3, <1>5, <3>1, SilentKeyrefHolds
    <3> QED BY <2>5, <3>2 DEF c
  <2> QED BY <2>3, <2>4, <2>5
<1>11. ErrorsRight'
  <2> SUFFICES ASSUME errors' # {}, ExactValues, SpelledAlike, FieldsApart, OneSchema PROVE Broken
    BY <1>0, SameInput DEF ErrorsRight, Told
  <2>1. CASE errors # {}
    BY <1>1, <1>4, <2>1 DEF ErrorsRight, Told
  <2>2. CASE errors = {}
    <3>1. Reported(node, c, tables) # {}
      BY <1>0, <2>2
    <3>2. /\ SelectNodes(node, c.selector) # {}
          /\ \/ tables = {} \/ FieldErrors(node, c) # {}
             \/ \E table \in tables : Unresolved(node, c, table) # {}
      BY <3>1, ReportedSomething
    <3>3. ~KeyrefHolds(node, c)
      BY <1>0, <1>1, <1>3, <1>5, <3>2, LoudKeyrefBroken
    <3> QED BY <1>0, <1>1, <1>3, <3>3 DEF Broken
  <2> QED BY <2>1, <2>2
<1> QED BY <1>6, <1>7, <1>8, <1>9, <1>10, <1>11 DEF IdentityInv

\* The next element in document order begins with no tables of its own.
LEMMA NextElementKeeps ==
  ASSUME IdentityInv, NextElement
  PROVE  IdentityInv'
<1>0. /\ input' = input /\ phase = "refs" /\ k' = 1 /\ scope' = NoScope
      /\ scopes' = scopes /\ errors' = errors /\ k > Len(ConstraintsOf(node))
      /\ IF node < Len(nodes) THEN phase' = "keys" /\ node' = node + 1
         ELSE phase' = "end" /\ node' = node
  BY DEF NextElement, LoopEnds
<1>1. /\ input \in Inputs /\ node \in Nodes /\ node \in Nat \ {0}
      /\ scopes \in [Nodes -> Seq(Scope)] /\ k \in 1..(Len(ConstraintsOf(node)) + 1)
      /\ Len(ConstraintsOf(node)) \in Nat
      /\ Judged /\ ScopesRight /\ KeysHold /\ RefsHold /\ ErrorsRight
  BY AtElement
<1>2. ~SchemaFaulty
  BY <1>0, <1>1 DEF Judged
<1>3. Len(nodes) \in Nat /\ node <= Len(nodes)
  BY <1>1, InputTyped DEF Nodes
<1>4. /\ node' \in Nodes /\ node' \in Nat /\ node' >= node
      /\ Len(ConstraintsOf(node')) \in Nat
  <2>1. node' \in Nodes /\ node' \in Nat /\ node' >= node
    BY <1>0, <1>1, <1>3 DEF Nodes
  <2> QED BY <1>1, <2>1, InputTyped
<1>5. Len(nodes') = Len(nodes) /\ ConstraintsOf(node)' = ConstraintsOf(node')
  BY <1>0 DEF nodes, ConstraintsOf
<1>6. TypeOK'
  BY <1>0, <1>1, <1>4, <1>5, SameInput, SameScope, ScopeTyped DEF TypeOK
<1>7. Judged'
  BY <1>0, <1>1, <1>2, <1>3, <1>5, SameInput DEF Judged
<1>8. ScopeBuilt'
  <2>1. KeysUpTo(node, k - 1)' = {}
    <3>1. 1..(k' - 1) = {}
      BY <1>0
    <3> QED BY <3>1 DEF KeysUpTo
  <2>2. HasTables(scope, node, k - 1)'
    BY <1>0, <2>1, ScopeTyped DEF HasTables
  <2> QED BY <2>2 DEF ScopeBuilt
<1>9. \A n \in Nodes : Entered(n)' <=> Entered(n)
  <2>1. \A n \in Nodes : n \in Nat
    BY <1>1, InputTyped
  <2> QED BY <1>0, <1>1, <2>1 DEF Entered
<1>10. ScopesRight'
  BY <1>0, <1>1, <1>2, <1>9, SameInput, SameScope DEF ScopesRight
<1>11. KeysHold'
  <2> SUFFICES ASSUME errors = {}, SpelledAlike, NEW n \in Nodes, NEW j \in DOMAIN ConstraintsOf(n),
                      ~IsKeyref(ConstraintsOf(n)[j]), KeyDone(n, j)'
               PROVE  KeyHolds(n, ConstraintsOf(n)[j])
    BY SameInput, <1>0 DEF KeysHold
  <2>1. j \in Nat \ {0}
    <3>1. DOMAIN ConstraintsOf(n) = 1..Len(ConstraintsOf(n)) /\ Len(ConstraintsOf(n)) \in Nat
      BY <1>1, InputTyped
    <3> QED BY <3>1
  <2>2. KeyDone(n, j)
    BY <1>0, <1>9, <2>1 DEF KeyDone
  <2> QED BY <1>0, <1>1, <2>2 DEF KeysHold
<1>12. RefsHold'
  <2> SUFFICES ASSUME errors = {}, ExactValues, OneSchema, NEW n \in Nodes, NEW j \in DOMAIN ConstraintsOf(n),
                      IsKeyref(ConstraintsOf(n)[j]), RefDone(n, j)'
               PROVE  KeyrefHolds(n, ConstraintsOf(n)[j])
    BY SameInput, <1>0 DEF RefsHold
  <2>1. n \in Nat /\ DOMAIN ConstraintsOf(n) = 1..Len(ConstraintsOf(n)) /\ Len(ConstraintsOf(n)) \in Nat
    BY <1>1, InputTyped
  <2>2. n = node => j < k
    BY <1>0, <1>1, <2>1
  <2>3. RefDone(n, j)
    BY <1>0, <1>1, <1>4, <2>1, <2>2 DEF RefDone
  <2> QED BY <1>0, <1>1, <2>3 DEF RefsHold
<1>13. ErrorsRight'
  BY <1>0, <1>1, SameInput DEF ErrorsRight
<1> QED BY <1>6, <1>7, <1>8, <1>10, <1>11, <1>12, <1>13 DEF IdentityInv

\* A step that changes nothing keeps the invariant.
LEMMA StutterKeeps ==
  ASSUME IdentityInv, UNCHANGED vars
  PROVE  IdentityInv'
<1>0. /\ input' = input /\ phase' = phase /\ node' = node /\ k' = k
      /\ scope' = scope /\ scopes' = scopes /\ errors' = errors
  BY DEF vars
<1>1. /\ TypeOK /\ Judged /\ ScopeBuilt /\ ScopesRight /\ KeysHold /\ RefsHold /\ ErrorsRight
  BY DEF IdentityInv
<1>2. ConstraintsOf(node)' = ConstraintsOf(node) /\ Len(nodes') = Len(nodes)
  BY <1>0, SameInput
<1>3. TypeOK' /\ Judged'
  BY <1>0, <1>1, <1>2, SameInput, SameScope DEF TypeOK, Judged
<1>4. ScopeBuilt'
  BY <1>0, <1>1, SameInput, SameScope DEF ScopeBuilt
<1>5. /\ \A n : Entered(n)' <=> Entered(n)
      /\ \A n, j : KeyDone(n, j)' <=> KeyDone(n, j)
      /\ \A n, j : RefDone(n, j)' <=> RefDone(n, j)
  BY <1>0 DEF Entered, KeyDone, RefDone
<1>6. ScopesRight'
  BY <1>0, <1>1, <1>5, SameInput, SameScope DEF ScopesRight
<1>7. KeysHold'
  BY <1>0, <1>1, <1>5, SameInput DEF KeysHold
<1>8. RefsHold'
  BY <1>0, <1>1, <1>5, SameInput DEF RefsHold
<1>9. ErrorsRight'
  BY <1>0, <1>1, SameInput DEF ErrorsRight
<1> QED BY <1>3, <1>4, <1>6, <1>7, <1>8, <1>9 DEF IdentityInv
-----------------------------------------------------------------------------

\* In every state of checkIdentity the scopes of the elements it entered hold the
\* tables of the nearest keys, the constraints it is past hold unless an error
\* was reported, and an error means that a constraint is broken.
THEOREM IdentityInvariant == Spec => []IdentityInv
<1>1. ASSUME IdentityInv, [Next]_vars PROVE IdentityInv'
  <2>1. CASE RejectSchema BY <1>1, <2>1, RejectKeeps
  <2>2. CASE AcceptSchema BY <1>1, <2>2, AcceptKeeps
  <2>3. CASE BuildTable BY <1>1, <2>3, BuildKeeps
  <2>4. CASE SkipConstraint BY <1>1, <2>4, SkipKeeps
  <2>5. CASE PushScope BY <1>1, <2>5, PushKeeps
  <2>6. CASE CheckKeyref BY <1>1, <2>6, CheckKeeps
  <2>7. CASE NextElement BY <1>1, <2>7, NextElementKeeps
  <2>8. CASE Done BY <1>1, <2>8, StutterKeeps DEF Done
  <2>9. CASE UNCHANGED vars BY <1>1, <2>9, StutterKeeps
  <2> QED BY <1>1, <2>1, <2>2, <2>3, <2>4, <2>5, <2>6, <2>7, <2>8, <2>9 DEF Next, Step
<1> QED BY <1>1, InitInv, PTL DEF Spec

\* A document that is accepted was walked to its end.
LEMMA AtTheEnd ==
  ASSUME IdentityInv, Valid, NEW n \in Nodes, NEW c \in ToSet(ConstraintsOf(n))
  PROVE  \E j \in DOMAIN ConstraintsOf(n) :
           c = ConstraintsOf(n)[j] /\ KeyDone(n, j) /\ RefDone(n, j)
<1>1. /\ input \in Inputs /\ phase = "end" /\ errors = {} /\ node = Len(nodes)
  BY AtElement DEF Valid, Judged
<1>2. /\ ConstraintsOf(n) \in Seq(IdentityConstraint)
      /\ n \in Nat /\ Len(nodes) \in Nat /\ n <= Len(nodes)
  BY <1>1, InputTyped DEF Nodes
<1>3. PICK j \in DOMAIN ConstraintsOf(n) : c = ConstraintsOf(n)[j]
  BY <1>2 DEF ToSet
<1> QED BY <1>1, <1>2, <1>3 DEF KeyDone, RefDone, Entered

\* An accepted document whose values are spelled alike keeps every key and
\* unique, whatever its values are otherwise and whichever schema declared them
\* (buildKeyTable, fieldTuple).
THEOREM KeysAlwaysEnforced == Spec => []KeysEnforced
<1>1. ASSUME IdentityInv PROVE KeysEnforced
  <2> SUFFICES ASSUME Valid, SpelledAlike,
                      NEW n \in Nodes, NEW c \in ToSet(ConstraintsOf(n)), ~IsKeyref(c)
               PROVE  KeyHolds(n, c)
    BY DEF KeysEnforced
  <2>1. PICK j \in DOMAIN ConstraintsOf(n) : c = ConstraintsOf(n)[j] /\ KeyDone(n, j)
    BY <1>1, AtTheEnd
  <2> QED BY <1>1, <2>1 DEF IdentityInv, KeysHold, Valid
<1> QED BY <1>1, IdentityInvariant, PTL

\* In an accepted document every keyref finds its value in the nearest enclosing
\* key it names (checkKeyref, keyTableFor, the scopes checkIdentity copies).
THEOREM KeyrefsAlwaysEnforced == Spec => []KeyrefsEnforced
<1>1. ASSUME IdentityInv PROVE KeyrefsEnforced
  <2> SUFFICES ASSUME Valid, ExactValues, OneSchema,
                      NEW n \in Nodes, NEW c \in ToSet(ConstraintsOf(n)), IsKeyref(c)
               PROVE  KeyrefHolds(n, c)
    BY DEF KeyrefsEnforced
  <2>1. PICK j \in DOMAIN ConstraintsOf(n) : c = ConstraintsOf(n)[j] /\ RefDone(n, j)
    BY <1>1, AtTheEnd
  <2> QED BY <1>1, <2>1 DEF IdentityInv, RefsHold, Valid
<1> QED BY <1>1, IdentityInvariant, PTL

\* A document is rejected only when one of its constraints is broken: the
\* comparison of joined keys invents no repeat and misses no reference.
THEOREM OnlyBrokenRejected == Spec => []RejectsOnlyBroken
<1>1. ASSUME IdentityInv PROVE RejectsOnlyBroken
  BY <1>1 DEF IdentityInv, ErrorsRight, RejectsOnlyBroken, Invalid
<1> QED BY <1>1, IdentityInvariant, PTL
=============================================================================
