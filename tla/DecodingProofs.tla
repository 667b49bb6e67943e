--------------------------- MODULE DecodingProofs ---------------------------
(***************************************************************************)
(* Decoding keeps its types, and the normalisation in place reads every    *)
(* character before it is written over, for all documents.                 *)
(*                                                                         *)
(* ReadAsDeclared for all documents too.  The first bytes read are known   *)
(* to mean the runes decoded, or the body is not UTF-8 (Decoded): a        *)
(* character ends before the next byte that is no trail byte, or what is   *)
(* there is no character.  The text normalised so far is the text read     *)
(* without the second halves of its pairs (Normalised), and the next       *)
(* character is none of those.                                             *)
(***************************************************************************)
EXTENDS Decoding, SequenceTheorems, WellFoundedInduction, TLAPS

\* Nothing is counted before the decoders run.
Fresh == phase = "read" => at = 0 /\ written = 0
IInv == TypeOK /\ UnreadKept /\ Fresh

LEMMA Runes == LastRune \in Nat /\ 255 <= LastRune
BY Z3 DEF LastRune

\* A character takes at least one byte.
LEMMA Utf8Length == ASSUME NEW c \in Int PROVE Len(Utf8(c)) \in Nat
<1>1. \A a, b, d, e : /\ Len(<<a>>) = 1 /\ Len(<<a, b>>) = 2
                      /\ Len(<<a, b, d>>) = 3 /\ Len(<<a, b, d, e>>) = 4
  OBVIOUS
<1>2. CASE c < 128
  BY <1>1, <1>2, Z3 DEF Utf8
<1>3. CASE 128 <= c /\ c < 2048
  BY <1>1, <1>3, Z3 DEF Utf8
<1>4. CASE 2048 <= c /\ c < 65536
  BY <1>1, <1>4, Z3 DEF Utf8
<1>5. CASE c >= 65536
  BY <1>1, <1>5, Z3 DEF Utf8
<1> QED BY <1>2, <1>3, <1>4, <1>5, Z3

\* Bytes are characters of their own in byte mode.
LEMMA BodyTyped == ASSUME doc \in Document PROVE Body \in Seq(CodePoint)
<1>1. Body \in Seq(Byte)
  BY DEF Body, Document
<1>2. Byte \subseteq CodePoint
  BY Runes DEF Byte, CodePoint
<1>3. Len(Body) \in Nat /\ Body \in [1..Len(Body) -> CodePoint]
  BY <1>1, <1>2
<1> QED BY <1>3

LEMMA InitInv == ASSUME Init PROVE IInv
BY DecodingAssumption DEF Init, IInv, TypeOK, UnreadKept, Fresh

LEMMA DecodeBytesStep == ASSUME IInv, DecodeBytes PROVE IInv'
<1>1. Body \in Seq(CodePoint) /\ Len(Body) \in Nat
  BY BodyTyped DEF IInv, TypeOK
<1>2. runes' = Body /\ input' = Body /\ at' = 0 /\ written' = 0 /\ doc' = doc /\ phase' = "normalise"
  BY DEF DecodeBytes, IInv, Fresh, TypeOK
<1> QED BY <1>1, <1>2 DEF IInv, TypeOK, UnreadKept, Fresh

LEMMA DecodeRuneStep == ASSUME IInv, DecodeRune PROVE IInv'
<1>1. PICK c \in RuneAt(Body, at + 1) : runes' = Append(runes, c) /\ at' = at + Len(Utf8(c))
  BY DEF DecodeRune
<1>2. c \in CodePoint
  BY <1>1 DEF RuneAt, IsScalar
<1>3. runes' \in Seq(CodePoint) /\ at' \in Nat
  BY <1>1, <1>2, Runes, Utf8Length DEF IInv, TypeOK, CodePoint
<1> QED BY <1>3 DEF DecodeRune, IInv, TypeOK, UnreadKept, Fresh

LEMMA EndUtf8Step == ASSUME IInv, EndUtf8 PROVE IInv'
<1>1. Len(runes) \in Nat
  BY DEF IInv, TypeOK
<1> QED BY <1>1 DEF EndUtf8, IInv, TypeOK, UnreadKept, Fresh

\* What is beyond the next character is beyond this one and beyond the place written.
LEMMA Beyond == ASSUME NEW a \in Nat, NEW b \in {a + 1, a + 2}, NEW w \in Nat, w <= a,
                       NEW n \in Nat, NEW k \in (b + 1)..n
                PROVE k \in (a + 1)..n /\ k # w + 1 /\ k \in 1..n
OBVIOUS

\* The one step that writes: at written + 1, which is read already.
LEMMA NormaliseRuneStep == ASSUME IInv, NormaliseRune PROVE IInv'
<1> DEFINE c == IF input[at + 1] \in LineEnd(SniffVersion) THEN LF ELSE input[at + 1]
<1>1. /\ input \in Seq(CodePoint) /\ runes \in Seq(CodePoint) /\ at \in Nat /\ written \in Nat
      /\ Len(input) \in Nat /\ Len(runes) = Len(input) /\ written <= at /\ at < Len(input)
      /\ \A k \in (at + 1)..Len(runes) : input[k] = runes[k]
  BY DEF IInv, TypeOK, UnreadKept, NormaliseRune
<1>2. c \in CodePoint
  <2>1. LF \in CodePoint
    BY Runes DEF LF, CodePoint
  <2>2. input[at + 1] \in CodePoint
    BY <1>1
  <2> QED BY <2>1, <2>2
<1>3. /\ input' = [input EXCEPT ![written + 1] = c] /\ written' = written + 1
      /\ UNCHANGED <<doc, phase, runes>> /\ phase = "normalise"
  BY DEF NormaliseRune
<1>4. at' \in {at + 1, at + 2} /\ at' <= Len(runes)
  BY <1>1 DEF NormaliseRune, Paired
<1> HIDE DEF c
<1>5. input' \in Seq(CodePoint) /\ Len(input') = Len(input)
  BY <1>1, <1>2, <1>3
<1>6. \A k \in (at' + 1)..Len(runes) : input'[k] = runes[k]
  <2> TAKE k \in (at' + 1)..Len(runes)
  <2>1. at \in Nat /\ written \in Nat /\ written <= at /\ Len(runes) \in Nat /\ at' \in {at + 1, at + 2}
    BY <1>1, <1>4
  <2>2. k \in (at + 1)..Len(runes) /\ k # written + 1 /\ k \in 1..Len(runes)
    BY <2>1, Beyond, Zenon
  <2>3. input[k] = runes[k] /\ k \in DOMAIN input
    BY <1>1, <2>2
  <2> QED BY <1>1, <1>3, <2>2, <2>3
<1>7. at' \in Nat /\ written' \in Nat /\ written' <= at' /\ at' <= Len(runes)
  BY <1>1, <1>3, <1>4
<1>8. TypeOK'
  BY <1>1, <1>3, <1>5, <1>7 DEF IInv, TypeOK
<1>9. UnreadKept'
  BY <1>1, <1>3, <1>5, <1>6, <1>7 DEF UnreadKept
<1> QED BY <1>3, <1>8, <1>9 DEF IInv, Fresh

LEMMA EndNormaliseStep == ASSUME IInv, EndNormalise PROVE IInv'
<1>1. input \in Seq(CodePoint) /\ written \in 0..Len(input)
  BY DEF IInv, TypeOK, UnreadKept, EndNormalise
<1>2. SubSeq(input, 1, written) \in Seq(CodePoint)
  BY <1>1, SubSeqProperties
<1> QED BY <1>2 DEF EndNormalise, IInv, TypeOK, UnreadKept, Fresh

LEMMA Step == ASSUME IInv, [Next]_vars PROVE IInv'
<1>1. CASE RejectInput
  BY <1>1 DEF RejectInput, IInv, TypeOK, UnreadKept, Fresh
<1>2. CASE BeginUtf8
  BY <1>2 DEF BeginUtf8, IInv, TypeOK, UnreadKept, Fresh
<1>3. CASE DecodeFails
  BY <1>3 DEF DecodeFails, IInv, TypeOK, UnreadKept, Fresh
<1>4. CASE StrictParse
  BY <1>4 DEF StrictParse, IInv, TypeOK, UnreadKept, Fresh
<1>5. CASE Done \/ UNCHANGED vars
  BY <1>5 DEF Done, vars, IInv, TypeOK, UnreadKept, Fresh
<1> QED BY <1>1, <1>2, <1>3, <1>4, <1>5, DecodeBytesStep, DecodeRuneStep, EndUtf8Step,
           NormaliseRuneStep, EndNormaliseStep DEF Next, Decode

THEOREM Invariance == Spec => []IInv
<1>1. Init => IInv
  BY InitInv
<1>2. IInv /\ [Next]_vars => IInv'
  BY Step
<1> QED BY <1>1, <1>2, PTL DEF Spec

\* What is decoded and normalised stays a sequence of characters.
THEOREM TypeCorrect == Spec => []TypeOK
<1>1. IInv => TypeOK
  BY DEF IInv
<1> QED BY <1>1, Invariance, PTL

\* The slice may be normalised in place, whatever it holds and whichever
\* version's line ends count.
THEOREM InPlace == Spec => []UnreadKept
<1>1. IInv => UnreadKept
  BY DEF IInv
<1> QED BY <1>1, Invariance, PTL
-----------------------------------------------------------------------------
\* UTF-8: what is read where a character was written.  WriterProofs has the same
\* lemmas of its own: its variables are others.

\* Induction over numbers.
LEMMA LeastNatural ==
  ASSUME NEW S \in SUBSET Nat, S # {}
  PROVE  \E j \in S : \A i \in S : j <= i
<1> DEFINE R == {ss \in Nat \X Nat : ss[1] < ss[2]}
<1>1. IsWellFoundedOn(R, Nat)
  BY NatLessThanWellFounded, Zenon DEF OpToRel
<1>2. PICK x \in S : \A y \in S : ~(<<y, x>> \in R)
  <2> HIDE DEF R
  <2> QED BY <1>1, WFMin
<1>3. \A y \in S : ~(y < x)
  BY <1>2
<1> QED BY <1>3

LEMMA Upwards ==
  ASSUME NEW S, 0 \in S, \A m \in Nat : m \in S => m + 1 \in S
  PROVE  Nat \subseteq S
<1> SUFFICES ASSUME NEW k \in Nat, k \notin S PROVE FALSE
  OBVIOUS
<1> DEFINE T == {m \in Nat : m \notin S}
<1>1. PICK m \in T : \A i \in T : m <= i
  <2>1. T \in SUBSET Nat /\ T # {}
    OBVIOUS
  <2> HIDE DEF T
  <2> QED BY <2>1, LeastNatural
<1>2. m # 0 /\ m - 1 \in Nat /\ ~(m <= m - 1)
  BY <1>1
<1>3. m - 1 \in S
  BY <1>1, <1>2
<1>4. (m - 1) + 1 = m /\ m \notin S
  BY <1>1
<1> QED BY <1>2, <1>3, <1>4

\* What a trail byte carries.
LEMMA Digits ==
  \A x \in 0..63 : (128 + x) % 64 = x /\ IsTrail(128 + x) /\ 128 + x \in Nat /\ x \in Nat
BY Z3 DEF IsTrail

\* A number by its digits to the base 64.
LEMMA Split ==
  \A c \in Nat : /\ c = (c \div 64) * 64 + (c % 64) /\ (c % 64) \in 0..63 /\ c \div 64 \in Nat
                 /\ (c \div 64) \div 64 = c \div 4096
                 /\ (c \div 4096) \div 64 = c \div 262144
                 /\ c \div 4096 \in Nat /\ c \div 262144 \in Nat
BY Z3

\* The bytes of a character, by their number.
Form1(c) == <<c>>
Form2(c) == <<192 + (c \div 64), Trail(c, 1)>>
Form3(c) == <<224 + (c \div 4096), Trail(c, 64), Trail(c, 1)>>
Form4(c) == <<240 + (c \div 262144), Trail(c, 4096), Trail(c, 64), Trail(c, 1)>>

\* How many bytes a character takes, and which.
LEMMA Utf8Forms ==
  ASSUME NEW c \in CodePoint
  PROVE  /\ c < 128 => Utf8(c) = Form1(c)
         /\ 128 <= c /\ c < 2048 => Utf8(c) = Form2(c)
         /\ 2048 <= c /\ c < 65536 => Utf8(c) = Form3(c)
         /\ 65536 <= c => Utf8(c) = Form4(c)
<1>1. c \in Nat
  BY DEF CodePoint
<1>2. c < 128 => Utf8(c) = <<c>>
  BY <1>1 DEF Utf8
<1>3. 128 <= c /\ c < 2048 => Utf8(c) = <<192 + (c \div 64), Trail(c, 1)>>
  BY <1>1 DEF Utf8
<1>4. 2048 <= c /\ c < 65536 => Utf8(c) = <<224 + (c \div 4096), Trail(c, 64), Trail(c, 1)>>
  BY <1>1 DEF Utf8
<1>5. 65536 <= c => Utf8(c) = <<240 + (c \div 262144), Trail(c, 4096), Trail(c, 64), Trail(c, 1)>>
  BY <1>1 DEF Utf8
<1> QED BY <1>2, <1>3, <1>4, <1>5 DEF Form1, Form2, Form3, Form4

\* The trailing bytes of a character are the digits of its number.
LEMMA Trails ==
  ASSUME NEW c \in CodePoint
  PROVE  /\ IsTrail(Trail(c, 1)) /\ IsTrail(Trail(c, 64)) /\ IsTrail(Trail(c, 4096))
         /\ Trail(c, 1) \in Nat /\ Trail(c, 64) \in Nat /\ Trail(c, 4096) \in Nat
         /\ Trail(c, 1) % 64 = c % 64
         /\ Trail(c, 64) % 64 = (c \div 64) % 64
         /\ Trail(c, 4096) % 64 = (c \div 4096) % 64
<1>1. c \in Nat
  BY DEF CodePoint
<1>2. c \div 1 = c
  BY <1>1, Z3
<1>3. /\ Trail(c, 1) = 128 + (c % 64)
      /\ Trail(c, 64) = 128 + ((c \div 64) % 64)
      /\ Trail(c, 4096) = 128 + ((c \div 4096) % 64)
  BY <1>2 DEF Trail
<1>4. /\ (c % 64) \in 0..63
      /\ ((c \div 64) % 64) \in 0..63
      /\ ((c \div 4096) % 64) \in 0..63
  BY <1>1, Split
<1> DEFINE x == c % 64
           y == (c \div 64) % 64
           z == (c \div 4096) % 64
<1>5. /\ x \in 0..63 /\ y \in 0..63 /\ z \in 0..63
      /\ Trail(c, 1) = 128 + x /\ Trail(c, 64) = 128 + y /\ Trail(c, 4096) = 128 + z
  BY <1>3, <1>4
<1> HIDE DEF x, y, z
<1>6. /\ IsTrail(Trail(c, 1)) /\ IsTrail(Trail(c, 64)) /\ IsTrail(Trail(c, 4096))
      /\ Trail(c, 1) \in Nat /\ Trail(c, 64) \in Nat /\ Trail(c, 4096) \in Nat
      /\ Trail(c, 1) % 64 = x /\ Trail(c, 64) % 64 = y /\ Trail(c, 4096) % 64 = z
  BY <1>5, Digits
<1> QED BY <1>6 DEF x, y, z

\* The number a leading byte and its trailing bytes stand for.
LEMMA Weights ==
  ASSUME NEW c \in CodePoint
  PROVE  /\ c = (c \div 64) * 64 + (c % 64)
         /\ c = (c \div 4096) * 4096 + ((c \div 64) % 64) * 64 + (c % 64)
         /\ c = (c \div 262144) * 262144 + ((c \div 4096) % 64) * 4096
                 + ((c \div 64) % 64) * 64 + (c % 64)
         /\ c < 2048 => c \div 64 < 32
         /\ 128 <= c => c \div 64 >= 2
         /\ c < 65536 => c \div 4096 < 16
         /\ c \div 262144 < 5
         /\ c \div 64 \in Nat /\ c \div 4096 \in Nat /\ c \div 262144 \in Nat
<1>1. c \in Nat /\ c <= 1114111
  <2>1. c \in Nat /\ c <= LastRune
    BY Runes DEF CodePoint
  <2>2. LastRune = 1114111
    BY Z3 DEF LastRune
  <2> QED BY <2>1, <2>2
<1>2. c = (c \div 64) * 64 + (c % 64) /\ c \div 64 \in Nat /\ (c % 64) \in 0..63
  BY <1>1, Split
<1>3. c \div 64 = (c \div 4096) * 64 + ((c \div 64) % 64) /\ c \div 4096 \in Nat /\ ((c \div 64) % 64) \in 0..63
  BY <1>1, Split
<1>4. /\ c \div 4096 = (c \div 262144) * 64 + ((c \div 4096) % 64)
      /\ c \div 262144 \in Nat /\ ((c \div 4096) % 64) \in 0..63
  BY <1>1, Split
<1> DEFINE a == c \div 64
           b == c \div 4096
           d == c \div 262144
           x == c % 64
           y == (c \div 64) % 64
           z == (c \div 4096) % 64
<1>5. /\ c \in Nat /\ a \in Nat /\ b \in Nat /\ d \in Nat /\ x \in 0..63 /\ y \in 0..63 /\ z \in 0..63
      /\ c = a * 64 + x /\ a = b * 64 + y /\ b = d * 64 + z /\ c <= 1114111
  BY <1>1, <1>2, <1>3, <1>4
<1> HIDE DEF a, b, d, x, y, z
<1>6. /\ c = a * 64 + x
      /\ c = b * 4096 + y * 64 + x
      /\ c = d * 262144 + z * 4096 + y * 64 + x
      /\ c < 2048 => a < 32
      /\ 128 <= c => a >= 2
      /\ c < 65536 => b < 16
      /\ d < 5
  BY <1>5, Z3
<1> QED BY <1>5, <1>6 DEF a, b, d, x, y, z

\* A first byte announces the length of its character, and the bytes add up to it.
LEMMA Announcing ==
  \A b \in Nat : /\ b < 128 => Announced(b) = {1}
                 /\ 192 <= b /\ b < 224 => Announced(b) = {2}
                 /\ 224 <= b /\ b < 240 => Announced(b) = {3}
                 /\ 240 <= b /\ b < 248 => Announced(b) = {4}
                 /\ IsTrail(b) => Announced(b) = {}
<1> TAKE b \in Nat
<1>1. /\ b < 128 => b \notin 192..223 /\ b \notin 224..239 /\ b \notin 240..247
      /\ 192 <= b /\ b < 224 => ~(b < 128) /\ b \in 192..223 /\ b \notin 224..239 /\ b \notin 240..247
      /\ 224 <= b /\ b < 240 => ~(b < 128) /\ b \notin 192..223 /\ b \in 224..239 /\ b \notin 240..247
      /\ 240 <= b /\ b < 248 => ~(b < 128) /\ b \notin 192..223 /\ b \notin 224..239 /\ b \in 240..247
      /\ IsTrail(b) => ~(b < 128) /\ b \notin 192..223 /\ b \notin 224..239 /\ b \notin 240..247
  BY Z3 DEF IsTrail
<1>2. b < 128 => Announced(b) = {1}
  BY <1>1 DEF Announced
<1>3. 192 <= b /\ b < 224 => Announced(b) = {2}
  BY <1>1 DEF Announced
<1>4. 224 <= b /\ b < 240 => Announced(b) = {3}
  BY <1>1 DEF Announced
<1>5. 240 <= b /\ b < 248 => Announced(b) = {4}
  BY <1>1 DEF Announced
<1>6. IsTrail(b) => Announced(b) = {}
  BY <1>1 DEF Announced
<1> QED BY <1>2, <1>3, <1>4, <1>5, <1>6

\* The lengths and the elements of short sequences.
LEMMA Tuples ==
  /\ \A a \in Nat : <<a>> \in Seq(Nat) /\ Len(<<a>>) = 1 /\ <<a>>[1] = a
  /\ \A a, b \in Nat : <<a, b>> \in Seq(Nat) /\ Len(<<a, b>>) = 2 /\ <<a, b>>[1] = a /\ <<a, b>>[2] = b
  /\ \A a, b, c \in Nat : /\ <<a, b, c>> \in Seq(Nat) /\ Len(<<a, b, c>>) = 3
                           /\ <<a, b, c>>[1] = a /\ <<a, b, c>>[2] = b /\ <<a, b, c>>[3] = c
  /\ \A a, b, c, d \in Nat : /\ <<a, b, c, d>> \in Seq(Nat) /\ Len(<<a, b, c, d>>) = 4
                              /\ <<a, b, c, d>>[1] = a /\ <<a, b, c, d>>[2] = b
                              /\ <<a, b, c, d>>[3] = c /\ <<a, b, c, d>>[4] = d
OBVIOUS

\* The bytes u are one character, c.
Back(u, c) ==
  /\ u \in Seq(Nat) /\ Len(u) \in 1..4
  /\ Announced(u[1]) = {Len(u)} /\ Weighed(u) = c
  /\ \A j \in 2..Len(u) : IsTrail(u[j])

\* What is read where a character was written is the character.
LEMMA Utf8Back ==
  ASSUME NEW c \in CodePoint
  PROVE  Back(Utf8(c), c)
<1>1. c \in Nat
  BY DEF CodePoint
<1>2. /\ IsTrail(Trail(c, 1)) /\ IsTrail(Trail(c, 64)) /\ IsTrail(Trail(c, 4096))
      /\ Trail(c, 1) \in Nat /\ Trail(c, 64) \in Nat /\ Trail(c, 4096) \in Nat
      /\ Trail(c, 1) % 64 = c % 64
      /\ Trail(c, 64) % 64 = (c \div 64) % 64
      /\ Trail(c, 4096) % 64 = (c \div 4096) % 64
  BY Trails
<1>3. CASE c < 128
  <2>1. Utf8(c) = <<c>>
    BY <1>3, Utf8Forms DEF Form1
  <2>2. /\ <<c>> \in Seq(Nat) /\ Len(<<c>>) = 1 /\ <<c>>[1] = c
    BY <1>1, Tuples
  <2>3. Announced(c) = {1}
    BY <1>1, <1>3, Announcing
  <2>4. Weighed(<<c>>) = c
    BY <2>2 DEF Weighed
  <2>5. Back(<<c>>, c)
    BY <2>2, <2>3, <2>4 DEF Back
  <2> QED BY <2>1, <2>5
<1>4. CASE 128 <= c /\ c < 2048
  <2> DEFINE a == 192 + (c \div 64)
             x == Trail(c, 1)
             s == <<a, x>>
  <2>1. Utf8(c) = s
    BY <1>4, Utf8Forms DEF Form2
  <2>2. c \div 64 < 32 /\ c \div 64 \in Nat /\ c = (c \div 64) * 64 + (c % 64)
    BY <1>4, Weights
  <2>3. a - 192 = c \div 64 /\ a \in Nat /\ 192 <= a /\ a < 224
    BY <2>2
  <2>4. (a - 192) * 64 + (x % 64) = c
    BY <1>2, <2>2, <2>3
  <2> HIDE DEF a
  <2>5. x \in Nat /\ IsTrail(x)
    BY <1>2
  <2> HIDE DEF x
  <2>6. s \in Seq(Nat) /\ Len(s) = 2 /\ s[1] = a /\ s[2] = x
    BY <2>3, <2>5, Tuples
  <2>7. Announced(a) = {2}
    BY <2>3, Announcing
  <2> HIDE DEF s
  <2>8. Weighed(s) = (s[1] - 192) * 64 + (s[2] % 64)
    BY <2>6 DEF Weighed
  <2>9. Weighed(s) = c
    BY <2>4, <2>6, <2>8
  <2>10. \A j \in 2..Len(s) : IsTrail(s[j])
    BY <2>5, <2>6
  <2>11. Back(s, c)
    BY <2>6, <2>7, <2>9, <2>10 DEF Back
  <2> QED BY <2>1, <2>11
<1>5. CASE 2048 <= c /\ c < 65536
  <2> DEFINE a == 224 + (c \div 4096)
             x == Trail(c, 64)
             y == Trail(c, 1)
             s == <<a, x, y>>
  <2>1. Utf8(c) = s
    BY <1>5, Utf8Forms DEF Form3
  <2>2. /\ c \div 4096 < 16 /\ c \div 4096 \in Nat
        /\ c = (c \div 4096) * 4096 + ((c \div 64) % 64) * 64 + (c % 64)
    BY <1>5, Weights
  <2>3. a - 224 = c \div 4096 /\ a \in Nat /\ 224 <= a /\ a < 240
    BY <2>2
  <2>4. (a - 224) * 4096 + (x % 64) * 64 + (y % 64) = c
    BY <1>2, <2>2, <2>3
  <2> HIDE DEF a
  <2>5. x \in Nat /\ IsTrail(x) /\ y \in Nat /\ IsTrail(y)
    BY <1>2
  <2> HIDE DEF x, y
  <2>6. s \in Seq(Nat) /\ Len(s) = 3 /\ s[1] = a /\ s[2] = x /\ s[3] = y
    BY <2>3, <2>5, Tuples
  <2>7. Announced(a) = {3}
    BY <2>3, Announcing
  <2> HIDE DEF s
  <2>8. Weighed(s) = (s[1] - 224) * 4096 + (s[2] % 64) * 64 + (s[3] % 64)
    BY <2>6 DEF Weighed
  <2>9. Weighed(s) = c
    BY <2>4, <2>6, <2>8
  <2>10. \A j \in 2..Len(s) : IsTrail(s[j])
    <3>1. \A j \in 2..3 : j = 2 \/ j = 3
      OBVIOUS
    <3> QED BY <2>5, <2>6, <3>1
  <2>11. Back(s, c)
    BY <2>6, <2>7, <2>9, <2>10 DEF Back
  <2> QED BY <2>1, <2>11
<1>6. CASE 65536 <= c
  <2> DEFINE a == 240 + (c \div 262144)
             x == Trail(c, 4096)
             y == Trail(c, 64)
             z == Trail(c, 1)
             s == <<a, x, y, z>>
  <2>1. Utf8(c) = s
    BY <1>6, Utf8Forms DEF Form4
  <2>2. /\ c \div 262144 < 5 /\ c \div 262144 \in Nat
        /\ c = (c \div 262144) * 262144 + ((c \div 4096) % 64) * 4096
               + ((c \div 64) % 64) * 64 + (c % 64)
    BY Weights
  <2>3. a - 240 = c \div 262144 /\ a \in Nat /\ 240 <= a /\ a < 248
    BY <2>2
  <2>4. (a - 240) * 262144 + (x % 64) * 4096 + (y % 64) * 64 + (z % 64) = c
    BY <1>2, <2>2, <2>3
  <2> HIDE DEF a
  <2>5. x \in Nat /\ IsTrail(x) /\ y \in Nat /\ IsTrail(y) /\ z \in Nat /\ IsTrail(z)
    BY <1>2
  <2> HIDE DEF x, y, z
  <2>6. s \in Seq(Nat) /\ Len(s) = 4 /\ s[1] = a /\ s[2] = x /\ s[3] = y /\ s[4] = z
    BY <2>3, <2>5, Tuples
  <2>7. Announced(a) = {4}
    BY <2>3, Announcing
  <2> HIDE DEF s
  <2>8. Weighed(s) = (s[1] - 240) * 262144 + (s[2] % 64) * 4096 + (s[3] % 64) * 64 + (s[4] % 64)
    BY <2>6 DEF Weighed
  <2>9. Weighed(s) = c
    BY <2>4, <2>6, <2>8
  <2>10. \A j \in 2..Len(s) : IsTrail(s[j])
    <3>1. \A j \in 2..4 : j = 2 \/ j = 3 \/ j = 4
      OBVIOUS
    <3> QED BY <2>5, <2>6, <3>1
  <2>11. Back(s, c)
    BY <2>6, <2>7, <2>9, <2>10 DEF Back
  <2> QED BY <2>1, <2>11
<1> QED BY <1>1, <1>3, <1>4, <1>5, <1>6

\* What a part of a sequence holds.
LEMMA Places ==
  ASSUME NEW S, NEW s \in Seq(S), NEW p \in Nat \ {0}, NEW m \in Nat, m <= Len(s), p <= m + 1
  PROVE  /\ SubSeq(s, p, m) \in Seq(S) /\ Len(SubSeq(s, p, m)) = m + 1 - p
         /\ \A j \in 1..m + 1 - p : SubSeq(s, p, m)[j] = s[p + j - 1]
OBVIOUS

\* The character at a place of a text that was laid out from characters.
LEMMA RuneThere ==
  ASSUME NEW c, IsScalar(c), NEW s \in Seq(Int), NEW p \in Nat \ {0},
         p + Len(Utf8(c)) - 1 <= Len(s),
         \A j \in 1..Len(Utf8(c)) : s[p + j - 1] = Utf8(c)[j]
  PROVE  RuneAt(s, p) = {c}
<1>1. c \in CodePoint
  BY DEF IsScalar
<1> DEFINE u == Utf8(c)
           n == Len(u)
           m == p + n - 1
           t == SubSeq(s, p, m)
<1>2. u \in Seq(Nat) /\ n \in 1..4 /\ Announced(u[1]) = {n} /\ Weighed(u) = c
  BY <1>1, Utf8Back DEF Back
<1>3. n \in 1..4 /\ m <= Len(s) /\ \A j \in 1..n : s[p + j - 1] = u[j]
  BY <1>2
<1>4. s[p] = u[1]
  <2>1. 1 \in 1..n /\ p + 1 - 1 = p
    <3>1. n \in 1..4
      BY <1>3
    <3> HIDE DEF n
    <3> QED BY <3>1
  <2> HIDE DEF n, u
  <2> QED BY <1>3, <2>1
<1>5. t = u
  <2>1. m \in Nat /\ p <= m + 1 /\ m + 1 - p = n
    <3>1. n \in 1..4
      BY <1>3
    <3> HIDE DEF n
    <3> QED BY <3>1
  <2> HIDE DEF m, u
  <2>2. t \in Seq(Int) /\ Len(t) = n /\ \A j \in 1..n : t[j] = s[p + j - 1]
    BY <1>3, <2>1, Places
  <2>3. u \in Seq(Int) /\ Len(u) = n
    BY <1>2 DEF n
  <2> HIDE DEF t, n
  <2>4. \A j \in 1..n : t[j] = u[j]
    BY <1>3, <2>2
  <2> QED BY <2>2, <2>3, <2>4
<1>6. {k \in Announced(s[p]) : p + k - 1 <= Len(s)} = {n}
  <2> HIDE DEF n, u
  <2> QED BY <1>2, <1>3, <1>4 DEF m
<1>7. {Weighed(SubSeq(s, p, p + k - 1)) : k \in {l \in Announced(s[p]) : p + l - 1 <= Len(s)}} = {c}
  <2> HIDE DEF n, u
  <2>1. Weighed(SubSeq(s, p, p + n - 1)) = c
    BY <1>2, <1>5 DEF t, m
  <2> QED BY <1>6, <2>1, Zenon
<1> QED BY <1>5, <1>7, Zenon DEF RuneAt, t, m, n, u
-----------------------------------------------------------------------------
\* The recursions of the reference definitions.

\* f is the concatenations of the first m sequences of q.
Joins(q, f, m) == f = [k \in 0..m |-> IF k = 0 THEN <<>> ELSE f[k - 1] \o q[k]]

\* A recursion over a text has one solution.
LEMMA JoinsUpto == ASSUME NEW q PROVE \A m \in Nat : \E f : Joins(q, f, m)
<1> DEFINE S == {m \in Nat : \E f : Joins(q, f, m)}
<1>1. 0 \in S
  <2> DEFINE f == [k \in 0..0 |-> <<>>]
  <2>1. \A k \in 0..0 : k = 0
    OBVIOUS
  <2>2. f = [k \in 0..0 |-> IF k = 0 THEN <<>> ELSE f[k - 1] \o q[k]]
    <3>1. \A k \in 0..0 : <<>> = IF k = 0 THEN <<>> ELSE f[k - 1] \o q[k]
      BY <2>1
    <3> QED BY <3>1, Zenon
  <2>3. Joins(q, f, 0)
    BY <2>2, Zenon DEF Joins
  <2> QED BY <2>3
<1>2. ASSUME NEW m \in Nat, m \in S
      PROVE  m + 1 \in S
  <2>1. PICK f : Joins(q, f, m)
    BY <1>2
  <2> DEFINE v(k, h) == IF k = 0 THEN <<>> ELSE h[k - 1] \o q[k]
             g == [k \in 0..m + 1 |-> v(k, f)]
  <2>2. ASSUME NEW k \in 0..m + 1
        PROVE  v(k, f) = v(k, g)
    <3>1. CASE k = 0
      BY <3>1
    <3>2. CASE k # 0
      <4>1. k - 1 \in 0..m /\ k - 1 \in 0..m + 1
        BY <3>2
      <4>2. f[k - 1] = v(k - 1, f)
        BY <2>1, <4>1, Zenon DEF Joins
      <4>3. g[k - 1] = v(k - 1, f)
        BY <4>1
      <4> HIDE DEF g
      <4> QED BY <3>2, <4>2, <4>3
    <3> QED BY <3>1, <3>2
  <2>3. g = [k \in 0..m + 1 |-> v(k, g)]
    <3> HIDE DEF v
    <3> QED BY <2>2, Zenon
  <2>4. Joins(q, g, m + 1)
    BY <2>3, Zenon DEF Joins
  <2> QED BY <2>4
<1>3. Nat \subseteq S
  <2> HIDE DEF S
  <2> QED BY <1>1, <1>2, Upwards
<1> QED BY <1>3

\* The text up to the k-th character without its pairs, and the characters read
\* of the first k bytes.
Folded(s, version) ==
  CHOOSE f : f = [k \in 0..Len(s) |-> IF k = 0 THEN <<>> ELSE f[k - 1] \o Kept(s, k, version)]
Upto(b) == CHOOSE f : f = [k \in 0..Len(b) |-> IF k = 0 THEN <<>> ELSE f[k - 1] \o Read(b, k)]

\* The recursions of Normal and FromUtf8 are solved step by step.
LEMMA NormalEquation ==
  ASSUME NEW s, NEW version, Len(s) \in Nat
  PROVE  /\ Normal(s, version) = Folded(s, version)[Len(s)] /\ Folded(s, version)[0] = <<>>
         /\ \A k \in 1..Len(s) : Folded(s, version)[k] = Folded(s, version)[k - 1] \o Kept(s, k, version)
<1> DEFINE f == Folded(s, version)
           n == Len(s)
           q == [k \in 0..n |-> Kept(s, k, version)]
<1>1. Normal(s, version) = f[n]
  BY Zenon DEF Normal, Folded
<1>2. f = [k \in 0..n |-> IF k = 0 THEN <<>> ELSE f[k - 1] \o Kept(s, k, version)]
  <2>1. PICK h : h = [k \in 0..n |-> IF k = 0 THEN <<>> ELSE h[k - 1] \o q[k]]
    BY JoinsUpto DEF Joins
  <2>2. \A k \in 0..n : (IF k = 0 THEN <<>> ELSE h[k - 1] \o q[k]) =
                          IF k = 0 THEN <<>> ELSE h[k - 1] \o Kept(s, k, version)
    OBVIOUS
  <2> HIDE DEF q
  <2>3. h = [k \in 0..n |-> IF k = 0 THEN <<>> ELSE h[k - 1] \o Kept(s, k, version)]
    BY <2>1, <2>2, Zenon
  <2> QED BY <2>3, Zenon DEF Folded
<1> HIDE DEF f
<1>3. \A k \in 0..n : f[k] = IF k = 0 THEN <<>> ELSE f[k - 1] \o Kept(s, k, version)
  BY <1>2, Zenon
<1>4. f[0] = <<>>
  BY <1>3
<1>5. \A k \in 1..n : k \in 0..n /\ k # 0
  OBVIOUS
<1> QED BY <1>1, <1>3, <1>4, <1>5 DEF f

LEMMA FromEquation ==
  ASSUME NEW b, Len(b) \in Nat
  PROVE  /\ FromUtf8(b) = Upto(b)[Len(b)] /\ Upto(b)[0] = <<>>
         /\ \A k \in 1..Len(b) : Upto(b)[k] = Upto(b)[k - 1] \o Read(b, k)
<1> DEFINE f == Upto(b)
           n == Len(b)
           q == [k \in 0..n |-> Read(b, k)]
<1>1. FromUtf8(b) = f[n]
  BY Zenon DEF FromUtf8, Upto
<1>2. f = [k \in 0..n |-> IF k = 0 THEN <<>> ELSE f[k - 1] \o Read(b, k)]
  <2>1. PICK h : h = [k \in 0..n |-> IF k = 0 THEN <<>> ELSE h[k - 1] \o q[k]]
    BY JoinsUpto DEF Joins
  <2>2. \A k \in 0..n : (IF k = 0 THEN <<>> ELSE h[k - 1] \o q[k]) =
                          IF k = 0 THEN <<>> ELSE h[k - 1] \o Read(b, k)
    OBVIOUS
  <2> HIDE DEF q
  <2>3. h = [k \in 0..n |-> IF k = 0 THEN <<>> ELSE h[k - 1] \o Read(b, k)]
    BY <2>1, <2>2, Zenon
  <2> QED BY <2>3, Zenon DEF Upto
<1> HIDE DEF f
<1>3. \A k \in 0..n : f[k] = IF k = 0 THEN <<>> ELSE f[k - 1] \o Read(b, k)
  BY <1>2, Zenon
<1>4. f[0] = <<>>
  BY <1>3
<1>5. \A k \in 1..n : k \in 0..n /\ k # 0
  OBVIOUS
<1> QED BY <1>1, <1>3, <1>4, <1>5 DEF f
-----------------------------------------------------------------------------
\* A character in the bytes, and the bytes from one that is no trail byte to the
\* next.

\* Sequences over a larger set.
LEMMA Wider ==
  ASSUME NEW S, NEW T, S \subseteq T, NEW s \in Seq(S)
  PROVE  s \in Seq(T)
<1>1. Len(s) \in Nat /\ DOMAIN s = 1..Len(s) /\ \A k \in 1..Len(s) : s[k] \in T
  OBVIOUS
<1>2. s = [k \in 1..Len(s) |-> s[k]]
  OBVIOUS
<1>3. s \in [1..Len(s) -> T]
  BY <1>1, <1>2
<1> QED BY <1>1, <1>3

\* The character at p, and the bytes it takes.
Stands(b, p, c) ==
  /\ IsScalar(c) /\ Utf8(c) \in Seq(Nat) /\ Len(Utf8(c)) \in 1..4 /\ p + Len(Utf8(c)) - 1 <= Len(b)
  /\ Weighed(Utf8(c)) = c /\ Announced(b[p]) = {Len(Utf8(c))}
  /\ \A j \in 1..Len(Utf8(c)) : b[p + j - 1] = Utf8(c)[j]
  /\ \A j \in 2..Len(Utf8(c)) : IsTrail(b[p + j - 1])

\* Where RuneAt finds a character, its bytes stand, and a trail byte does not begin them.
LEMMA RuneStands ==
  ASSUME NEW b \in Seq(Byte), NEW p \in 1..Len(b), NEW c \in RuneAt(b, p)
  PROVE  Stands(b, p, c) /\ p \in Firsts(b)
<1> DEFINE u == Utf8(c)
           n == Len(u)
<1>1. IsScalar(c) /\ u = SubSeq(b, p, p + n - 1)
  BY DEF RuneAt
<1>2. PICK m \in Announced(b[p]) : p + m - 1 <= Len(b)
  BY Zenon DEF RuneAt
<1>3. c \in CodePoint
  BY <1>1 DEF IsScalar
<1>4. u \in Seq(Nat) /\ n \in 1..4 /\ Announced(u[1]) = {n} /\ Weighed(u) = c /\ \A j \in 2..n : IsTrail(u[j])
  BY <1>3, Utf8Back DEF Back
<1>5. p \in Nat \ {0} /\ Len(b) \in Nat /\ p <= Len(b) /\ b[p] \in Nat
  <2>1. p \in Nat \ {0} /\ Len(b) \in Nat /\ p <= Len(b) /\ b[p] \in Byte
    OBVIOUS
  <2>2. \A x \in Byte : x \in Nat
    BY DEF Byte
  <2>3. b[p] \in Nat
    BY <2>1, <2>2, Zenon
  <2> QED BY <2>1, <2>3
<1> HIDE DEF n, u
<1>6. u[1] = b[p]
  <2> DEFINE m0 == p + n - 1
  <2>1. m0 \in Nat /\ p <= m0 /\ p + 1 - 1 = p
    BY <1>4, <1>5
  <2> HIDE DEF m0
  <2>2. SubSeq(b, p, m0)[1] = b[p]
    BY <1>5, <2>1
  <2> QED BY <1>1, <2>2 DEF m0
<1>7. m = n
  BY <1>2, <1>4, <1>6
<1>8. p + n - 1 <= Len(b)
  BY <1>2, <1>7
<1>9. \A j \in 1..n : b[p + j - 1] = u[j]
  <2> DEFINE m0 == p + n - 1
             t == SubSeq(b, p, m0)
  <2>1. m0 \in Nat /\ p <= m0 + 1 /\ m0 <= Len(b) /\ m0 + 1 - p = n
    BY <1>4, <1>5, <1>8
  <2> HIDE DEF m0
  <2>2. \A j \in 1..m0 + 1 - p : t[j] = b[p + j - 1]
    BY <1>5, <2>1, Places
  <2> QED BY <1>1, <2>1, <2>2 DEF m0
<1>10. \A j \in 2..n : j \in 1..n /\ IsTrail(u[j])
  BY <1>4
<1>11. ~IsTrail(b[p])
  <2>1. IsTrail(b[p]) => Announced(b[p]) = {}
    BY <1>5, Announcing
  <2> QED BY <1>2, <2>1
<1>12. p \in DOMAIN b
  OBVIOUS
<1>13. Announced(b[p]) = {n}
  BY <1>4, <1>6
<1>14. Stands(b, p, c)
  BY <1>1, <1>4, <1>8, <1>9, <1>10, <1>13 DEF Stands, u, n
<1> QED BY <1>11, <1>12, <1>14 DEF Firsts

\* Where the bytes of the character that begins at k end.
Ends(b, k, e) == /\ e \in k..Len(b) /\ \A j \in (k + 1)..e : j \notin Firsts(b)
                 /\ e < Len(b) => e + 1 \in Firsts(b)

\* There is one such end, which EndOf finds.
LEMMA OneEnd ==
  ASSUME NEW b, Len(b) \in Nat, NEW k \in Nat, NEW e, Ends(b, k, e)
  PROVE  EndOf(b, k) = e
<1>1. ASSUME NEW d, Ends(b, k, d)
      PROVE  d = e
  <2>1. /\ d \in Nat /\ e \in Nat /\ k <= d /\ k <= e /\ d <= Len(b) /\ e <= Len(b)
        /\ d < Len(b) => d + 1 \in Firsts(b)
        /\ e < Len(b) => e + 1 \in Firsts(b)
        /\ \A j \in (k + 1)..d : j \notin Firsts(b)
        /\ \A j \in (k + 1)..e : j \notin Firsts(b)
    BY <1>1 DEF Ends
  <2>2. ~(d < e)
    <3> SUFFICES ASSUME d < e PROVE FALSE
      OBVIOUS
    <3>1. d + 1 \in (k + 1)..e /\ d < Len(b)
      BY <2>1
    <3> QED BY <2>1, <3>1
  <2>3. ~(e < d)
    <3> SUFFICES ASSUME e < d PROVE FALSE
      OBVIOUS
    <3>1. e + 1 \in (k + 1)..d /\ e < Len(b)
      BY <2>1
    <3> QED BY <2>1, <3>1
  <2> QED BY <2>1, <2>2, <2>3
<1> DEFINE R(x) == /\ \A j \in (k + 1)..x : j \notin Firsts(b)
                   /\ x < Len(b) => x + 1 \in Firsts(b)
<1>2. e \in k..Len(b) /\ R(e)
  BY Zenon DEF Ends
<1>3. EndOf(b, k) \in k..Len(b) /\ R(EndOf(b, k))
  BY <1>2, Zenon DEF EndOf
<1> QED BY <1>1, <1>3, Zenon DEF Ends

LEMMA HasEnd ==
  ASSUME NEW b \in Seq(Byte), NEW k \in Firsts(b)
  PROVE  k \in 1..Len(b) /\ Ends(b, k, EndOf(b, k))
<1>1. k \in 1..Len(b) /\ Len(b) \in Nat
  BY DEF Firsts
<1> DEFINE S == {e \in Nat : e \in k..Len(b) /\ (e < Len(b) => e + 1 \in Firsts(b))}
<1>2. PICK e \in S : \A i \in S : e <= i
  <2>1. S \in SUBSET Nat /\ Len(b) \in S
    BY <1>1
  <2> HIDE DEF S
  <2> QED BY <2>1, LeastNatural
<1>3. \A j \in (k + 1)..e : j \notin Firsts(b)
  <2> TAKE j \in (k + 1)..e
  <2>1. j - 1 \in k..Len(b) /\ j - 1 \in Nat /\ ~(e <= j - 1) /\ (j - 1) + 1 = j
    BY <1>1, <1>2
  <2>2. j - 1 \notin S
    BY <1>2, <2>1
  <2> QED BY <2>1, <2>2
<1>4. Ends(b, k, e)
  BY <1>2, <1>3 DEF Ends
<1>5. EndOf(b, k) = e
  BY <1>1, <1>4, OneEnd
<1> QED BY <1>1, <1>4, <1>5

\* The bytes of the character that begins at k.
LEMMA SliceBytes ==
  ASSUME NEW b \in Seq(Byte), NEW k \in Nat \ {0}, NEW e, Ends(b, k, e)
  PROVE  /\ e \in Nat /\ k <= e /\ e <= Len(b) /\ Slice(b, k) \in Seq(Int) /\ Len(Slice(b, k)) = e + 1 - k
         /\ \A j \in 1..e + 1 - k : Slice(b, k)[j] = b[k + j - 1]
<1>1. e \in Nat /\ k <= e /\ e <= Len(b) /\ Len(b) \in Nat
  BY DEF Ends
<1>2. EndOf(b, k) = e
  BY <1>1, OneEnd
<1>3. Slice(b, k) = SubSeq(b, k, e)
  BY <1>2 DEF Slice
<1>4. b \in Seq(Int)
  <2>1. Byte \subseteq Int
    BY DEF Byte
  <2> QED BY <2>1, Wider
<1>5. k <= e + 1
  BY <1>1
<1> QED BY <1>1, <1>3, <1>4, <1>5, Places

\* Two characters of the same first byte have the same length.
LEMMA NotSound ==
  ASSUME NEW b \in Seq(Byte), NEW p \in 1..Len(b), NEW c \in RuneAt(b, p),
         p + Len(Utf8(c)) <= Len(b), p + Len(Utf8(c)) \notin Firsts(b)
  PROVE  ~Sound(b, p)
<1> DEFINE n == Len(Utf8(c))
           e == EndOf(b, p)
           s == Slice(b, p)
           w == Weighed(s)
<1>1. Stands(b, p, c) /\ p \in Firsts(b)
  BY RuneStands
<1>2. Ends(b, p, e) /\ p \in Nat \ {0} /\ Len(b) \in Nat
  BY <1>1, HasEnd
<1>3. n \in 1..4 /\ Announced(b[p]) = {n} /\ \A j \in 2..n : IsTrail(b[p + j - 1])
  BY <1>1 DEF Stands
<1> HIDE DEF n, e
<1>4. \A j \in 2..n : p + j - 1 \notin Firsts(b)
  BY <1>3 DEF Firsts
<1>5. e \in Nat /\ p <= e /\ e <= Len(b) /\ Len(s) = e + 1 - p /\ \A j \in 1..e + 1 - p : s[j] = b[p + j - 1]
  BY <1>2, SliceBytes
<1>6. p + n <= Len(b) /\ p + n \notin Firsts(b)
  BY DEF n
<1>7. e >= p + n
  <2> SUFFICES ASSUME e < p + n PROVE FALSE
    BY <1>2, <1>3, <1>5
  <2>1. e + 1 \in Firsts(b)
    BY <1>2, <1>3, <1>5, <1>6 DEF Ends
  <2>2. CASE e + 1 = p + n
    BY <1>6, <2>1, <2>2
  <2>3. CASE e + 1 # p + n
    <3> DEFINE j == e + 2 - p
    <3>1. j \in 2..n /\ p + j - 1 = e + 1
      BY <1>2, <1>3, <1>5, <2>3
    <3> HIDE DEF j
    <3> QED BY <1>4, <2>1, <3>1
  <2> QED BY <2>2, <2>3
<1> HIDE DEF s
<1>8. s[1] = b[p]
  <2>1. 1 \in 1..e + 1 - p /\ p + 1 - 1 = p
    BY <1>2, <1>5
  <2> QED BY <1>5, <2>1
<1> SUFFICES ASSUME Sound(b, p) PROVE FALSE
  OBVIOUS
<1>9. IsScalar(w) /\ Utf8(w) = s
  BY DEF Sound, s
<1>10. w \in CodePoint
  BY <1>9 DEF IsScalar
<1> HIDE DEF w
<1>11. Announced(s[1]) = {Len(s)}
  BY <1>9, <1>10, Utf8Back DEF Back
<1>12. n = Len(s)
  BY <1>3, <1>8, <1>11
<1> QED BY <1>2, <1>3, <1>5, <1>7, <1>12

\* A character that is followed by another, or by nothing.
LEMMA WholeSlice ==
  ASSUME NEW b \in Seq(Byte), NEW p \in 1..Len(b), NEW c \in RuneAt(b, p),
         p + Len(Utf8(c)) <= Len(b) => p + Len(Utf8(c)) \in Firsts(b)
  PROVE  Sound(b, p) /\ Weighed(Slice(b, p)) = c
<1> DEFINE u == Utf8(c)
           n == Len(u)
           e == p + n - 1
           s == Slice(b, p)
<1>1. Stands(b, p, c) /\ p \in Firsts(b) /\ p \in Nat \ {0} /\ Len(b) \in Nat
  BY RuneStands
<1>2. /\ n \in 1..4 /\ IsScalar(c) /\ u \in Seq(Nat) /\ Weighed(u) = c /\ p + n - 1 <= Len(b)
      /\ \A j \in 1..n : b[p + j - 1] = u[j]
      /\ \A j \in 2..n : IsTrail(b[p + j - 1])
  BY <1>1 DEF Stands
<1>3. p + n <= Len(b) => p + n \in Firsts(b)
  OBVIOUS
<1> HIDE DEF n
<1>4. Ends(b, p, e)
  <2>1. e \in p..Len(b) /\ e + 1 = p + n
    BY <1>1, <1>2
  <2>2. ASSUME NEW i \in (p + 1)..e
        PROVE  i \notin Firsts(b)
    <3> DEFINE j == i + 1 - p
    <3>1. j \in 2..n /\ p + j - 1 = i
      BY <1>1, <1>2
    <3> HIDE DEF j, e
    <3>2. IsTrail(b[i])
      BY <1>2, <3>1
    <3> QED BY <3>2 DEF Firsts
  <2>3. e < Len(b) => e + 1 \in Firsts(b)
    <3>1. e < Len(b) => p + n <= Len(b)
      BY <1>1, <1>2
    <3> QED BY <1>3, <2>1, <3>1
  <2> HIDE DEF e
  <2> QED BY <2>1, <2>2, <2>3 DEF Ends
<1>5. e + 1 - p = n
  BY <1>1, <1>2
<1> HIDE DEF e, u, s
<1>6. s \in Seq(Int) /\ Len(s) = n /\ \A j \in 1..n : s[j] = b[p + j - 1]
  BY <1>1, <1>4, <1>5, SliceBytes DEF s
<1>7. s = u
  <2>1. u \in Seq(Int) /\ Len(u) = n
    BY <1>2 DEF n
  <2>2. \A j \in 1..n : s[j] = u[j]
    BY <1>2, <1>6
  <2> QED BY <1>6, <2>1, <2>2
<1>8. Len(s) <= 4
  BY <1>2, <1>6
<1>9. Weighed(s) = c
  BY <1>2, <1>7
<1>10. IsScalar(Weighed(s)) /\ Utf8(Weighed(s)) = s
  BY <1>2, <1>7, <1>9 DEF u
<1> QED BY <1>8, <1>9, <1>10 DEF Sound, s

\* Where a character ought to be there is one.
LEMMA SoundRune ==
  ASSUME NEW b \in Seq(Byte), NEW k \in Firsts(b), Sound(b, k)
  PROVE  RuneAt(b, k) # {}
<1> DEFINE e == EndOf(b, k)
           s == Slice(b, k)
           w == Weighed(s)
<1>1. k \in Nat \ {0} /\ Ends(b, k, e) /\ Len(b) \in Nat
  BY HasEnd
<1> HIDE DEF e
<1>2. /\ e \in Nat /\ k <= e /\ e <= Len(b) /\ Len(s) = e + 1 - k
      /\ \A j \in 1..e + 1 - k : s[j] = b[k + j - 1]
  BY <1>1, SliceBytes
<1>3. IsScalar(w) /\ Utf8(w) = s
  BY DEF Sound
<1>4. k + Len(s) - 1 <= Len(b)
  BY <1>1, <1>2
<1>5. b \in Seq(Int)
  <2>1. Byte \subseteq Int
    BY DEF Byte
  <2> QED BY <2>1, Wider
<1> HIDE DEF w, s
<1>6. RuneAt(b, k) = {w}
  BY <1>1, <1>2, <1>3, <1>4, <1>5, RuneThere
<1> QED BY <1>6
-----------------------------------------------------------------------------
\* decodeUTF8 against the meaning of the bytes.

\* What is known once the first n bytes have been read as r: where the next byte
\* begins no character the body is not UTF-8, and otherwise r is what they mean.
Decoded(b, n, r) ==
  IF n < Len(b) /\ n + 1 \notin Firsts(b) THEN ~IsUtf8(b)
  ELSE /\ r = Upto(b)[n]
       /\ \A k \in Firsts(b) : k <= n => Sound(b, k)
       /\ n >= 1 => 1 \in Firsts(b)

\* decodeUTF8 begins knowing nothing.
LEMMA DecodeStart ==
  ASSUME NEW b \in Seq(Byte)
  PROVE  Decoded(b, 0, <<>>)
<1>1. Len(b) \in Nat /\ (b # <<>> <=> 0 < Len(b))
  OBVIOUS
<1>2. <<>> = Upto(b)[0]
  BY <1>1, FromEquation
<1>3. \A k \in Firsts(b) : ~(k <= 0)
  BY DEF Firsts
<1>4. 0 < Len(b) /\ 0 + 1 \notin Firsts(b) => ~IsUtf8(b)
  <2>1. 0 + 1 = 1
    OBVIOUS
  <2> QED BY <1>1, <2>1, Zenon DEF IsUtf8
<1>5. ~(0 >= 1)
  OBVIOUS
<1> QED BY <1>2, <1>3, <1>4, <1>5, Zenon DEF Decoded

\* A trail byte adds no character.
LEMMA Trailing ==
  ASSUME NEW b \in Seq(Byte), NEW k \in 1..Len(b), k \notin Firsts(b), NEW r \in Seq(CodePoint),
         Upto(b)[k - 1] = r
  PROVE  Upto(b)[k] = r
<1>1. Upto(b)[k] = Upto(b)[k - 1] \o Read(b, k)
  <2>1. Len(b) \in Nat
    OBVIOUS
  <2> QED BY <2>1, FromEquation
<1>2. Read(b, k) = <<>>
  BY Zenon DEF Read
<1>3. r \o <<>> = r
  OBVIOUS
<1> QED BY <1>1, <1>2, <1>3, Zenon

\* One round of decodeUTF8.
LEMMA DecodeMore ==
  ASSUME NEW b \in Seq(Byte), NEW n \in Nat, n < Len(b), NEW r \in Seq(CodePoint), Decoded(b, n, r),
         NEW c \in RuneAt(b, n + 1)
  PROVE  Decoded(b, n + Len(Utf8(c)), Append(r, c)) /\ n + Len(Utf8(c)) <= Len(b)
<1> DEFINE p == n + 1
           m == Len(Utf8(c))
           q == n + m
<1>1. p \in 1..Len(b) /\ Len(b) \in Nat /\ p = n + 1
  OBVIOUS
<1>2. Stands(b, p, c) /\ p \in Firsts(b)
  BY <1>1, RuneStands
<1>3. /\ r = Upto(b)[n]
      /\ \A k \in Firsts(b) : k <= n => Sound(b, k)
      /\ n >= 1 => 1 \in Firsts(b)
  BY <1>2, Zenon DEF Decoded
<1>4. m \in 1..4 /\ p + m - 1 <= Len(b) /\ \A j \in 2..m : IsTrail(b[p + j - 1])
  BY <1>2 DEF Stands
<1>5. c \in CodePoint
  BY <1>2 DEF Stands, IsScalar
<1> HIDE DEF m, p
<1>6. q \in Nat /\ q <= Len(b) /\ q + 1 = p + m /\ p <= q
  BY <1>1, <1>4
<1>7. \A j \in (p + 1)..q : j \notin Firsts(b) /\ j \in 1..Len(b)
  <2> TAKE j \in (p + 1)..q
  <2>1. j + 1 - p \in 2..m /\ p + (j + 1 - p) - 1 = j /\ j \in 1..Len(b)
    BY <1>1, <1>4, <1>6
  <2>2. IsTrail(b[j])
    BY <1>4, <2>1
  <2> QED BY <2>1, <2>2 DEF Firsts
<1>8. CASE q < Len(b) /\ q + 1 \notin Firsts(b)
  <2>1. p + m <= Len(b) /\ p + m \notin Firsts(b)
    BY <1>6, <1>8
  <2>2. ~Sound(b, p)
    BY <1>1, <2>1, NotSound DEF m, p
  <2>3. ~IsUtf8(b)
    BY <1>2, <2>2, Zenon DEF IsUtf8
  <2>4. Decoded(b, q, Append(r, c))
    BY <1>8, <2>3, Zenon DEF Decoded
  <2> QED BY <1>6, <2>4 DEF m
<1>9. CASE ~(q < Len(b) /\ q + 1 \notin Firsts(b))
  <2>1. p + m <= Len(b) => p + m \in Firsts(b)
    BY <1>6, <1>9
  <2>2. Sound(b, p) /\ Weighed(Slice(b, p)) = c
    BY <1>1, <2>1, WholeSlice DEF m, p
  <2>3. Read(b, p) = <<c>>
    BY <1>2, <2>2, Zenon DEF Read
  <2> DEFINE a == Append(r, c)
  <2>4. a \in Seq(CodePoint) /\ r \o <<c>> = a
    BY <1>5
  <2> HIDE DEF a
  <2>5. Upto(b)[p] = a
    <3>1. p - 1 = n
      BY <1>1
    <3>2. Upto(b)[p] = Upto(b)[p - 1] \o Read(b, p)
      BY <1>1, FromEquation
    <3> QED BY <1>3, <2>3, <2>4, <3>1, <3>2, Zenon
  <2>6. Upto(b)[q] = a
    <3>1. \A k \in (p + 1)..q : Upto(b)[k - 1] = a => Upto(b)[k] = a
      BY <1>7, <2>4, Trailing
    <3>2. q = p \/ q = p + 1 \/ q = p + 2 \/ q = p + 3
      BY <1>1, <1>4
    <3> HIDE DEF q
    <3>3. p \in Nat
      BY <1>1
    <3>4. ASSUME p + 1 \in (p + 1)..q
          PROVE  Upto(b)[p + 1] = a
      <4>1. (p + 1) - 1 = p
        BY <3>3
      <4> QED BY <2>5, <3>1, <3>4, <4>1, Zenon
    <3>5. ASSUME p + 1 \in (p + 1)..q, p + 2 \in (p + 1)..q
          PROVE  Upto(b)[p + 2] = a
      <4>1. (p + 2) - 1 = p + 1
        BY <3>3
      <4> QED BY <3>1, <3>4, <3>5, <4>1, Zenon
    <3>6. ASSUME p + 1 \in (p + 1)..q, p + 2 \in (p + 1)..q, p + 3 \in (p + 1)..q
          PROVE  Upto(b)[p + 3] = a
      <4>1. (p + 3) - 1 = p + 2
        BY <3>3
      <4> QED BY <3>1, <3>5, <3>6, <4>1, Zenon
    <3>7. CASE q = p
      BY <2>5, <3>7
    <3>8. CASE q = p + 1
      <4>1. p + 1 \in (p + 1)..q
        BY <3>3, <3>8
      <4> QED BY <3>4, <3>8, <4>1, Zenon
    <3>9. CASE q = p + 2
      <4>1. p + 1 \in (p + 1)..q /\ p + 2 \in (p + 1)..q
        BY <3>3, <3>9
      <4> QED BY <3>5, <3>9, <4>1, Zenon
    <3>10. CASE q = p + 3
      <4>1. p + 1 \in (p + 1)..q /\ p + 2 \in (p + 1)..q /\ p + 3 \in (p + 1)..q
        BY <3>3, <3>10
      <4> QED BY <3>6, <3>10, <4>1, Zenon
    <3> QED BY <3>2, <3>7, <3>8, <3>9, <3>10
  <2>7. ASSUME NEW k \in Firsts(b), k <= q
        PROVE  Sound(b, k)
    <3>1. k \in Nat
      BY DEF Firsts
    <3>2. CASE k <= n
      BY <1>3, <3>2
    <3>3. CASE k = p
      BY <2>2, <3>3
    <3>4. CASE ~(k <= n) /\ k # p
      <4>1. k \in (p + 1)..q
        BY <1>1, <1>6, <2>7, <3>1, <3>4
      <4> QED BY <1>7, <4>1
    <3> QED BY <3>2, <3>3, <3>4
  <2>8. 1 \in Firsts(b)
    <3>1. n >= 1 \/ p = 1
      BY <1>1
    <3> QED BY <1>2, <1>3, <3>1
  <2>9. Decoded(b, q, a)
    <3> HIDE DEF q
    <3> QED BY <1>9, <2>6, <2>7, <2>8, Zenon DEF Decoded
  <2> QED BY <1>6, <2>9 DEF m, a
<1> QED BY <1>8, <1>9

\* Where no character is found the body is not UTF-8.
LEMMA DecodeStops ==
  ASSUME NEW b \in Seq(Byte), NEW n \in Nat, n < Len(b), NEW r, Decoded(b, n, r),
         RuneAt(b, n + 1) = {}
  PROVE  ~IsUtf8(b)
<1>1. CASE n + 1 \notin Firsts(b)
  BY <1>1, Zenon DEF Decoded
<1>2. CASE n + 1 \in Firsts(b)
  <2>1. ~Sound(b, n + 1)
    BY <1>2, SoundRune
  <2> QED BY <1>2, <2>1, Zenon DEF IsUtf8
<1> QED BY <1>1, <1>2

\* All of the body is read: it is UTF-8, and the characters are what it means.
LEMMA DecodeAll ==
  ASSUME NEW b \in Seq(Byte), NEW r, Decoded(b, Len(b), r)
  PROVE  r = FromUtf8(b) /\ IsUtf8(b)
<1>1. Len(b) \in Nat /\ ~(Len(b) < Len(b)) /\ (b # <<>> => Len(b) >= 1)
  OBVIOUS
<1>2. /\ r = Upto(b)[Len(b)]
      /\ \A k \in Firsts(b) : k <= Len(b) => Sound(b, k)
      /\ Len(b) >= 1 => 1 \in Firsts(b)
  BY <1>1, Zenon DEF Decoded
<1>3. \A k \in Firsts(b) : k <= Len(b)
  BY <1>1 DEF Firsts
<1>4. FromUtf8(b) = Upto(b)[Len(b)]
  BY <1>1, FromEquation
<1> QED BY <1>1, <1>2, <1>3, <1>4, Zenon DEF IsUtf8
-----------------------------------------------------------------------------
\* normalizeLineEndings against the text without its pairs.

\* Where normalising stands: what is written is what the characters read come
\* to, and the next one is not the second of a pair.
Normalised(s, v, i, a, w) == SubSeq(i, 1, w) = Folded(s, v)[a] /\ a + 1 \notin Halved(s, v)

\* normalizeLineEndings begins with nothing written.
LEMMA NormaliseStart ==
  ASSUME NEW v, NEW s \in Seq(CodePoint)
  PROVE  Normalised(s, v, s, 0, 0)
<1>1. Len(s) \in Nat /\ SubSeq(s, 1, 0) = <<>>
  OBVIOUS
<1>2. Folded(s, v)[0] = <<>>
  BY <1>1, NormalEquation
<1>3. 0 + 1 \notin Halved(s, v)
  BY DEF Halved
<1> QED BY <1>1, <1>2, <1>3, Zenon DEF Normalised

\* What one more element at the end of what is written makes of it.
LEMMA Extended ==
  ASSUME NEW S, NEW i \in Seq(S), NEW w \in Nat, w < Len(i), NEW c \in S
  PROVE  SubSeq([i EXCEPT ![w + 1] = c], 1, w + 1) = SubSeq(i, 1, w) \o <<c>>
<1> DEFINE j == [i EXCEPT ![w + 1] = c]
           x == SubSeq(j, 1, w + 1)
           y == SubSeq(i, 1, w)
<1>1. j \in Seq(S) /\ Len(j) = Len(i) /\ Len(i) \in Nat
  OBVIOUS
<1>2. j[w + 1] = c /\ \A k \in 1..w : j[k] = i[k]
  OBVIOUS
<1> HIDE DEF j
<1>3. x \in Seq(S) /\ Len(x) = w + 1 /\ \A k \in 1..w + 1 : x[k] = j[k]
  BY <1>1
<1>4. y \in Seq(S) /\ Len(y) = w /\ \A k \in 1..w : y[k] = i[k]
  BY <1>1
<1> HIDE DEF x, y
<1>5. y \o <<c>> \in Seq(S) /\ Len(y \o <<c>>) = w + 1
  BY <1>4
<1>6. \A k \in 1..w + 1 : (y \o <<c>>)[k] = IF k <= w THEN y[k] ELSE c
  BY <1>4
<1>7. \A k \in 1..w + 1 : x[k] = (y \o <<c>>)[k]
  <2> TAKE k \in 1..w + 1
  <2>1. CASE k <= w
    <3>1. k \in 1..w
      BY <2>1
    <3> QED BY <1>2, <1>3, <1>4, <1>6, <2>1, <3>1
  <2>2. CASE ~(k <= w)
    <3>1. k = w + 1
      BY <2>2
    <3> QED BY <1>2, <1>3, <1>6, <2>2, <3>1
  <2> QED BY <2>1, <2>2
<1>8. x = y \o <<c>>
  BY <1>3, <1>5, <1>7
<1> QED BY <1>8 DEF x, y, j

\* No character is both a CR and what a CR takes with it.
LEMMA PairsApart == ASSUME NEW v PROVE CR \notin AfterCR(v)
<1>1. CR # LF /\ CR # NEL
  BY DEF CR, LF, NEL
<1> QED BY <1>1 DEF AfterCR

\* One round of normalizeLineEndings.
LEMMA NormaliseMore ==
  ASSUME NEW v, NEW s \in Seq(CodePoint), NEW i \in Seq(CodePoint), Len(i) = Len(s),
         NEW a \in Nat, NEW w \in Nat, w <= a, a < Len(i),
         \A k \in (a + 1)..Len(s) : i[k] = s[k],
         Normalised(s, v, i, a, w), NEW pair \in BOOLEAN,
         pair <=> i[a + 1] = CR /\ a + 1 < Len(i) /\ i[a + 2] \in AfterCR(v),
         NEW c, c = IF i[a + 1] \in LineEnd(v) THEN LF ELSE i[a + 1]
  PROVE  Normalised(s, v, [i EXCEPT ![w + 1] = c], a + (IF pair THEN 2 ELSE 1), w + 1)
<1> DEFINE j == [i EXCEPT ![w + 1] = c]
           f == Folded(s, v)
<1>1. Len(s) \in Nat /\ Len(i) \in Nat /\ a + 1 \in 1..Len(s) /\ a + 1 \in (a + 1)..Len(s) /\ DOMAIN s = 1..Len(s)
  OBVIOUS
<1>2. i[a + 1] = s[a + 1] /\ i[a + 1] \in CodePoint
  BY <1>1
<1>3. c \in CodePoint
  <2>1. LF \in CodePoint
    BY Runes DEF LF, CodePoint
  <2> QED BY <1>2, <2>1
<1>4. w < Len(i)
  OBVIOUS
<1>5. SubSeq(j, 1, w + 1) = SubSeq(i, 1, w) \o <<c>>
  BY <1>3, <1>4, Extended
<1>6. SubSeq(i, 1, w) = f[a] /\ a + 1 \notin Halved(s, v)
  BY Zenon DEF Normalised
<1> HIDE DEF j, f
<1>7. Kept(s, a + 1, v) = <<c>>
  BY <1>2, <1>6 DEF Kept
<1>8. f[a + 1] = SubSeq(j, 1, w + 1)
  <2>1. f[a + 1] = f[(a + 1) - 1] \o Kept(s, a + 1, v)
    BY <1>1, NormalEquation, Zenon DEF f
  <2>2. (a + 1) - 1 = a
    OBVIOUS
  <2> QED BY <1>5, <1>6, <1>7, <2>1, <2>2, Zenon
<1>9. CASE pair
  <2>1. a + 2 \in 1..Len(s) /\ a + 2 \in (a + 1)..Len(s) /\ a + 2 > 1 /\ (a + 2) - 1 = a + 1
    BY <1>1, <1>9
  <2>2. s[a + 1] = CR /\ s[a + 2] \in AfterCR(v)
    BY <1>2, <1>9, <2>1
  <2>3. a + 2 \in Halved(s, v)
    BY <1>1, <2>1, <2>2 DEF Halved
  <2>4. Kept(s, a + 2, v) = <<>>
    BY <2>3, Zenon DEF Kept
  <2>5. f[a + 2] = f[a + 1] \o <<>>
    <3>1. f[a + 2] = f[(a + 2) - 1] \o Kept(s, a + 2, v)
      BY <1>1, <2>1, NormalEquation DEF f
    <3> QED BY <2>1, <2>4, <3>1, Zenon
  <2>6. f[a + 1] \o <<>> = f[a + 1]
    <3>1. j \in Seq(CodePoint) /\ Len(j) = Len(i)
      BY <1>1, <1>3 DEF j
    <3>2. SubSeq(j, 1, w + 1) \in Seq(CodePoint)
      BY <1>1, <1>4, <3>1
    <3> QED BY <1>8, <3>2
  <2>7. s[a + 2] # CR
    BY <2>2, PairsApart
  <2>8. (a + 2) + 1 \notin Halved(s, v)
    <3>1. ((a + 2) + 1) - 1 = a + 2
      OBVIOUS
    <3> QED BY <2>7, <3>1 DEF Halved
  <2>9. Normalised(s, v, j, a + 2, w + 1)
    BY <1>8, <2>5, <2>6, <2>8, Zenon DEF Normalised, f
  <2> QED BY <1>9, <2>9 DEF j
<1>10. CASE ~pair
  <2>1. (a + 1) + 1 \notin Halved(s, v)
    <3> SUFFICES ASSUME (a + 1) + 1 \in Halved(s, v) PROVE FALSE
      OBVIOUS
    <3>1. (a + 1) + 1 = a + 2 /\ (a + 2) - 1 = a + 1
      OBVIOUS
    <3>2. a + 2 \in 1..Len(s) /\ s[a + 1] = CR /\ s[a + 2] \in AfterCR(v)
      BY <1>1, <3>1 DEF Halved
    <3>3. a + 1 < Len(i) /\ a + 2 \in (a + 1)..Len(s)
      BY <1>1, <3>2
    <3>4. i[a + 1] = CR /\ i[a + 2] \in AfterCR(v)
      BY <1>2, <3>2, <3>3
    <3> QED BY <1>10, <3>3, <3>4
  <2>2. Normalised(s, v, j, a + 1, w + 1)
    BY <1>8, <2>1, Zenon DEF Normalised, f
  <2> QED BY <1>10, <2>2 DEF j
<1> QED BY <1>9, <1>10
-----------------------------------------------------------------------------
\* The state.

\* The body is one the decoder that was picked can read.
Legal == SniffEncoding = "ISO-8859-1" \/ IsUtf8(Body)

\* What each phase knows of the body: the sniffed encoding and version are what
\* it was read by.
Reading == phase = "utf8" => SniffEncoding = "UTF-8" /\ at <= Len(Body) /\ Decoded(Body, at, runes)
Empty == phase = "read" => runes = <<>>
Meaning == phase \in {"normalise", "declaration", "accepted"} => runes = Meant(SniffEncoding) /\ Legal
Folding == phase = "normalise" => Normalised(runes, SniffVersion, input, at, written)
Whole == phase \in {"declaration", "accepted"} => input = Normal(Meant(SniffEncoding), SniffVersion)
Passed == phase = "accepted" /\ doc.role = "instance" => DeclarationGood /\ AllAllowed
Asked == phase = "declaration" => doc.role = "instance"
Refused ==
  phase = "rejected" =>
    \/ Unsupported
    \/ ~Legal
    \/ /\ doc.role = "instance"
       /\ ~DeclarationGood \/ (input = Normal(Meant(SniffEncoding), SniffVersion) /\ ~AllAllowed)
DecInv == IInv /\ Empty /\ Reading /\ Meaning /\ Folding /\ Whole /\ Passed /\ Asked /\ Refused

\* What the steps need of the document.
LEMMA BodyBytes == ASSUME IInv PROVE Body \in Seq(Byte) /\ Len(Body) \in Nat
<1>1. Body \in Seq(Byte)
  BY DEF IInv, TypeOK, Document, Body
<1> QED BY <1>1

LEMMA SniffsTwo == SniffEncoding \in {"UTF-8", "ISO-8859-1"}
BY DEF SniffEncoding

\* Each step keeps what is known of the body.
LEMMA InitRead == ASSUME Init PROVE DecInv
<1>1. IInv
  BY InitInv
<1> QED BY <1>1 DEF Init, DecInv, Empty, Reading, Meaning, Folding, Whole, Passed, Asked, Refused

LEMMA RejectInputReads == ASSUME DecInv, IInv', RejectInput PROVE DecInv'
BY DEF RejectInput, Unsupported, Body, DecInv, Empty, Reading, Meaning, Folding, Whole, Passed, Asked, Refused

LEMMA DecodeBytesReads == ASSUME DecInv, IInv', DecodeBytes PROVE DecInv'
<1>1. /\ runes' = Body /\ input' = Body /\ at' = 0 /\ written' = 0 /\ doc' = doc /\ phase' = "normalise"
      /\ SniffEncoding = "ISO-8859-1"
  BY DEF DecodeBytes, DecInv, IInv, Fresh, TypeOK
<1>2. Body' = Body /\ SniffEncoding' = SniffEncoding /\ SniffVersion' = SniffVersion
  BY <1>1 DEF Body, SniffEncoding, SniffVersion, VersionFirst
<1>3. Body \in Seq(CodePoint)
  BY BodyTyped DEF DecInv, IInv, TypeOK
<1>4. Normalised(Body, SniffVersion, Body, 0, 0)
  BY <1>3, NormaliseStart
<1>5. Folding'
  BY <1>1, <1>2, <1>4, Zenon DEF Folding
<1>6. Meaning'
  BY <1>1, <1>2, Zenon DEF Meaning, Meant, Legal
<1> QED BY <1>1, <1>5, <1>6 DEF DecInv, Empty, Reading, Whole, Passed, Asked, Refused

LEMMA BeginUtf8Reads == ASSUME DecInv, IInv', BeginUtf8 PROVE DecInv'
<1>1. runes' = <<>> /\ at' = 0 /\ doc' = doc /\ phase' = "utf8" /\ SniffEncoding = "UTF-8"
  BY DEF BeginUtf8, DecInv, Empty, IInv, Fresh, TypeOK
<1>2. Body' = Body /\ SniffEncoding' = SniffEncoding
  BY <1>1 DEF Body, SniffEncoding
<1>3. Decoded(Body, 0, <<>>) /\ 0 <= Len(Body)
  <2>1. Body \in Seq(Byte) /\ Len(Body) \in Nat
    BY BodyBytes DEF DecInv
  <2> QED BY <2>1, DecodeStart
<1>4. Reading'
  BY <1>1, <1>2, <1>3, Zenon DEF Reading
<1> QED BY <1>1, <1>4 DEF DecInv, Empty, Meaning, Folding, Whole, Passed, Asked, Refused

LEMMA DecodeRuneReads == ASSUME DecInv, IInv', DecodeRune PROVE DecInv'
<1>1. PICK c \in RuneAt(Body, at + 1) : runes' = Append(runes, c) /\ at' = at + Len(Utf8(c))
  BY DEF DecodeRune
<1>2. doc' = doc /\ phase' = "utf8" /\ phase = "utf8" /\ at < Len(Body)
  BY DEF DecodeRune
<1>3. Body' = Body /\ SniffEncoding' = SniffEncoding
  BY <1>2 DEF Body, SniffEncoding
<1>4. SniffEncoding = "UTF-8" /\ Decoded(Body, at, runes)
  BY <1>2 DEF DecInv, Reading
<1>5. Body \in Seq(Byte) /\ at \in Nat /\ runes \in Seq(CodePoint)
  BY BodyBytes DEF DecInv, IInv, TypeOK
<1>6. Decoded(Body, at + Len(Utf8(c)), Append(runes, c)) /\ at + Len(Utf8(c)) <= Len(Body)
  BY <1>2, <1>4, <1>5, DecodeMore
<1>7. Reading'
  BY <1>1, <1>2, <1>3, <1>4, <1>6, Zenon DEF Reading
<1> QED BY <1>2, <1>7 DEF DecInv, Empty, Meaning, Folding, Whole, Passed, Asked, Refused

LEMMA DecodeFailsReads == ASSUME DecInv, IInv', DecodeFails PROVE DecInv'
<1>1. /\ doc' = doc /\ phase' = "rejected" /\ phase = "utf8" /\ at < Len(Body)
      /\ RuneAt(Body, at + 1) = {}
  BY DEF DecodeFails
<1>2. Body' = Body /\ SniffEncoding' = SniffEncoding
  BY <1>1 DEF Body, SniffEncoding
<1>3. SniffEncoding = "UTF-8" /\ Decoded(Body, at, runes)
  BY <1>1 DEF DecInv, Reading
<1>4. Body \in Seq(Byte) /\ at \in Nat
  BY BodyBytes DEF DecInv, IInv, TypeOK
<1>5. ~IsUtf8(Body)
  BY <1>1, <1>3, <1>4, DecodeStops
<1>6. ~Legal
  BY <1>3, <1>5 DEF Legal
<1>7. ~Legal'
  BY <1>2, <1>6, Zenon DEF Legal
<1> QED BY <1>1, <1>7 DEF DecInv, Empty, Reading, Meaning, Folding, Whole, Passed, Asked, Refused

LEMMA EndUtf8Reads == ASSUME DecInv, IInv', EndUtf8 PROVE DecInv'
<1>1. /\ doc' = doc /\ phase' = "normalise" /\ phase = "utf8" /\ at = Len(Body)
      /\ input' = runes /\ runes' = runes /\ at' = 0 /\ written' = 0
  BY DEF EndUtf8
<1>2. Body' = Body /\ SniffEncoding' = SniffEncoding /\ SniffVersion' = SniffVersion
  BY <1>1 DEF Body, SniffEncoding, SniffVersion, VersionFirst
<1>3. SniffEncoding = "UTF-8" /\ Decoded(Body, Len(Body), runes)
  BY <1>1 DEF DecInv, Reading
<1>4. Body \in Seq(Byte) /\ runes \in Seq(CodePoint)
  BY BodyBytes DEF DecInv, IInv, TypeOK
<1>5. runes = FromUtf8(Body) /\ IsUtf8(Body)
  BY <1>3, <1>4, DecodeAll
<1>6. runes = Meant(SniffEncoding) /\ Legal
  <2>1. SniffEncoding # "ISO-8859-1"
    BY <1>3
  <2> QED BY <1>5, <2>1, Zenon DEF Meant, Legal
<1>7. Meant(SniffEncoding)' = Meant(SniffEncoding) /\ Legal' = Legal
  BY <1>2, Zenon DEF Meant, Legal
<1>8. Meaning'
  BY <1>1, <1>6, <1>7, Zenon DEF Meaning
<1>9. Normalised(runes, SniffVersion, runes, 0, 0)
  BY <1>4, NormaliseStart
<1>10. Folding'
  BY <1>1, <1>2, <1>9, Zenon DEF Folding
<1> QED BY <1>1, <1>8, <1>10 DEF DecInv, Empty, Reading, Whole, Passed, Asked, Refused

LEMMA NormaliseRuneReads == ASSUME DecInv, IInv', NormaliseRune PROVE DecInv'
<1> DEFINE c == IF input[at + 1] \in LineEnd(SniffVersion) THEN LF ELSE input[at + 1]
<1>1. /\ doc' = doc /\ runes' = runes /\ phase' = "normalise" /\ phase = "normalise" /\ at < Len(input)
      /\ input' = [input EXCEPT ![written + 1] = c]
      /\ at' = at + (IF Paired THEN 2 ELSE 1) /\ written' = written + 1
  BY DEF NormaliseRune
<1>2. Body' = Body /\ SniffEncoding' = SniffEncoding /\ SniffVersion' = SniffVersion
  BY <1>1 DEF Body, SniffEncoding, SniffVersion, VersionFirst
<1>3. runes = Meant(SniffEncoding) /\ Legal
  BY <1>1 DEF DecInv, Meaning
<1>4. Meant(SniffEncoding)' = Meant(SniffEncoding) /\ Legal' = Legal
  BY <1>2, Zenon DEF Meant, Legal
<1>5. Meaning'
  BY <1>1, <1>3, <1>4, Zenon DEF Meaning
<1>6. /\ runes \in Seq(CodePoint) /\ input \in Seq(CodePoint) /\ Len(input) = Len(runes)
      /\ at \in Nat /\ written \in Nat /\ written <= at
      /\ \A k \in (at + 1)..Len(runes) : input[k] = runes[k]
  BY <1>1 DEF DecInv, IInv, TypeOK, UnreadKept
<1>7. Normalised(runes, SniffVersion, input, at, written)
  BY <1>1 DEF DecInv, Folding
<1>8. Paired <=> input[at + 1] = CR /\ at + 1 < Len(input) /\ input[at + 2] \in AfterCR(SniffVersion)
  BY DEF Paired
<1>9. Paired \in BOOLEAN
  BY DEF Paired
<1>10. c = IF input[at + 1] \in LineEnd(SniffVersion) THEN LF ELSE input[at + 1]
  OBVIOUS
<1> HIDE DEF c
<1>11. Normalised(runes, SniffVersion, [input EXCEPT ![written + 1] = c],
                  at + (IF Paired THEN 2 ELSE 1), written + 1)
  BY <1>1, <1>6, <1>7, <1>8, <1>9, <1>10, NormaliseMore
<1>12. Folding'
  BY <1>1, <1>2, <1>11, Zenon DEF Folding
<1> QED BY <1>1, <1>5, <1>12 DEF DecInv, Empty, Reading, Whole, Passed, Asked, Refused

LEMMA EndNormaliseReads == ASSUME DecInv, IInv', EndNormalise PROVE DecInv'
<1>1. /\ doc' = doc /\ runes' = runes /\ phase = "normalise" /\ at = Len(input)
      /\ input' = SubSeq(input, 1, written)
      /\ phase' = IF doc.role = "schema" THEN "accepted" ELSE "declaration"
  BY DEF EndNormalise
<1>2. Body' = Body /\ SniffEncoding' = SniffEncoding /\ SniffVersion' = SniffVersion
  BY <1>1 DEF Body, SniffEncoding, SniffVersion, VersionFirst
<1>3. runes = Meant(SniffEncoding) /\ Legal
  BY <1>1 DEF DecInv, Meaning
<1>4. Meant(SniffEncoding)' = Meant(SniffEncoding) /\ Legal' = Legal
  BY <1>2, Zenon DEF Meant, Legal
<1>5. Meaning'
  BY <1>1, <1>3, <1>4, Zenon DEF Meaning
<1>6. runes \in Seq(CodePoint) /\ Len(runes) \in Nat /\ Len(input) = Len(runes)
  BY <1>1 DEF DecInv, IInv, TypeOK, UnreadKept
<1>7. SubSeq(input, 1, written) = Folded(runes, SniffVersion)[Len(runes)]
  BY <1>1, <1>6 DEF DecInv, Folding, Normalised
<1>8. input' = Normal(runes, SniffVersion)
  BY <1>1, <1>6, <1>7, NormalEquation
<1>9. Whole'
  BY <1>2, <1>3, <1>4, <1>8, Zenon DEF Whole
<1>10. doc.role # "schema" => doc.role = "instance"
  BY DEF DecInv, IInv, TypeOK, Document
<1>11. Asked'
  BY <1>1, <1>10 DEF Asked
<1>12. phase' \in {"accepted", "declaration"}
  BY <1>1
<1>13. Passed'
  BY <1>1 DEF Passed
<1> QED BY <1>5, <1>9, <1>11, <1>12, <1>13 DEF DecInv, Empty, Reading, Folding, Refused

LEMMA StrictParseReads == ASSUME DecInv, IInv', StrictParse PROVE DecInv'
<1>1. /\ doc' = doc /\ runes' = runes /\ phase = "declaration" /\ input' = input
      /\ phase' = IF DeclarationGood /\ AllAllowed THEN "accepted" ELSE "rejected"
  BY DEF StrictParse
<1>2. /\ Body' = Body /\ SniffEncoding' = SniffEncoding /\ SniffVersion' = SniffVersion
      /\ DeclarationGood' = DeclarationGood
  BY <1>1 DEF Body, SniffEncoding, SniffVersion, VersionFirst, DeclarationGood
<1>3. /\ runes = Meant(SniffEncoding) /\ Legal /\ doc.role = "instance"
      /\ input = Normal(Meant(SniffEncoding), SniffVersion)
  BY <1>1 DEF DecInv, Meaning, Whole, Asked
<1>4. Meant(SniffEncoding)' = Meant(SniffEncoding) /\ Legal' = Legal
  BY <1>2, Zenon DEF Meant, Legal
<1>5. AllAllowed' = AllAllowed
  BY <1>1 DEF AllAllowed, Allowed, DeclaredVersion
<1>6. Meaning' /\ Whole'
  BY <1>1, <1>2, <1>3, <1>4, Zenon DEF Meaning, Whole
<1>7. Refused'
  <2>1. phase' = "rejected" => ~DeclarationGood \/ ~AllAllowed
    BY <1>1
  <2> QED BY <1>1, <1>2, <1>3, <1>4, <1>5, <2>1, Zenon DEF Refused
<1>8. phase' \in {"accepted", "rejected"}
  BY <1>1
<1>9. Passed'
  <2>1. phase' = "accepted" => DeclarationGood /\ AllAllowed
    BY <1>1
  <2> QED BY <1>2, <1>5, <2>1, Zenon DEF Passed
<1> QED BY <1>6, <1>7, <1>8, <1>9 DEF DecInv, Empty, Reading, Folding, Asked

LEMMA IdleReads == ASSUME DecInv, IInv', UNCHANGED vars PROVE DecInv'
<1>1. /\ doc' = doc /\ runes' = runes /\ phase' = phase /\ input' = input
      /\ at' = at /\ written' = written
  BY DEF vars
<1>2. /\ Body' = Body /\ SniffEncoding' = SniffEncoding /\ SniffVersion' = SniffVersion
      /\ DeclarationGood' = DeclarationGood /\ Unsupported' = Unsupported /\ AllAllowed' = AllAllowed
  BY <1>1 DEF Body, SniffEncoding, SniffVersion, VersionFirst, DeclarationGood, Unsupported,
             AllAllowed, Allowed, DeclaredVersion
<1>3. Meant(SniffEncoding)' = Meant(SniffEncoding) /\ Legal' = Legal
  BY <1>2, Zenon DEF Meant, Legal
<1>4. Empty' /\ Asked'
  BY <1>1 DEF DecInv, Empty, Asked
<1>5. Reading' /\ Folding'
  BY <1>1, <1>2, Zenon DEF DecInv, Reading, Folding
<1>6. Meaning' /\ Whole'
  BY <1>1, <1>2, <1>3, Zenon DEF DecInv, Meaning, Whole
<1>7. Refused' /\ Passed'
  BY <1>1, <1>2, <1>3, Zenon DEF DecInv, Refused, Passed
<1> QED BY <1>4, <1>5, <1>6, <1>7 DEF DecInv

\* Every step does.
LEMMA StepReads == ASSUME DecInv, [Next]_vars PROVE DecInv'
<1>1. IInv'
  BY Step DEF DecInv
<1>2. CASE Done
  BY <1>1, <1>2, IdleReads DEF Done
<1> QED BY <1>1, <1>2, RejectInputReads, DecodeBytesReads, BeginUtf8Reads, DecodeRuneReads,
           DecodeFailsReads, EndUtf8Reads, NormaliseRuneReads, EndNormaliseReads, StrictParseReads,
           IdleReads DEF Next, Decode

\* Where the declaration is one the sniffing sees, it is read as it is written.
LEMMA SniffsRight ==
  ASSUME doc \in Document, Sniffable, WellDeclared
  PROVE  SniffEncoding = DeclaredEncoding /\ SniffVersion = DeclaredVersion
<1>1. /\ doc.target \in {"none", "xml", "xml-stylesheet"}
      /\ doc.encoding \in {"none", "UTF-8", "ISO-8859-1", "other"}
  BY DEF Document
<1> QED BY <1>1 DEF Sniffable, WellDeclared, SniffEncoding, DeclaredEncoding, SniffVersion, DeclaredVersion

\* The strict parser's tests and the rule for characters.
LEMMA CharactersRight ==
  /\ CharactersExamined /\ AllAllowed /\ input = Text => Permitted
  /\ ~AllAllowed /\ input = Text => ~Permitted
<1>1. \A r : CharactersExamined /\ Allowed(r) => LiteralAllowed(r, DeclaredVersion)
  BY DEF CharactersExamined, Allowed, LiteralAllowed
<1>2. \A r : LiteralAllowed(r, DeclaredVersion) => Allowed(r)
  BY DEF Allowed, LiteralAllowed
<1>3. CharactersExamined /\ AllAllowed /\ input = Text => Permitted
  BY <1>1, Zenon DEF AllAllowed, Permitted
<1>4. ~AllAllowed /\ input = Text => ~Permitted
  BY <1>2, Zenon DEF AllAllowed, Permitted
<1> QED BY <1>3, <1>4

\* What is known of the body is what the property says of a declaration.
LEMMA Reads == ASSUME DecInv PROVE ReadAsDeclared
<1> SUFFICES ASSUME Sniffable, DeclarationExamined PROVE ReadAsDeclared
  BY DEF ReadAsDeclared
<1>1. /\ doc \in Document
      /\ doc.target \in {"none", "xml", "xml-stylesheet"} /\ doc.role \in {"instance", "schema"}
  BY DEF DecInv, IInv, TypeOK, Document
<1>2. DeclarationGood => WellDeclared
  BY DEF DeclarationGood, WellDeclared, DeclaredEncoding
<1>3. ASSUME ~WellDeclared PROVE ReadAsDeclared
  <2>1. phase # "accepted"
    BY <1>1, <1>2, <1>3 DEF DecInv, Passed, DeclarationExamined
  <2> QED BY <1>3, <2>1 DEF ReadAsDeclared
<1>4. ASSUME WellDeclared PROVE ReadAsDeclared
  <2>1. SniffEncoding = DeclaredEncoding /\ SniffVersion = DeclaredVersion
    BY <1>1, <1>4, SniffsRight
  <2>2. Readable <=> Legal
    BY <2>1, Zenon DEF Readable, Legal
  <2>3. Text = Normal(Meant(SniffEncoding), SniffVersion)
    BY <2>1, Zenon DEF Text
  <2>4. ASSUME phase = "accepted"
        PROVE  Readable /\ input = Text /\ (CharactersExamined => Permitted)
    <3>1. Legal /\ input = Text /\ (doc.role = "instance" => AllAllowed)
      BY <2>3, <2>4 DEF DecInv, Meaning, Whole, Passed
    <3>2. CharactersExamined => doc.role = "instance"
      BY DEF CharactersExamined
    <3> QED BY <2>2, <3>1, <3>2, CharactersRight
  <2>5. ~DeclarationGood => doc.target = "xml-stylesheet"
    BY <1>1, <1>4 DEF DeclarationGood, WellDeclared, DeclaredEncoding
  <2>6. ASSUME phase = "rejected"
        PROVE  \/ Unsupported \/ ~Readable
               \/ doc.role = "instance" /\ (doc.target = "xml-stylesheet" \/ ~Permitted)
    <3>1. \/ Unsupported \/ ~Legal
          \/ doc.role = "instance" /\ (~DeclarationGood \/ (input = Text /\ ~AllAllowed))
      BY <2>3, <2>6, Zenon DEF DecInv, Refused
    <3> QED BY <2>2, <2>5, <3>1, CharactersRight, Zenon
  <2> QED BY <1>4, <2>4, <2>6, Zenon DEF ReadAsDeclared
<1> QED BY <1>3, <1>4

\* For documents of any length and content, with any declaration that ends in the
\* sniffed window: what is accepted declares an encoding and a version there are
\* and was read by them and by their line ends, a schema of another encoding
\* excepted, and nothing is refused but for a reason (reader.Decode,
\* parseXMLDecl).
THEOREM Declared == Spec => []ReadAsDeclared
<1>1. Init => DecInv
  BY InitRead
<1>2. DecInv /\ [Next]_vars => DecInv'
  BY StepReads
<1>3. DecInv => ReadAsDeclared
  BY Reads
<1> QED BY <1>1, <1>2, <1>3, PTL DEF Spec
=============================================================================
