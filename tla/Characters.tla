----------------------------- MODULE Characters -----------------------------
(***************************************************************************)
(* Bytes, characters and line ends, as reader/ has them.  A character is   *)
(* its code point.  The functions of the Go library, utf8.DecodeRune and   *)
(* the UTF-8 that writing a string produces, are marked external.          *)
(***************************************************************************)
EXTENDS Integers, Sequences, SequencesExt

TAB == 9
LF == 10
CR == 13
NEL == 133    \* U+0085
LS == 8232    \* U+2028 LINE SEPARATOR

Byte == 0..255
\* The characters a Go string can hold: no surrogates.
LastRune == 1114111
CodePoint == 0..LastRune
IsScalar(r) == r \in CodePoint /\ (r < 55296 \/ r > 57343)

IsChar(r) == IsScalar(r) /\ r \notin {0, 65534, 65535}
IsChar10(r) == r \in {TAB, LF, CR} \/ (r >= 32 /\ IsChar(r))
IsRestrictedChar(r) == (r \in 1..31 \/ r \in 127..159) /\ r \notin {TAB, LF, CR, NEL}

\* What the strict parser accepts of a document's version: a character in a
\* CDATA section, comment or processing instruction, one in text and attribute
\* values, and the value of a character reference.
VerbatimAllowed(r, version) == IF version = "1.1" THEN IsChar(r) ELSE IsChar10(r)
LiteralAllowed(r, version) ==
  VerbatimAllowed(r, version) /\ ~(version = "1.1" /\ IsRestrictedChar(r))
ReferenceAllowed(r, version) == r = 0 \/ VerbatimAllowed(r, version)
-----------------------------------------------------------------------------
\* UTF-8.
Trail(c, weight) == 128 + ((c \div weight) % 64)
Utf8(c) ==
  CASE c < 128 -> <<c>>
    [] 128 <= c /\ c < 2048 -> <<192 + c \div 64, Trail(c, 1)>>
    [] 2048 <= c /\ c < 65536 -> <<224 + c \div 4096, Trail(c, 64), Trail(c, 1)>>
    [] OTHER -> <<240 + c \div 262144, Trail(c, 4096), Trail(c, 64), Trail(c, 1)>>

IsTrail(b) == b \in 128..191
\* The length a first byte announces, none for a byte that cannot be first.
Announced(b) == CASE b < 128 -> {1} [] b \in 192..223 -> {2} [] b \in 224..239 -> {3}
                  [] b \in 240..247 -> {4} [] OTHER -> {}
Weighed(s) ==
  CASE Len(s) = 1 -> s[1]
    [] Len(s) = 2 -> (s[1] - 192) * 64 + (s[2] % 64)
    [] Len(s) = 3 -> (s[1] - 224) * 4096 + (s[2] % 64) * 64 + (s[3] % 64)
    [] OTHER -> (s[1] - 240) * 262144 + (s[2] % 64) * 4096 + (s[3] % 64) * 64 + (s[4] % 64)

\* Mutant of RuneAt: whatever the bytes add up to.
RuneAtUnchecked(s, p) ==
  {Weighed(SubSeq(s, p, p + n - 1)) : n \in {m \in Announced(s[p]) : p + m - 1 <= Len(s)}}

\* The character whose bytes start at p of s, none if they are no character:
\* cut short, a stray byte, an overlong form or a surrogate.
RuneAt(s, p) ==
  {c \in {Weighed(SubSeq(s, p, p + n - 1)) : n \in {m \in Announced(s[p]) : p + m - 1 <= Len(s)}} :
     IsScalar(c) /\ Utf8(c) = SubSeq(s, p, p + Len(Utf8(c)) - 1)}
-----------------------------------------------------------------------------
\* Line ends: what becomes LF, and what a CR takes with it.
LineEnd(version) == IF version = "1.1" THEN {CR, NEL, LS} ELSE {CR}

AfterCR(version) == IF version = "1.1" THEN {LF, NEL} ELSE {LF}

\* The reference for normalizeLineEndings: without the second half of a pair,
\* every line end an LF.
Halved(s, version) == {k \in DOMAIN s : k > 1 /\ s[k - 1] = CR /\ s[k] \in AfterCR(version)}
Kept(s, k, version) ==
  IF k \in Halved(s, version) THEN <<>>
  ELSE IF s[k] \in LineEnd(version) THEN <<LF>> ELSE <<s[k]>>
Normal(s, version) ==
  LET upto[k \in 0..Len(s)] == IF k = 0 THEN <<>> ELSE upto[k - 1] \o Kept(s, k, version)
  IN  upto[Len(s)]
=============================================================================
