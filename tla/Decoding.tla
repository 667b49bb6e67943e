------------------------------ MODULE Decoding ------------------------------
(***************************************************************************)
(* reader.Decode: from the bytes of a document to its characters, and the  *)
(* strict parser's reading of the declaration that follows (parseXMLDecl). *)
(* The decoder and the version that line ends go by are picked from the    *)
(* raw bytes, by looking for the declaration in the first 256 of them; the *)
(* line ends are then normalised in place.                                 *)
(*                                                                         *)
(* A document is what begins it and a body of bytes.  The beginning is     *)
(* ASCII, the same in both modes: what it says, and where.                 *)
(***************************************************************************)
EXTENDS Characters

CONSTANT Docs

Window == 256

\* "target": no "<?" at the start, the XML declaration, or a processing
\* instruction whose name begins with xml; "versionEnd", "encodingEnd": how many
\* bytes there are up to the quote that closes the value; "place": whether the
\* body stands in text and attribute values, or in CDATA sections, comments
\* and processing instructions.
Document == [role : {"instance", "schema"},
             target : {"none", "xml", "xml-stylesheet"},
             version : {"none", "1.0", "1.1", "other"}, versionEnd : Nat,
             encoding : {"none", "UTF-8", "ISO-8859-1", "other"}, encodingEnd : Nat,
             place : {"text", "verbatim"}, body : Seq(Byte)]

ASSUME DecodingAssumption == Docs \subseteq Document

VARIABLES
  doc,      \* the document, chosen once
  phase,    \* "read", "utf8", "normalise", "declaration", then "accepted" or "rejected"
  runes,    \* what was decoded
  input,    \* the slice that is normalised in place; Decode's result
  at,       \* the bytes decoded, then the characters normalised
  written   \* the characters written

vars == <<doc, phase, runes, input, at, written>>

Body == doc.body
VersionFirst == doc.encoding # "none" => doc.versionEnd < doc.encodingEnd

\* Mutant of SniffVersion: any version is 1.1.
SniffVersionLatest ==
  IF doc.target = "xml" /\ doc.version \notin {"none"} /\ VersionFirst /\ doc.versionEnd <= Window
  THEN "1.1" ELSE "1.0"

\* Only the declaration's first pseudo-attribute counts.
SniffVersion ==
  IF doc.target = "xml" /\ doc.version = "1.1" /\ VersionFirst /\ doc.versionEnd <= Window
  THEN "1.1" ELSE "1.0"

\* Whatever begins with "<?xml", and the first "encoding" in it.
SniffEncoding ==
  IF doc.target # "none" /\ doc.encoding = "ISO-8859-1" /\ doc.encodingEnd <= Window
  THEN "ISO-8859-1" ELSE "UTF-8"

\* rejectUnsupportedEncoding, and no input at all.
Marks == {<<239, 187, 191>>, <<254, 255>>, <<255, 254>>, <<0, 60>>, <<60, 0>>}
Unsupported ==
  doc.target = "none" /\ (Body = <<>> \/ \E m \in Marks : IsPrefix(m, Body))
-----------------------------------------------------------------------------
Init == /\ doc \in Docs
        /\ phase = "read"
        /\ runes = <<>> /\ input = <<>>
        /\ at = 0 /\ written = 0

RejectInput == /\ phase = "read" /\ Unsupported
               /\ phase' = "rejected"
               /\ UNCHANGED <<doc, runes, input, at, written>>

\* decodeByteMode: every byte is the character of its value.
DecodeBytes == /\ phase = "read" /\ ~Unsupported /\ SniffEncoding = "ISO-8859-1"
               /\ phase' = "normalise"
               /\ runes' = Body /\ input' = Body
               /\ UNCHANGED <<doc, at, written>>

BeginUtf8 == /\ phase = "read" /\ ~Unsupported /\ SniffEncoding = "UTF-8"
             /\ phase' = "utf8"
             /\ UNCHANGED <<doc, runes, input, at, written>>

\* One round of decodeUTF8.
DecodeRune == /\ phase = "utf8" /\ at < Len(Body)
              /\ \E c \in RuneAt(Body, at + 1) :
                   /\ runes' = Append(runes, c)
                   /\ at' = at + Len(Utf8(c))
              /\ UNCHANGED <<doc, phase, input, written>>

DecodeFails == /\ phase = "utf8" /\ at < Len(Body) /\ RuneAt(Body, at + 1) = {}
               /\ phase' = "rejected"
               /\ UNCHANGED <<doc, runes, input, at, written>>

\* Mutant of EndUtf8: writing starts one character late.
EndUtf8Late == /\ phase = "utf8" /\ at = Len(Body)
               /\ phase' = "normalise"
               /\ input' = runes
               /\ at' = 0 /\ written' = 1
               /\ UNCHANGED <<doc, runes>>

EndUtf8 == /\ phase = "utf8" /\ at = Len(Body)
           /\ phase' = "normalise"
           /\ input' = runes
           /\ at' = 0 /\ written' = 0
           /\ UNCHANGED <<doc, runes>>

\* A CR at the place read takes the next character with it.
Paired == /\ input[at + 1] = CR
          /\ at + 1 < Len(input)
          /\ input[at + 2] \in AfterCR(SniffVersion)

\* One round of normalizeLineEndings.
NormaliseRune ==
  /\ phase = "normalise" /\ at < Len(input)
  /\ input' = [input EXCEPT ![written + 1] =
                 IF input[at + 1] \in LineEnd(SniffVersion) THEN LF ELSE input[at + 1]]
  /\ at' = at + (IF Paired THEN 2 ELSE 1)
  /\ written' = written + 1
  /\ UNCHANGED <<doc, phase, runes>>

\* The slice is cut; a schema goes to the tree parser, which skips whatever is
\* between "<?" and "?>" and accepts any character.
EndNormalise ==
  /\ phase = "normalise" /\ at = Len(input)
  /\ input' = SubSeq(input, 1, written)
  /\ phase' = IF doc.role = "schema" THEN "accepted" ELSE "declaration"
  /\ UNCHANGED <<doc, runes, at, written>>

\* parseXMLDecl, and the version it leaves for the rules of characters.
DeclarationGood == \/ doc.target = "none"
                   \/ /\ doc.target = "xml" /\ doc.version \in {"1.0", "1.1"}
                      /\ doc.encoding # "other" /\ VersionFirst
DeclaredVersion == IF doc.target = "xml" /\ doc.version = "1.1" THEN "1.1" ELSE "1.0"
Allowed(r) == IF doc.place = "text" THEN LiteralAllowed(r, DeclaredVersion)
              ELSE VerbatimAllowed(r, DeclaredVersion)
AllAllowed == \A k \in DOMAIN input : Allowed(input[k])

StrictParse ==
  /\ phase = "declaration"
  /\ phase' = IF DeclarationGood /\ AllAllowed THEN "accepted" ELSE "rejected"
  /\ UNCHANGED <<doc, runes, input, at, written>>

Done == phase \in {"accepted", "rejected"} /\ UNCHANGED vars

Decode == \/ RejectInput \/ DecodeBytes \/ BeginUtf8 \/ DecodeRune \/ DecodeFails \/ EndUtf8
          \/ NormaliseRune \/ EndNormalise
Next == Decode \/ StrictParse \/ Done
Spec == Init /\ [][Next]_vars
-----------------------------------------------------------------------------
\* Every variable stays in its domain.
TypeOK ==
  /\ doc \in Document
  /\ phase \in {"read", "utf8", "normalise", "declaration", "accepted", "rejected"}
  /\ runes \in Seq(CodePoint) /\ input \in Seq(CodePoint)
  /\ at \in Nat /\ written \in Nat

\* Normalising in place never writes over a character it has still to read,
\* though it writes to the slice it reads from.
UnreadKept ==
  phase = "normalise" =>
    /\ written <= at /\ at <= Len(runes) /\ Len(input) = Len(runes)
    /\ \A k \in (at + 1)..Len(runes) : input[k] = runes[k]

\* What bytes mean in an encoding, without the decoders' loops: a character from
\* each byte that is not a trail byte to the next such byte.
Firsts(b) == {k \in DOMAIN b : ~IsTrail(b[k])}
EndOf(b, k) == CHOOSE e \in k..Len(b) : /\ \A j \in (k + 1)..e : j \notin Firsts(b)
                                        /\ e < Len(b) => e + 1 \in Firsts(b)
Slice(b, k) == SubSeq(b, k, EndOf(b, k))
Sound(b, k) == /\ Len(Slice(b, k)) <= 4 /\ IsScalar(Weighed(Slice(b, k)))
               /\ Utf8(Weighed(Slice(b, k))) = Slice(b, k)
IsUtf8(b) == /\ b # <<>> => 1 \in Firsts(b)
             /\ \A k \in Firsts(b) : Sound(b, k)
Read(b, k) == IF k \in Firsts(b) THEN <<Weighed(Slice(b, k))>> ELSE <<>>
FromUtf8(b) ==
  LET upto[k \in 0..Len(b)] == IF k = 0 THEN <<>> ELSE upto[k - 1] \o Read(b, k)
  IN  upto[Len(b)]
Meant(encoding) == IF encoding = "ISO-8859-1" THEN Body ELSE FromUtf8(Body)

\* What the declaration says (docs/encodings.md).  Only the target xml makes
\* one; "other" names neither mode, which is an error.
DeclaredEncoding ==
  IF doc.target = "xml" /\ doc.encoding # "none" THEN doc.encoding ELSE "UTF-8"
WellDeclared ==
  /\ DeclaredEncoding # "other"
  /\ doc.target = "xml" => doc.version \in {"1.0", "1.1"} /\ VersionFirst
Text == Normal(Meant(DeclaredEncoding), DeclaredVersion)
Readable == DeclaredEncoding = "ISO-8859-1" \/ IsUtf8(Body)
\* A restricted character is never literal, wherever it stands.
Permitted == \A k \in DOMAIN Text : LiteralAllowed(Text[k], DeclaredVersion)

\* The declaration is where the sniffing looks, and in the order it expects.
Sniffable == /\ doc.target = "xml" => /\ doc.versionEnd <= Window /\ doc.encodingEnd <= Window
                                      /\ VersionFirst
             /\ doc.target = "xml-stylesheet" => doc.encoding # "ISO-8859-1"

\* Only the strict parser examines the declaration and the characters, the
\* restricted ones in text alone; schemas go to the tree parser.
DeclarationExamined == doc.role = "schema" => WellDeclared
CharactersExamined == doc.role = "instance" /\ (doc.place = "text" \/ DeclaredVersion = "1.0")

\* A document that is accepted declares an encoding and a version there are,
\* was read by them, the line ends and the version the parser goes on with
\* among them, and holds no character its version forbids; and it is refused
\* only for a mark of another encoding, a declaration that is none, bytes that
\* are no characters, a first instruction whose name begins with xml, or such a
\* character.
ReadAsDeclared ==
  Sniffable /\ DeclarationExamined =>
    /\ phase = "accepted" =>
         /\ WellDeclared /\ Readable /\ input = Text
         /\ CharactersExamined => Permitted
    /\ phase = "rejected" =>
         \/ Unsupported \/ ~WellDeclared \/ ~Readable
         \/ doc.role = "instance" /\ (doc.target = "xml-stylesheet" \/ ~Permitted)
=============================================================================
