------------------------------- MODULE Location -----------------------------
(***************************************************************************)
(* Where a finding is (finding.rs, source.rs).  A file on disk, its        *)
(* artifact, is a sequence of pieces: an ASCII character, a character of   *)
(* two bytes in UTF-8 ("high"), one outside the BMP ("astral": four bytes, *)
(* two UTF-16 units), or a byte that is no UTF-8 ("stray").  What is read  *)
(* is its text, a sequence of characters; parser and rules speak of byte   *)
(* offsets into the text.                                                  *)
(***************************************************************************)
EXTENDS Naturals, Sequences, SequencesExt, Lists

Newline == "\n"
Blanks  == {" ", Newline}

Width(piece) == CASE piece = "high" -> 2 [] piece = "astral" -> 4 [] OTHER -> 1

\* An artifact that is not UTF-8 is read as Latin-1: a character per byte,
\* those above 0x7F being two bytes wide in the text.
Transcoded(artifact) == "stray" \in Range(artifact)

Latin1(piece) == IF piece \in {"high", "astral", "stray"}
                 THEN [k \in 1..Width(piece) |-> "high"] ELSE <<piece>>

AsLatin1(artifact) == FlattenSeq([k \in DOMAIN artifact |-> Latin1(artifact[k])])

Decode(artifact) == IF Transcoded(artifact) THEN AsLatin1(artifact) ELSE artifact

\* A UTF-16 unit for each character, and one more if it is outside the BMP.
Utf16(text)      == Len(text) + Cardinality({k \in DOMAIN text : text[k] = "astral"})
Prefix(text, k)  == SubSeq(text, 1, k)

\* The bytes before boundary k.
Offset(text, k) ==
  LET bytes[i \in 0..k] == IF i = 0 THEN 0 ELSE bytes[i-1] + Width(text[i]) IN bytes[k]

\* The boundary at byte b, and the characters from byte a up to b.
Boundary(text, b)   == CHOOSE k \in 0..Len(text) :
                         Offset(text, k) <= b /\ (k < Len(text) => Offset(text, k + 1) > b)
Slice(text, a, b)   == SubSeq(text, Boundary(text, a) + 1, Boundary(text, b))

\* tree-sitter's Point of a boundary: rows and bytes, both from 0.
Row(text, k)        == Cardinality({i \in 1..k : text[i] = Newline})
LineStart(text, k)  == CHOOSE s \in 0..k : /\ s = 0 \/ text[s] = Newline
                                           /\ \A i \in (s + 1)..k : text[i] # Newline
ColBytes(text, k)   == Offset(text, k) - Offset(text, LineStart(text, k))

Utf16Column(text, byte, col) == Utf16(Slice(text, byte - col, byte)) + 1

\* Location::from_node: a node holds the characters from + 1 to `to`.
FromNode(file, node, text) ==
  LET column(k) == Utf16Column(text, Offset(text, k), ColBytes(text, k)) IN
  [file       |-> file,
   byte_start |-> Offset(text, node.from), byte_end |-> Offset(text, node.to),
   line_start |-> Row(text, node.from) + 1, col_start |-> column(node.from),
   line_end   |-> Row(text, node.to) + 1,   col_end   |-> column(node.to)]

\* split_whitespace and join: the characters that are not blank, each with
\* whether it begins a word other than the first.
Folded(text) ==
  LET ink == {k \in DOMAIN text : text[k] \notin Blanks}
      begins(k) == k - 1 \notin ink /\ \E i \in ink : i < k
  IN At([k \in DOMAIN text |-> <<text[k], begins(k)>>], ink)
=============================================================================
