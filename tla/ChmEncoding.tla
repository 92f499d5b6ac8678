----------------------------- MODULE ChmEncoding -----------------------------
(***************************************************************************)
(* rclCHM.fixencoding of src/src/filters/rclchm.py: the charset a CHM page *)
(* (the Topics catalog, the home page, a walked page) is decoded with.     *)
(* An "ascii" or "us-ascii" declaration in a                                *)
(* <meta http-equiv="content-type" ... charset=X"> tag is first rewritten  *)
(* to windows-1252 (asciito1252re, one substitution), then the first such  *)
(* declaration left names the charset (findcharsetre), cp1252 when there   *)
(* is none, and the bytes are decoded with errors="replace".               *)
(*                                                                         *)
(* The bytes are abstracted to the declarations the two regexes can see, *)
(* one per line (neither regex has DOTALL), in document order:            *)
(*   [equiv, token, close]: equiv, the line has <meta http-equiv=          *)
(*   "content-type" before its charset=; close, the token is followed by   *)
(*   ' *" *>' (not "/>"); token, [name, word]: the name in lower case      *)
(*   (both regexes are IGNORECASE) and whether it is all [a-z0-9-].        *)
(***************************************************************************)
EXTENDS Integers, Sequences, SequencesExt

CONSTANTS
  CodecNames  \* the (lower-case) names codecs.lookup accepts

DeclLine == [equiv : BOOLEAN, token : [name : STRING, word : BOOLEAN], close : BOOLEAN]
Page == Seq(DeclLine)

\* The replacement text of the ascii rewrite.
Windows1252 == [name |-> "windows-1252", word |-> TRUE]

\* Mutant: the regex's optional "us-" prefix is lost.
AsciiDeclNoUs(t) == t.name = "ascii"

\* asciito1252re's charset group ((us-)?ascii), which the closing ' *" *>'
\* makes the whole token.
AsciiDecl(t) == t.name \in {"ascii", "us-ascii"}

\* The shape both regexes need around the charset token.
Declares(d) == d.equiv /\ d.close /\ d.token.word

\* Mutant: the declared charset is looked up before the ascii rewrite.
FixEncodingSearchFirst(page) ==
  LET found == {i \in DOMAIN page : Declares(page[i])}
      charset == IF found = {} THEN "cp1252" ELSE page[Min(found)].token.name
  IN  [charset |-> charset, raises |-> charset \notin CodecNames]

(***************************************************************************)
(* fixencoding(text) on bytes: the rewrite of the first ascii declaration, *)
(* the search, and the decode, which raises LookupError when the declared  *)
(* name is no codec (errors="replace" covers bad bytes only).  Callers     *)
(* only pass bytes: getfile's "" and an empty Topics are tested first.     *)
(***************************************************************************)
FixEncoding(page) ==
  LET asciiAt == {i \in DOMAIN page : Declares(page[i]) /\ AsciiDecl(page[i].token)}
      text == IF asciiAt = {} THEN page
              ELSE [page EXCEPT ![Min(asciiAt)].token = Windows1252]
      found == {i \in DOMAIN text : Declares(text[i])}
      charset == IF found = {} THEN "cp1252" ELSE text[Min(found)].token.name
  IN  [charset |-> charset, raises |-> charset \notin CodecNames]

=============================================================================
