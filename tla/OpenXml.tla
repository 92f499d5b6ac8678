------------------------------- MODULE OpenXml -------------------------------
(***************************************************************************)
(* OXExtractor of src/src/filters/rclopxml.py: the .pptx/.vsdx (and       *)
(* .docx/.xlsx) converter.  html_text opens the file as a zip and builds   *)
(* one HTML document from its parts, each in a try block of its own:      *)
(* docProps/core.xml (the head), word/document.xml, xl/sharedStrings.xml, *)
(* then, in one try, the ppt/slides/slideN.xml and the                     *)
(* ppt/notesSlides/notesSlideN.xml members, then, in another, the         *)
(* visio/pages/pageN.xml members, each group sorted on the number N.      *)
(*                                                                         *)
(* A zip is its namelist: a sequence of members.  A member is the part     *)
(* its name places it in, the digits its name has where the regex          *)
(* prefix[0-9]+.xml expects them, whether anything follows the ".xml"      *)
(* (re.match does not anchor the end) and which step fails on it, if     *)
(* any: zip.read or the stylesheet (rclxslt.apply_sheet_data, external). *)
(* The document is the sequence of pieces appended to docdata: the text  *)
(* of a member, or (preview only) the <h2> header naming a slide.         *)
(***************************************************************************)
EXTENDS Integers, Sequences, SequencesExt

CONSTANTS
  Files,   \* the files html_text is called on: [zip, members]
  Value    \* int() of each digit string the names carry

\* The name prefixes of the zip members the code reads.
Parts == {"core", "word", "xl", "slide", "notes", "page", "other"}

Fails == {"none", "read", "sheet"}
Member == [part : Parts, digits : DOMAIN Value, more : BOOLEAN, fails : Fails]
Piece == [part : Parts, m : Nat, hdr : BOOLEAN]

VARIABLES
  forpreview,  \* self.forpreview = "yes", read from the environment in __init__
  file,        \* the file of the last html_text call
  result       \* its outcome: [raised, out]

vars == <<forpreview, file, result>>

-----------------------------------------------------------------------------
\* Mutant: the slide pattern also matches the notes slides' names.
MatchingLoose(z, p) ==
  SelectSeq([i \in DOMAIN z |-> i],
            LAMBDA i : z[i].part = p \/ (p = "slide" /\ z[i].part = "notes"))

\* The namelist positions of the members whose name matches prefix[0-9]+.xml.
Matching(z, p) == SelectSeq([i \in DOMAIN z |-> i], LAMBDA i : z[i].part = p)

\* The sort key int(e[len(prefix) : len(e) - 4]): the digits when the
\* name ends in ".xml"; with more after it the slice is not a number.
KeyRaises(m) == m.more
SlideKey(m) == Value[m.digits]

\* Mutant: the names are taken in namelist order (the sort is lost).
SortedNamesUnsorted(z, p) == Matching(z, p)

\* sorted(names, key=...): stable, so equal keys keep namelist order.
SortedNames(z, p) ==
  SortSeq(Matching(z, p),
          LAMBDA a, b : \/ SlideKey(z[a]) < SlideKey(z[b])
                        \/ SlideKey(z[a]) = SlideKey(z[b]) /\ a < b)

(* The loop body over the sorted names: zip.read, then in preview mode   *)
(* the <h2> header, then apply_sheet_data; the first member that fails    *)
(* raises out of the loop, keeping what was appended.                     *)
RECURSIVE EmitAll(_, _, _, _)
EmitAll(z, names, preview, p) ==
  IF names = <<>> THEN [out |-> <<>>, raised |-> FALSE]
  ELSE LET i == Head(names)
           hdr == IF preview THEN <<[part |-> p, m |-> i, hdr |-> TRUE]>> ELSE <<>>
           rest == EmitAll(z, Tail(names), preview, p)
       IN  CASE z[i].fails = "read"  -> [out |-> <<>>, raised |-> TRUE]
             [] z[i].fails = "sheet" -> [out |-> hdr, raised |-> TRUE]
             [] OTHER -> [out |-> hdr \o <<[part |-> p, m |-> i, hdr |-> FALSE]>> \o rest.out,
                          raised |-> rest.raised]

\* One prefix: the keys are all computed before the first name is read.
PrefixPass(z, p, preview) ==
  IF \E k \in DOMAIN Matching(z, p) : KeyRaises(z[Matching(z, p)[k]])
  THEN [out |-> <<>>, raised |-> TRUE]
  ELSE EmitAll(z, SortedNames(z, p), preview, p)

\* The ppt try block: slides, then notes, unless the slides raised.
PptBlock(z, preview) ==
  LET s == PrefixPass(z, "slide", preview)
  IN  IF s.raised THEN s.out ELSE s.out \o PrefixPass(z, "notes", preview).out

\* The visio try block: no preview headers.
VisioBlock(z) == PrefixPass(z, "page", FALSE).out

\* A try block reading one fixed name: nothing when it is missing, when
\* the read or the stylesheet raises, or (core.xml) when it is empty.
FixedPart(z, p) ==
  IF \E i \in DOMAIN z : z[i].part = p /\ z[i].fails = "none"
  THEN <<[part |-> p, m |-> CHOOSE i \in DOMAIN z : z[i].part = p, hdr |-> FALSE]>>
  ELSE <<>>

\* Mutant: the ppt and visio loops share one try block.
HtmlTextOneTry(f, preview) ==
  LET z == f.members
      s == PrefixPass(z, "slide", preview)
      n == PrefixPass(z, "notes", preview)
      ppt == IF s.raised THEN s.out ELSE s.out \o n.out
      visio == IF s.raised \/ n.raised THEN <<>> ELSE VisioBlock(z)
  IN  IF ~f.zip THEN [raised |-> TRUE, out |-> <<>>]
      ELSE [raised |-> FALSE,
            out |-> FixedPart(z, "core") \o FixedPart(z, "word") \o FixedPart(z, "xl")
                    \o ppt \o visio]

\* html_text(fn): ZipFile(f) raises outside any try for a file that is
\* not a zip; otherwise every block appends what it got before raising.
HtmlText(f, preview) ==
  IF ~f.zip THEN [raised |-> TRUE, out |-> <<>>]
  ELSE [raised |-> FALSE,
        out |-> FixedPart(f.members, "core") \o FixedPart(f.members, "word")
                \o FixedPart(f.members, "xl") \o PptBlock(f.members, preview)
                \o VisioBlock(f.members)]

-----------------------------------------------------------------------------
\* Before the first call: the empty document, as of a zip with no members.
NoFile == [zip |-> TRUE, members |-> <<>>]

Init ==
  /\ forpreview \in BOOLEAN
  /\ file = NoFile
  /\ result = [raised |-> FALSE, out |-> <<>>]

\* RclBaseHandler hands each document's path to html_text.
Convert(f) ==
  /\ file' = f
  /\ result' = HtmlText(f, forpreview)
  /\ UNCHANGED forpreview

Next == \E f \in Files : Convert(f)

Spec == Init /\ [][Next]_vars

-----------------------------------------------------------------------------
(* Properties.                                                             *)

TypeOK ==
  /\ forpreview \in BOOLEAN
  /\ file \in Files \cup {NoFile}
  /\ result \in [raised : BOOLEAN, out : Seq(Piece)]
  /\ \A x \in Range(result.out) : x.m \in DOMAIN file.members /\ file.members[x.m].part = x.part

\* Where a piece goes in the document: the try blocks in code order, a
\* group's members by their number, a header before its slide's text.
SectionRank == [core |-> 0, word |-> 1, xl |-> 2, slide |-> 3, notes |-> 4,
                page |-> 5, other |-> 6]
Rank(z, x) == <<SectionRank[x.part], Value[z[x.m].digits], x.m, IF x.hdr THEN 0 ELSE 1>>
LexLess(a, b) == \E k \in 1..4 : a[k] < b[k] /\ \A j \in 1..(k - 1) : a[j] = b[j]

\* The document reads as the presentation does: head metadata, the word
\* and sheet text, the slides in slide-number order (slide10 after
\* slide9), the notes in the same order, the visio pages in page order,
\* and no member twice.  At issue: the numeric sort key of the two loops,
\* the order of the prefixes and of the try blocks.
InDocumentOrder ==
  \A a, b \in DOMAIN result.out :
    a < b => LexLess(Rank(file.members, result.out[a]), Rank(file.members, result.out[b]))

\* The members of a try block alone.
Blocks == {{"core"}, {"word"}, {"xl"}, {"slide", "notes"}, {"page"}}
Only(f, blk) == [f EXCEPT !.members =
                   [i \in DOMAIN @ |-> IF @[i].part \in blk THEN @[i]
                                       ELSE [@[i] EXCEPT !.part = "other"]]]
PiecesOf(out, blk) == SelectSeq(out, LAMBDA x : x.part \in blk)

\* A failing part costs only the text of its own try block: each block
\* contributes to the document exactly what it would in a file holding
\* that block's members alone, whatever the other parts hold.  At issue:
\* where the try blocks begin and end in html_text.
BlocksIndependent ==
  \A blk \in Blocks :
    PiecesOf(result.out, blk) = PiecesOf(HtmlText(Only(file, blk), forpreview).out, blk)
=============================================================================
