------------------------------ MODULE MCOpenXml ------------------------------
(***************************************************************************)
(* Finite instances of OpenXml: presentations of up to three slides, out   *)
(* of namelist order, numbered 1, 01, 2 and 10 (10 sorts before 2 as      *)
(* text), a slide whose read or stylesheet fails, a name with text after   *)
(* ".xml", a notes slide and two visio pages, with the head parts         *)
(* present, missing or failing, and a file that is not a zip.              *)
(***************************************************************************)
EXTENDS OpenXml

MCValue == ("" :> 0) @@ ("1" :> 1) @@ ("01" :> 1) @@ ("2" :> 2) @@ ("10" :> 10)

M(part, digits, more, fails) == [part |-> part, digits |-> digits, more |-> more, fails |-> fails]

Heads == { <<>>, <<M("core", "", FALSE, "none")>>,
           <<M("core", "", FALSE, "sheet"), M("word", "", FALSE, "none")>>,
           <<M("word", "", FALSE, "read"), M("xl", "", FALSE, "none")>> }

SlideMembers == { M("slide", d, FALSE, f) : d \in {"1", "2", "10"}, f \in Fails }

\* Every order of up to two slides, three slides out of order, 01 and 1
\* (equal keys), and a name with text after ".xml".
Slides == BoundedSeq(SlideMembers, 2)
           \cup { <<M("slide", "10", FALSE, "none"), M("slide", "2", FALSE, "none"), M("slide", "1", FALSE, "none")>>,
                  <<M("slide", "2", FALSE, "none"), M("slide", "10", FALSE, "sheet"), M("slide", "1", FALSE, "none")>>,
                  <<M("slide", "01", FALSE, "none"), M("slide", "1", FALSE, "none")>>,
                  <<M("slide", "1", FALSE, "none"), M("slide", "2", TRUE, "none")>> }
Notes == { <<>>, <<M("notes", "1", FALSE, "none")>>, <<M("notes", "1", FALSE, "read")>> }
Pages == { <<>>, <<M("page", "2", FALSE, "none"), M("page", "1", FALSE, "none")>>,
           <<M("page", "1", FALSE, "sheet"), M("page", "2", FALSE, "none")>> }

\* Each call may convert any file, so the files are kept to a few hundred:
\* every slide list with every notes list, and the head and visio parts
\* against a good, a failing and an unsorted slide list.
FewSlides == { <<>>, <<M("slide", "1", FALSE, "read"), M("slide", "2", FALSE, "none")>>,
               <<M("slide", "2", FALSE, "none"), M("slide", "1", FALSE, "none")>> }
ZipOf(ms) == [zip |-> TRUE, members |-> ms]
MCFiles ==
  { ZipOf(s \o n) : s \in Slides, n \in Notes }
  \cup { ZipOf(h \o s \o p) : h \in Heads, s \in FewSlides, p \in Pages }
  \cup { [zip |-> FALSE, members |-> <<>>] }
=============================================================================
