--------------------------- MODULE MCArchiveSession ---------------------------
(***************************************************************************)
(* Finite instances of ArchiveSession: archives of at most two members     *)
(* named n1 and n2, each a readable file, a file over the ceiling (whose   *)
(* bytes would not read), a file whose read fails, or a directory; an      *)
(* empty archive and one that does not open.                               *)
(***************************************************************************)
EXTENDS ArchiveSession

CONSTANTS n1, n2

M(n, type, big, readable) == [name |-> n, type |-> type, big |-> big, readable |-> readable]

Shapes(n) ==
  { M(n, "file", FALSE, TRUE), M(n, "file", TRUE, FALSE),
    M(n, "file", FALSE, FALSE), M(n, "dir", FALSE, TRUE) }

MCArchives ==
  { [opens |-> FALSE, members |-> <<>>], [opens |-> TRUE, members |-> <<>>] }
  \cup { [opens |-> TRUE, members |-> <<a>>] : a \in Shapes(n1) }
  \cup { [opens |-> TRUE, members |-> <<a, b>>] : a \in Shapes(n1), b \in Shapes(n2) }
=============================================================================
