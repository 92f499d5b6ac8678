---------------------------- MODULE MCWarSession ----------------------------
(***************************************************************************)
(* Finite instances of WarSession: archives of at most two members named   *)
(* n1 and n2, each a readable file, a file whose read fails, or a          *)
(* directory; an empty archive and one that does not open.                 *)
(***************************************************************************)
EXTENDS WarSession

CONSTANTS n1, n2

M(n, type, readable) == [name |-> n, type |-> type, readable |-> readable]

Shapes(n) == { M(n, "file", TRUE), M(n, "file", FALSE), M(n, "dir", TRUE) }

MCArchives ==
  { [opens |-> FALSE, members |-> <<>>], [opens |-> TRUE, members |-> <<>>] }
  \cup { [opens |-> TRUE, members |-> <<a>>] : a \in Shapes(n1) }
  \cup { [opens |-> TRUE, members |-> <<a, b>>] : a \in Shapes(n1), b \in Shapes(n2) }
=============================================================================
