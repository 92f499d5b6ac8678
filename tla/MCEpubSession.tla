---------------------------- MODULE MCEpubSession ----------------------------
(***************************************************************************)
(* Finite instances of EpubSession: books whose manifest holds up to two   *)
(* items e1 and e2, each a readable xhtml item, an xhtml item whose read   *)
(* fails, or a readable non-xhtml item (a stylesheet or an image); with no *)
(* spine, or a spine in or against manifest order, one that leaves an item *)
(* out, and one naming an id the manifest lacks; a book that does not     *)
(* open.                                                                   *)
(***************************************************************************)
EXTENDS EpubSession

CONSTANTS e1, e2

It(id, xhtml, readable) == [id |-> id, xhtml |-> xhtml, readable |-> readable]

Shapes(id) == { It(id, TRUE, TRUE), It(id, TRUE, FALSE), It(id, FALSE, TRUE) }

Manifests ==
  {<<>>} \cup { <<a>> : a \in Shapes(e1) }
         \cup { <<a, b>> : a \in Shapes(e1), b \in Shapes(e2) }

Spines == { NoSpine, <<e1, e2>>, <<e2, e1>>, <<e2>> }

MCBooks ==
  { [opens |-> FALSE, manifest |-> <<>>, spine |-> NoSpine] }
  \cup { [opens |-> TRUE, manifest |-> m, spine |-> s] : m \in Manifests, s \in Spines }
=============================================================================
