---------------------------- MODULE MCChmSession ----------------------------
(***************************************************************************)
(* Finite instances of ChmSession: three members h (the home page), p and *)
(* q, and families of containers chosen so that every branch of openfile, *)
(* of the Topics filter and of the link walker is taken, including link    *)
(* cycles back to the home page, broken and empty members and links that  *)
(* resolve only under one spelling.                                        *)
(***************************************************************************)
EXTENDS ChmSession

CONSTANTS h, p, q

\* charset tokens: the two ascii spellings the rewrite knows, a codec, a
\* name no codec has, an IANA alias of US-ASCII, and a name with "_" and
\* "." that findcharsetre cannot match.
Tok(name, word) == [name |-> name, word |-> word]
TAscii == Tok("ascii", TRUE)
TUsAscii == Tok("us-ascii", TRUE)
TUtf8 == Tok("utf-8", TRUE)
TUnknown == Tok("x-user-defined", TRUE)
TIso646 == Tok("iso646-us", TRUE)
TAnsi == Tok("ansi_x3.4-1968", FALSE)
MCCodecNames == {"cp1252", "windows-1252", "ascii", "us-ascii", "utf-8",
                 "iso646-us", "ansi_x3.4-1968"}

Decl(equiv, t, close) == [equiv |-> equiv, token |-> t, close |-> close]
\* Well-formed declarations of every token, and ascii/utf-8 ones the
\* regexes miss (meta attributes in the other order, an XHTML "/>").
DeclLines ==
  { Decl(TRUE, t, TRUE) : t \in {TAscii, TUsAscii, TUtf8, TUnknown, TIso646, TAnsi} }
    \cup { Decl(FALSE, TAscii, TRUE), Decl(TRUE, TAscii, FALSE), Decl(TRUE, TUtf8, FALSE) }
\* Two declarations: anything before a well-formed ascii or utf-8 one.
Pages == {<<>>} \cup {<<d>> : d \in DeclLines}
           \cup {<<d, e>> : d \in DeclLines, e \in {Decl(TRUE, TAscii, TRUE), Decl(TRUE, TUtf8, TRUE)}}
BadPage == <<Decl(TRUE, TUnknown, TRUE)>>
NoDecls == [x \in {h, p, q} |-> <<>>]

\* The head and body regions of the pages: a home page without a head
\* region, p with both, q with a head region only.
Html == [x \in {h, p, q} |-> [head |-> x # h, body |-> x # q]]

A(m, abs) == [m |-> m, abs |-> abs]
L(form, m, abs) == [form |-> form, to |-> m, abs |-> abs]
P(name, form, m, abs, frag) ==
  [name |-> name, form |-> form, to |-> m, abs |-> abs, frag |-> frag]

\* The links of each page: home links to p relatively and to q absolutely,
\* or through a three-field compound path, or through an ms-its: URL; p may
\* link back to the home page and on to q; q may link back to p.
HomeLinks == { <<L("plain", p, FALSE), L("plain", q, TRUE)>>,
               <<L("compound", p, TRUE), L("scheme", q, TRUE)>> }
PLinks    == { <<>>, <<L("plain", h, TRUE), L("plain", q, FALSE)>> }
QLinks    == { <<L("plain", p, FALSE)>>, <<L("malformed", h, TRUE)>> }

Walked(homes) ==
  { [loadable |-> TRUE, topics |-> NoTopics, topicsDecl |-> <<>>,
     home |-> hm, exists |-> ex, empty |-> em,
     decl |-> [x \in Members |-> IF x \in br THEN BadPage ELSE <<>>],
     links |-> [x \in Members |-> IF x = h THEN lh ELSE IF x = p THEN lp ELSE lq], html |-> Html] :
      hm \in homes, ex \in {{h, p, q}, {h, q}, {p, q}}, em \in {{}, {q}},
      br \in {{}, {p}, {h}}, lh \in HomeLinks, lp \in PLinks, lq \in QLinks }

\* Catalog entries: plain values (existing or not, with a fragment), a
\* four-field value whose path does or does not resolve, one with an empty
\* field, a malformed one, an empty value and a non-Local param.
TopicParams ==
  { P("Local", "plain", p, FALSE, FALSE), P("Local", "plain", p, TRUE, FALSE),
    P("Local", "plain", q, FALSE, FALSE), P("Local", "plain", h, FALSE, TRUE),
    P("Local", "compound", q, TRUE, FALSE), P("Local", "compound", h, FALSE, FALSE),
    P("Local", "partial", h, TRUE, FALSE), P("Local", "malformed", p, TRUE, FALSE),
    P("Local", "empty", p, TRUE, FALSE), P("Other", "plain", h, TRUE, FALSE) }

\* The entries that can yield an address.  A dropped entry after another
\* one leaves the catalog of that one alone, so second entries are drawn
\* from these.
KeptParams ==
  { P("Local", "plain", p, FALSE, FALSE), P("Local", "plain", p, TRUE, FALSE),
    P("Local", "plain", q, FALSE, FALSE), P("Local", "compound", q, TRUE, FALSE) }

Cataloged ==
  { [loadable |-> TRUE, topics |-> tp, topicsDecl |-> <<>>, home |-> A(h, TRUE),
     exists |-> ex, empty |-> {}, decl |-> NoDecls, links |-> [x \in Members |-> <<>>], html |-> Html] :
      tp \in {<<>>} \cup {<<x>> : x \in TopicParams}
                    \cup {<<x, y>> : x \in TopicParams, y \in KeptParams},
      ex \in {{h, p}, {h, q}} }

\* An empty catalog under every charset declaration (a catalog whose
\* fixencoding raises fails whatever its records are), and a lone home page
\* under every single declaration.
Declared ==
  { [loadable |-> TRUE, topics |-> <<>>, topicsDecl |-> pg, home |-> A(h, TRUE),
     exists |-> {h}, empty |-> {}, decl |-> NoDecls, links |-> [x \in Members |-> <<>>], html |-> Html] :
      pg \in Pages }
  \cup
  { [loadable |-> TRUE, topics |-> NoTopics, topicsDecl |-> <<>>, home |-> A(h, TRUE),
     exists |-> {h}, empty |-> {}, decl |-> [NoDecls EXCEPT ![h] = pg],
     links |-> [x \in Members |-> <<>>], html |-> Html] :
      pg \in {<<d>> : d \in DeclLines} }

Unloadable ==
  { [loadable |-> FALSE, topics |-> NoTopics, topicsDecl |-> <<>>, home |-> NoHome,
     exists |-> {}, empty |-> {}, decl |-> NoDecls, links |-> [x \in Members |-> <<>>], html |-> Html] }

Homeless ==
  { [loadable |-> TRUE, topics |-> NoTopics, topicsDecl |-> <<>>, home |-> NoHome,
     exists |-> {h}, empty |-> {}, decl |-> NoDecls, links |-> [x \in Members |-> <<>>], html |-> Html] }

MCMembers == {h, p, q}
AllContainers == Walked({A(h, TRUE), A(h, FALSE)}) \cup Cataloged
                   \cup Unloadable \cup Homeless \cup Declared
\* Walks from a home name without the leading '/': with these as
\* Containers, TLC finds NoAliasedMember violated (rclchm.py:340).
RelHomeWalked == Walked({A(h, FALSE)})
=============================================================================
