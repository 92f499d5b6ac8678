----------------------------- MODULE ChmSession -----------------------------
(***************************************************************************)
(* The CHM extraction session of src/src/filters/rclchm.py (class rclCHM)  *)
(* driven by the execm transport.  openfile loads the container and builds *)
(* the ContentIndex, either from the Topics catalog (ChmTopicsParser) or,  *)
(* when there is none, by the recursive link walk from the home page       *)
(* (ChmWalker); getnext serves the self-document and then the index in     *)
(* order, closing the CHM handle on the last item; getipath fetches one    *)
(* address without moving the cursor.                                      *)
(*                                                                         *)
(* Data is abstracted: a container member is a model value, an address is *)
(* a member name with or without the leading "/" (all members sit in the   *)
(* root directory, so joining a relative link to the directory of the     *)
(* current page only decides whether the result is absolute), and a       *)
(* document body is identified by the address it was fetched from.        *)
(***************************************************************************)
EXTENDS Integers, Sequences, SequencesExt, ChmEncoding

CONSTANTS
  Members,     \* member names a container may hold
  Containers,  \* the .chm files the caller may open (records, see below)
  NoPath,      \* the empty ipath "" and a discarded link or catalog entry
  NoTopics,    \* GetTopicsTree() found no Topics object
  NoHome,      \* the CHM declares no home page
  NoFile,      \* the CHMFile object before its first LoadCHM
  NoResp,      \* no getipath answered yet
  MaxGetNext   \* bound on getnext calls per open (catenate mode never ends)

(***************************************************************************)
(* A container: loadable (LoadCHM succeeds); topics, a sequence of <param> *)
(* records or NoTopics; topicsDecl, the charset declarations of the Topics *)
(* object; home, an address or NoHome; exists, the members ResolveObject   *)
(* finds; empty, members whose RetrieveObject yields no bytes; decl, the   *)
(* charset declarations of each member (see ChmEncoding); links, the      *)
(* <a href> links of each member, in document order; html, whether each   *)
(* member's text has a <head ...</head> and a <body ...>...</body> region. *)
(***************************************************************************)
Addr == [m : Members, abs : BOOLEAN]
Link == [form : {"plain", "compound", "scheme", "malformed"},
         to : Members, abs : BOOLEAN]
Param == [name : {"Local", "Other"},
          form : {"empty", "plain", "compound", "partial", "malformed"},
          to : Members, abs : BOOLEAN, frag : BOOLEAN]
EofState == {"noteof", "eofnext", "eofnow"}
Container == [loadable : BOOLEAN, topics : Seq(Param) \cup {NoTopics},
              topicsDecl : Page, home : Addr \cup {NoHome},
              exists : SUBSET Members, empty : SUBSET Members,
              decl : [Members -> Page], links : [Members -> Seq(Link)],
              html : [Members -> [head : BOOLEAN, body : BOOLEAN]]]
\* A piece of dumpall's document: the whole text of the page the header is
\* taken from, or the body region of a page.
Piece == [kind : {"page", "body"}, a : Addr]

VARIABLES
  catenate,     \* self.catenate, the chmcatenate parameter read by __init__
  chm,          \* the container last given to LoadCHM (self.chm's file)
  loaded,       \* the CHMFile holds an open handle (filename is not None)
  contents,     \* self.contents, the ContentIndex
  currentindex, \* self.currentindex
  phase,        \* caller: "idle" (no file open) or "open"
  got,          \* caller: the answers of getnext since the last open
  ipathResp,    \* caller: the answer to the last getipath
  charset,      \* self.charset, the charset openfile's fixencoding decided
                \* ("" before the first open: the attribute does not exist)
  merged        \* caller: the document of the last catenate getnext

vars == <<catenate, chm, loaded, contents, currentindex, phase, got, ipathResp, charset, merged>>

-----------------------------------------------------------------------------
(* Container access through pychm.                                         *)

\* ResolveObject: CHM directory entries all start with "/".
Resolves(c, a) == a.abs /\ a.m \in c.exists

\* getfile(): the member's bytes, "" (false) when absent or empty.
GetFile(c, a) == Resolves(c, a) /\ a.m \notin c.empty

\* peekfile(): only checks that the path resolves.
PeekFile(c, a) == Resolves(c, a)

AsAddr(x) == [m |-> x.to, abs |-> x.abs]

\* fixencoding raises on the member's bytes.
Broken(c, m) == FixEncoding(c.decl[m]).raises

-----------------------------------------------------------------------------
(* ChmTopicsParser.handle_starttag: the address a <param> contributes.     *)
(* Only name="Local" with a non-empty value counts; a value of one colon   *)
(* field is kept as is, one of four fields with non-empty file and path    *)
(* fields is reduced to its path if that path resolves, anything else is   *)
(* dropped; a path with a '#' is dropped; a "/" is prefixed.               *)
TopicsLocalPath(c, prm) ==
  LET local == CASE prm.form = "plain" -> AsAddr(prm)
                 [] prm.form = "compound" /\ PeekFile(c, AsAddr(prm)) -> AsAddr(prm)
                 [] OTHER -> NoPath
  IN  IF prm.name = "Local" /\ prm.form # "empty"
         /\ local # NoPath /\ ~prm.frag
      THEN [local EXCEPT !.abs = TRUE]
      ELSE NoPath

ParseTopics(c) ==
  SelectSeq([i \in 1..Len(c.topics) |-> TopicsLocalPath(c, c.topics[i])],
            LAMBDA a : a # NoPath)

-----------------------------------------------------------------------------
(* ChmWalker.handle_starttag: the address an <a href> leads to, seen from *)
(* a page whose directory is absolute (dirAbs) or "" (relative home).      *)
(* A scheme-qualified href is never followed: the code compares the bound  *)
(* method res.scheme.lower, not its result, with "ms-its".  A three-field  *)
(* colon path is reduced to its last field if that resolves.              *)
LinkTarget(c, l, dirAbs) ==
  CASE l.form = "plain" -> [m |-> l.to, abs |-> l.abs \/ dirAbs]
    [] l.form = "compound" -> IF PeekFile(c, AsAddr(l))
                              THEN [m |-> l.to, abs |-> TRUE] ELSE NoPath
    [] OTHER -> NoPath

\* Depth-first walk: each followed link not yet in contents whose member is
\* fetched non-empty starts a nested ChmWalker, which appends it first and
\* then walks its links; a fixencoding exception (broken member) is
\* swallowed by the caller's try/except after the append.
RECURSIVE FollowLinks(_, _, _, _), EnterPage(_, _, _)
\* Mutant: a page whose decoding fails is not recorded.
EnterPageDropBroken(c, p, cont) ==
  IF Broken(c, p.m) THEN cont
  ELSE FollowLinks(c, c.links[p.m], p.abs, Append(cont, p))

FollowLinks(c, links, dirAbs, cont) ==
  IF links = <<>> THEN cont
  ELSE LET np == LinkTarget(c, Head(links), dirAbs)
           cont1 == IF np # NoPath /\ np \notin ToSet(cont) /\ GetFile(c, np)
                    THEN EnterPage(c, np, cont) ELSE cont
       IN  FollowLinks(c, Tail(links), dirAbs, cont1)

EnterPage(c, p, cont) ==
  IF Broken(c, p.m) THEN Append(cont, p)
  ELSE FollowLinks(c, c.links[p.m], p.abs, Append(cont, p))

\* openfile's closing loop: drop repeated addresses, keep first occurrences.
Dedup(s) == FoldLeft(LAMBDA acc, a : IF a \in ToSet(acc) THEN acc
                                     ELSE Append(acc, a), <<>>, s)

(***************************************************************************)
(* openfile(): the result [ok, contents, charset] of a loadable file.     *)
(* self.charset is set to cp1252, then to what fixencoding decides on the  *)
(* Topics object or on the home page.  A fixencoding exception escapes    *)
(* openfile and the transport reports a failed open; in the walk branch    *)
(* the walker has already appended the home address by then.  The home    *)
(* text is fetched under a "/"-prefixed name but the walker is started on  *)
(* self.chm.home as the library returned it.                               *)
(***************************************************************************)
OpenResult(c) ==
  LET homeAbs == [c.home EXCEPT !.abs = TRUE]
      failed == [ok |-> FALSE, contents |-> <<>>, charset |-> "cp1252"]
      topicsFix == FixEncoding(c.topicsDecl)
      homeFix == FixEncoding(c.decl[c.home.m])
  IN
  IF c.topics # NoTopics
  THEN IF topicsFix.raises THEN failed
       ELSE [ok |-> TRUE, contents |-> Dedup(ParseTopics(c)),
             charset |-> topicsFix.charset]
  ELSE IF c.home = NoHome \/ ~GetFile(c, homeAbs) THEN failed
  ELSE IF homeFix.raises THEN [failed EXCEPT !.contents = <<c.home>>]
  ELSE [ok |-> TRUE,
        contents |-> Dedup(FollowLinks(c, c.links[c.home.m], c.home.abs,
                                       <<c.home>>)),
        charset |-> homeFix.charset]

\* Mutant: end of stream announced one item late.
ExtractOneEofLate(path) ==
  [ok |-> loaded /\ Resolves(chm, path) /\ path.m \notin chm.empty,
   ipath |-> path,
   eof |-> IF currentindex >= Len(contents) THEN "eofnext" ELSE "noteof"]

\* extractone(): eof is computed from the cursor, whatever path is asked.
ExtractOne(path) ==
  [ok |-> loaded /\ Resolves(chm, path) /\ path.m \notin chm.empty,
   ipath |-> path,
   eof |-> IF currentindex >= Len(contents) - 1 THEN "eofnext" ELSE "noteof"]

(***************************************************************************)
(* dumpall(): every index address through extractone; a page that fails   *)
(* is skipped.  While no header is saved (first), a page whose text has a  *)
(* head region gives the header: re.sub is handed the regex flags as its  *)
(* count and the page text as its subject, so the header is the whole page *)
(* (title replaced), followed by "<body>".  Every page's body region is    *)
(* appended, the header page's too.  The closing "</body></html>" is not  *)
(* a piece.                                                                *)
(***************************************************************************)
\* Mutant: the header flag is cleared by the first page read, head or not.
DumpStepFirstRead(acc, a) ==
  LET hd == chm.html[a.m]
      acc1 == IF acc.first /\ hd.head
              THEN [first |-> FALSE, doc |-> Append(acc.doc, [kind |-> "page", a |-> a])]
              ELSE [acc EXCEPT !.first = FALSE]
  IN  IF hd.body THEN [acc1 EXCEPT !.doc = Append(@, [kind |-> "body", a |-> a])]
      ELSE acc1

DumpStep(acc, a) ==
  LET hd == chm.html[a.m]
      acc1 == IF acc.first /\ hd.head
              THEN [first |-> FALSE, doc |-> Append(acc.doc, [kind |-> "page", a |-> a])]
              ELSE acc
  IN  IF hd.body THEN [acc1 EXCEPT !.doc = Append(@, [kind |-> "body", a |-> a])]
      ELSE acc1

DumpAll ==
  FoldLeft(DumpStep, [first |-> TRUE, doc |-> <<>>],
           SelectSeq(contents, LAMBDA a : ExtractOne(a).ok)).doc

-----------------------------------------------------------------------------
(* Handlers.  The caller (the execm transport, rclexecm.py, not in this    *)
(* repository) opens any file at any time, asks getnext until it has been *)
(* told "eofnow", and may ask getipath for any address of an open file.    *)

\* LoadCHM closes a loaded file first; openfile resets cursor and contents.
OpenFile(c) ==
  LET r == OpenResult(c) IN
  /\ chm' = c
  /\ loaded' = c.loadable
  /\ currentindex' = -1
  /\ contents' = IF c.loadable THEN r.contents ELSE <<>>
  /\ phase' = IF c.loadable /\ r.ok THEN "open" ELSE "idle"
  /\ charset' = IF c.loadable THEN r.charset ELSE charset
  /\ got' = <<>>
  /\ ipathResp' = NoResp
  /\ merged' = <<>>
  /\ UNCHANGED catenate

\* getnext() in chmcatenate mode: dumpall() then closefile().  dumpall
\* always ends its result with "</body></html>", so the "else" branch
\* (eofnow) cannot be taken.
GetNextCatenate ==
  /\ catenate
  /\ merged' = DumpAll
  /\ loaded' = FALSE
  /\ got' = Append(got, [ok |-> TRUE, ipath |-> NoPath, eof |-> "eofnext"])
  /\ UNCHANGED <<chm, contents, currentindex, phase, ipathResp, charset>>

\* Mutant: the empty-container self-document leaves the file open.
GetNextSelfNoClose ==
  /\ ~catenate
  /\ currentindex = -1
  /\ currentindex' = 0
  /\ got' = Append(got, [ok |-> TRUE, ipath |-> NoPath,
                  eof |-> IF contents = <<>> THEN "eofnext" ELSE "noteof"])
  /\ UNCHANGED <<chm, loaded, contents, phase, ipathResp, charset, merged>>

\* getnext(): the self-document.
GetNextSelf ==
  /\ ~catenate
  /\ currentindex = -1
  /\ currentindex' = 0
  /\ loaded' = (loaded /\ contents # <<>>)
  /\ got' = Append(got, [ok |-> TRUE, ipath |-> NoPath,
                  eof |-> IF contents = <<>> THEN "eofnext" ELSE "noteof"])
  /\ UNCHANGED <<chm, contents, phase, ipathResp, charset, merged>>

\* Mutant: the cursor is advanced on the past-the-end branch too.
GetNextEndAdvance ==
  /\ ~catenate
  /\ currentindex >= Len(contents)
  /\ loaded' = FALSE
  /\ currentindex' = currentindex + 1
  /\ got' = Append(got, [ok |-> FALSE, ipath |-> NoPath, eof |-> "eofnow"])
  /\ UNCHANGED <<chm, contents, phase, ipathResp, charset, merged>>

\* getnext(): past the end.
GetNextEnd ==
  /\ ~catenate
  /\ currentindex >= Len(contents)
  /\ loaded' = FALSE
  /\ got' = Append(got, [ok |-> FALSE, ipath |-> NoPath, eof |-> "eofnow"])
  /\ UNCHANGED <<chm, contents, currentindex, phase, ipathResp, charset, merged>>

\* getnext(): the next address; closefile() when extractone says eof.
GetNextItem ==
  LET ret == ExtractOne(contents[currentindex + 1]) IN
  /\ ~catenate
  /\ currentindex \in 0..Len(contents) - 1
  /\ loaded' = (loaded /\ ret.eof = "noteof")
  /\ currentindex' = currentindex + 1
  /\ got' = Append(got, ret)
  /\ UNCHANGED <<chm, contents, phase, ipathResp, charset, merged>>

GetNext ==
  /\ phase = "open"
  /\ got # <<>> => Last(got).eof # "eofnow"
  /\ Len(got) < MaxGetNext
  /\ \/ GetNextCatenate \/ GetNextSelf \/ GetNextEnd \/ GetNextItem
  /\ UNCHANGED catenate

\* getipath(): extractone on the given path.
GetIpath(a) ==
  /\ phase = "open"
  /\ ipathResp' = ExtractOne(a)
  /\ UNCHANGED <<catenate, chm, loaded, contents, currentindex, phase, got, charset, merged>>

Init ==
  /\ catenate \in BOOLEAN
  /\ chm = NoFile
  /\ loaded = FALSE
  /\ contents = <<>>
  /\ currentindex = -1
  /\ phase = "idle"
  /\ got = <<>>
  /\ ipathResp = NoResp
  /\ charset = ""
  /\ merged = <<>>

Next ==
  \/ \E c \in Containers : OpenFile(c)
  \/ GetNext
  \/ \E a \in Addr : GetIpath(a)

Spec == Init /\ [][Next]_vars

-----------------------------------------------------------------------------
(* Properties.                                                             *)

Resp == [ok : BOOLEAN, ipath : Addr \cup {NoPath}, eof : EofState]

TypeOK ==
  /\ catenate \in BOOLEAN
  /\ chm = NoFile \/ chm \in Container
  /\ loaded \in BOOLEAN
  /\ contents \in Seq(Addr)
  /\ currentindex \in -1..Len(contents)
  /\ phase \in {"idle", "open"}
  /\ got \in Seq(Resp)
  /\ ipathResp \in Resp \cup {NoResp}
  /\ charset \in CodecNames \cup {""}
  /\ merged \in Seq(Piece)

\* getnext serves the self-document, then each ContentIndex address once and
\* in order, flags the last "eofnext" and then only answers "eofnow"; getipath
\* never moves the cursor (spec 4.5 and 8; rclCHM.getnext/extractone).
\* The catenate mode answers one merged document instead (spec 4.6), a
\* contract of its own: it maps to a stream that is never opened.
Stream == INSTANCE SubDocStream
            WITH index <- IF catenate THEN <<>> ELSE contents,
                 pos <- IF catenate THEN -1 ELSE currentindex,
                 served <- IF catenate \/ got = <<>> THEN NoResp
                           ELSE [ipath |-> Last(got).ipath, eof |-> Last(got).eof]
StreamRefinement == Stream!Spec

\* The CHM handle is held exactly while the open file still has items to
\* serve: getnext releases it the moment it reports end of stream, and never
\* before (spec 5; closefile calls in rclCHM.getnext).
HandleHeldWhileStreaming ==
  phase = "open" =>
    (loaded <=> (got = <<>> \/ Last(got).eof = "noteof"))

\* After a successful open, self.charset, which encodes every address later
\* looked up (extractone, the walker, the catalog), is the charset that the
\* deciding page declares: the Topics object, else the home page.  An
\* "ascii" or "us-ascii" declaration is read as the 8-bit windows-1252 and
\* cp1252 is used when nothing is declared (spec 4.1 step 2 and spec 8,
\* ASCII-declared override; fixencoding's rewrite-then-search and
\* openfile's assignments of self.charset).
AsciiVariants == {"ascii", "us-ascii"}

DeclaredCharset(page) ==
  LET decls == {i \in DOMAIN page : Declares(page[i])}
  IN  IF decls = {} THEN "cp1252"
      ELSE IF page[Min(decls)].token.name \in AsciiVariants THEN "windows-1252"
      ELSE page[Min(decls)].token.name

DecidingPage(c) == IF c.topics # NoTopics THEN c.topicsDecl ELSE c.decl[c.home.m]

CharsetAsDeclared ==
  phase = "open" => charset = DeclaredCharset(DecidingPage(chm))

\* The link walk finds exactly the addresses reachable from the home page by
\* links it can follow, each page's links being read only if the page decodes
\* (spec 4.3: cycles terminate, broken links are skipped; ChmWalker).
LinksFollowed(c, p) ==
  { t \in Addr : \E i \in 1..Len(c.links[p.m]) :
                   /\ t = LinkTarget(c, c.links[p.m][i], p.abs)
                   /\ GetFile(c, t) }

WalkReach(c) ==
  LET RECURSIVE Grow(_)
      Grow(S) == LET S2 == S \cup UNION { LinksFollowed(c, p) :
                                          p \in {q \in S : ~Broken(c, q.m)} }
                 IN  IF S2 = S THEN S ELSE Grow(S2)
  IN  Grow({c.home})

WalkComplete ==
  (phase = "open" /\ chm.topics = NoTopics) => ToSet(contents) = WalkReach(chm)

\* The first catenate answer after an open holds the body region of every
\* indexed page that can be read and has one, once each and in index order,
\* and one header, taken from the first readable indexed page with a head
\* region, if any (spec 4.6; dumpall's skip of failed pages and its
\* "first" flag, which only a page with a head clears).
CatenationCoversIndex ==
  (catenate /\ Len(got) = 1) =>
    LET read == SelectSeq(contents, LAMBDA a : Resolves(chm, a) /\ a.m \notin chm.empty)
        headed == {i \in DOMAIN read : chm.html[read[i].m].head}
        withBody == SelectSeq(read, LAMBDA a : chm.html[a.m].body)
    IN  /\ SelectSeq(merged, LAMBDA x : x.kind = "body")
             = [i \in DOMAIN withBody |-> [kind |-> "body", a |-> withBody[i]]]
        /\ SelectSeq(merged, LAMBDA x : x.kind = "page")
             = IF headed = {} THEN <<>>
               ELSE <<[kind |-> "page", a |-> read[Min(headed)]]>>

\* No container member is listed twice under two spellings of its address
\* (spec 8: the cycle home -> page1 -> home yields [home, page1]).
NoAliasedMember ==
  phase = "open" =>
    \A i, j \in 1..Len(contents) : contents[i].m = contents[j].m => i = j

=============================================================================
