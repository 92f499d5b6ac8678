----------------------------- MODULE EpubSession -----------------------------
(***************************************************************************)
(* The EPUB session of src/src/filters/rclepub.py (class rclEPUB).         *)
(* openfile opens the book and takes the ContentIndex from the manifest:   *)
(* the ids of its application/xhtml+xml items, in manifest order.  getnext *)
(* serves the self-document (the OPF metadata), then the index through     *)
(* extractone, closing the book on the last item; getipath fetches any     *)
(* manifest id.  With epubcatenate set, getnext instead answers dumpall(): *)
(* the header and the bodies of the spine's xhtml items (of the manifest   *)
(* when there is no spine) and closes the book.                            *)
(*                                                                         *)
(* An item is [id, xhtml, readable]: readable is whether book.read_item    *)
(* succeeds.  A document is abstracted to the ids whose bodies it holds:   *)
(* <<id>> for an item, <<>> for the metadata-only self-document.  The      *)
(* caller follows spec 4.5's state machine: after an open it either        *)
(* streams with getnext or fetches by address with getipath.               *)
(***************************************************************************)
EXTENDS Integers, Sequences, SequencesExt

CONSTANTS
  Names,      \* manifest ids (ipaths)
  Books,      \* the files the caller may open: [opens, manifest, spine]
  NoSpine,    \* the OPF has no spine
  NoResp,     \* no book / no answer yet
  NoPath,     \* the empty ipath of the self-document and of eofnow
  MaxGetNext  \* bound on getnext calls per open

VARIABLES
  catenate,     \* self.catenate, the epubcatenate parameter read by __init__
  book,         \* self.book: the last book epub.open_epub returned
  held,         \* self.book is open (closefile not yet called on it)
  contents,     \* self.contents, the ContentIndex
  currentindex, \* self.currentindex
  phase,        \* caller: "idle", "open", "streaming" or "random"
  got,          \* caller: the answers of getnext since the last open
  ipathResp     \* caller: the answer to the last getipath

vars == <<catenate, book, held, contents, currentindex, phase, got, ipathResp>>

Answer(ok, data, ip, eof) == [ok |-> ok, data |-> data, ipath |-> ip, eof |-> eof]

\* _docheader(): the OPF title, creators, description and subjects as an
\* HTML head; it holds no item body.
DocHeader == <<>>

\* An exception escaping getnext.
Raised == Answer(FALSE, <<>>, NoPath, "raises")

\* book.get_item(id): the manifest items with that id (at most one).
Item(b, id) == {x \in ToSet(b.manifest) : x.id = id}

\* The manifest ids of the xhtml items, in manifest order.
XhtmlIds(b) ==
  LET xs == SelectSeq(b.manifest, LAMBDA x : x.xhtml)
  IN  [i \in 1..Len(xs) |-> xs[i].id]

-----------------------------------------------------------------------------
\* _catbodies(): the spine's itemref ids, or every manifest id without a
\* spine; an id that is not an xhtml manifest item is skipped.
CatIds(b) ==
  LET ids == IF b.spine = NoSpine THEN [i \in 1..Len(b.manifest) |-> b.manifest[i].id]
             ELSE b.spine
  IN  SelectSeq(ids, LAMBDA id : \E x \in Item(b, id) : x.xhtml)

\* read_item raises on an unreadable item and on a closed book, and
\* nothing in dumpall catches it.
DumpAllRaises == \E id \in ToSet(CatIds(book)) :
                   ~held \/ \E x \in Item(book, id) : ~x.readable

\* Mutant: the last index entry is flagged one call late.
ExtractOneEofLate(id) ==
  LET ok == held /\ \E x \in Item(book, id) : x.readable
  IN  Answer(ok, IF ok THEN <<id>> ELSE <<>>, id,
             IF currentindex >= Len(contents) THEN "eofnext" ELSE "noteof")

\* Mutant: success once get_item finds the id, whether the read works or not.
ExtractOneNoRead(id) ==
  LET ok == held /\ Item(book, id) # {}
  IN  Answer(ok, IF ok THEN <<id>> ELSE <<>>, id,
             IF currentindex >= Len(contents) - 1 THEN "eofnext" ELSE "noteof")

\* extractone(id): the eof flag from the cursor against the index, then
\* get_item and read_item; any exception answers failure, same flag.
ExtractOne(id) ==
  LET ok == held /\ \E x \in Item(book, id) : x.readable
  IN  Answer(ok, IF ok THEN <<id>> ELSE <<>>, id,
             IF currentindex >= Len(contents) - 1 THEN "eofnext" ELSE "noteof")

\* openfile(): reset the cursor and the index; epub.open_epub failing
\* returns False with self.book (open or not) left as it was.
OpenFile(b) ==
  /\ currentindex' = -1
  /\ contents' = IF b.opens THEN XhtmlIds(b) ELSE <<>>
  /\ book' = IF b.opens THEN b ELSE book
  /\ held' = (b.opens \/ held)
  /\ phase' = IF b.opens THEN "open" ELSE "idle"
  /\ got' = <<>>
  /\ ipathResp' = NoResp
  /\ UNCHANGED catenate

\* Mutant: the merged document is answered without an end-of-stream flag.
GetNextCatenateNoEof ==
  /\ catenate
  /\ IF DumpAllRaises
     THEN /\ got' = Append(got, Raised)
          /\ UNCHANGED held
     ELSE /\ got' = Append(got, Answer(TRUE, DocHeader \o CatIds(book), NoPath, "noteof"))
          /\ held' = FALSE
  /\ UNCHANGED <<contents, currentindex>>

\* getnext() with catenate: dumpall(), then closefile(); the result always
\* holds the header, so the eofnow branch cannot be taken.
GetNextCatenate ==
  /\ catenate
  /\ IF DumpAllRaises
     THEN /\ got' = Append(got, Raised)
          /\ UNCHANGED held
     ELSE /\ got' = Append(got, Answer(TRUE, DocHeader \o CatIds(book), NoPath, "eofnext"))
          /\ held' = FALSE
  /\ UNCHANGED <<contents, currentindex>>

\* Mutant: _selfdoc() leaves an empty book open.
GetNextSelfNoClose ==
  /\ ~catenate
  /\ currentindex = -1
  /\ currentindex' = 0
  /\ got' = Append(got, Answer(TRUE, DocHeader, NoPath,
                               IF contents = <<>> THEN "eofnext" ELSE "noteof"))
  /\ UNCHANGED <<held, contents>>

\* getnext(): _selfdoc(), closing the book when the index is empty.
GetNextSelf ==
  /\ ~catenate
  /\ currentindex = -1
  /\ currentindex' = 0
  /\ got' = Append(got, Answer(TRUE, DocHeader, NoPath,
                               IF contents = <<>> THEN "eofnext" ELSE "noteof"))
  /\ held' = (held /\ contents # <<>>)
  /\ UNCHANGED contents

\* Mutant: the past-the-end branch moves the cursor too.
GetNextEndAdvance ==
  /\ ~catenate
  /\ currentindex >= Len(contents)
  /\ got' = Append(got, Answer(FALSE, <<>>, NoPath, "eofnow"))
  /\ held' = FALSE
  /\ currentindex' = currentindex + 1
  /\ UNCHANGED contents

\* getnext(): past the end, closefile() and eofnow.
GetNextEnd ==
  /\ ~catenate
  /\ currentindex >= Len(contents)
  /\ got' = Append(got, Answer(FALSE, <<>>, NoPath, "eofnow"))
  /\ held' = FALSE
  /\ UNCHANGED <<contents, currentindex>>

\* getnext(): extractone at the cursor; closefile() on an eof answer.
GetNextItem ==
  /\ ~catenate
  /\ currentindex \in 0..Len(contents) - 1
  /\ LET ret == ExtractOne(contents[currentindex + 1]) IN
       /\ got' = Append(got, ret)
       /\ held' = (held /\ ret.eof = "noteof")
  /\ currentindex' = currentindex + 1
  /\ UNCHANGED contents

GetNext ==
  /\ phase \in {"open", "streaming"}
  /\ got # <<>> => Last(got).eof \notin {"eofnow", "raises"}
  /\ Len(got) < MaxGetNext
  /\ \/ GetNextCatenate \/ GetNextSelf \/ GetNextEnd \/ GetNextItem
  /\ phase' = "streaming"
  /\ UNCHANGED <<catenate, book, ipathResp>>

\* getipath(): extractone on the given id; nothing is closed.
GetIpath(id) ==
  /\ phase \in {"open", "random"}
  /\ ipathResp' = ExtractOne(id)
  /\ phase' = "random"
  /\ UNCHANGED <<catenate, book, held, contents, currentindex, got>>

Init ==
  /\ catenate \in BOOLEAN
  /\ book = NoResp
  /\ held = FALSE
  /\ contents = <<>>
  /\ currentindex = 0
  /\ phase = "idle"
  /\ got = <<>>
  /\ ipathResp = NoResp

Next ==
  \/ \E b \in Books : OpenFile(b)
  \/ GetNext
  \/ \E id \in Names : GetIpath(id)

\* The indexer pulls a started stream until it ends (spec 8); it is never
\* obliged to open a file or to start streaming.
Fairness == WF_vars(phase = "streaming" /\ GetNext)

Spec == Init /\ [][Next]_vars

FairSpec == Spec /\ Fairness

-----------------------------------------------------------------------------
(* Properties.                                                             *)

Resp == [ok : BOOLEAN, data : Seq(Names), ipath : Names \cup {NoPath},
         eof : {"noteof", "eofnext", "eofnow", "raises"}]

TypeOK ==
  /\ catenate \in BOOLEAN
  /\ book \in Books \cup {NoResp}
  /\ held \in BOOLEAN
  /\ contents \in Seq(Names)
  /\ currentindex \in -1..Len(contents)
  /\ phase \in {"idle", "open", "streaming", "random"}
  /\ got \in Seq(Resp)
  /\ ipathResp \in Resp \cup {NoResp}

\* Without epubcatenate, getnext serves the self-document, then every xhtml
\* manifest id once and in order, flags the last "eofnext" (an unreadable
\* item keeps its flag) and then answers "eofnow" (spec 4.5, 8;
\* rclEPUB.getnext and the eof test of extractone).  The catenate mode
\* answers one merged document (spec 4.6), a contract of its own: it maps
\* to a stream that is never opened.
Stream == INSTANCE SubDocStream
            WITH Addr <- Names,
                 index <- IF catenate THEN <<>> ELSE contents,
                 pos <- IF catenate \/ phase = "idle" THEN -1 ELSE currentindex,
                 served <- IF catenate \/ got = <<>> THEN NoResp
                           ELSE [ipath |-> Last(got).ipath, eof |-> Last(got).eof]
StreamRefinement == Stream!Spec

\* Whenever getnext has signalled end of stream, in either mode, the book
\* has been closed (spec 5, eager release; the closefile calls in _selfdoc,
\* getnext and after dumpall).
ReleasedAtEnd ==
  (got # <<>> /\ Last(got).eof \in {"eofnext", "eofnow"}) => ~held

\* Every answer for an address of the ContentIndex, from getnext or from
\* getipath, is the item's document when read_item succeeds and a failure
\* otherwise (spec 4.5, 7, 8; extractone's try).
AddressesAnswerAsStored ==
  LET answers == ToSet(got) \cup (IF ipathResp = NoResp THEN {} ELSE {ipathResp})
  IN  \A x \in answers :
        x.ipath \in ToSet(contents) =>
          \E it \in Item(book, x.ipath) :
            /\ x.ok = it.readable
            /\ x.data = IF it.readable THEN <<x.ipath>> ELSE <<>>

\* A stream the caller keeps pulling comes to an end: getnext eventually
\* signals eofnext or eofnow (or raises), in either mode, unless the caller
\* opens another file (spec 8; rclEPUB.getnext's cursor).
StreamEnds ==
  phase = "streaming" ~>
    (phase # "streaming" \/ Last(got).eof \in {"eofnext", "eofnow", "raises"})

=============================================================================
