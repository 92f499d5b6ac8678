---------------------------- MODULE ArchiveSession ----------------------------
(***************************************************************************)
(* The archive sessions of src/src/filters/rclzip.py, rcltar.py and        *)
(* rclrar.py.  The three extractors inherit getnext (and, for zip and rar, *)
(* getipath) from ArchiveExtractor in archivextract.py, which is not in    *)
(* this repository: that part is modelled from spec 4.5.  Each filter has *)
(* its own openfile, closefile, extractone and namelist, modelled from the *)
(* code.  The filter a process runs is fixed when it starts: kind.         *)
(*                                                                         *)
(* A member is [name, type, big, readable]: big is "file_size >           *)
(* maxmembersize", readable whether reading its bytes succeeds.  A        *)
(* document's bytes are abstracted to the member's name, or Empty.        *)
(* The caller follows spec 4.5's state machine: after an open it either   *)
(* streams with getnext or fetches by address with getipath.              *)
(***************************************************************************)
EXTENDS Integers, Sequences, SequencesExt, TLC

CONSTANTS
  Kinds,      \* the filters: a subset of {"zip", "tar", "rar"}
  Names,      \* member names (ipaths)
  Archives,   \* the files the caller may open: [opens, members]
  Empty,      \* the empty docdata "" / b""
  NoPath,     \* the empty ipath of the self-document and of eofnow
  NoResp,     \* no archive / no answer yet
  MaxGetNext  \* bound on getnext calls per open

VARIABLES
  kind,         \* which filter this process runs
  file,         \* the last archive given to openfile
  handle,       \* self.zip / self.tar / self.rar: an archive or NoResp
  namen,        \* TarExtractor.namen
  currentindex, \* self.currentindex
  phase,        \* caller: "idle", "open", "streaming" or "random"
  got,          \* caller: the answers of getnext since the last open
  ipathResp     \* caller: the answer to the last getipath

vars == <<kind, file, handle, namen, currentindex, phase, got, ipathResp>>

-----------------------------------------------------------------------------
\* The member names of an archive, in catalog order.
AllNames(a) == [i \in 1..Len(a.members) |-> a.members[i].name]

\* Mutant: the members themselves instead of their names.
TarNamesNoProjection(a) == SelectSeq(a.members, LAMBDA m : m.type = "file")

\* TarExtractor.openfile: the names of the regular-file members only.
TarNames(a) ==
  LET fs == SelectSeq(a.members, LAMBDA m : m.type = "file")
  IN  [i \in 1..Len(fs) |-> fs[i].name]

\* namelist(): zip and rar read it from the open archive, tar from namen.
NameList == IF kind = "tar" THEN namen ELSE AllNames(handle)

\* The ContentIndex of the session (spec 4.5: built once per open).
Index == IF kind = "tar" THEN TarNames(file) ELSE AllNames(file)

\* getinfo / getmember: the members named ip (none when closed).
Found(ip) == IF handle = NoResp THEN {} ELSE {m \in ToSet(handle.members) : m.name = ip}

\* What reading a found member gives: the size ceiling first, then the read.
Content(m) == IF m.big \/ m.type = "dir" THEN Empty ELSE m.name

\* An exception escaping a handler.
Raised == [ok |-> FALSE, data |-> Empty, ipath |-> NoPath, eof |-> "raises"]

Answer(ok, data, ip, eof) == [ok |-> ok, data |-> data, ipath |-> ip, eof |-> eof]

\* closefile(): tar also empties namen.
CloseFile ==
  /\ handle' = NoResp
  /\ namen' = IF kind = "tar" THEN <<>> ELSE namen

\* Mutant: the last name is flagged (and the zip closed) one step late.
ZipExtractEofLate(ip) ==
  LET ms == Found(ip)
      m == CHOOSE x \in ms : TRUE
      last == currentindex >= Len(NameList)
  IN  IF handle = NoResp THEN [r |-> Raised, close |-> FALSE]
      ELSE [r |-> Answer(ms # {} /\ (m.big \/ m.readable),
                         IF ms # {} /\ (m.big \/ m.readable) THEN Content(m) ELSE Empty,
                         ip, IF last THEN "eofnext" ELSE "noteof"),
            close |-> last]

\* ZipExtractor.extractone: getinfo, the ceiling, read; then the eof test
\* reads self.zip.namelist(), which raises once the zip is closed, and
\* closes the zip when the cursor is at the last name.
ZipExtract(ip) ==
  LET ms == Found(ip)
      m == CHOOSE x \in ms : TRUE
      last == currentindex >= Len(NameList) - 1
  IN  IF handle = NoResp THEN [r |-> Raised, close |-> FALSE]
      ELSE [r |-> Answer(ms # {} /\ (m.big \/ m.readable),
                         IF ms # {} /\ (m.big \/ m.readable) THEN Content(m) ELSE Empty,
                         ip, IF last THEN "eofnext" ELSE "noteof"),
            close |-> last]

\* Mutant: the size ceiling is not tested before the read.
TarExtractNoCeiling(ip) ==
  LET ms == Found(ip)
      m == CHOOSE x \in ms : TRUE
      ok == ms # {} /\ m.type = "file" /\ m.readable
  IN  [r |-> Answer(ok, IF ok THEN m.name ELSE Empty, ip,
                    IF currentindex >= Len(NameList) - 1 THEN "eofnext" ELSE "noteof"),
       close |-> FALSE]

\* TarExtractor.extractone: getmember, the ceiling, extractfile().read()
\* (None for a directory, so the read raises); eof from namen.
TarExtract(ip) ==
  LET ms == Found(ip)
      m == CHOOSE x \in ms : TRUE
      ok == ms # {} /\ (m.big \/ (m.type = "file" /\ m.readable))
  IN  [r |-> Answer(ok, IF ok THEN Content(m) ELSE Empty, ip,
                    IF currentindex >= Len(NameList) - 1 THEN "eofnext" ELSE "noteof"),
       close |-> FALSE]

\* RarExtractor.extractone: a getinfo failure returns (True, "", ipath,
\* False) at once; a directory is an empty success; then the ceiling and
\* the read; eof from the live namelist.
RarExtract(ip) ==
  LET ms == Found(ip)
      m == CHOOSE x \in ms : TRUE
      ok == m.type = "dir" \/ m.big \/ m.readable
  IN  IF ms = {} THEN [r |-> Answer(TRUE, Empty, ip, "noteof"), close |-> FALSE]
      ELSE [r |-> Answer(ok, IF ok THEN Content(m) ELSE Empty, ip,
                         IF currentindex >= Len(NameList) - 1 THEN "eofnext" ELSE "noteof"),
            close |-> FALSE]

ExtractOne(ip) ==
  CASE kind = "zip" -> ZipExtract(ip)
    [] kind = "tar" -> TarExtract(ip)
    [] kind = "rar" -> RarExtract(ip)

-----------------------------------------------------------------------------
(* Handlers, and the caller (rclexecm.py, not in this repository).          *)

\* ZipExtractor.openfile: closefile() first, then open(); a failure leaves
\* the zip closed.
ZipOpenFile(a) ==
  /\ kind = "zip"
  /\ handle' = IF a.opens THEN a ELSE NoResp
  /\ UNCHANGED namen

\* TarExtractor.openfile: no closefile(); a failure leaves the previous tar
\* and namen in place.
TarOpenFile(a) ==
  /\ kind = "tar"
  /\ handle' = IF a.opens THEN a ELSE handle
  /\ namen' = IF a.opens THEN TarNames(a) ELSE namen

\* RarExtractor.openfile: no closefile(); a failure leaves the previous rar.
RarOpenFile(a) ==
  /\ kind = "rar"
  /\ handle' = IF a.opens THEN a ELSE handle
  /\ UNCHANGED namen

\* openfile(): every filter resets the cursor first.
OpenFile(a) ==
  /\ \/ ZipOpenFile(a) \/ TarOpenFile(a) \/ RarOpenFile(a)
  /\ file' = a
  /\ currentindex' = -1
  /\ phase' = IF a.opens THEN "open" ELSE "idle"
  /\ got' = <<>>
  /\ ipathResp' = NoResp
  /\ UNCHANGED kind

\* ArchiveExtractor.getnext, from spec 4.5: the self-document, end of
\* stream immediately (and the handle released) when the index is empty.
GetNextSelf ==
  /\ currentindex = -1
  /\ currentindex' = 0
  /\ got' = Append(got, Answer(TRUE, Empty, NoPath,
                               IF Index = <<>> THEN "eofnext" ELSE "noteof"))
  /\ IF Index = <<>> THEN CloseFile ELSE UNCHANGED <<handle, namen>>

\* ... past the end: failure, eofnow, closefile().
GetNextEnd ==
  /\ currentindex >= Len(Index)
  /\ got' = Append(got, Answer(FALSE, Empty, NoPath, "eofnow"))
  /\ CloseFile
  /\ UNCHANGED currentindex

\* ... the member at the cursor, through the filter's extractone.
GetNextItem ==
  /\ currentindex \in 0..Len(Index) - 1
  /\ LET x == ExtractOne(Index[currentindex + 1]) IN
       /\ got' = Append(got, x.r)
       /\ IF x.close THEN CloseFile ELSE UNCHANGED <<handle, namen>>
  /\ currentindex' = currentindex + 1

GetNext ==
  /\ phase \in {"open", "streaming"}
  /\ got # <<>> => Last(got).eof \notin {"eofnow", "raises"}
  /\ Len(got) < MaxGetNext
  /\ \/ GetNextSelf \/ GetNextEnd \/ GetNextItem
  /\ phase' = "streaming"
  /\ UNCHANGED <<kind, file, ipathResp>>

\* getipath: ArchiveExtractor's (zip, rar) or TarExtractor's, whose retry
\* with the utf-8 decoded name looks up the same member again, so it
\* answers as the first extractone did.  The cursor does not move.
GetIpath(ip) ==
  /\ phase \in {"open", "random"}
  /\ ipathResp # NoResp => ipathResp.eof # "raises"
  /\ LET x == ExtractOne(ip) IN
       /\ ipathResp' = x.r
       /\ IF x.close THEN CloseFile ELSE UNCHANGED <<handle, namen>>
  /\ phase' = "random"
  /\ UNCHANGED <<kind, file, currentindex, got>>

Init ==
  /\ kind \in Kinds
  /\ file = NoResp
  /\ handle = NoResp
  /\ namen = <<>>
  /\ currentindex = -1
  /\ phase = "idle"
  /\ got = <<>>
  /\ ipathResp = NoResp

Next ==
  \/ \E a \in Archives : OpenFile(a)
  \/ GetNext
  \/ \E ip \in Names : GetIpath(ip)

Spec == Init /\ [][Next]_vars

-----------------------------------------------------------------------------
(* Properties.                                                             *)

Resp == [ok : BOOLEAN, data : Names \cup {Empty}, ipath : Names \cup {NoPath},
         eof : {"noteof", "eofnext", "eofnow", "raises"}]

TypeOK ==
  /\ kind \in Kinds
  /\ file \in Archives \cup {NoResp}
  /\ handle \in Archives \cup {NoResp}
  /\ namen \in Seq(Names)
  /\ currentindex \in -1..MaxGetNext
  /\ phase \in {"idle", "open", "streaming", "random"}
  /\ got \in Seq(Resp)
  /\ ipathResp \in Resp \cup {NoResp}

\* Each archive session implements the abstract session: the members of
\* the ContentIndex (tar: regular files only) served once each, in
\* catalog order, the last flagged eofnext, then eofnow (spec 4.5, 8);
\* the eof tests of the three extractone methods are at issue.
Stream == INSTANCE SubDocStream
            WITH Addr <- Names,
                 index <- IF phase = "idle" THEN <<>> ELSE Index,
                 pos <- IF phase = "idle" THEN -1 ELSE currentindex,
                 served <- IF got = <<>> THEN NoResp
                           ELSE [ipath |-> Last(got).ipath, eof |-> Last(got).eof]
StreamRefinement == Stream!Spec

\* What spec 4.5 and 8 expect of fetching a member: a member over the
\* ceiling is an empty success, never read; a directory an empty success;
\* any other member its bytes, or a failure when they cannot be read.
Expected(m) ==
  LET ok == m.big \/ m.type = "dir" \/ m.readable
  IN  [ok |-> ok, data |-> IF ok THEN Content(m) ELSE Empty]

\* Every answer for an address of the ContentIndex, from getnext or from
\* getipath, is what spec 4.5 expects of that member; at issue are the
\* three extractone methods (the ceiling before the read, a tar
\* directory's extractfile returning None) and tar's isfile filter.
MembersServedAsStored ==
  LET answers == ToSet(got) \cup (IF ipathResp = NoResp THEN {} ELSE {ipathResp})
  IN  \A x \in answers :
        x.ipath \in ToSet(Index) =>
          \E m \in ToSet(file.members) :
            m.name = x.ipath /\ [ok |-> x.ok, data |-> x.data] = Expected(m)
=============================================================================
