------------------------------ MODULE WarSession ------------------------------
(***************************************************************************)
(* The web-archive session of src/src/filters/rclwar.py.  Unlike the other *)
(* archive filters it keeps no index: getnext walks the tar with           *)
(* tarfile.next(), so the ContentIndex is the tar's member order, and a    *)
(* failed read answers eofnow.  getipath uses tar.getmember, which loads   *)
(* every header and leaves the reading position at the end of the archive. *)
(*                                                                         *)
(* A member is [name, type, readable]; extractfile returns None for a      *)
(* directory.  A document's bytes are abstracted to the member's name, or  *)
(* Empty.  The caller follows spec 4.5's state machine: after an open it   *)
(* either streams with getnext or fetches by address with getipath.        *)
(***************************************************************************)
EXTENDS Integers, Sequences, SequencesExt

CONSTANTS
  Names,      \* member names (ipaths)
  Archives,   \* the files the caller may open: [opens, members]
  Empty,      \* the empty docdata ""
  NoPath,     \* the empty ipath of the self-document and of eofnow
  NoResp,     \* no archive / no answer yet
  MaxGetNext  \* bound on getnext calls per open

VARIABLES
  file,         \* the last archive given to openfile
  tar,          \* self.tar: an archive or NoResp
  offset,       \* the tarfile's reading position: members read by next()
  currentindex, \* self.currentindex
  phase,        \* caller: "idle", "open", "streaming" or "random"
  got,          \* caller: the answers of getnext since the last open
  ipathResp     \* caller: the answer to the last getipath

vars == <<file, tar, offset, currentindex, phase, got, ipathResp>>

Answer(ok, data, ip, eof) == [ok |-> ok, data |-> data, ipath |-> ip, eof |-> eof]

\* The member names of an archive, in tar order.
AllNames(a) == [i \in 1..Len(a.members) |-> a.members[i].name]

-----------------------------------------------------------------------------
\* extractone(tarinfo): extractfile(...).read(); any exception (a directory's
\* None, a failing read) answers failure with eofnow.
ExtractOne(m) ==
  IF m.type = "file" /\ m.readable
  THEN Answer(TRUE, m.name, m.name, "noteof")
  ELSE Answer(FALSE, Empty, m.name, "eofnow")

\* openfile(): reset the cursor; tarfile.open failing leaves the previous
\* tar (and its reading position) in place.
OpenFile(a) ==
  /\ file' = a
  /\ currentindex' = -1
  /\ tar' = IF a.opens THEN a ELSE tar
  /\ offset' = IF a.opens THEN 0 ELSE offset
  /\ phase' = IF a.opens THEN "open" ELSE "idle"
  /\ got' = <<>>
  /\ ipathResp' = NoResp

\* getnext(): the self-document, whatever the archive holds.
GetNextSelf ==
  /\ currentindex = -1
  /\ currentindex' = 0
  /\ got' = Append(got, Answer(TRUE, Empty, NoPath, "noteof"))
  /\ UNCHANGED <<tar, offset>>

\* Mutant: the tar is not closed at "EOF hit".
GetNextEndNoClose ==
  /\ currentindex # -1
  /\ offset >= Len(tar.members)
  /\ got' = Append(got, Answer(FALSE, Empty, NoPath, "eofnow"))
  /\ UNCHANGED <<tar, offset, currentindex>>

\* getnext(): tar.next() is None, "EOF hit": closefile(), eofnow.
GetNextEnd ==
  /\ currentindex # -1
  /\ offset >= Len(tar.members)
  /\ got' = Append(got, Answer(FALSE, Empty, NoPath, "eofnow"))
  /\ tar' = NoResp
  /\ UNCHANGED <<offset, currentindex>>

\* Mutant: tar.next() does not move the reading position.
GetNextItemNoAdvance ==
  /\ currentindex # -1
  /\ offset < Len(tar.members)
  /\ LET r == ExtractOne(tar.members[offset + 1]) IN
       /\ got' = Append(got, r)
       /\ tar' = IF r.eof \in {"eofnext", "eofnow"} THEN NoResp ELSE tar
  /\ UNCHANGED <<offset, currentindex>>

\* Mutant: the cursor is counted up as ArchiveExtractor does.
GetNextItemCountIndex ==
  /\ currentindex # -1
  /\ offset < Len(tar.members)
  /\ offset' = offset + 1
  /\ LET r == ExtractOne(tar.members[offset + 1]) IN
       /\ got' = Append(got, r)
       /\ tar' = IF r.eof \in {"eofnext", "eofnow"} THEN NoResp ELSE tar
  /\ currentindex' = currentindex + 1

\* getnext(): the member tar.next() returns, through extractone; an eof
\* answer closes the tar.
GetNextItem ==
  /\ currentindex # -1
  /\ offset < Len(tar.members)
  /\ offset' = offset + 1
  /\ LET r == ExtractOne(tar.members[offset + 1]) IN
       /\ got' = Append(got, r)
       /\ tar' = IF r.eof \in {"eofnext", "eofnow"} THEN NoResp ELSE tar
  /\ UNCHANGED currentindex

GetNext ==
  /\ phase \in {"open", "streaming"}
  /\ got # <<>> => Last(got).eof # "eofnow"
  /\ Len(got) < MaxGetNext
  /\ \/ GetNextSelf \/ GetNextEnd \/ GetNextItem
  /\ phase' = "streaming"
  /\ UNCHANGED <<file, ipathResp>>

\* getipath(): tar.getmember (a closed tar or a missing name is a caught
\* exception answering failure with noteof), then extractone, which may
\* answer eofnow without closing anything.  getmember loads every header.
GetIpath(ip) ==
  /\ phase \in {"open", "random"}
  /\ LET ms == IF tar = NoResp THEN {} ELSE {m \in ToSet(tar.members) : m.name = ip}
     IN  ipathResp' = IF ms = {} THEN Answer(FALSE, Empty, ip, "noteof")
                      ELSE ExtractOne(CHOOSE m \in ms : TRUE)
  /\ offset' = IF tar = NoResp THEN offset ELSE Len(tar.members)
  /\ phase' = "random"
  /\ UNCHANGED <<file, tar, currentindex, got>>

Init ==
  /\ file = NoResp
  /\ tar = NoResp
  /\ offset = 0
  /\ currentindex = -1
  /\ phase = "idle"
  /\ got = <<>>
  /\ ipathResp = NoResp

Next ==
  \/ \E a \in Archives : OpenFile(a)
  \/ GetNext
  \/ \E ip \in Names : GetIpath(ip)

Spec == Init /\ [][Next]_vars

-----------------------------------------------------------------------------
(* Properties.                                                             *)

Resp == [ok : BOOLEAN, data : Names \cup {Empty}, ipath : Names \cup {NoPath},
         eof : {"noteof", "eofnext", "eofnow"}]

TypeOK ==
  /\ file \in Archives \cup {NoResp}
  /\ tar \in Archives \cup {NoResp}
  /\ offset \in Nat
  /\ currentindex \in {-1, 0}
  /\ phase \in {"idle", "open", "streaming", "random"}
  /\ got \in Seq(Resp)
  /\ ipathResp \in Resp \cup {NoResp}

\* The member answers of getnext since the open.
Items == SelectSeq(got, LAMBDA x : x.ipath # NoPath)

\* getnext answers the members in tar order, each once, a prefix of the
\* archive; the self-document comes first (rclwar getnext with
\* tarfile.next()).
ServedInTarOrder ==
  /\ phase = "streaming" => got[1] = Answer(TRUE, Empty, NoPath, "noteof")
  /\ phase = "streaming" =>
       IsPrefix([i \in 1..Len(Items) |-> Items[i].ipath], AllNames(file))

\* Once getnext has signalled end of stream, the tar is released until
\* the next open (spec 5, eager release; rclwar closefile on eofnow).
ReleasedAtEnd ==
  (phase = "streaming" /\ Last(got).eof = "eofnow") => tar = NoResp

\* Every member of the archive is answered before getnext signals end of
\* stream: an unreadable member is a per-item failure that never aborts
\* the session (spec 7, 8); rclwar.extractone's eofnow on failure is at
\* issue.
AllMembersAnswered ==
  (phase = "streaming" /\ Last(got).eof = "eofnow") => Len(Items) = Len(file.members)
=============================================================================
