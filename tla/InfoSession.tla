---------------------------- MODULE InfoSession ----------------------------
(***************************************************************************)
(* The GNU info session of src/src/filters/rclinfo.py.  openfile runs     *)
(* "info --subnodes" and InfoSimpleSplitter.splitinfo cuts its output into *)
(* nodes at "File: ..." header lines that follow a blank line, records    *)
(* each node's Up in node_dict, and titles every node by walking the Up   *)
(* chain to "Top" (at most MaxHops hops, 50 in the code); getnext serves   *)
(* the self-document and the titled nodes, ipath str(index); getipath      *)
(* serves one node by index.                                               *)
(*                                                                         *)
(* A line of the info output is abstracted to its kind: a header with its *)
(* Node and Up fields (either may be missing; "bad" when a comma-separated *)
(* pair does not split into exactly name:value), a blank line or text.     *)
(* A node body is the sequence of the positions of its lines.             *)
(***************************************************************************)
EXTENDS Integers, Sequences, SequencesExt, TLC

CONSTANTS
  Names,      \* node names (bytes) that headers may carry; contains Top
  Top,        \* the root node name b"Top"
  Unknown,    \* b"Unknown", the name of text before any header
  IndexName,  \* str(index): the name of a header without a Node field
  NoName,     \* a header field that is absent
  Files,      \* the files the caller may open (records, see below)
  MaxHops,    \* the Up-chain bound (50 in the code)
  NoResp,     \* no getipath answered yet
  MaxGetNext  \* bound on getnext calls per open

ASSUME Top \in Names /\ MaxHops \in Nat

(***************************************************************************)
(* A file: isfile (os.path.isfile holds), spawns (Popen does not raise)    *)
(* and lines, the output of the info command.                              *)
(***************************************************************************)
Line == [kind : {"header", "blank", "text"}, node : Names \cup {NoName},
         up : Names \cup {NoName}, bad : BOOLEAN]

VARIABLES
  file,         \* self.file, the last file given to openfile
  contents,     \* self.contents: the titled nodes [title, body]
  currentindex, \* self.currentindex
  phase,        \* caller: "idle" (no file open) or "open"
  got,          \* caller: the answers of getnext since the last open
  ipathResp     \* caller: the answer to the last getipath

vars == <<file, contents, currentindex, phase, got, ipathResp>>

-----------------------------------------------------------------------------
(* InfoSimpleSplitter.splitinfo, first pass: one step per output line.    *)
(* A good header closes the current node (except the very first header,   *)
(* which drops the preamble), records node_dict[name] = up (a later       *)
(* duplicate overwrites) and starts a new node with the header line.  A   *)
(* bad header is kept as text of the current node and leaves gotblankline *)
(* set.                                                                    *)
ScanInit == [gotblank |-> TRUE, index |-> 0, listout |-> <<>>,
             dict |-> [x \in {} |-> Top], node |-> <<>>, nodename |-> Unknown]

\* Mutant: a header does not empty the node it closes.
ScanLineNoReset(st, i, ln) ==
  IF st.gotblank /\ ln.kind = "header" /\ ln.bad
  THEN [st EXCEPT !.node = Append(@, i)]
  ELSE IF st.gotblank /\ ln.kind = "header"
  THEN LET name == IF ln.node = NoName THEN IndexName ELSE ln.node
       IN  [st EXCEPT !.gotblank = FALSE, !.index = @ + 1,
                      !.listout = IF st.index # 0
                                  THEN Append(@, [name |-> st.nodename, body |-> st.node])
                                  ELSE @,
                      !.dict = (name :> IF ln.up = NoName THEN Top ELSE ln.up) @@ @,
                      !.node = Append(@, i), !.nodename = name]
  ELSE [st EXCEPT !.gotblank = (ln.kind = "blank"), !.node = Append(@, i)]

ScanLine(st, i, ln) ==
  IF st.gotblank /\ ln.kind = "header" /\ ln.bad
  THEN [st EXCEPT !.node = Append(@, i)]
  ELSE IF st.gotblank /\ ln.kind = "header"
  THEN LET name == IF ln.node = NoName THEN IndexName ELSE ln.node
           up == IF ln.up = NoName THEN Top ELSE ln.up
       IN  [gotblank |-> FALSE, index |-> st.index + 1,
            listout |-> IF st.index # 0
                        THEN Append(st.listout, [name |-> st.nodename, body |-> st.node])
                        ELSE st.listout,
            dict |-> (name :> up) @@ st.dict,
            node |-> <<i>>, nodename |-> name]
  ELSE [st EXCEPT !.gotblank = (ln.kind = "blank"), !.node = Append(@, i)]

\* The scan of a whole output, with the last dangling node added.
Scan(lines) ==
  LET st == FoldLeft(LAMBDA s, i : ScanLine(s, i, lines[i]), ScanInit,
                     [i \in 1..Len(lines) |-> i])
  IN  [listout |-> IF st.node # <<>>
                   THEN Append(st.listout, [name |-> st.nodename, body |-> st.node])
                   ELSE st.listout,
       dict |-> st.dict]

(***************************************************************************)
(* Second pass: the Up-chain walk of one node.  It yields the chain of     *)
(* names below Top, most distant first, Defect for an Up naming no node    *)
(* or more than MaxHops hops, and Crash when the node is named by          *)
(* str(index): b" / " is concatenated to a str, which raises TypeError.    *)
(***************************************************************************)
Defect == [st |-> "defect", title |-> <<>>]
Crash == [st |-> "crash", title |-> <<>>]

RECURSIVE TitleLoop(_, _, _, _)
\* Mutant: the hop bound tested as loop >= 50.
TitleLoopHopOffByOne(d, n, title, loop) ==
  IF n = IndexName THEN Crash
  ELSE IF n = Top THEN [st |-> "ok", title |-> title]
  ELSE IF n \notin DOMAIN d THEN Defect
  ELSE IF loop + 1 >= MaxHops THEN Defect
  ELSE TitleLoop(d, d[n], <<n>> \o title, loop + 1)

TitleLoop(d, n, title, loop) ==
  IF n = IndexName THEN Crash
  ELSE IF n = Top THEN [st |-> "ok", title |-> title]
  ELSE IF n \notin DOMAIN d THEN Defect
  ELSE IF loop + 1 > MaxHops THEN Defect
  ELSE TitleLoop(d, d[n], <<n>> \o title, loop + 1)

\* splitinfo's result: the titled nodes, defects skipped; a TypeError in
\* any title aborts splitinfo (and openfile) with an exception.
Resolve(sc) ==
  LET ts == [i \in 1..Len(sc.listout) |-> TitleLoop(sc.dict, sc.listout[i].name, <<>>, 0)]
      kept == SelectSeq([i \in 1..Len(ts) |-> i], LAMBDA i : ts[i].st = "ok")
  IN  [crash |-> \E i \in 1..Len(ts) : ts[i] = Crash,
       nodes |-> [k \in 1..Len(kept) |-> [title |-> ts[kept[k]].title,
                                          body |-> sc.listout[kept[k]].body]]]

\* extractone(index): ipath str(index); eof from the cursor, as in rclchm.
\* (False, "", "", True) is read as eofnext, True being 1 in Python.
\* Mutant: the last node flagged only once the cursor has passed it.
ExtractOneEofLate(index) ==
  IF index >= Len(contents)
  THEN [ok |-> FALSE, ipath |-> NoResp, eof |-> "eofnext"]
  ELSE [ok |-> TRUE, ipath |-> index,
        eof |-> IF currentindex >= Len(contents) THEN "eofnext" ELSE "noteof"]

ExtractOne(index) ==
  IF index >= Len(contents)
  THEN [ok |-> FALSE, ipath |-> NoResp, eof |-> "eofnext"]  \* (False, "", "", True)
  ELSE [ok |-> TRUE, ipath |-> index,
        eof |-> IF currentindex >= Len(contents) - 1 THEN "eofnext" ELSE "noteof"]

-----------------------------------------------------------------------------
(* Handlers and the caller (rclexecm.py, not in this repository).          *)

\* openfile(): not a regular file -> False, with cursor and contents left as
\* they were; Popen raising -> "HELPERNOTFOUND" and sys.exit(1): the process
\* is gone and the caller's next request starts a fresh one (__init__); else
\* split.  An exception in splitinfo leaves the old contents, cursor reset.
OpenFile(f) ==
  LET r == Resolve(Scan(f.lines)) IN
  /\ got' = <<>>
  /\ ipathResp' = NoResp
  /\ IF ~f.isfile
     THEN /\ file' = f
          /\ phase' = "idle"
          /\ UNCHANGED <<contents, currentindex>>
     ELSE IF ~f.spawns
     THEN /\ file' = NoResp
          /\ phase' = "idle"
          /\ contents' = <<>>
          /\ currentindex' = -1
     ELSE /\ file' = f
          /\ currentindex' = -1
          /\ phase' = IF r.crash THEN "idle" ELSE "open"
          /\ contents' = IF r.crash THEN contents ELSE r.nodes

\* getnext(): the self-document.
GetNextSelf ==
  /\ currentindex = -1
  /\ currentindex' = 0
  /\ got' = Append(got, [ok |-> TRUE, ipath |-> NoResp,
                         eof |-> IF contents = <<>> THEN "eofnext" ELSE "noteof"])

\* Mutant: the cursor moves on past the end.
GetNextEndAdvance ==
  /\ currentindex >= Len(contents)
  /\ got' = Append(got, [ok |-> FALSE, ipath |-> NoResp, eof |-> "eofnow"])
  /\ currentindex' = currentindex + 1

\* getnext(): past the end ("EOF hit").
GetNextEnd ==
  /\ currentindex >= Len(contents)
  /\ got' = Append(got, [ok |-> FALSE, ipath |-> NoResp, eof |-> "eofnow"])
  /\ UNCHANGED currentindex

\* getnext(): the node at the cursor.
GetNextItem ==
  /\ currentindex \in 0..Len(contents) - 1
  /\ got' = Append(got, ExtractOne(currentindex))
  /\ currentindex' = currentindex + 1

GetNext ==
  /\ phase = "open"
  /\ got # <<>> => Last(got).eof # "eofnow"
  /\ Len(got) < MaxGetNext
  /\ \/ GetNextSelf \/ GetNextEnd \/ GetNextItem
  /\ UNCHANGED <<file, contents, phase, ipathResp>>

\* getipath(): int(ipath), or (False, "", "", True) when it does not parse.
GetIpath(ip) ==
  /\ phase = "open"
  /\ ipathResp' = IF ip = NoName THEN [ok |-> FALSE, ipath |-> NoResp, eof |-> "eofnext"]
                  ELSE ExtractOne(ip)
  /\ UNCHANGED <<file, contents, currentindex, phase, got>>

Init ==
  /\ file = NoResp
  /\ contents = <<>>
  /\ currentindex = -1
  /\ phase = "idle"
  /\ got = <<>>
  /\ ipathResp = NoResp

Next ==
  \/ \E f \in Files : OpenFile(f)
  \/ GetNext
  \/ \E ip \in {NoName} \cup (0..Len(contents)) : GetIpath(ip)

Spec == Init /\ [][Next]_vars

-----------------------------------------------------------------------------
(* Properties.                                                             *)

Resp == [ok : BOOLEAN, ipath : Nat \cup {NoResp}, eof : {"noteof", "eofnext", "eofnow"}]

TypeOK ==
  /\ file \in Files \cup {NoResp}
  /\ contents \in Seq([title : Seq(Names), body : Seq(Nat)])
  /\ currentindex \in -1..Len(contents)
  /\ phase \in {"idle", "open"}
  /\ got \in Seq(Resp)
  /\ ipathResp \in Resp \cup {NoResp}

\* The info session implements the abstract session: the ipaths "0".."n-1"
\* are the index, served in order, the last flagged eofnext, then eofnow;
\* getipath never moves the cursor (InfoExtractor.getnext/extractone).  A
\* failed open leaves a stale cursor and contents that the caller never
\* reads again: the abstract session sees an empty index.
Stream == INSTANCE SubDocStream
            WITH Addr <- 0..MaxGetNext, NoPath <- NoResp,
                 index <- IF phase = "open" THEN [i \in 1..Len(contents) |-> i - 1] ELSE <<>>,
                 pos <- IF phase = "open" THEN currentindex ELSE -1,
                 served <- IF got = <<>> THEN NoResp
                           ELSE [ipath |-> Last(got).ipath, eof |-> Last(got).eof]
StreamRefinement == Stream!Spec

\* Reference for the title of node n under node_dict d: the unique Up path
\* n, d[n], ... that reaches Top within MaxHops hops, shown without Top and
\* most distant ancestor first; none when there is no such path (spec 4.4).
UpPaths(d, n) ==
  { s \in BoundedSeq(DOMAIN d \cup {Top}, MaxHops + 1) :
      /\ s # <<>> /\ s[1] = n /\ Last(s) = Top
      /\ \A j \in 1..Len(s) - 1 : s[j] # Top /\ s[j] \in DOMAIN d /\ d[s[j]] = s[j + 1] }
RefTitles(d, n) == { Reverse(Front(s)) : s \in UpPaths(d, n) }

\* After a successful open, the served nodes are exactly the scanned nodes
\* whose Up chain reaches Top within the hop bound, in output order, each
\* titled by that chain: splitinfo's while loop neither drops a resolvable
\* node, keeps a dangling or cyclic one, nor cuts a chain short.
TitlesFollowUpChain ==
  phase = "open" =>
    LET sc == Scan(file.lines)
        ok == SelectSeq([i \in 1..Len(sc.listout) |-> i],
                        LAMBDA i : RefTitles(sc.dict, sc.listout[i].name) # {})
    IN  contents = [k \in 1..Len(ok) |->
                      [title |-> CHOOSE t \in RefTitles(sc.dict, sc.listout[ok[k]].name) : TRUE,
                                          body |-> sc.listout[ok[k]].body]]

\* splitinfo's nodes tile the end of the info output: their bodies, in order,
\* are consecutive line positions up to the last line, none lost or repeated,
\* and every node but a headerless preamble starts with its header line.
NodesTileOutput ==
  phase = "open" =>
    LET lines == file.lines
        lo == Scan(lines).listout
        flat == FlattenSeq([i \in 1..Len(lo) |-> lo[i].body])
    IN  /\ flat = [j \in 1..Len(flat) |-> Len(lines) - Len(flat) + j]
        /\ \A i \in 1..Len(lo) :
             lo[i].body # <<>> /\ (lo[i].name # Unknown => lines[lo[i].body[1]].kind = "header")

\* A malformed header is a per-item defect: it never makes the open of a
\* regular file fail (spec 6, StructuralDefect); splitinfo's str(index)
\* name for a header without a Node field is at issue.
DefectNeverFailsOpen ==
  (file # NoResp /\ file.isfile) => phase = "open"

=============================================================================
