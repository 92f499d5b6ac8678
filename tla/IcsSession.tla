----------------------------- MODULE IcsSession -----------------------------
(***************************************************************************)
(* The calendar session of src/src/filters/rclics.py.  usemodule is fixed  *)
(* to "internal", so openfile always uses ICalSimpleSplitter.splitcalendar: *)
(* a scan that cuts the file into one document per interesting object      *)
(* (VTODO, VEVENT, VJOURNAL) from its BEGIN line to the first END line of  *)
(* the same name, the text of nested objects staying in the outer one.     *)
(* getnext serves the self-document and the objects, ipath str(index);     *)
(* getipath serves one object by index.                                    *)
(*                                                                         *)
(* A line is abstracted to its kind: blank (empty once rstripped), one     *)
(* without ':' (a folded continuation), BEGIN:x or END:x for a component   *)
(* name x (compared upper-cased, so case is left out), or any other       *)
(* property line.  A document is the sequence of the positions of its     *)
(* lines.                                                                  *)
(***************************************************************************)
EXTENDS Integers, Sequences, SequencesExt, FiniteSetsExt, TLC

CONSTANTS
  Files,      \* the files the caller may open: [opens, lines]
  NoPath,     \* the empty ipath b""
  BadPath,    \* an ipath that int() rejects
  NoResp,     \* no answer yet / the empty ipath of an answer
  MaxGetNext  \* bound on getnext calls per open

Components == {"VCALENDAR", "VEVENT", "VTODO", "VJOURNAL", "VALARM"}
Line == [kind : {"blank", "nocolon", "begin", "end", "prop"}, comp : Components]

\* ICalSimpleSplitter.interesting
Interesting == {"VTODO", "VEVENT", "VJOURNAL"}

VARIABLES
  file,         \* self.file, the last file given to openfile
  contents,     \* self.contents: one sequence of line positions per object
  currentindex, \* self.currentindex
  phase,        \* caller: "idle" (no file open) or "open"
  got,          \* caller: the answers of getnext since the last open
  ipathResp     \* caller: the answer to the last getipath

vars == <<file, contents, currentindex, phase, got, ipathResp>>

-----------------------------------------------------------------------------
(* splitcalendar: one step per line.  curblkname is "" outside a block.    *)
(* Inside a block every non-blank line is kept, before the ':' test; an    *)
(* interesting BEGIN outside a block starts one; an END of the block's own *)
(* name closes it.                                                         *)
ScanLine(st, i, ln) ==
  IF ln.kind = "blank" THEN st
  ELSE LET blk1 == IF st.name # "" THEN Append(st.blk, i) ELSE st.blk
           start == st.name = "" /\ ln.kind = "begin" /\ ln.comp \in Interesting
           name1 == IF start THEN ln.comp ELSE st.name
           blk2 == IF start THEN Append(blk1, i) ELSE blk1
       IN  IF ln.kind = "nocolon" THEN [st EXCEPT !.blk = blk1]
           ELSE IF name1 # "" /\ ln.kind = "end" /\ ln.comp = name1
           THEN [name |-> "", blk |-> <<>>, lo |-> Append(st.lo, blk2)]
           ELSE [name |-> name1, blk |-> blk2, lo |-> st.lo]

\* Mutant: an unterminated last block is not emitted.
SplitCalendarDropTail(lines) ==
  FoldLeft(LAMBDA s, i : ScanLine(s, i, lines[i]),
           [name |-> "", blk |-> <<>>, lo |-> <<>>], [i \in 1..Len(lines) |-> i]).lo

\* The whole scan, with the unterminated last block added.
SplitCalendar(lines) ==
  LET st == FoldLeft(LAMBDA s, i : ScanLine(s, i, lines[i]),
                     [name |-> "", blk |-> <<>>, lo |-> <<>>], [i \in 1..Len(lines) |-> i])
  IN  IF st.blk # <<>> THEN Append(st.lo, st.blk) ELSE st.lo

\* Mutant: the last object flagged only once the cursor has passed it.
ExtractOneEofLate(index) ==
  IF index >= Len(contents)
  THEN [ok |-> FALSE, ipath |-> NoResp, eof |-> "eofnext"]
  ELSE [ok |-> TRUE, ipath |-> index,
        eof |-> IF currentindex >= Len(contents) THEN "eofnext" ELSE "noteof"]

\* extractone(index): ipath str(index); eof from the cursor.
\* (False, "", "", True) is read as eofnext, True being 1 in Python.
ExtractOne(index) ==
  IF index >= Len(contents)
  THEN [ok |-> FALSE, ipath |-> NoResp, eof |-> "eofnext"]
  ELSE [ok |-> TRUE, ipath |-> index,
        eof |-> IF currentindex >= Len(contents) - 1 THEN "eofnext" ELSE "noteof"]

-----------------------------------------------------------------------------
(* Handlers and the caller (rclexecm.py, not in this repository).          *)

\* openfile(): open() raising -> False, with cursor and contents left as
\* they were; else reset the cursor and split.
OpenFile(f) ==
  /\ file' = f
  /\ got' = <<>>
  /\ ipathResp' = NoResp
  /\ IF f.opens
     THEN /\ phase' = "open"
          /\ currentindex' = -1
          /\ contents' = SplitCalendar(f.lines)
     ELSE /\ phase' = "idle"
          /\ UNCHANGED <<contents, currentindex>>

\* getnext(): the self-document.
GetNextSelf ==
  /\ currentindex = -1
  /\ currentindex' = 0
  /\ got' = Append(got, [ok |-> TRUE, ipath |-> NoResp,
                         eof |-> IF contents = <<>> THEN "eofnext" ELSE "noteof"])

\* Mutant: the cursor moves on past the end.
GetNextEndAdvance ==
  /\ currentindex >= Len(contents)
  /\ got' = Append(got, [ok |-> FALSE, ipath |-> NoResp, eof |-> "eofnow"])
  /\ currentindex' = currentindex + 1

\* getnext(): past the end ("EOF hit").
GetNextEnd ==
  /\ currentindex >= Len(contents)
  /\ got' = Append(got, [ok |-> FALSE, ipath |-> NoResp, eof |-> "eofnow"])
  /\ UNCHANGED currentindex

\* getnext(): the object at the cursor.
GetNextItem ==
  /\ currentindex \in 0..Len(contents) - 1
  /\ got' = Append(got, ExtractOne(currentindex))
  /\ currentindex' = currentindex + 1

GetNext ==
  /\ phase = "open"
  /\ got # <<>> => Last(got).eof # "eofnow"
  /\ Len(got) < MaxGetNext
  /\ \/ GetNextSelf \/ GetNextEnd \/ GetNextItem
  /\ UNCHANGED <<file, contents, phase, ipathResp>>

\* getipath(): the empty ipath means index 0; int() failing gives
\* (False, "", "", True).
GetIpath(ip) ==
  /\ phase = "open"
  /\ ipathResp' = CASE ip = BadPath -> [ok |-> FALSE, ipath |-> NoResp, eof |-> "eofnext"]
                    [] ip = NoPath -> ExtractOne(0)
                    [] OTHER -> ExtractOne(ip)
  /\ UNCHANGED <<file, contents, currentindex, phase, got>>

Init ==
  /\ file = NoResp
  /\ contents = <<>>
  /\ currentindex = -1
  /\ phase = "idle"
  /\ got = <<>>
  /\ ipathResp = NoResp

Next ==
  \/ \E f \in Files : OpenFile(f)
  \/ GetNext
  \/ \E ip \in {NoPath, BadPath} \cup (0..Len(contents)) : GetIpath(ip)

Spec == Init /\ [][Next]_vars

-----------------------------------------------------------------------------
(* Properties.                                                             *)

Resp == [ok : BOOLEAN, ipath : Nat \cup {NoResp}, eof : {"noteof", "eofnext", "eofnow"}]

TypeOK ==
  /\ file \in Files \cup {NoResp}
  /\ contents \in Seq(Seq(Nat))
  /\ currentindex \in -1..Len(contents)
  /\ phase \in {"idle", "open"}
  /\ got \in Seq(Resp)
  /\ ipathResp \in Resp \cup {NoResp}

\* The calendar session implements the abstract session: the ipaths
\* "0".."n-1" are served in order, the last flagged eofnext, then eofnow;
\* getipath never moves the cursor (IcalExtractor.getnext/extractone).  A
\* failed open leaves a stale cursor and contents that the caller never
\* reads again: the abstract session sees an empty index.
Stream == INSTANCE SubDocStream
            WITH Addr <- 0..MaxGetNext, NoPath <- NoResp,
                 index <- IF phase = "open" THEN [i \in 1..Len(contents) |-> i - 1] ELSE <<>>,
                 pos <- IF phase = "open" THEN currentindex ELSE -1,
                 served <- IF got = <<>> THEN NoResp
                           ELSE [ipath |-> Last(got).ipath, eof |-> Last(got).eof]
StreamRefinement == Stream!Spec

(***************************************************************************)
(* Reference: the component structure of a calendar.  A stack of open      *)
(* components is pushed by BEGIN and popped by the END of the innermost    *)
(* one; an END of another name is text.  A top-level interesting component *)
(* is one opened while no interesting component is open; it runs to the    *)
(* END that closes it, or to the end of the file.                          *)
(***************************************************************************)
StepStack(s, ln) ==
  CASE ln.kind = "begin" -> Append(s, ln.comp)
    [] ln.kind = "end" /\ s # <<>> /\ Last(s) = ln.comp -> Front(s)
    [] OTHER -> s

RECURSIVE StackAfter(_, _)
StackAfter(lines, k) == IF k = 0 THEN <<>> ELSE StepStack(StackAfter(lines, k - 1), lines[k])

TopLevelComponents(lines) ==
  LET starts == { i \in 1..Len(lines) :
                    /\ lines[i].kind = "begin" /\ lines[i].comp \in Interesting
                    /\ ToSet(StackAfter(lines, i - 1)) \cap Interesting = {} }
      closers(i) == { j \in i + 1..Len(lines) :
                        lines[j].kind = "end" /\ lines[j].comp = lines[i].comp
                        /\ StackAfter(lines, j - 1) = StackAfter(lines, i) }
      endOf(i) == IF closers(i) = {} THEN Len(lines) ELSE Min(closers(i))
      comp(i) == SelectSeq([k \in 1..endOf(i) - i + 1 |-> i + k - 1],
                           LAMBDA k : lines[k].kind # "blank")
  IN  [k \in 1..Cardinality(starts) |-> comp(SetToSortSeq(starts, <)[k])]

\* After an open, the documents are exactly the top-level VEVENT, VTODO
\* and VJOURNAL objects of the calendar, in file order, each with all its
\* non-blank lines, nested objects included, and an unterminated last
\* object kept (ICalSimpleSplitter.splitcalendar and the comment on it).
ExtractsTopLevelComponents ==
  phase = "open" => contents = TopLevelComponents(file.lines)
=============================================================================
