----------------------------- MODULE KarEncoding -----------------------------
(***************************************************************************)
(* The karaoke text handler of src/src/filters/rclkar.py.  html_text reads *)
(* the MIDI events, gathers title, author, language and lyrics, each both  *)
(* cut at its first null byte (nulltrunc) and whole (the ...N copies),     *)
(* decides one encoding for the file (filename hint, chardet on the data   *)
(* with nulls if there were any, chardet on the cut data, the locale       *)
(* fallback) and re-encodes every field with it.                           *)
(*                                                                         *)
(* Bytes are abstracted to what the decision tells apart: whether a field  *)
(* is set, empty after the cut, and holds a null byte.  chardet and the    *)
(* stopword classifier are external: their answers are inputs.  The file   *)
(* name reaches html_text as bytes (the execm transport passes paths as   *)
(* bytes), so the hint found by the bytes regex is a bytes value.          *)
(***************************************************************************)
EXTENDS Integers, Sequences, SequencesExt, TLC

CONSTANTS
  Files,        \* the .kar files: [hint, events]
  Detections,   \* chardet's answer on non-empty data, [enc, conf, cls] or
                \* NoEnc, with what the stopword classifier would say of the
                \* same data: "missing", "raises", "nomatch" or a code
  Locales,      \* what sys.getfilesystemencoding() can return: [name, ascii]
  KnownCodecs,  \* the names codecs.lookup accepts
  NoEnc,        \* chardet's encoding None
  NoHint        \* a file name without a "(charset).ext" suffix

\* Confidences are in tenths: the code's threshold 0.6 is 6, the
\* classifier's override 1.0 is 10.
Threshold == 6

\* KarTextExtractor.acceptnullencodings (the names the model uses).
AcceptNullEncodings == {"utf-16", "utf-16le", "utf-16be", "utf-32"}

VARIABLES
  hasChardet,      \* module global has_chardet (import chardet succeeded)
  defaultencoding, \* self.defaultencoding, fixed by __init__
  encoding,        \* self.encoding, the last decision
  hadnulls,        \* self.hadnulls
  result           \* the outcome of the last html_text call

vars == <<hasChardet, defaultencoding, encoding, hadnulls, result>>

-----------------------------------------------------------------------------
\* Mutant: a locale name codecs.lookup rejects is kept.
DefaultForNoLookup(l) ==
  IF l.name = "" \/ l.ascii THEN "cp1252" ELSE l.name

\* __init__: the fallback from the file system encoding; None, empty or
\* an ascii variant becomes cp1252, as does a name codecs.lookup rejects.
DefaultFor(l) ==
  IF l.name = "" \/ l.ascii \/ l.name \notin KnownCodecs THEN "cp1252" ELSE l.name

(* Bytes: whether a value is empty and where its first null byte is:      *)
(* "none", "lead" (first byte) or "inner".                                 *)
Bytes == [empty : BOOLEAN, null : {"none", "lead", "inner"}]
NoBytes == [empty |-> TRUE, null |-> "none"]
NL == [empty |-> FALSE, null |-> "none"]

\* a + b
Cat(a, b) ==
  [empty |-> a.empty /\ b.empty,
   null |-> IF a.null # "none" THEN a.null
            ELSE IF b.null = "none" THEN "none"
            ELSE IF a.empty THEN b.null ELSE "inner"]

\* Mutant: the slice keeps the null byte (data[0:firstnull + 1]).
NullTruncKeep(data) ==
  IF data.empty \/ data.null = "none" THEN data
  ELSE [empty |-> FALSE, null |-> "inner"]

\* nulltrunc(data): data[0:firstnull]; it also sets self.hadnulls.
NullTrunc(data) ==
  IF data.empty \/ data.null = "none" THEN data
  ELSE [empty |-> data.null = "lead", null |-> "none"]
HasNull(data) == ~data.empty /\ data.null # "none"

(* The event loop, one step per event, threading the locals of html_text. *)
(* An event: kind "text" (TextMetaEvent), "lyric" (LryricsEvent), "track" *)
(* (TrackNameEvent) or "other"; form, the branch its first bytes select;  *)
(* null, where the event's payload (the data after the selecting bytes)    *)
(* holds its first null byte.  A field is None until assigned.           *)
\* Python's None, for a field not yet assigned.
None == [none |-> TRUE]

LoopInit == [title |-> None, author |-> None, language |-> None,
             titleN |-> None, authorN |-> None,
             lyrics |-> NoBytes, lyricsN |-> NoBytes,
             hadnulls |-> FALSE, nl |-> FALSE, unbound |-> FALSE]

\* The tail of the loop body: lyrics += nulltrunc(edata); lyricsN += edata.
AddEdata(st, edata) ==
  [st EXCEPT !.lyrics = Cat(@, NullTrunc(edata)),
             !.lyricsN = Cat(@, edata),
             !.hadnulls = @ \/ HasNull(edata)]

\* "@T": the first sets title, the second author, later ones are ignored.
SetTitle(st, data) ==
  IF st.title = None
  THEN [st EXCEPT !.title = NullTrunc(data), !.titleN = data,
                  !.hadnulls = @ \/ HasNull(data)]
  ELSE IF st.author = None
  THEN [st EXCEPT !.author = NullTrunc(data), !.authorN = data,
                  !.hadnulls = @ \/ HasNull(data)]
  ELSE st

EventStep(st, e) ==
  LET payload == [empty |-> FALSE, null |-> e.null] IN
  IF st.unbound THEN st
  ELSE IF e.kind = "text"
  THEN CASE e.form \in {"empty", "at1"} -> st
         [] e.form = "slash" -> AddEdata(st, Cat(NL, payload))
         [] e.form \in {"bracket", "plain"} -> AddEdata(st, payload)
         [] e.form = "atI" -> AddEdata(st, Cat(payload, NL))
         [] e.form = "atL" -> [st EXCEPT !.language = NullTrunc(payload),
                                         !.hadnulls = @ \/ HasNull(payload)]
         [] e.form = "atT" -> SetTitle(st, payload)
         [] e.form = "atother" -> AddEdata(st, NoBytes)
  ELSE IF e.kind \in {"lyric", "track"}
  THEN LET st1 == [st EXCEPT !.nl = @ \/ e.kind = "track"] IN
       CASE e.form = "empty" -> st1
         [] ~st1.nl -> [st1 EXCEPT !.unbound = TRUE]
         [] e.form = "slash" -> AddEdata(st1, Cat(Cat(NL, payload), NL))
         [] OTHER -> AddEdata(st1, Cat(payload, NL))
  ELSE AddEdata(st, NoBytes)

EventLoop(events) == FoldLeft(EventStep, LoopInit, events)

(***************************************************************************)
(* chardet_detect: chardet's answer, or NoEnc on empty data; .lower() on   *)
(* None raises; for iso-8859-2 the stopword classifier is built and may    *)
(* override with its code at confidence 1.0 when it matches.               *)
(***************************************************************************)
ChardetDetect(empty, det) ==
  LET d == IF empty THEN NoEnc ELSE det IN
  IF d = NoEnc THEN [raises |-> TRUE, enc |-> "", conf |-> 0]
  ELSE IF d.enc = "iso-8859-2" /\ d.cls \notin {"missing", "raises", "nomatch"}
  THEN [raises |-> FALSE, enc |-> d.cls, conf |-> 10]
  ELSE [raises |-> FALSE, enc |-> d.enc, conf |-> d.conf]

\* codecs.lookup(name) succeeds for the str name of a known codec; given
\* a bytes value it raises TypeError.
CodecsLookup(v) == v.type = "str" /\ v.name \in KnownCodecs

\* encodingfromfilename + the lookup in html_text: the hint is the bytes
\* group of a bytes regex; when the lookup raises, the bare except clears it.
HintEncoding(f) ==
  IF f.hint = NoHint THEN ""
  ELSE IF CodecsLookup([type |-> "bytes", name |-> f.hint]) THEN f.hint ELSE ""

\* reencode(data): empty data is returned as is; decode(encoding, "ignore")
\* with a name Python does not know raises LookupError and gives "".
Blanked(data, enc) == ~data.empty /\ enc \notin KnownCodecs

\* A field handed to reencode: None becomes "".
Field(v) == IF v = None THEN NoBytes ELSE v

(***************************************************************************)
(* html_text(filename), whole.  d1 is the detection on the data with      *)
(* nulls, d2 on the cut data.                                              *)
(* An exception (an unbound local, .lower() on None) ends the call.        *)
(***************************************************************************)
HtmlText(f, d1, d2) ==
  LET ev == EventLoop(f.events)
      hint == HintEncoding(f)
      detect == hint = "" /\ hasChardet
      try1 == detect /\ ev.hadnulls
      r1 == ChardetDetect(ev.lyricsN.empty, d1)
      take1 == try1 /\ ~r1.raises /\ r1.conf > Threshold /\ r1.enc \in AcceptNullEncodings
      try2 == detect /\ ~take1 /\ ~(try1 /\ r1.raises)
      r2 == ChardetDetect(ev.lyrics.empty, d2)
      take2 == try2 /\ ~r2.raises /\ r2.conf > Threshold
      enc == CASE hint # "" -> hint
                [] take1 -> r1.enc
                [] take2 -> r2.enc
                [] OTHER -> defaultencoding
      raisesNone == (try1 /\ r1.raises) \/ (try2 /\ r2.raises)
      raisesN == take1 /\ (ev.titleN = None \/ ev.authorN = None)
      fields == { Field(IF take1 THEN ev.titleN ELSE ev.title),
                  Field(IF take1 THEN ev.authorN ELSE ev.author),
                  IF take1 THEN ev.lyricsN ELSE ev.lyrics,
                  Field(ev.language) }
  IN  /\ hadnulls' = ev.hadnulls
      /\ encoding' = IF ev.unbound \/ raisesNone THEN hint
                     ELSE IF raisesN THEN r1.enc ELSE enc
      /\ result' =
           CASE ev.unbound -> [status |-> "unbound", line |-> 262, hint |-> f.hint]
             [] raisesNone -> [status |-> "nonedetect", line |-> 180, hint |-> f.hint]
             [] raisesN -> [status |-> "unbound",
                            line |-> IF ev.titleN = None THEN 284 ELSE 285, hint |-> f.hint]
             [] OTHER -> [status |-> "ok", hint |-> f.hint, encoding |-> enc,
                          source |-> CASE hint # "" -> "hint"
                                       [] take1 -> "withnulls"
                                       [] take2 -> "cut"
                                       [] OTHER -> "fallback",
                          nulls |-> \E v \in fields : HasNull(v),
                          hasTitle |-> ~Field(IF take1 THEN ev.titleN ELSE ev.title).empty,
                          hasLyrics |-> ~(IF take1 THEN ev.lyricsN ELSE ev.lyrics).empty,
                          blanked |-> \E v \in fields : Blanked(v, enc)]
      /\ UNCHANGED <<hasChardet, defaultencoding>>

Init ==
  /\ hasChardet \in BOOLEAN
  /\ defaultencoding \in {DefaultFor(l) : l \in Locales}
  /\ encoding = ""
  /\ hadnulls = FALSE
  /\ result = [status |-> "none", hint |-> NoHint]

\* chardet's answer matters only where html_text calls it: on the data
\* with nulls when there were nulls, on non-empty data.
Next ==
  \E f \in Files :
    LET ev == EventLoop(f.events) IN
    \E d1 \in IF ev.hadnulls /\ ~ev.lyricsN.empty THEN Detections ELSE {NoEnc},
      d2 \in IF ev.lyrics.empty THEN {NoEnc} ELSE Detections :
        HtmlText(f, d1, d2)

Spec == Init /\ [][Next]_vars

-----------------------------------------------------------------------------
(* Properties.                                                             *)

TypeOK ==
  /\ hasChardet \in BOOLEAN
  /\ defaultencoding \in KnownCodecs
  /\ hadnulls \in BOOLEAN
  /\ result.status \in {"none", "ok", "unbound", "nonedetect"}

\* A field handed to reencode holds a null byte only when the decided
\* encoding is a UTF-16/32 one: nulltrunc cuts every field of an 8-bit
\* decision, and html_text switches to the lyricsN/titleN/authorN copies
\* only together with a wide encoding (the null-byte branch of html_text).
NullsOnlyForWideEncodings ==
  result.status = "ok" /\ result.nulls => result.encoding \in AcceptNullEncodings

\* A charset named in the file name, "title (charset).kar", and known to
\* Python is the encoding used (spec 4.1 step 1 and spec 8, filename-hint
\* override); encodingfromfilename and the lookup in html_text are at issue.
FilenameHintOverrides ==
  result.status = "ok" /\ result.hint \in KnownCodecs => result.encoding = result.hint

\* html_text returns a document for every file the MIDI parser reads: a
\* failed detection falls back to the locale encoding (spec 4.1 step 5)
\* and no local is read before it is assigned.  At issue: chardet_detect's
\* encoding.lower() on chardet's None, nl (bound only by a track name
\* event) and titleN/authorN (bound only by "@T" events).
HtmlTextReturns ==
  result.status \in {"none", "ok"}
=============================================================================
