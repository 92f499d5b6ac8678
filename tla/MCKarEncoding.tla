---------------------------- MODULE MCKarEncoding ----------------------------
(***************************************************************************)
(* Finite instances of KarEncoding: .kar files of one MIDI event or two,   *)
(* with or without a charset in the file name, chardet answers around the  *)
(* 0.6 threshold, for a wide, an 8-bit, an iso-8859-2 (with and without a  *)
(* classifier match) and a Python-unknown charset, and locales that take   *)
(* each branch of __init__.                                                *)
(***************************************************************************)
EXTENDS KarEncoding

Ev(kind, form, null) == [kind |-> kind, form |-> form, null |-> null]

\* Every branch of the event loop, with nulls where they change the cut.
Events ==
  { Ev("track", "plain", "none"), Ev("track", "plain", "inner"), Ev("track", "empty", "none"),
    Ev("lyric", "plain", "none"), Ev("lyric", "plain", "lead"), Ev("lyric", "slash", "lead"),
    Ev("lyric", "empty", "none"),
    Ev("text", "atT", "none"), Ev("text", "atT", "lead"), Ev("text", "atT", "inner"),
    Ev("text", "atL", "inner"), Ev("text", "plain", "lead"), Ev("text", "slash", "none"),
    Ev("text", "bracket", "inner"), Ev("text", "atI", "none"), Ev("text", "at1", "none"),
    Ev("text", "empty", "none"), Ev("text", "atother", "none"), Ev("other", "empty", "none") }

\* Event streams that start with a track name (nl bound).
TrackFirst == { <<Ev("track", "plain", "none")>> \o es : es \in BoundedSeq(Events, 1) }

MCFiles(streams, hints) == { [hint |-> h, events |-> es] : h \in hints, es \in streams }

D(enc, conf, cls) == [enc |-> enc, conf |-> conf, cls |-> cls]
MCDetections ==
  { NoEnc, D("utf-16le", 9, "nomatch"), D("utf-16le", 6, "nomatch"),
    D("iso-8859-2", 5, "cp1252"), D("iso-8859-2", 9, "nomatch"),
    D("iso-8859-2", 9, "missing"), D("windows-1252", 9, "nomatch"),
    D("euc-tw", 9, "nomatch") }
\* Detections that always name a charset Python knows.
KnownDetections == { d \in MCDetections : d = NoEnc \/ d.enc # "euc-tw" }

MCLocales ==
  { [name |-> "utf-8", ascii |-> FALSE], [name |-> "ascii", ascii |-> TRUE],
    [name |-> "x-unknown", ascii |-> FALSE], [name |-> "", ascii |-> FALSE] }

MCKnownCodecs ==
  { "utf-8", "ascii", "cp1252", "iso-8859-2", "windows-1252", "koi8-r",
    "utf-16", "utf-16le", "utf-16be", "utf-32" }

\* Events that pair up into the interesting two-event streams: null copies
\* of titles and lyrics, lyrics before or after a track name.
PairEvents ==
  { Ev("track", "plain", "none"), Ev("track", "plain", "inner"),
    Ev("lyric", "plain", "none"), Ev("lyric", "plain", "lead"),
    Ev("text", "atT", "none"), Ev("text", "atT", "inner"),
    Ev("text", "plain", "lead"), Ev("text", "bracket", "inner") }

Streams == BoundedSeq(Events, 1) \cup { <<a, b>> : a, b \in PairEvents }

AllFiles == MCFiles(Streams, {NoHint}) \cup MCFiles(BoundedSeq(PairEvents, 1), {"koi8-r"})
HintFiles == MCFiles(TrackFirst, {"koi8-r"})
TrackFirstFiles == MCFiles(TrackFirst, {NoHint})
=============================================================================
