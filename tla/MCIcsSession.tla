----------------------------- MODULE MCIcsSession -----------------------------
(***************************************************************************)
(* Finite instances of IcsSession: calendars made of a VCALENDAR wrapper   *)
(* (closed, or cut off before its END) around up to two objects drawn      *)
(* from shapes that exercise every branch of splitcalendar, and possibly   *)
(* an unterminated last event.                                             *)
(***************************************************************************)
EXTENDS IcsSession

B(c) == [kind |-> "begin", comp |-> c]
E(c) == [kind |-> "end", comp |-> c]
Prop == [kind |-> "prop", comp |-> "VCALENDAR"]
Blank == [kind |-> "blank", comp |-> "VCALENDAR"]
Cont == [kind |-> "nocolon", comp |-> "VCALENDAR"]

\* An event; an event with an alarm; a todo holding an event; a journal
\* with a blank and a folded line; an event holding a stray END:VTODO;
\* a property or folded line outside any object.
Objects ==
  { <<B("VEVENT"), Prop, E("VEVENT")>>,
    <<B("VEVENT"), B("VALARM"), Prop, E("VALARM"), E("VEVENT")>>,
    <<B("VTODO"), B("VEVENT"), E("VEVENT"), E("VTODO")>>,
    <<B("VJOURNAL"), Blank, Cont, E("VJOURNAL")>>,
    <<B("VEVENT"), E("VTODO"), E("VEVENT")>>,
    <<Prop, Cont>> }

\* An event nested in an event, not allowed by iCalendar but met in files.
NestedSame == <<B("VEVENT"), B("VEVENT"), E("VEVENT"), Prop, E("VEVENT")>>

\* Up to two objects, then possibly an event the file never closes, then
\* END:VCALENDAR or nothing.
Calendars(objs) ==
  { <<B("VCALENDAR")>> \o FlattenSeq(os) \o open \o tail :
      os \in BoundedSeq(objs, 2), open \in {<<>>, <<B("VEVENT"), Prop>>},
      tail \in {<<E("VCALENDAR")>>, <<>>} }

OpenFiles(objs) == { [opens |-> TRUE, lines |-> l] : l \in Calendars(objs) }
                   \cup { [opens |-> FALSE, lines |-> <<>>] }

WellNestedFiles == OpenFiles(Objects)
NestedFiles == OpenFiles({NestedSame, <<B("VTODO"), Prop, E("VTODO")>>})
==============================================================================
