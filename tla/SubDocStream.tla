---------------------------- MODULE SubDocStream ----------------------------
(***************************************************************************)
(* What an extraction session promises the caller of the execm pull       *)
(* protocol (spec 4.5 and 8): after an open, getNext serves the synthetic  *)
(* self-document, then every address of the ContentIndex exactly once and *)
(* in order, flags the last of them "eofnext" (the self-document when the  *)
(* index is empty), and afterwards answers only "eofnow".  A random-access *)
(* fetch never moves the cursor, so it is a stuttering step here.          *)
(***************************************************************************)
EXTENDS Integers, Sequences, SequencesExt

CONSTANTS
  Addr,     \* the addresses (ipaths) a container can name
  NoPath,   \* the empty ipath of the self-document and of end-of-stream
  NoResp    \* no getNext answered since the last open

VARIABLES
  index,    \* the ContentIndex built by the last open
  pos,      \* the cursor: -1 before the self-document, else items served
  served    \* the answer to the last getNext: [ipath, eof]

vars == <<index, pos, served>>

\* An index with no address twice (the dedup at the end of every open).
IsIndex(s) == s \in Seq(Addr) /\ Len(s) = Cardinality(ToSet(s))

Init ==
  /\ index = <<>>
  /\ pos = -1
  /\ served = NoResp

Open ==
  /\ IsIndex(index')
  /\ pos' = -1
  /\ served' = NoResp

ServeSelf ==
  /\ pos = -1
  /\ pos' = 0
  /\ served' = [ipath |-> NoPath,
                eof |-> IF index = <<>> THEN "eofnext" ELSE "noteof"]
  /\ UNCHANGED index

ServeItem ==
  /\ pos \in 0..Len(index) - 1
  /\ pos' = pos + 1
  /\ served' = [ipath |-> index[pos + 1],
                eof |-> IF pos + 1 = Len(index) THEN "eofnext" ELSE "noteof"]
  /\ UNCHANGED index

ServeEnd ==
  /\ pos = Len(index)
  /\ served' = [ipath |-> NoPath, eof |-> "eofnow"]
  /\ UNCHANGED <<index, pos>>

Next == Open \/ ServeSelf \/ ServeItem \/ ServeEnd

Spec == Init /\ [][Next]_vars
=============================================================================
