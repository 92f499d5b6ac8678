---------------------------- MODULE MCInfoSession ----------------------------
(***************************************************************************)
(* Finite instances of InfoSession: node names Top, n1, n2, n3 and info    *)
(* outputs built from chunks, a chunk being a header line                  *)
(* with the blank line that ends it, a text line or a blank line.  The     *)
(* headers give a chain n3 -> n2 -> n1 -> Top (three hops), a second n1    *)
(* whose Up is n2 (a duplicate, and with n2 -> n1 a cycle), a Top node, a  *)
(* header without Node field and a header that does not parse.             *)
(***************************************************************************)
EXTENDS InfoSession

CONSTANTS n1, n2, n3

Hdr(n, u) == [kind |-> "header", node |-> n, up |-> u, bad |-> FALSE]
Blank == [kind |-> "blank", node |-> NoName, up |-> NoName, bad |-> FALSE]
Text == [kind |-> "text", node |-> NoName, up |-> NoName, bad |-> FALSE]
BadHdr == [kind |-> "header", node |-> n2, up |-> n1, bad |-> TRUE]

Headers == { Hdr(Top, NoName), Hdr(n1, NoName), Hdr(n2, n1), Hdr(n3, n2),
             Hdr(n1, n2), Hdr(NoName, Top), BadHdr }
Chunks == { <<hd, Blank>> : hd \in Headers } \cup { <<Text>>, <<Blank>> }

\* Every output of at most two chunks, and every output of three chunks
\* that are Node headers, a bad header or text (the three-hop chain,
\* cycles, duplicates, headers that do not follow a blank line).
ChainChunks == { <<hd, Blank>> : hd \in { Hdr(n1, NoName), Hdr(n2, n1), Hdr(n3, n2), Hdr(n1, n2), BadHdr } }
               \cup { <<Text>> }
Outputs == { FlattenSeq(cs) : cs \in BoundedSeq(Chunks, 2) }
           \cup { FlattenSeq(<<a, b, c>>) : a, b, c \in ChainChunks }

MCNames == {Top, n1, n2, n3}
MCFiles == { [isfile |-> TRUE, spawns |-> TRUE, lines |-> o] : o \in Outputs }
           \cup { [isfile |-> FALSE, spawns |-> TRUE, lines |-> <<>>],
                  [isfile |-> TRUE, spawns |-> FALSE, lines |-> <<>>] }
=============================================================================
