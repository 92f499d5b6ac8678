---------------------------- MODULE MCMuttRecoll ----------------------------
(***************************************************************************)
(* A Gmail-style mail store for MuttRecoll: one message filed in INBOX and *)
(* under All Mail (two maildir files, one content), another message in     *)
(* INBOX whose base name is the one of the All Mail copy, and recoll       *)
(* answers of up to three URLs, a URL twice for a message whose attachment *)
(* also matched.  Two flag changes let the store move away from the index  *)
(* and from links already made.                                            *)
(***************************************************************************)
EXTENDS MuttRecoll

P(folder, uniq, flags) == [folder |-> folder, name |-> [uniq |-> uniq, flags |-> flags]]

MCInitStores ==
  { [p \in Paths |->
       CASE p = P("INBOX", "u1", "") -> "c1"
         [] p = P("AllMail", "u2", "") -> "c1"
         [] p = P("INBOX", "u2", "") -> "c2"
         [] OTHER -> NoMsg] }
=============================================================================
