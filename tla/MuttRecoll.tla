----------------------------- MODULE MuttRecoll -----------------------------
(***************************************************************************)
(* src/src/python/samples/mutt-recoll.py: a mutt macro runs it to turn a  *)
(* recoll query into a maildir of symlinks (dest_box/cur) that mutt then  *)
(* opens.  main empties the results maildir, asks recoll for the URLs of  *)
(* the matching documents, reads every file to take its sha1, keeps one   *)
(* file per digest (in Gmail mode the "All Mail" copy when there are      *)
(* several) and symlinks each kept file under its base name.              *)
(*                                                                         *)
(* The script imports commands and calls raw_input, so only Python 2 can *)
(* run it; the model follows Python 2.  Each loop iteration is a step,   *)
(* because the mail store is not the script's: a sync tool or mutt        *)
(* renames a maildir file when its flags change, and recollindex takes a  *)
(* new snapshot of the store only when it runs.  A path is a folder and   *)
(* a base name; a base name is the maildir unique part and the flags.    *)
(* A file's bytes are what sha1 tells apart: a member of Contents.        *)
(***************************************************************************)
EXTENDS Integers, Sequences, SequencesExt, FiniteSets

CONSTANTS
  Folders,     \* the maildir folders of the mail store
  AllMail,     \* the folder whose path holds "All Mail"
  Uniqs,       \* maildir unique names
  Flags,       \* the info suffixes a file name can carry (":2,", ":2,S")
  Contents,    \* message bytes, as sha1 tells them apart
  NoMsg,       \* no file at a path
  NoPick,      \* pick_all_mail's None
  InitStores,  \* the mail stores a session may start from
  MaxResults,  \* bound on the URLs of one recoll answer
  MaxRenames   \* bound on the renames of the mail store

ASSUME AllMail \in Folders /\ NoMsg \notin Contents

Names == [uniq : Uniqs, flags : Flags]
Paths == [folder : Folders, name : Names]
Store == [Paths -> Contents \cup {NoMsg}]
\* A symlink of the results maildir; sha is the digest the script took of
\* its target (kept for the properties, not on disk).
Link == [name : Names, target : Paths, sha : Contents]
Pick == [m : Paths \cup {NoPick}, sha : Contents]

VARIABLES
  store,     \* the mail store now
  index,     \* the store as recollindex last saw it
  renames,   \* renames so far (bounded)
  phase,     \* "idle", "digest" (the loop over files), "link" (over messages)
  outcome,   \* how the last run ended: "none", "done", "crashed"
  gmail,     \* is_gmail of the run
  query,     \* the paths recoll answered, in its order
  files,     \* the answer lines the digest loop has still to read
  data,      \* defaultdict(list): digest -> the paths read with it
  messages,  \* the picks the link loop has still to take
  results,   \* the symlinks in dest_box/cur
  kept       \* history: the links the last empty_dir left behind

vars == <<store, index, renames, phase, outcome, gmail, query, files, data,
          messages, results, kept>>

-----------------------------------------------------------------------------
\* The option parser: -g (the default) or -G.
GmailModes == {TRUE, FALSE}

\* recoll -t -b -q: one file:// URL per matching document, in the index's
\* view; a message and its attachment are two results with one URL.
\* f[7:] strips "file://" and the empty line after the last URL is skipped.
Answers ==
  LET indexed == {p \in Paths : index[p] # NoMsg}
  IN  {s \in BoundedSeq(indexed, MaxResults) :
         \A p \in indexed : Cardinality({i \in DOMAIN s : s[i] = p}) <= 2}

\* digest(filename): open raises IOError when no file is at the path.
Readable(p) == store[p] # NoMsg
Digest(p) == store[p]

\* pick_all_mail: the first path with "All Mail" in it, else None.
PickAllMail(ps) ==
  LET am == {i \in DOMAIN ps : ps[i].folder = AllMail}
  IN  IF am = {} THEN NoPick ELSE ps[Min(am)]

\* Mutant: Gmail mode looks for the All Mail copy even of a lone path.
PickOfAlways(d, g, c) ==
  IF g /\ Len(d[c]) > 0 THEN PickAllMail(d[c]) ELSE d[c][1]

\* The pick for one digest: the All Mail copy in Gmail mode when the
\* digest was read more than once, else the first path read with it.
PickOf(d, g, c) ==
  IF g /\ Len(d[c]) > 1 THEN PickAllMail(d[c]) ELSE d[c][1]

\* Mutant: every path read is kept, not one per digest.
PicksEvery(d, g) == UNION {{[m |-> p, sha |-> c] : p \in Range(d[c])} : c \in Contents}

\* The loop over data: one pick per digest read.
Picks(d, g) ==
  {[m |-> PickOf(d, g, c), sha |-> c] : c \in {c \in Contents : d[c] # <<>>}}

\* Maildir(dest_box).clear() removes every key of the mailbox, and
\* Maildir._refresh keys cur and new by the unique part of the file name
\* (entry.split(':')[0]), the last entry os.listdir gives winning: of the
\* links that share a unique part, one (any) is removed and the others
\* stay.  A dangling link is not a directory, so it is a key too.
EmptyDir(r) ==
  LET U == {l.name.uniq : l \in r}
      Removals == {ch \in [U -> r] : \A u \in U : ch[u].name.uniq = u}
  IN  {r \ Range(ch) : ch \in Removals}

\* os.path.exists(target) follows the symlink: a link whose target was
\* renamed away does not exist, although its name is taken.
Exists(n) == \E l \in results : l.name = n /\ store[l.target] # NoMsg
Dangling(n) == \E l \in results : l.name = n /\ store[l.target] = NoMsg
SymlinkRaises(m) == m # NoPick /\ ~Exists(m.name) /\ Dangling(m.name)

-----------------------------------------------------------------------------
Init ==
  /\ store \in InitStores
  /\ index = store
  /\ renames = 0
  /\ phase = "idle"
  /\ outcome = "none"
  /\ gmail = TRUE
  /\ query = <<>>
  /\ files = <<>>
  /\ data = [c \in Contents |-> <<>>]
  /\ messages = {}
  /\ results = {}
  /\ kept = {}

\* Mutant: the digest table outlives the run (a missing reset).
StartKeepsData(g, ans) ==
  /\ phase = "idle"
  /\ phase' = "digest"
  /\ gmail' = g
  /\ results' \in EmptyDir(results)
  /\ kept' = results'
  /\ query' = ans
  /\ files' = ans
  /\ messages' = {}
  /\ UNCHANGED <<store, index, renames, outcome, data>>

\* main up to the digest loop: the query, the mkdirs, empty_dir and the
\* recoll command.
Start(g, ans) ==
  /\ phase = "idle"
  /\ phase' = "digest"
  /\ gmail' = g
  /\ results' \in EmptyDir(results)
  /\ kept' = results'
  /\ query' = ans
  /\ files' = ans
  /\ data' = [c \in Contents |-> <<>>]
  /\ messages' = {}
  /\ UNCHANGED <<store, index, renames, outcome>>

\* One iteration of "for f in files": a missing file is reported and
\* skipped, a readable one is filed under its digest.
DigestFile ==
  /\ phase = "digest"
  /\ files # <<>>
  /\ LET p == Head(files) IN
       data' = IF Readable(p) THEN [data EXCEPT ![Digest(p)] = Append(@, p)] ELSE data
  /\ files' = Tail(files)
  /\ UNCHANGED <<store, index, renames, phase, outcome, gmail, query, messages, results, kept>>

\* The loop over data, once every line is read.
PickMessages ==
  /\ phase = "digest"
  /\ files = <<>>
  /\ messages' = Picks(data, gmail)
  /\ phase' = IF messages' = {} THEN "idle" ELSE "link"
  /\ outcome' = IF messages' = {} THEN "done" ELSE outcome
  /\ UNCHANGED <<store, index, renames, gmail, query, files, data, results, kept>>

\* One iteration of "for m in messages" (dict order: any): None is
\* skipped, an existing target is left alone, and os.symlink raises
\* OSError, which nothing catches, when the name is held by a dangling link.
LinkMessage(k) ==
  /\ phase = "link"
  /\ \/ /\ SymlinkRaises(k.m)
        /\ messages' = {}
        /\ phase' = "idle"
        /\ outcome' = "crashed"
        /\ UNCHANGED results
     \/ /\ ~SymlinkRaises(k.m)
        /\ messages' = messages \ {k}
        /\ results' = IF k.m = NoPick \/ Exists(k.m.name) THEN results
                      ELSE results \cup {[name |-> k.m.name, target |-> k.m, sha |-> k.sha]}
        /\ phase' = IF messages' = {} THEN "idle" ELSE "link"
        /\ outcome' = IF messages' = {} THEN "done" ELSE outcome
  /\ UNCHANGED <<store, index, renames, gmail, query, files, data, kept>>

(* The world around the script.                                           *)
\* A flag change renames a maildir file: same folder and unique part.
Rename(p, f) ==
  LET q == [p EXCEPT !.name.flags = f] IN
  /\ renames < MaxRenames
  /\ store[p] # NoMsg
  /\ q # p
  /\ store[q] = NoMsg
  /\ store' = [store EXCEPT ![p] = NoMsg, ![q] = store[p]]
  /\ renames' = renames + 1
  /\ UNCHANGED <<index, phase, outcome, gmail, query, files, data, messages, results, kept>>

\* recollindex brings the index up to date with the store.
Reindex ==
  /\ index # store
  /\ index' = store
  /\ UNCHANGED <<store, renames, phase, outcome, gmail, query, files, data, messages, results, kept>>

Next ==
  \/ \E g \in GmailModes, ans \in Answers : Start(g, ans)
  \/ DigestFile
  \/ PickMessages
  \/ \E k \in messages : LinkMessage(k)
  \/ \E p \in Paths, f \in Flags : Rename(p, f)
  \/ Reindex

Spec == Init /\ [][Next]_vars

-----------------------------------------------------------------------------
(* Properties.                                                             *)

TypeOK ==
  /\ store \in Store /\ index \in Store
  /\ renames \in 0..MaxRenames
  /\ phase \in {"idle", "digest", "link"}
  /\ outcome \in {"none", "done", "crashed"}
  /\ gmail \in BOOLEAN
  /\ query \in Seq(Paths) /\ files \in Seq(Paths)
  /\ data \in [Contents -> Seq(Paths)]
  /\ \A c \in Contents : Range(data[c]) \subseteq Range(query)
  /\ messages \subseteq Pick
  /\ results \subseteq Link
  /\ kept \subseteq results

\* The links a run makes are its query's answer with duplicates folded: each
\* points to a path the run read with the link's digest, and no two hold
\* the same message.  At issue: the digest loop, the one-pick-per-digest
\* loop and the os.path.exists test against links made earlier in the run.
\* The links empty_dir leaves behind (kept) are outside the claim: they
\* belong to an earlier query (mutt-recoll.py:45).
OneLinkPerMessage ==
  /\ \A l \in results \ kept : l.target \in Range(data[l.sha])
  /\ \A l1, l2 \in results \ kept : l1.sha = l2.sha => l1 = l2

\* After a run that ends normally, a message the script read is missing
\* from the results only when Gmail mode read it more than once and never
\* under "All Mail" (pick_all_mail's None), or when another message
\* already holds its base name.
LossesExplained ==
  phase = "idle" /\ outcome = "done" =>
    \A c \in {c \in Contents : data[c] # <<>>} :
      \/ \E l \in results : l.sha = c
      \/ gmail /\ Len(data[c]) > 1 /\ \A i \in DOMAIN data[c] : data[c][i].folder # AllMail
      \/ LET m == PickOf(data, gmail, c)
         IN  m # NoPick /\ \E l \in results : l.sha # c /\ l.name = m.name
=============================================================================
