# TLA+ models of Recoll's compound-document filters

This directory holds TLA+ models of the Python "execm" filters in
`src/src/filters/`. Each filter turns one container file (CHM help file, GNU
info file, ICS calendar, EPUB, zip/tar/rar/war archive) into a stream of
sub-documents. The caller is the Recoll indexer, through the line protocol
in `rclexecm.py`, which is not in this repository. One sample script of the
Python query API, `src/src/python/samples/mutt-recoll.py`, is modelled too:
it is the one place where Recoll's output meets a store that other programs
change while it runs. The models are checked with TLC.

## 1. Inventory

### Components and their state

| Component | Source | State it keeps | Operations |
|---|---|---|---|
| CHM session `rclCHM` | `rclchm.py:196-390` | `chm` (pychm `CHMFile`, loaded or not), `contents` (ContentIndex), `currentindex` (cursor, -1 = before the self-document), `catenate` (config), `charset` (set by `openfile`) | `openfile`, `getnext`, `getipath`, `closefile`, `extractone`, `dumpall`, `fixencoding` |
| IndexedDiscovery `ChmTopicsParser` | `rclchm.py:65-132` | appends to `rclchm.contents` | `handle_starttag` per `<param>` |
| ReachabilityDiscovery `ChmWalker` | `rclchm.py:136-193` | the shared `contents` list (visited set), `dir` of the current page | constructor (append), `handle_starttag` per `<a>` (recursion) |
| GNU info session `InfoExtractor` + `InfoSimpleSplitter` | `rclinfo.py` | `contents` (title, text) list, `currentindex`; splitter: `node_dict` name -> Up | `openfile` (runs `info`), `getnext`, `getipath`, `splitinfo` |
| ICS session `IcalExtractor` + `ICalSimpleSplitter` | `rclics.py` | `contents` (blocks), `currentindex`; splitter: current block name and text | `openfile`, `getnext`, `getipath`, `splitcalendar` |
| EPUB session `rclEPUB` | `rclepub.py` | `book`, `contents` (manifest ids), `currentindex`, `catenate` | `openfile`, `getnext`, `getipath`, `dumpall`, `closefile` |
| Archive sessions `ZipExtractor`, `TarExtractor`, `RarExtractor` | `rclzip.py`, `rcltar.py`, `rclrar.py` | archive handle, `currentindex`, name list | `openfile`, `extractone`, `closefile`, `getipath` (tar); `getnext` is inherited from `archivextract.py`, which is not in this repository |
| WAR session `WarExtractor` | `rclwar.py` | tar handle, `currentindex` | `openfile`, `getnext` (`tar.next()`), `getipath` |
| Karaoke encoding `KarTextExtractor` | `rclkar.py` | `encoding`, `defaultencoding`, `hadnulls` | `html_text` (event scan, encoding decision), `chardet_detect`, `nulltrunc`, `reencode` |
| OpenXML converter `OXExtractor` | `rclopxml.py` | `forpreview` (environment, read once) | `html_text` (zip parts, three single-part try blocks, the ppt and visio loops) |
| Other single-document converters | `rclpages.py`, `rclfb2.py`, `rcldia.py` | none across calls | `html_text` |
| pychm bindings | `chmlib.py` | none (generated) | resolve/retrieve |
| mutt-recoll script `main` | `samples/mutt-recoll.py` | the results maildir (`dest_box/cur`, symlinks); in a run, the recoll answer, `data` (digest -> paths), `messages` | `empty_dir`, the recoll command, the digest loop, the pick loop (`pick_all_mail`), the symlink loop |

### How the components interact

The transport calls `openfile(params)` whenever a request names a file. It
then calls `getnext()` until it is told that the stream has ended, or calls
`getipath(ipath)` for one sub-document. Everything is single-threaded: one
request at a time, and each handler runs to completion. The hard behaviour is
therefore not concurrency. It is:

- **The order of protocol calls.** Which end-of-stream flag (`noteof`,
  `eofnext`, `eofnow`) a call returns depends on the cursor. A `getipath`
  can come after any prefix of `getnext` calls.
- **Resource release in the middle of a session.** `closefile` runs inside
  `getnext` on the last item, before the caller's own `close`.
- **Discovery over untrusted container structure.** This covers link
  cycles, dangling links, members that fail to decode, duplicate catalog
  entries and addresses with two spellings.
- **Per-item failures that must not abort the session.** Examples are a
  failed fetch, an oversized member and a bad info header.
- **Bounded graph walks.** The info Up-chain has a 50-hop bound.

`mutt-recoll.py` is different. A mutt macro runs it; it asks recoll for the
URLs of the matching messages, reads each file to take its sha1 and
symlinks one file per digest into a results maildir. Recoll answers from
its index, a snapshot of the mail store taken when `recollindex` last ran,
while a sync tool or mutt renames maildir files whenever their flags
change. The hard behaviour there is the script's steps interleaved with
those renames, and the script's own dedup rules.

### What makes each component correct

- Sessions: `getnext` serves the self-document, then each index address
  exactly once and in order. It flags the last one `eofnext`, and afterwards
  it only says `eofnow`. `getipath` never moves the cursor, and its eof flag
  depends on the address. The file handle is held exactly while items remain.
- Discovery: the index has no duplicates and every entry resolves. The walk
  finds exactly the pages reachable through followable links and always
  terminates.
- NodeGraphResolver: a title is the Up chain to `Top`. Dangling or cyclic
  chains are excluded and never loop.
- Encoding decision: a fixed priority (filename hint, then declared charset,
  then detector above the threshold, then locale fallback).
- Catenation: every body appears once, in index order.
- OpenXML converter: the parts appear in presentation order, with slides
  sorted by number, and a failing part costs only its own text.
- mutt-recoll: the results maildir holds the query's messages, each once,
  and a message the script read is missing only for a reason the code
  gives (a Gmail pick of `None`, a base name already taken).

## 2. Modules

| Module | Models | Notes |
|---|---|---|
| `SubDocStream.tla` | The abstract session promised by spec 4.5 and 8 | Variables `index`, `pos`, `served`. Actions `Open`, `ServeSelf`, `ServeItem`, `ServeEnd`. |
| `ChmSession.tla` | `rclCHM` with `ChmTopicsParser` and `ChmWalker`, driven by the transport | See below |
| `ChmEncoding.tla` | `rclCHM.fixencoding` and the two charset regexes of `rclCHM.__init__` | Operators only; `ChmSession` extends it |
| `MCChmSession.tla` | Container families for TLC | Members `h` (home), `p`, `q`; charset tokens |
| `InfoSession.tla` | `InfoExtractor` and `InfoSimpleSplitter` (`rclinfo.py`), driven by the transport | See below |
| `MCInfoSession.tla` | Info outputs for TLC | Node names `Top`, `n1`, `n2`, `n3` |
| `IcsSession.tla` | `IcalExtractor` and `ICalSimpleSplitter` (`rclics.py`), driven by the transport | See below |
| `MCIcsSession.tla` | Calendars for TLC | Built from object shapes |
| `KarEncoding.tla` | `KarTextExtractor` (`rclkar.py`): `__init__`'s fallback and `html_text` whole | See below |
| `MCKarEncoding.tla` | Karaoke files, chardet answers, locales for TLC | One- and two-event files |
| `ArchiveSession.tla` | `ZipExtractor`, `TarExtractor`, `RarExtractor` (`rclzip.py`, `rcltar.py`, `rclrar.py`) with the inherited `ArchiveExtractor.getnext` | See below |
| `MCArchiveSession.tla` | Archives for TLC | Members `n1`, `n2` |
| `WarSession.tla` | `WarExtractor` (`rclwar.py`) | See below |
| `MCWarSession.tla` | Web archives for TLC | Members `n1`, `n2` |
| `EpubSession.tla` | `rclEPUB` (`rclepub.py`), both modes, driven by the transport | See below |
| `MCEpubSession.tla` | Books for TLC | Manifest ids `e1`, `e2` |
| `OpenXml.tla` | `OXExtractor` (`rclopxml.py`): `__init__`'s preview flag and `html_text` whole | See below |
| `MCOpenXml.tla` | Zip files for TLC | Slide numbers `1`, `01`, `2`, `10` |
| `MuttRecoll.tla` | `main` of `samples/mutt-recoll.py`, one step per loop iteration, with the mail store and `recollindex` as actions | See below |
| `MCMuttRecoll.tla` | A Gmail-style mail store for TLC | Folders `INBOX`, `AllMail`; messages `c1`, `c2` |

### ChmSession: how it corresponds to the code

- **Variables.**
  - `chm` and `loaded` stand for the pychm `CHMFile`: which file was last
    given to `LoadCHM`, and whether it is still open (`CloseCHM` was not
    called).
  - `catenate`, `contents` and `currentindex` are the fields of the same
    name. `catenate` is read once by `__init__`, so `Init` chooses it and
    no action changes it.
  - `charset` is `self.charset`: `openfile` sets it to `cp1252` once
    `LoadCHM` succeeds and then to what `fixencoding` decides on the
    Topics object or the home page. A failed `LoadCHM` leaves it as it
    was. It is `""` before the first open, where the attribute does not
    exist yet.
  - `phase`, `got` and `ipathResp` are the caller's view, modelled from the
    spec. They record whether the last open succeeded, the answers to
    `getnext` since that open, and the last `getipath` answer. `merged`
    is the document of the last catenate-mode `getnext`.
- **Data.**
  - A member is a model value.
  - An address is `[m, abs]`: the member and whether it has the leading `/`.
    All members sit in the root directory, so `posixpath.join(dir, path)`
    only decides whether a relative link becomes absolute.
  - `ResolveObject` succeeds only for absolute names of existing members,
    because CHM directory entries start with `/`.
  - A container record says:
    - whether it loads;
    - its Topics `<param>` list, or `NoTopics`;
    - the charset declarations of its Topics object;
    - its home address;
    - which members exist and which are empty;
    - the charset declarations of each member. A member is broken when
      `fixencoding` raises on it (`Broken`);
    - each page's `<a>` links, in order;
    - whether each page's text has a `<head ...</head>` region and a
      `<body ...>...</body>` region.
- **Operators.**
  - `TopicsLocalPath` is `ChmTopicsParser.handle_starttag`.
  - `LinkTarget`, `FollowLinks` and `EnterPage` are `ChmWalker`. The
    recursive walk is a pair of mutually `RECURSIVE` operators that thread
    the shared `contents` list exactly as the Python recursion does.
  - `Dedup` is the loop at the end of `openfile`.
  - `OpenResult` is `openfile` with all its early returns. An exception from
    `fixencoding` is reported as a failed open; in the walk branch the home
    address has already been appended by then.
  - `ExtractOne` is `extractone`.
  - `DumpAll` is `dumpall`, and `DumpStep` is its loop body. Pages that
    `extractone` cannot read are skipped. The `first` flag is cleared only
    by a page with a head region. `re.sub` is given the page as its
    subject and the regex flags as its count, so the saved header is that
    whole page. Every body region is appended, the header page's included.
    The document is a sequence of pieces: the page the header came from,
    and each body region.
- **Actions.**
  - `OpenFile(c)` is `openfile`, including `LoadCHM` closing the previous
    file.
  - `GetNextCatenate`, `GetNextSelf`, `GetNextEnd` and `GetNextItem` are the
    four branches of `getnext`, each with its `closefile`.
    `GetNextCatenate` runs `dumpall` on the file as it is, which after a
    first catenate answer is closed.
  - `GetIpath(a)` is `getipath`.
  - The transport may open any container at any time. It calls `getnext`
    until it receives `eofnow`, at most `MaxGetNext` times per open; the
    bound only matters in catenate mode, which never answers `eofnow`.
    `StreamRefinement` maps catenate mode to an unopened stream: that mode
    answers one merged document (spec 4.6), not the stream of spec 4.5. It
    may call `getipath` on any address while a file is open.
- **Not modelled.**
  - The document bytes, and the title `dumpall` substitutes.
  - The `rclaptg` meta insertion.
  - The decoded text. Only the charset `fixencoding` picks, and whether it
    raises, are kept.
  - `RetrieveObject` failing on a non-empty member.
  - URL unquoting.
  - Subdirectories inside the container.
  - `posixpath.normpath` of `..` segments.

### ChmEncoding: how it corresponds to the code

- **Data.** A page is reduced to the charset declarations that the two
  regexes of `rclCHM.__init__` can see, one per line (neither regex uses
  DOTALL), in document order. A declaration records three things:
  - whether the line has `<meta http-equiv="content-type"` before its
    `charset=`;
  - whether the token is followed by `" >` rather than `"/>`;
  - the token: its name in lower case (both regexes are IGNORECASE) and
    whether it is made only of `[a-z0-9-]`.
- **Operators.**
  - `AsciiDecl` is the `((us-)?ascii)` group of `asciito1252re`.
  - `Declares` is the part both regexes share.
  - `FixEncoding` is `fixencoding` on bytes:
    - the single substitution that rewrites the first ascii declaration to
      `windows-1252`;
    - the `findcharsetre` search, falling back to `cp1252`;
    - the decode, which raises `LookupError` when no codec has the name.
    `errors="replace"` only covers bad bytes.
  - The `str` branch, where `charset` would be unbound, is not modelled:
    every caller passes bytes.
- **Bounds.** `MCChmSession` uses these charset tokens:
  - `ascii` and `us-ascii`;
  - `utf-8`;
  - `x-user-defined`, which no codec has;
  - `iso646-us`, an IANA alias of US-ASCII;
  - `ansi_x3.4-1968`, which `findcharsetre` cannot match.

  Each token appears in a well-formed declaration. There are also three
  declarations the regexes miss: the meta attributes in the other order,
  and `"/>"` endings on `ascii` and on `utf-8`. The model checks every
  page of up to one declaration, and every declaration followed by a
  well-formed `ascii` or `utf-8` one. Each such page is the Topics object
  of an empty catalog, or the home page of a one-page container.

### InfoSession: how it corresponds to the code

- **Variables.** `file`, `contents` and `currentindex` are the fields of
  `InfoExtractor`. `phase`, `got` and `ipathResp` are the caller's view, as
  in `ChmSession`.
- **Data.**
  - The output of `info --subnodes` is a sequence of abstract lines. Each
    line is a `header` (a `File:` line), a `blank` line or `text`.
  - A header carries its `Node` and `Up` values, and either may be absent
    (`NoName`). `bad` marks a header whose comma-separated pairs do not all
    split into `name:value`, which makes the loop at lines 135-152 raise.
  - A node body is the sequence of the positions of its lines.
  - `IndexName` is the `str(index)` name that a header without `Node` gets.
- **Operators.**
  - `ScanLine` is one iteration of the `for line in fin` loop. `Scan` folds
    it over the output and adds the last dangling node.
  - `TitleLoop` is the `while nodename != b"Top"` loop with its hop bound
    `MaxHops` (50 in the code). It returns `Defect` for an Up that names no
    node or for too many hops. It returns `Crash` for a `str` name, where
    `bytes + str` raises.
  - `Resolve` is the second pass: it skips defects, and one crash aborts
    `splitinfo`.
  - `ExtractOne` is `extractone`.
- **Actions.**
  - `OpenFile(f)` is `openfile`:
    - a non-file leaves the old contents and cursor;
    - a `Popen` failure exits the process, and the caller's next request
      starts a fresh one;
    - an exception in `splitinfo` leaves the old contents with the cursor
      reset.
  - `GetNextSelf`, `GetNextEnd` and `GetNextItem` are the branches of
    `getnext`.
  - `GetIpath(ip)` is `getipath`, with `ip` an index up to `Len(contents)`
    or a value that `int()` rejects.
- **Not modelled.**
  - The HTML wrapping and `htmlescape`.
  - The `File:` pair renaming the title prefix.
  - `rstrip(b" / ")` of titles.
  - Negative indices in `getipath`, which the caller never sends because
    ipaths come from `getnext`.

### IcsSession: how it corresponds to the code

- `usemodule` is the constant `"internal"`. The `icalendar` and `vobject`
  branches are therefore dead code and are left out.
- **Data.** A line is `blank` (empty once rstripped), `nocolon` (a folded
  continuation), `begin` or `end` of a component, or `prop`. Names are
  compared upper-cased in the code, so case is left out. A document is the
  sequence of its line positions.
- **Operators.**
  - `ScanLine` is one iteration of `splitcalendar`'s loop, in the code's
    order: append when inside a block, then the `:` test, then BEGIN, then
    END.
  - `SplitCalendar` adds the unterminated last block.
- **Actions.**
  - `OpenFile` is `openfile`. If `open` raises, cursor and contents are left
    as they were.
  - `GetNext*` are the three branches of `getnext`.
  - `GetIpath` is `getipath`, where an empty ipath means index 0.
- **Reference.** `TopLevelComponents` parses the calendar with a stack of
  open components. It yields the interesting components opened while no
  interesting one is open, each running to the END that closes it or to the
  end of the file.

### KarEncoding: how it corresponds to the code

- **Data.** A bytes value is abstracted to `[empty, null]`: whether it is
  empty, and whether its first null byte is absent, the first byte
  (`"lead"`) or later (`"inner"`). That is all the decision and the
  properties tell apart. `Cat` is `+` on this abstraction, and `NullTrunc`
  is `nulltrunc` (a lead null leaves an empty value). Python's `None` is
  the record `None`. A MIDI event is `[kind, form, null]`. `form` is the
  branch its first bytes select (`/` or `\`, `[` or `]`, `@I`, `@L`, `@T`,
  a lone `@`, another `@x`, plain or empty text).
- **Inputs.** chardet and the stopword classifier are external. A detection
  is chardet's `[enc, conf]` (confidence in tenths, threshold 6), plus what
  the classifier would answer on the same data (missing zip, raising, no
  match, or a code). `NoEnc` is chardet's `None`. `Next` only lets
  chardet's answer vary where `html_text` actually calls chardet.
- **Operators.**
  - `EventStep` is one iteration of the event loop and `EventLoop` the
    fold. A lyrics or track event that reaches line 262/264 while `nl` is
    unbound sets `unbound` and stops the fold, which is the
    `UnboundLocalError`.
  - `ChardetDetect` is `chardet_detect`.
  - `HintEncoding` is `encodingfromfilename` plus the lookup at line 211.
    The file name is bytes (the regex is a bytes pattern), so
    `codecs.lookup` raises and the hint is cleared.
  - `Blanked` is `reencode`'s `except` returning `""`.
- **Actions.** `HtmlText` is one whole call. It covers the hint, the event
  loop, detection on the data with nulls and then on the cut data, the
  fallback, the `None` to `""` replacement and `reencode`. It records the
  outcome in `result`, and records `self.encoding` and `self.hadnulls` as
  the code leaves them, also when the call raises.
- **Left out.** The MIDI parser, the HTML template and escaping. The
  module global `has_chardet` is an initial choice.

### ArchiveSession and WarSession: how they correspond to the code

- **What comes from where.** `ArchiveExtractor` lives in
  `archivextract.py`, which is not in this repository. Its `getnext` and
  its `getipath` (used by zip and rar) are modelled from spec 4.5:
  - the self-document, flagged `eofnext` with the handle released when
    the index is empty;
  - past the end, failure and `eofnow` with `closefile()`;
  - otherwise the filter's `extractone` at the cursor, then the cursor
    moves on.

  The ContentIndex is the filter's name list at open time: all members
  for zip and rar, regular files for tar. Everything else comes from the
  filters' code.
- **Data.** A member is `[name, type, big, readable]`. `big` stands for
  `file_size > maxmembersize`. A document's bytes are the member's name,
  or `Empty`.
- **`kind`.** The filter a process runs is chosen in `Init` and never
  changes.
- **Operators.** `ZipExtract`, `TarExtract` and `RarExtract` are the three
  `extractone` methods, in their own order:
  - zip: `getinfo`, the ceiling, the read, then the eof test. The eof test
    reads `self.zip.namelist()`, so it raises once the zip is closed, and
    it closes the zip at the last name.
  - tar: `extractfile()` of a directory is `None`, so its read fails.
  - rar: a `getinfo` failure answers success at once, and a directory is
    an empty success.
- **Actions.**
  - `ZipOpenFile`, `TarOpenFile` and `RarOpenFile` are the three
    `openfile` methods. A failed tar or rar open keeps the previous
    archive.
  - `GetIpath` is `TarExtractor.getipath`. Its retry with the decoded name
    finds the same member, so it answers as the first call did.
- **WarSession.** `WarExtractor` has its own `getnext`, walking the tar
  with `tarfile.next()`. `offset` is tarfile's reading position.
  `getipath`'s `getmember` loads every header and moves `offset` to the
  end. `extractone` answers `eofnow` on any failure, and `getnext` then
  closes the tar.
- **The caller.** It follows spec 4.5's state machine: after an open,
  either streaming (`getnext`) or random access (`getipath`), not both.

### EpubSession: how it corresponds to the code

- **Variables.** `catenate`, `contents` and `currentindex` are the fields
  of the same name. `book` is `self.book`, and `held` says whether it is
  still open (`closefile` not yet called on it). `phase`, `got` and
  `ipathResp` are the caller's view, as in the other sessions.
- **Data.** A manifest item is `[id, xhtml, readable]`. `xhtml` stands for
  the `application/xhtml+xml` media type. `readable` says whether
  `read_item` succeeds. A book also has a spine (a sequence of ids) or
  `NoSpine`. A document is the sequence of item ids whose bodies it holds.
  The self-document's header (`DocHeader`) holds none.
- **Operators.**
  - `XhtmlIds` is the manifest loop of `openfile`.
  - `CatIds` is `_catbodies`'s choice of ids: the spine, else the
    manifest, keeping xhtml items only.
  - `DumpAllRaises` is the unguarded `read_item` in `_catbodies`, which
    also fails on a closed book.
  - `ExtractOne` is `extractone`. Its eof flag comes from the cursor; a
    failure keeps the flag.
- **Actions.**
  - `OpenFile(b)` is `openfile`. A failed `open_epub` returns `False` and
    leaves the previous book, and its open handle, in place.
  - `GetNextCatenate`, `GetNextSelf`, `GetNextEnd` and `GetNextItem` are
    the branches of `getnext`, each with its `closefile`. An exception
    from `dumpall` escapes, so the `closefile` after it is skipped.
  - `GetIpath(id)` is `getipath`, for any id, in the manifest or not.
- **Fairness.** `WF_vars(phase = "streaming" /\ GetNext)`. Once the
  indexer has started pulling a stream, it pulls until the stream ends.
  Nothing obliges it to open a file or to start streaming.

### OpenXml: how it corresponds to the code

- **Variables.** `forpreview` is `self.forpreview == "yes"`, read from
  the environment in `__init__`. `file` and `result` are the argument and
  outcome of the last `html_text` call. Before any call they are an empty
  zip and the empty document.
- **Data.** A zip is its namelist, a sequence of members. A member is
  `[part, digits, more, fails]`:
  - `part` is the name prefix (`core`, `word`, `xl`, `slide` for
    `ppt/slides/slide`, `notes`, `page` for `visio/pages/page`, `other`);
  - `digits` is the number text the regex `prefix[0-9]+.xml` finds,
    and `Value` is `int()` of it;
  - `more` says that text follows `.xml`, which `re.match` accepts
    because it does not anchor the end; the slice in the sort key then
    is no number;
  - `fails` says which step fails on it: `zip.read` or the external
    stylesheet `rclxslt.apply_sheet_data`.

  The document is the sequence of pieces appended to `docdata`: a
  member's text, or a preview `<h2>` header naming a slide. The HTML
  text itself is not modelled.
- **Operators.**
  - `Matching` is the name filter.
  - `SortedNames` is `sorted(names, key=...)`. The key is `int()` of the
    number, and ties keep namelist order, as Python's sort is stable.
    `KeyRaises` is the `ValueError` the key raises inside `sorted`, before
    any name of that prefix is read.
  - `EmitAll` is the loop body: `zip.read`, then the preview header, then
    the stylesheet. The first failure leaves the loop and keeps what was
    appended.
  - `PptBlock` is the ppt `try` (slides, then notes unless the slides
    raised). `VisioBlock` is the visio `try`. `FixedPart` is each of the
    core, word and xl `try` blocks. An empty `core.xml` adds nothing,
    like a failing one.
- **Actions.** `Convert(f)` is one whole `html_text` call, including the
  `ZipFile` that raises for a file that is not a zip. The transport
  (`RclBaseHandler`) is not in this repository.

### MuttRecoll: how it corresponds to the code

The script imports `commands` and calls `raw_input`, so only Python 2 can
run it, whatever its first line says. The model follows Python 2.

- **Data.** A path is a folder and a base name. A base name is the maildir
  unique part and the flags suffix, so a flag change renames a file within
  its folder. A file's bytes are a member of `Contents`, which is all that
  sha1 tells apart. `"All Mail" in m` is "the folder is `AllMail`".
- **Variables.**
  - `store` is the mail store now, and `index` is the store as
    `recollindex` last saw it.
  - `results` is the symlinks of `dest_box/cur`. Each records the digest
    the script took of its target; that digest is not on disk.
  - `query`, `files`, `data` and `messages` are `main`'s locals: the
    answer, the lines not yet read, the `defaultdict(list)` and the picks
    not yet linked. `messages` is a set taken in any order, because
    Python 2's dict order over digests is arbitrary.
  - `phase` is where `main` is; `outcome` is how the last run ended.
  - `kept` is a history variable, not state of the script: the links the
    last `empty_dir` left behind. Only the properties read it.
- **Actions.**
  - `Start(g, ans)` is `main` up to the digest loop, with `empty_dir`.
    `EmptyDir(r)` is `Maildir.clear()`. Python 2's `Maildir._refresh`
    keys the maildir by the unique part of each name (before the `:`),
    the last entry `os.listdir` gives winning. So of the links that share
    a unique part, one, any one, is removed and the others stay.
    `ans` is any recoll answer over the indexed paths, of at most
    `MaxResults` URLs, a URL at most twice: a message and its attachment
    are two results with one URL. `g` is `-g` (the default) or `-G`.
  - `DigestFile` is one iteration of the loop over `files`. A path with no
    file raises `IOError`, which is printed and skipped.
  - `PickMessages` is the loop over `data`: `PickOf`, with
    `pick_all_mail`'s `None` as `NoPick`.
  - `LinkMessage(k)` is one iteration of the loop over `messages`.
    `os.path.exists` follows the symlink, so a link whose target was
    renamed away does not exist although its name is taken; `os.symlink`
    then raises `OSError`, which nothing catches, and the run ends there.
  - `Rename(p, f)` (a flag change) and `Reindex` (a `recollindex` run) are
    the world around the script. They have no code here and no map entry.

## 3. Runs

| Run | Config | Expect | What it shows |
|---|---|---|---|
| `chm_stream` | `MCChmStream.cfg` | pass | See below. |
| `info_stream` | `MCInfoStream.cfg` | pass | See below. |
| `info_no_node_field` | `MCInfoNoNode.cfg` | violation | `DefectNeverFailsOpen`: one `File:` line without a `Node` pair makes `splitinfo` raise `TypeError`, so the whole file fails to open instead of the record being excluded (spec 6). |
| `ics_stream` | `MCIcsStream.cfg` | pass | `ExtractsTopLevelComponents` and `StreamRefinement` over about 170 well-nested calendars. |
| `kar_decision` | `MCKarDecision.cfg` | pass | See below. |
| `kar_filename_hint` | `MCKarHint.cfg` | violation | `FilenameHintOverrides`: `x (koi8-r).kar` is decoded with the fallback, because the bytes hint fails `codecs.lookup` and is cleared. |
| `kar_html_text_raises` | `MCKarRaises.cfg` | violation | `HtmlTextReturns`: in the trace, a lyrics event before any track name reads the unbound `nl`. |
| `archive_stream` | `MCArchiveStream.cfg` | pass | See below. |
| `war_stream` | `MCWarStream.cfg` | pass | See below. |
| `epub_stream` | `MCEpubStream.cfg` | pass | See below. |
| `opxml_text` | `MCOpenXml.cfg` | pass | See below. |
| `mutt_results` | `MCMuttRecoll.cfg` | pass | See below. |

Over about 430 containers of all families, with `chmcatenate` set and
unset, `chm_stream` shows five things:

- `StreamRefinement`: `ChmSession` implements `SubDocStream` under the
  mapping `index <- contents`, `pos <- currentindex`,
  `served <- last getnext answer`. `getipath` steps map to stuttering steps.
- `HandleHeldWhileStreaming`: the handle is held exactly until the stream
  ends, and the catenated document releases it.
- `WalkComplete`: the link walk's result, as a set, equals the least fixed
  point of "followable from a decodable page".
- `CharsetAsDeclared`: after a successful open, `self.charset` is the
  charset the deciding page declares, per spec 4.1 step 2. The deciding
  page is the Topics object, or the home page when there is none. An
  `ascii` or `us-ascii` declaration becomes `windows-1252`, and a page
  that declares nothing gets `cp1252`. The reference `DeclaredCharset`
  takes the first declaration and maps the ascii variants itself. The
  code instead rewrites first and searches afterwards.
- `CatenationCoversIndex`: the first catenate answer after an open holds
  the body region of every readable indexed page that has one, once each
  and in index order. It holds one header, taken from the first readable
  indexed page that has a head region.

Over about 330 info outputs, `info_stream` shows three things:

- `TitlesFollowUpChain`: the served nodes are exactly the scanned nodes
  whose Up path reaches `Top` within `MaxHops` hops, and each is titled by
  that path. The reference is the set of bounded Up paths (`UpPaths`), not
  the loop.
- `NodesTileOutput`: the node bodies, in order, are consecutive lines up to
  the end of the output, and every node after a headerless preamble starts
  with its header. This holds even when a bad header is folded into the
  previous node.
- `StreamRefinement`: `InfoSession` implements `SubDocStream` with the
  index `0..n-1`.

Over about 90 karaoke files, `kar_decision` shows two things. The files
are every single event and every pair of ten events (nulls in titles and
lyrics, before and after a track name), under eight chardet answers and
four locales.

- `NullsOnlyForWideEncodings`: a field reaches `reencode` with a null byte
  only when a UTF-16/32 encoding was decided. `nulltrunc` cuts every field
  of an 8-bit decision.
- `TypeOK` includes "the fallback is a codec Python knows", which is
  `__init__`'s lookup.

Over three filters and 22 archives, `archive_stream` shows three things:

- `MembersServedAsStored`: every answer for an address of the index,
  from `getnext` or `getipath`, is what spec 4.5 expects of that member.
  A member over the ceiling is an empty success that is never read, a
  directory an empty success, and an unreadable file a failure.
- `StreamRefinement`: each filter implements `SubDocStream`. This covers
  the three eof tests and zip's closing at the last name.
- `TypeOK`.

`war_stream` shows that members are answered in tar order, each once and
after the self-document (`ServedInTarOrder`), and that the tar is released
whenever `eofnow` is signalled (`ReleasedAtEnd`).

Over 53 books and both `epubcatenate` modes, `epub_stream` shows five
things. It is the only run with fairness (`FairSpec`).

- `StreamRefinement`: without catenate, `EpubSession` implements
  `SubDocStream` with `index <- contents`. An unreadable item keeps its
  eof flag and does not end the stream, unlike WAR.
- `AddressesAnswerAsStored`: every answer for an indexed id, from
  `getnext` or `getipath`, is that item's document, or a failure when
  `read_item` fails.
- `ReleasedAtEnd`: whenever `eofnext` or `eofnow` has been answered, in
  either mode, the book is closed.
- `StreamEnds`: a stream the caller keeps pulling always ends with
  `eofnext`, `eofnow` or an exception. This is checked in both modes.
- `TypeOK`.

Over about 320 zip files in both preview modes, `opxml_text` shows three
things:

- `InDocumentOrder`: the document holds the head part, then the word and
  sheet text, the slides in slide-number order (`slide10` after
  `slide2`), the notes slides and then the visio pages. No member appears
  twice, and a preview header comes directly before its slide's text.
- `BlocksIndependent`: each `try` block contributes exactly what it would
  for a zip holding only its own members. A failing part costs only its
  own block.
- `TypeOK`: every piece comes from a member of the part it is filed
  under.

Over one Gmail-style store, `mutt_results` lets renames and reindexing
happen between any two steps of any number of runs. The store holds one
message in `INBOX` and under `AllMail`, and another message in `INBOX`
with the base name of the `AllMail` copy. The run shows three things:

- `OneLinkPerMessage`: every link this run makes points to a path the run
  read with the link's digest, and no two of them hold the same message.
  This covers the digest loop, the one-pick-per-digest loop and the
  `exists` test. Links `empty_dir` left behind are outside the claim;
  see the divergences below.
- `LossesExplained`: when a run ends normally, a message it read is
  missing from the results only in two cases. Either Gmail mode read it
  more than once and never under All Mail, or another message already
  holds its base name.
- `TypeOK`: every path in `data` is one of this run's answers.

**Divergences seen while modelling and kept out of the run list.** Each of
these was shown violated by TLC while the modules were built. The runs
above keep the code bugs.

- `IndexResolves` (CHM, a dangling one-field `Local` value is indexed).
- `GetIpathEofByAddress` (CHM, `getipath`'s eof follows the cursor).
- `NoDocAfterEnd` (CHM catenate mode, a document after `eofnext`).
- `DupKeepsEarliestUp` (info, the later Up of a duplicated node wins).
- `ExtractsTopLevelComponents` on a VEVENT nested in a VEVENT (ics: the
  inner END closes the outer block, against the comment at
  `rclics.py:133`). `ics_stream` checks it over well-nested calendars.
- `TextNeverBlanked` (karaoke, a confident `euc-tw` answer blanks every
  field).
- EPUB catenate mode: one unreadable item makes `getnext` raise and
  leaves the book open (`rclepub.py:81`). A spine that leaves out an xhtml
  item, or names an id missing from the manifest, drops that item from the
  merged document (`rclepub.py:70`; spec 4.6 says index order).
- CHM `dumpall` (`rclchm.py:260`): the saved header is the whole first
  page with a head region, so that page's body appears twice. The bodies
  of headless pages read before it come before its `<html><head>`. An
  invariant that the merged document starts with its header fails for a
  walk from a headless home page.
- CHM `fixencoding`: a catalog that declares `x-user-defined`, a name no
  codec has, makes the open fail with `LookupError`
  (`rclchm.py:297`). Spec 4.1 says decoding never raises.
- WAR: `AllMembersAnswered` (still stated in `WarSession`). One
  unreadable member, or a directory, answers `eofnow`, and the members
  after it are never served (`rclwar.py:22`; spec 7). Its run gave its
  slot to `opxml_text`.
- OpenXML: one slide whose read or stylesheet fails, or a matching name
  with text after `.xml`, ends the ppt `try` block. Every later slide and
  all notes slides are lost (`rclopxml.py:231`). In preview mode the
  failing slide's header stays, with no text under it (line 228).
- CHM `NoAliasedMember` (still stated in `ChmSession`): with a home name
  lacking the leading `/`, the walk starts on the unprefixed name. The
  index begins with a name that does not resolve, and a link back to
  `/home` indexes the home page a second time (`rclchm.py:340`; spec 8
  expects `[home, page1]`). Its run gave its slot to `mutt_results`.
- mutt-recoll, in Gmail mode (the default): a message whose URL recoll
  answers twice, because an attachment matched too, picks `None` and is
  silently left out (`mutt-recoll.py:80`). So is a message copied between
  two folders outside All Mail.
- mutt-recoll: a linked file renamed by a flag change during the run,
  then a message with the same base name, makes `os.symlink` raise and
  ends the script with half its links (line 91).
- mutt-recoll `empty_dir` (line 46): `Maildir.clear()` removes one file
  per unique part. Two links that share one, `u2:2,` to the `INBOX`
  message and `u2:2,S` to the `AllMail` copy renamed by a flag change,
  leave one of them in place after the next query's `clear()`. It points to a
  message the new query may not match. `OneLinkPerMessage` stated over
  every link of the maildir fails this way, so the run states it over
  the links the current run makes.
- mutt-recoll: a message renamed since the last `recollindex` is answered
  under its old name, fails to read and is missing from the results
  (line 73).
- Two further `HtmlTextReturns` causes: chardet's `None` on a file with no
  lyric text (line 180), and `titleN` unbound when nulls are detected as
  UTF-16 without an `@T` event (line 284).

The properties themselves are stated in `PROJECT.json`'s hazards.

**Bounds.**

- Three members are enough for every shape the walker distinguishes:
  - a relative link and an absolute link;
  - a cycle back to the home page;
  - a page that is reached twice;
  - a broken page;
  - an empty page;
  - a missing page;
  - a compound link that does or does not resolve;
  - a scheme link and a malformed link.

  The home page has no head region, `p` has both regions, and `q` has a
  head region only. A walk from the home page thus reads a headless page
  first, and a catalog lists pages with and without a body.
- The catalog family has the empty catalog and each of ten `<param>`
  shapes, one per branch of `handle_starttag`. It also has every pair of
  a shape followed by one of the four shapes that can yield an address.
  A dropped second entry leaves the first entry's catalog unchanged.
- Info outputs are every sequence of at most two chunks, plus every
  sequence of three chunks drawn from the `Node` headers, the bad header
  and text. A chunk is a header with its closing blank line, a text line or
  a blank line. This covers:
  - the chain `n3 -> n2 -> n1 -> Top`;
  - a cycle `n1 <-> n2`;
  - a dangling Up;
  - a duplicate `n1`;
  - a `Top` node;
  - a header after text (not a header for the scan);
  - a bad header;
  - a header without `Node`.
- `MaxHops = 2` in the info runs, in place of the code's 50. The
  three-hop chain then crosses the bound by one, and the two-hop chain sits
  exactly on it. The comparison `loop > 50` is kept as `loop + 1 > MaxHops`.
- Calendars are a `VCALENDAR` wrapper, closed or not, around at most two
  objects and possibly an unterminated last event. The objects are drawn
  from these shapes, which take every branch of `splitcalendar`:
  - an event;
  - an event holding an alarm;
  - a todo holding an event;
  - a journal with a blank and a folded line;
  - an event holding a stray `END:VTODO`;
  - a property line outside any object.
- Karaoke files are one event (19 shapes, one per branch of the loop) or
  two events (ten shapes whose pairs put null copies of titles and lyrics
  before or after a track name). Only single-event files carry the
  `koi8-r` hint. Chardet answers are:
  - `None`;
  - UTF-16LE at 0.9 and at 0.6, the boundary, which is not accepted;
  - iso-8859-2 at 0.5 with a classifier match (so the override to 1.0
    matters), at 0.9 with no match and at 0.9 with the stopword zip missing;
  - windows-1252 at 0.9;
  - euc-tw at 0.9.

  Locales are `utf-8`, `ascii`, an unknown name and empty.
- Archives hold at most two members, each of four shapes: readable file,
  file over the ceiling (whose read would fail, so a read is visible),
  unreadable file, directory. Add an empty archive and one that does not
  open. Two members are enough to put a failing or skipped member before
  another one and to test the eof flag on a last and a non-last member.
  `MaxGetNext = 5` covers the longest stream (self-document, two members,
  `eofnow`).
- `MaxGetNext = 6` in `chm_stream` is the longest non-catenate session:
  at most four addresses (TLC confirmed `Len(contents) <= 4` over all
  families), plus the self-document and `eofnow`. In catenate mode it
  allows five repeats of the merged document.
- Books have at most two manifest items. Each is a readable xhtml item, an
  unreadable one, or a non-xhtml item. Spines are none, both ids in either
  order, and `<<e2>>`, which leaves `e1` out or names a missing id. A
  further book does not open. `MaxGetNext = 4` covers the longest stream
  (self-document, two items, `eofnow`).

- Zip files: every slide list of up to two slides numbered 1, 2 or 10,
  each readable, failing to read or failing its stylesheet, in every
  order. Also three slides out of order (10, 2, 1, with and without a
  failing middle slide), `01` beside `1` (equal keys), and a name with
  text after `.xml`. Each of these is combined with no notes, a readable
  notes slide and an unreadable one. Separately, head parts (present,
  missing, failing) and two visio pages (in reverse order, or with a
  failing first page) are combined with a good, a failing and an
  unsorted slide list. One more file is not a zip. Every call may convert
  any file, so TLC visits states times files transitions. That is why the
  files are not all combinations.
- The mutt store has two folders, two unique names and two flag suffixes,
  and two messages placed so that one has a Gmail copy and one shares a
  base name with that copy. Answers of up to three URLs can repeat a
  URL (the attachment case) and can name both copies. Two renames are
  enough to make the index stale and to leave a dangling link before a
  same-name message. Runs repeat without bound.

**Fairness.** Only `epub_stream` assumes fairness, as weak fairness on
`getnext` while the caller is streaming. The indexer pulls a stream it has
started until that stream ends. Opening files and starting to stream stay
unforced. The other runs check safety only.

## 4. Plan

Ordered by importance. Steps 1 to 7 are done. Step 8 is done for
EPUB. The CHM `fixencoding` (`ChmEncoding`) is done as part of step 2.
The OpenXML converter (`OpenXml`) is done, in the slot of the WAR
violation run. The mutt-recoll script (`MuttRecoll`) is done, in the slot
of the CHM relative-home violation run.

1. `SubDocStream`: the abstract session (done).
2. `ChmSession`: the CHM session with both discovery strategies and the
   refinement (done).
3. `InfoSession` (done): `splitinfo`'s scan and title walk, checked
   against bounded Up paths, and the session refining `SubDocStream`.
4. `IcsSession` (done): the BEGIN/END scan against a nesting-aware
   reference, and the session refining `SubDocStream`.
5. `KarEncoding` (done): `html_text` whole over abstract bytes, with
   chardet and the classifier as inputs.
6. Catenation (done): `rclCHM.dumpall` in `ChmSession`
   (`CatenationCoversIndex`) and `rclEPUB._catbodies` in `EpubSession`.
7. `ArchiveSession` (done: zip/tar/rar refine `SubDocStream`) and
   `WarSession` (done: in order, but it stops at the first unreadable
   member), `EpubSession` (done: both modes).
8. Transport liveness (done for EPUB, as `StreamEnds`): with weak fairness
   on the caller's `getnext`, a stream ends. It remains to carry this to
   the other sessions.

The project is limited to twelve runs, and all twelve are in use. A new
question needs an existing run to be merged or dropped first. The two
passing CHM runs were merged by making `catenate` a state variable.

## 5. Not modelled

- `rclpages` runs `soffice` and reads its output, and `rclfb2` hands a
  fixed XSLT sheet to `rclgenxslt`, which is not in this repository. Both
  are pure I/O.
- `rcldia`'s expat callbacks keep one flag: inside a `dia:string` or not.
  TLC could tell nothing apart there that a unit test on one file does
  not.
- `recollq.py` and the Python API tests. They run one query and print up
  to 20 rows. They keep no state of their own beyond the library's
  cursor, which is C++ outside this tree.
- The generated SWIG bindings.
- HTML escaping, process spawning and the wire format of the execm protocol
  (spec section 1, out of scope).
