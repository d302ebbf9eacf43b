------------------------------- MODULE Listing -------------------------------
(***************************************************************************)
(* Paged listings (Backend.List): a client asks for one page after another, *)
(* each time with the cursor of the last one, while other requests add and  *)
(* remove objects.                                                          *)
(*                                                                         *)
(* The filesystem backend computes its pages itself, one system call after  *)
(* another: List looks for the prefix, walk (through fs.WalkDir) or listDir  *)
(* reads directories and looks at each file they name, and the tree may      *)
(* change between any two of these.  S3, GCS and Azure Blob leave that to    *)
(* the service, whose page is one step here, and sort out what it returns;   *)
(* keysUnder (flatstore.go) loops over such pages to find what a folder      *)
(* delete or move has to touch.                                              *)
(*                                                                         *)
(* A path is a sequence of names and a name is its rank in byte order.  On  *)
(* a flat store the name of a folder includes its slash, so "a" and "a/"    *)
(* are two names with, say, "a-b" between them, and <<"a/">> is the key of  *)
(* the folder's placeholder object.                                         *)
(***************************************************************************)
EXTENDS Naturals, FiniteSets, Sequences, SequencesExt

CONSTANTS
  Paths,       \* filesystem: the paths that may exist, parents included
  TempNames,   \* filesystem: names with the prefix tempPrefix
  Keys,        \* flat: the keys that may exist
  FolderNames, \* flat: the names that end in "/"
  Stubs,       \* flat: keys marked as directories by metadata (hdi_isfolder)
  Limit,       \* EffectiveLimit: entries per page
  MaxFolderObjects,  \* maxFolderObjects
  MaxChanges,  \* bound on changes other requests make
  Null

\* Where entries can be: prefixes of keys are the folders of a delimited listing.
Places == Paths \union UNION {{SubSeq(k, 1, i) : i \in 1..Len(k)} : k \in Keys}

\* The directories above p, without the root.
Ancestors(p) == {SubSeq(p, 1, i) : i \in 1..(Len(p) - 1)}

ASSUME ListingAssumption ==
  /\ Paths \subseteq Seq(Nat) \ {<<>>}
  /\ \A p \in Paths : Ancestors(p) \subseteq Paths
  /\ Keys \subseteq Seq(Nat) \ {<<>>}
  /\ \A k \in Keys : \A i \in 1..(Len(k) - 1) : k[i] \in FolderNames
  /\ Stubs \subseteq {k \in Keys : Last(k) \notin FolderNames}
  /\ Limit \in Nat \ {0} /\ MaxFolderObjects \in Nat
  /\ MaxChanges \in Nat
  /\ IsFiniteSet(Paths) /\ IsFiniteSet(Keys)
  /\ Null \notin Places

VARIABLES
  kind,       \* "filesystem", or "flat" for the other three
  files,      \* the regular files; on a flat store every key
  dirs,       \* filesystem: the directories, without the root
  prefix,     \* ListOptions.Prefix, as the directory it names
  recursive,  \* ListOptions.Recursive
  markers,    \* ListOptions.IncludeFolderMarkers, which keysUnder sets
  cursor,     \* the cursor of the next request, Null for the first one
  seen,       \* entries returned so far
  outcome,    \* "more"; "listed" after a page without a cursor; "refused"
  phase,      \* of a filesystem's List: "idle", "start" after its Stat, "visit"
  pendingFiles, \* what ReadDir gave as files, to be looked at
  pendingDirs,  \* what it gave as directories, to be read (walk) or listed (listDir)
  page,       \* List's entries: what it has collected
  changes,    \* history: changes made so far
  steady,     \* history: entries that were there all the time
  repeated,   \* history: entries returned for the second time
  during,     \* history: what was an entry at some moment of the call under way
  gone,       \* history: directories removed during it
  replaced    \* history: a file took the name of such a directory below the prefix,
              \* in the same call

store == <<files, dirs>>
opts  == <<kind, prefix, recursive, markers>>
asked == <<cursor, seen, outcome, repeated>>
call  == <<phase, pendingFiles, pendingDirs, page>>
past  == <<changes, steady, during, gone, replaced>>
vars  == <<store, opts, asked, call, past>>

TypeOK ==
  /\ kind \in {"filesystem", "flat"}
  /\ kind = "flat" => files \subseteq Keys /\ dirs = {}
  /\ kind = "filesystem" =>
       /\ files \subseteq Paths /\ dirs \subseteq Paths /\ files \cap dirs = {}
       /\ \A p \in files \union dirs : Ancestors(p) \subseteq dirs
  /\ prefix \in Places \union {<<>>}
  /\ kind = "filesystem" => prefix \in Paths \union {<<>>}
  /\ recursive \in BOOLEAN
  /\ markers \in BOOLEAN
  /\ cursor \in Places \union {Null}
  /\ seen \subseteq Places
  /\ outcome \in {"more", "listed", "refused"}
  /\ phase \in {"idle", "start", "visit"}
  /\ phase # "idle" => kind = "filesystem" /\ outcome = "more"
  /\ pendingFiles \subseteq Paths /\ pendingDirs \subseteq Paths \union {<<>>}
  /\ pendingFiles \cap pendingDirs = {}
  /\ page \subseteq Paths /\ Cardinality(page) <= Limit + 1
  /\ phase # "visit" => pendingFiles \union pendingDirs \union page = {}
  /\ phase = "idle" => during \union gone = {}
  /\ changes \in 0..MaxChanges
  /\ steady \subseteq Places
  /\ repeated \subseteq Places
  /\ during \subseteq Places
  /\ gone \subseteq Paths
  /\ replaced \in BOOLEAN

\* comparePaths(a, b) < 0: component by component, a path before its extensions.
\* With a folder's slash in its name this is also the byte order of keys.
Before(a, b) ==
  \/ IsStrictPrefix(a, b)
  \/ \E i \in (1..Len(a)) \cap (1..Len(b)) :
       a[i] < b[i] /\ \A j \in 1..(i - 1) : a[j] = b[j]

\* Mutant of AfterCursor: the cursor's own entry comes again.
AtOrAfterCursor(p) == cursor = Null \/ ~Before(p, cursor)

AfterCursor(p) == cursor = Null \/ Before(cursor, p)

First(S, n) ==
  CHOOSE P \in SUBSET S : Cardinality(P) = n /\ \A p \in P, q \in S \ P : Before(p, q)

Latest(P) == CHOOSE p \in P : \A q \in P \ {p} : Before(q, p)

-----------------------------------------------------------------------------
(* What a listing is about.                                                  *)

Placeholder(k) == Last(k) \in FolderNames \/ k \in Stubs

\* By ListOptions' comments: with Recursive the objects under the prefix,
\* placeholders only on request; without, the prefix's direct children,
\* sub-prefixes included.
FlatEntries ==
  IF recursive
  THEN {k \in files : IsPrefix(prefix, k) /\ (Placeholder(k) => markers)}
  ELSE {k \in files : Len(k) = Len(prefix) + 1 /\ IsPrefix(prefix, k) /\ k \notin Stubs}
       \union {SubSeq(k, 1, Len(prefix) + 1)
                 : k \in {l \in files : Len(l) > Len(prefix) + 1 /\ IsPrefix(prefix, l)}}

\* walk looks at every name from the listed directory down, listDir at the last.
Hidden(p) ==
  \E i \in DOMAIN p : p[i] \in TempNames /\ i >= IF recursive THEN Len(prefix) ELSE Len(p)

FilesystemEntries ==
  {p \in IF recursive THEN files ELSE files \union dirs :
     /\ ~Hidden(p)
     /\ IF recursive THEN IsStrictPrefix(prefix, p) ELSE Front(p) = prefix}

Entries == IF kind = "flat" THEN FlatEntries ELSE FilesystemEntries

\* keysUnder gives up once it has more than maxFolderObjects.
TooLarge(entries) == markers /\ Cardinality(entries) > MaxFolderObjects

\* A List call returns these entries and this cursor.
Return(entries, c) ==
  /\ seen' = seen \union entries
  /\ repeated' = repeated \union (seen \cap entries)
  /\ cursor' = c
  /\ outcome' = IF TooLarge(seen') THEN "refused" ELSE IF c = Null THEN "listed" ELSE "more"
  /\ phase' = "idle" /\ pendingFiles' = {} /\ pendingDirs' = {} /\ page' = {}
  /\ during' = {} /\ gone' = {}
  /\ UNCHANGED <<store, opts, changes, steady, replaced>>

-----------------------------------------------------------------------------
(* The filesystem's pages.                                                  *)

IsDir(p) == p \in dirs \union {<<>>}

Under(d, S) == {p \in S : Front(p) = d}

\* List's Stat of the prefix: one that is missing or names a file, or lies
\* beneath one, has nothing under it.
StatPrefix ==
  /\ kind = "filesystem" /\ outcome = "more" /\ phase = "idle"
  /\ \/ /\ IsDir(prefix)
        /\ phase' = "start" /\ during' = Entries /\ replaced' = FALSE
        /\ UNCHANGED <<store, opts, asked, pendingFiles, pendingDirs, page,
                       changes, steady, gone>>
     \/ ~IsDir(prefix) /\ Return({}, Null)

\* fs.WalkDir looks at the prefix again: it reads a directory, and what is a
\* file by now it hands to walk, which takes it for an entry.  listDir opens and
\* reads the directory.  Any other answer means an empty page.
Start ==
  /\ phase = "start"
  /\ \/ /\ IsDir(prefix)
        /\ phase' = "visit"
        /\ pendingFiles' = IF recursive THEN {} ELSE Under(prefix, files)
        /\ pendingDirs' = IF recursive THEN {prefix} ELSE Under(prefix, dirs)
        /\ UNCHANGED <<store, opts, asked, page, past>>
     \/ /\ ~IsDir(prefix)
        /\ Return({p \in {prefix} \cap files : recursive /\ ~Hidden(p) /\ AfterCursor(p)}, Null)

Pending == pendingFiles \union pendingDirs

\* Mutant of Full: the page stops one entry late.
FullLate(P) == Cardinality(P) > Limit + 1

\* The entry after the last of the page only tells that there is another page.
Full(P) == Cardinality(P) > Limit

\* The turn of p: fs.WalkDir goes down before it goes on, by name, and listDir
\* has sorted its directory.
Visiting(p) ==
  /\ phase = "visit" /\ ~Full(page)
  /\ p \in Pending /\ \A q \in Pending \ {p} : Before(p, q)

\* p is done with; it may have put others in its place.
Visited(p, subfiles, subdirs) ==
  /\ pendingFiles' = (pendingFiles \ {p}) \union subfiles
  /\ pendingDirs' = (pendingDirs \ {p}) \union subdirs
  /\ UNCHANGED <<store, opts, asked, phase, past>>

\* walk goes into directories; anything else is an entry.
ToRead(p) == recursive /\ p \in pendingDirs

\* Mutant of SkippedDir: a directory before the cursor is skipped even when
\* the cursor lies in it.
SkippedEarlierDir(d) == cursor # Null /\ Before(d, cursor)

\* walk does not enter a directory that lies entirely before the cursor.
SkippedDir(d) == cursor # Null /\ Before(d, cursor) /\ ~IsStrictPrefix(d, cursor)

\* A temporary file, or nothing that this page is about.
Ignored(p) ==
  /\ p # <<>>
  /\ Last(p) \in TempNames \/ IF ToRead(p) THEN SkippedDir(p) ELSE ~AfterCursor(p)

Skip(p) == Visiting(p) /\ Ignored(p) /\ Visited(p, {}, {}) /\ UNCHANGED page

\* A file is looked at (Info), which finds whatever has its name by now;
\* listDir takes a directory as it was read.
Collect(p) ==
  /\ Visiting(p) /\ ~Ignored(p) /\ ~ToRead(p)
  /\ p \in pendingFiles => p \in files \union dirs
  /\ page' = page \union {p}
  /\ Visited(p, {}, {})

ReadFolder(p) ==
  /\ Visiting(p) /\ ~Ignored(p) /\ ToRead(p)
  /\ IsDir(p)
  /\ Visited(p, Under(p, files), Under(p, dirs))
  /\ UNCHANGED page

\* Info or ReadDir answers ENOTDIR: a component of the path is a file by now.
NotDir(p) == \E q \in Ancestors(p) \union (IF ToRead(p) THEN {p} ELSE {}) : q \in files

\* ... or ENOENT, which ends the listing only if it is about the prefix.
Missing(p) == (ToRead(p) \/ p \in pendingFiles) /\ p \notin files \union dirs \union {<<>>} /\ ~NotDir(p)

Vanished(p) ==
  /\ Visiting(p) /\ ~Ignored(p) /\ Missing(p) /\ p # prefix
  /\ Visited(p, {}, {})
  /\ UNCHANGED page

\* List turns both errors into an empty page without a cursor and drops what it
\* has collected.
WalkError(p) ==
  /\ Visiting(p) /\ ~Ignored(p) /\ (ToRead(p) \/ p \in pendingFiles)
  /\ NotDir(p) \/ (Missing(p) /\ p = prefix)
  /\ Return({}, Null)

EndPage ==
  /\ phase = "visit"
  /\ \/ Full(page) /\ Return(First(page, Limit), Latest(First(page, Limit)))
     \/ ~Full(page) /\ Pending = {} /\ Return(page, Null)

-----------------------------------------------------------------------------
(* The flat stores' pages.                                                  *)

\* With the delimiter everything below a folder counts as one item.
Item(k) == IF recursive \/ k = prefix THEN k ELSE SubSeq(k, 1, Len(prefix) + 1)

\* What the service has left to return: the prefix's own placeholder too.
Items ==
  {i \in {Item(k) : k \in {l \in files : IsPrefix(prefix, l)}} : AfterCursor(i)}

\* Mutant of Skipped: only keys that end in a slash count as placeholders.
SkippedBySlash(i) ==
  IF recursive THEN Last(i) \in FolderNames /\ ~markers ELSE i = prefix

\* List drops placeholder objects, but not the folders of a delimited listing.
Skipped(i) ==
  IF recursive THEN Placeholder(i) /\ ~markers ELSE i = prefix \/ i \in Stubs

Page(P, c) == [entries |-> {i \in P : ~Skipped(i)}, cursor |-> c]

\* The service returns up to Limit items and a token that stands for the last
\* of them, or the rest and none.  It may stop short of the limit, and it may
\* hand out a token after the last item.
FlatPages ==
  {Page(First(Items, n), Latest(First(Items, n)))
     : n \in {m \in 1..Limit : m <= Cardinality(Items)}}
  \union (IF Cardinality(Items) <= Limit THEN {Page(Items, Null)} ELSE {})

FlatPage ==
  /\ kind = "flat" /\ outcome = "more"
  /\ \E P \in FlatPages : Return(P.entries, P.cursor)

-----------------------------------------------------------------------------

Init ==
  /\ \/ /\ kind = "filesystem"
        /\ files \in SUBSET Paths /\ dirs \in SUBSET (Paths \ files)
        /\ \A p \in files \union dirs : Ancestors(p) \subseteq dirs
        /\ prefix \in Paths \union {<<>>}
        /\ recursive \in BOOLEAN /\ markers = FALSE
     \/ /\ kind = "flat"
        /\ files \in SUBSET Keys /\ dirs = {}
        /\ prefix \in {p \in Places : \A i \in DOMAIN p : p[i] \in FolderNames} \union {<<>>}
        /\ recursive \in BOOLEAN /\ markers \in {FALSE, recursive}
  /\ cursor = Null /\ seen = {} /\ outcome = "more"
  /\ phase = "idle" /\ pendingFiles = {} /\ pendingDirs = {} /\ page = {}
  /\ changes = 0 /\ steady = Entries /\ repeated = {}
  /\ during = {} /\ gone = {} /\ replaced = FALSE

\* A change that another request makes before a page or while one is collected.
Change ==
  /\ outcome = "more" /\ changes < MaxChanges /\ changes' = changes + 1
  /\ UNCHANGED <<opts, asked, call>>
  /\ steady' = steady \cap Entries'
  /\ during' = IF phase = "idle" THEN {} ELSE during \union Entries'

\* A write, which makes the directories it needs.
AddFile(p) ==
  /\ kind = "filesystem"
  /\ p \notin files \union dirs
  /\ \A q \in files : ~IsPrefix(q, p)
  /\ files' = files \union {p}
  /\ dirs' = dirs \union Ancestors(p)
  /\ replaced' = (replaced \/ (p \in gone /\ recursive /\ IsStrictPrefix(prefix, p)))
  /\ UNCHANGED gone
  /\ Change

\* A delete, or a move to a place that is not listed: a file, or a directory
\* with all it holds.
RemoveTree(p) ==
  /\ kind = "filesystem"
  /\ p \in files \union dirs
  /\ files' = {q \in files : ~IsPrefix(p, q)}
  /\ dirs' = {q \in dirs : ~IsPrefix(p, q)}
  /\ gone' = IF phase = "idle" THEN {} ELSE gone \union (dirs \ dirs')
  /\ UNCHANGED replaced
  /\ Change

\* A write to a flat store; an empty folder is a placeholder object.
AddKey(k) ==
  /\ kind = "flat"
  /\ k \notin files
  /\ files' = files \union {k}
  /\ UNCHANGED <<dirs, gone, replaced>>
  /\ Change

\* A folder is gone with its last key.
RemoveKey(k) ==
  /\ kind = "flat"
  /\ k \in files
  /\ files' = files \ {k}
  /\ UNCHANGED <<dirs, gone, replaced>>
  /\ Change

Finished == outcome # "more" /\ UNCHANGED vars

Visit(p) == Skip(p) \/ Collect(p) \/ ReadFolder(p) \/ Vanished(p) \/ WalkError(p)

Next ==
  \/ FlatPage \/ StatPrefix \/ Start \/ EndPage
  \/ \E p \in Paths \union {<<>>} : Visit(p)
  \/ \E p \in Paths : AddFile(p) \/ RemoveTree(p)
  \/ \E k \in Keys : AddKey(k) \/ RemoveKey(k)
  \/ Finished

Spec == Init /\ [][Next]_vars

-----------------------------------------------------------------------------
(* Properties.                                                              *)

\* A listing that has run to its end has returned every entry that was there
\* all the time, whatever was added or removed before, after or around the
\* cursor, between two calls or between two steps of one (walk's skipping of
\* subtrees, comparePaths, names that vanish under the walk), and however many
\* pages held nothing but placeholders.  The one exception is walk meeting a
\* file where it has read of a directory during the same call: it gives ENOTDIR,
\* which List takes for an empty listing (filesystem.go:301-303).
ListsEverythingSteady == outcome = "listed" => steady \subseteq seen \/ replaced

\* No entry comes twice, whatever changed between the pages and during them
\* (afterCursor; the flat stores' tokens).
ListsOnce == repeated = {}

\* A page returns only what was there at some moment of its call and belongs to
\* the listing: no temporary file of a write, and no placeholder that was not
\* asked for.  The one exception is a prefix whose directory a file replaces
\* between List's Stat and fs.WalkDir's: it becomes the listing's own entry.
ListsOnlyEntries ==
  [][seen' \ seen \subseteq
       IF kind = "flat" THEN Entries
       ELSE during \union {p \in {prefix} \cap files : recursive /\ phase = "start"}]_vars

=============================================================================
