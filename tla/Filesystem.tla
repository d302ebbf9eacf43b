----------------------------- MODULE Filesystem -----------------------------
(***************************************************************************)
(* The filesystem backend (internal/backend/filesystem/filesystem.go): how *)
(* Write, Mkdir, DeleteObject, DeleteFolder, MoveObject and MoveFolder are *)
(* put together from the system calls of os.Root, one step per call, when  *)
(* several requests work on one tree.  One of them may be the registration *)
(* of another backend whose root is in this tree: its checkFilesystemRoot  *)
(* makes that directory (internal/registry/fsroot.go).                     *)
(*                                                                         *)
(* A file is identified by the write that made it, so a hard link and a    *)
(* rename keep it the same file.  A write's temporary name is fresh; it is *)
(* the content's own name, in the directory of the object.  Every call may *)
(* fail, and the process may crash between two calls.                      *)
(***************************************************************************)
EXTENDS Naturals, Sequences, SequencesExt, Functions

CONSTANTS
  Slots,        \* requests that may run at once
  Paths,        \* paths a request may name, as sequences of names
  Contents,     \* one for each write
  CreateOnly,   \* the writes made with WriteOptions.CreateOnly
  MaxRequests,  \* bound on requests started
  Null

FsOps == {"write", "mkdir", "deleteObject", "deleteFolder", "moveObject", "moveFolder",
          "register"}

\* The request as asked; c is Null unless it writes, q is Null unless it moves.
Request(op, p, q, c) == [op |-> op, p |-> p, q |-> q, c |-> c]

Requests ==
  [op : FsOps, p : Paths, q : Paths \union {Null}, c : Contents \union {Null}]

\* No request names a temporary file: its name is random.
ASSUME FilesystemAssumption ==
  /\ Paths \subseteq Seq(STRING) \ {<<>>}
  /\ \A p \in Paths : \A i \in DOMAIN p : p[i] \notin Contents
  /\ CreateOnly \subseteq Contents
  /\ MaxRequests \in Nat
  /\ "dir" \notin Contents
  /\ Null \notin Contents /\ Null \notin Requests

VARIABLES
  tree,     \* what each existing path is: "dir" or a file's content
  whole,    \* files completely written and synced
  pc,       \* where each request is
  req,      \* what each request was asked
  mkdirs,   \* directories its mkdirAll has still to make
  handles,  \* directories its RemoveAll has open: the one the folder is in, and
            \* the folder's own
  started,  \* history: requests started so far
  status,   \* history: what became of each write
  stray     \* history: temporary files that a crash, a failed removal or a folder
            \* move has put out of their write's reach

vars == <<tree, whole, pc, req, mkdirs, handles, started, status, stray>>

FsPCs == {"idle", "mkdirs", "temp", "fill", "publish", "unlink", "cleanup", "stat",
          "lstat", "remove", "open", "removing", "check", "rename", "statRoot", "statParent",
          "mkdirRoot"}

Parent(p) == Front(p)
Moves     == {"moveObject", "moveFolder"}

TypeOK ==
  /\ \A p \in DOMAIN tree : p # <<>> /\ tree[p] \in Contents \union {"dir"}
  /\ \A p \in DOMAIN tree :
       Parent(p) = <<>> \/ (Parent(p) \in DOMAIN tree /\ tree[Parent(p)] = "dir")
  /\ whole \subseteq Contents
  /\ pc \in [Slots -> FsPCs]
  /\ \A r \in Slots : pc[r] # "idle" =>
       /\ req[r].op \in FsOps /\ req[r].p \in Paths
       /\ pc[r] \in {"temp", "fill", "publish", "unlink", "cleanup"} => req[r].op = "write"
       /\ pc[r] \in {"check", "rename"} => req[r].op \in Moves
       /\ req[r].op = "write" /\ pc[r] \notin {"unlink", "stat"} => status[req[r].c] = "pending"
       /\ pc[r] = "publish" => req[r].c \in whole
  /\ status \in [Contents -> {"pending", "stored", "refused"}]
  /\ started \in 0..MaxRequests
  /\ stray \subseteq Contents

NoHandles == [in |-> Null, open |-> {}]

Init ==
  /\ tree = [p \in {} |-> "dir"]
  /\ whole = {}
  /\ pc = [r \in Slots |-> "idle"]
  /\ req = [r \in Slots |-> Null]
  /\ mkdirs = [r \in Slots |-> <<>>]
  /\ handles = [r \in Slots |-> NoHandles]
  /\ started = 0
  /\ status = [c \in Contents |-> "pending"]
  /\ stray = {}

-----------------------------------------------------------------------------
(* The system calls (external): what POSIX says of a tree.                 *)

IsDir(p)    == p = <<>> \/ (p \in DOMAIN tree /\ tree[p] = "dir")
IsFile(p)   == p \in DOMAIN tree /\ tree[p] # "dir"
Absent(p)   == p # <<>> /\ p \notin DOMAIN tree
IsEmpty(p)  == \A k \in DOMAIN tree : Parent(k) # p

Rebase(f, t, k) == t \o SubSeq(k, Len(f) + 1, Len(k))

\* Mkdir, O_CREAT|O_EXCL and Link: a new name in an existing directory.
CanEnter(p)   == Absent(p) /\ IsDir(Parent(p))
Enter(p, v)   == tree' = [k \in DOMAIN tree \union {p} |-> IF k = p THEN v ELSE tree[k]]

\* Unlink and rmdir; a directory's handle is of no more use once it is gone.
CanUnlink(p)  == p \in DOMAIN tree /\ (IsDir(p) => IsEmpty(p))

HandlesWithout(p) ==
  [s \in Slots |-> [in   |-> IF handles[s].in = p THEN Null ELSE handles[s].in,
                    open |-> handles[s].open \ {p}]]

Unlink(p) ==
  /\ tree' = Restrict(tree, DOMAIN tree \ {p})
  /\ handles' = HandlesWithout(p)

\* rename(2): a file replaces a file, a directory replaces an empty directory.
CanRename(src, dst) ==
  /\ src \in DOMAIN tree /\ IsDir(Parent(dst)) /\ ~IsPrefix(src, dst)
  /\ IF IsDir(src) THEN Absent(dst) \/ (IsDir(dst) /\ IsEmpty(dst)) ELSE ~IsDir(dst)

\* An open directory handle follows its directory.
Rename(src, dst) ==
  LET moving  == {k \in DOMAIN tree : IsPrefix(src, k)}
      staying == {k \in DOMAIN tree : k \notin moving /\ k # dst}
      from(k) == CHOOSE l \in moving : Rebase(src, dst, l) = k
      now(h)  == IF h # Null /\ h \in moving THEN Rebase(src, dst, h) ELSE h
  IN /\ tree' = [k \in staying \union {Rebase(src, dst, l) : l \in moving} |->
                   IF k \in staying THEN tree[k] ELSE tree[from(k)]]
     /\ handles' = [s \in Slots |->
          [in   |-> now(HandlesWithout(dst)[s].in),
           open |-> {now(h) : h \in HandlesWithout(dst)[s].open}]]

\* Temporary files under f, which a rename of f takes away from their writes.
TempsUnder(f) ==
  {c \in Contents : \E k \in DOMAIN tree : IsPrefix(f, k) /\ f # k /\ Last(k) = c}

-----------------------------------------------------------------------------
(* Requests.                                                               *)

Goto(r, at) == pc' = [pc EXCEPT ![r] = at]

\* mkdirAll(p) is next, one directory after the other, unless p is the root.
MkdirAll(r, p, then) ==
  IF p = <<>>
  THEN Goto(r, then) /\ UNCHANGED mkdirs
  ELSE /\ Goto(r, "mkdirs")
       /\ mkdirs' = [mkdirs EXCEPT ![r] = [i \in 1..Len(p) |-> SubSeq(p, 1, i)]]

Return(r) ==
  /\ Goto(r, "idle")
  /\ req' = [req EXCEPT ![r] = Null]
  /\ mkdirs' = [mkdirs EXCEPT ![r] = <<>>]

Start(r, q) ==
  /\ pc[r] = "idle" /\ started < MaxRequests
  /\ started' = started + 1
  /\ req' = [req EXCEPT ![r] = q]

\* Write: the directory first, then the temporary file.
WriteBegin(r, p, c) ==
  /\ status[c] = "pending" /\ \A s \in Slots : req[s] # Null => req[s].c # c
  /\ c \notin stray
  /\ Start(r, Request("write", p, Null, c))
  /\ MkdirAll(r, Parent(p), "temp")
  /\ UNCHANGED <<tree, whole, handles, status, stray>>

MkdirBegin(r, p) ==
  /\ Start(r, Request("mkdir", p, Null, Null))
  /\ MkdirAll(r, p, "stat")
  /\ UNCHANGED <<tree, whole, handles, status, stray>>

OtherBegin(r, op, p, q) ==
  /\ IF op \in Moves THEN q # p ELSE q = Null
  /\ op = "moveFolder" => ~IsPrefix(p, q)
  /\ Start(r, Request(op, p, q, Null))
  /\ Goto(r, "lstat")
  /\ UNCHANGED <<tree, whole, mkdirs, handles, status, stray>>

\* What follows mkdirAll, for each of its three callers.
AfterMkdirs(r) ==
  CASE req[r].op = "write" -> "temp" [] req[r].op = "mkdir" -> "stat" [] OTHER -> "rename"

\* One directory of mkdirAll: made, or there already; a file in the way is an
\* error.
MkdirNext(r) ==
  LET d == Head(mkdirs[r]) IN
  /\ pc[r] = "mkdirs"
  /\ \/ CanEnter(d) /\ Enter(d, "dir")
     \/ IsDir(d) /\ UNCHANGED tree
  /\ mkdirs' = [mkdirs EXCEPT ![r] = Tail(@)]
  /\ Goto(r, IF Len(mkdirs[r]) = 1 THEN AfterMkdirs(r) ELSE "mkdirs")
  /\ UNCHANGED <<whole, req, handles, started, status, stray>>

-----------------------------------------------------------------------------
(* Write.                                                                  *)

\* The request's temporary name, in the object's own directory.
Tmp(r) == Parent(req[r].p) \o <<req[r].c>>

OpenTemp(r) ==
  /\ pc[r] = "temp" /\ CanEnter(Tmp(r))
  /\ Enter(Tmp(r), req[r].c)
  /\ Goto(r, "fill")
  /\ UNCHANGED <<whole, req, mkdirs, handles, started, status, stray>>

\* Copy, sync and close: the handle stays good wherever the file is moved.
Fill(r) ==
  /\ pc[r] = "fill"
  /\ whole' = whole \union {req[r].c}
  /\ Goto(r, "publish")
  /\ UNCHANGED <<tree, req, mkdirs, handles, started, status, stray>>

\* Mutant of FillError: the error of the copy, the sync or the close is dropped.
FillErrorDropped(r) ==
  /\ pc[r] = "fill"
  /\ Goto(r, "publish")
  /\ UNCHANGED <<tree, whole, req, mkdirs, handles, started, status, stray>>

\* The body ends early, is too large or is cancelled, or the disk is full.
FillError(r) ==
  /\ pc[r] = "fill"
  /\ Goto(r, "cleanup")
  /\ UNCHANGED <<tree, whole, req, mkdirs, handles, started, status, stray>>

Settle(r, as) == status' = [status EXCEPT ![req[r].c] = as]

\* Mutant of Link: create-only writes are renamed into place like any other.
LinkByRename(r) ==
  /\ pc[r] = "publish" /\ req[r].c \in CreateOnly
  /\ CanRename(Tmp(r), req[r].p) /\ Rename(Tmp(r), req[r].p)
  /\ Settle(r, "stored")
  /\ Goto(r, "unlink")
  /\ UNCHANGED <<whole, req, mkdirs, started, stray>>

\* A create-only write takes its name with Link, which fails if it exists.
Link(r) ==
  /\ pc[r] = "publish" /\ req[r].c \in CreateOnly
  /\ IsFile(Tmp(r)) /\ CanEnter(req[r].p)
  /\ Enter(req[r].p, req[r].c)
  /\ Settle(r, "stored")
  /\ Goto(r, "unlink")
  /\ UNCHANGED <<whole, req, mkdirs, handles, started, stray>>

\* Any other write with Rename.
RenameTemp(r) ==
  /\ pc[r] = "publish" /\ req[r].c \notin CreateOnly
  /\ CanRename(Tmp(r), req[r].p)
  /\ Rename(Tmp(r), req[r].p)
  /\ Settle(r, "stored")
  /\ Goto(r, "stat")
  /\ UNCHANGED <<whole, req, mkdirs, started, stray>>

PublishError(r) ==
  /\ pc[r] = "publish"
  /\ Goto(r, "cleanup")
  /\ UNCHANGED <<tree, whole, req, mkdirs, handles, started, status, stray>>

\* Removing the temporary file is best effort.
RemoveTemp(r) ==
  \/ /\ CanUnlink(Tmp(r))
     /\ Unlink(Tmp(r))
     /\ UNCHANGED stray
  \/ /\ stray' = stray \union {req[r].c}
     /\ UNCHANGED <<tree, handles>>

\* Mutant of Cleanup: the temporary file of a failed write is left.
CleanupMissing(r) ==
  /\ pc[r] = "cleanup"
  /\ Settle(r, "refused")
  /\ Return(r)
  /\ UNCHANGED <<tree, whole, handles, started, stray>>

Cleanup(r) ==
  /\ pc[r] = "cleanup"
  /\ RemoveTemp(r)
  /\ Settle(r, "refused")
  /\ Return(r)
  /\ UNCHANGED <<whole, started>>

UnlinkTemp(r) ==
  /\ pc[r] = "unlink"
  /\ RemoveTemp(r)
  /\ Goto(r, "stat")
  /\ UNCHANGED <<whole, req, mkdirs, started, status>>

\* The closing Stat of Write and of Mkdir; whatever it finds, nothing changes.
FinalStat(r) ==
  /\ pc[r] = "stat"
  /\ Return(r)
  /\ UNCHANGED <<tree, whole, handles, started, status, stray>>

-----------------------------------------------------------------------------
(* DeleteObject and DeleteFolder.                                          *)

LstatDelete(r) ==
  /\ pc[r] = "lstat"
  /\ \/ req[r].op = "deleteObject" /\ IsFile(req[r].p) /\ Goto(r, "remove")
     \/ req[r].op = "deleteFolder" /\ IsDir(req[r].p) /\ Goto(r, "open")
  /\ UNCHANGED <<tree, whole, req, mkdirs, handles, started, status, stray>>

\* Remove takes a file or an empty directory, whichever has the name by now.
RemoveObject(r) ==
  /\ pc[r] = "remove" /\ CanUnlink(req[r].p)
  /\ Unlink(req[r].p)
  /\ Return(r)
  /\ UNCHANGED <<whole, started, status, stray>>

\* RemoveAll: a file by now is simply removed, a directory is opened.
RemoveAllOpen(r) ==
  /\ pc[r] = "open"
  /\ \/ IsFile(req[r].p) /\ Unlink(req[r].p) /\ Return(r)
     \/ /\ IsDir(req[r].p)
        /\ handles' = [handles EXCEPT ![r] = [in |-> Parent(req[r].p), open |-> {req[r].p}]]
        /\ Goto(r, "removing") /\ UNCHANGED <<tree, req, mkdirs>>
  /\ UNCHANGED <<whole, started, status, stray>>

\* It goes down into a directory of an open one, or removes an entry of it.
RemoveAllDescend(r, d) ==
  /\ pc[r] = "removing" /\ IsDir(d)
  /\ Parent(d) \in handles[r].open /\ d \notin handles[r].open
  /\ handles' = [handles EXCEPT ![r].open = @ \union {d}]
  /\ UNCHANGED <<tree, whole, pc, req, mkdirs, started, status, stray>>

RemoveAllEntry(r, k) ==
  /\ pc[r] = "removing" /\ Parent(k) \in handles[r].open /\ CanUnlink(k)
  /\ Unlink(k)
  /\ UNCHANGED <<whole, pc, req, mkdirs, started, status, stray>>

\* The folder's name in the directory it was opened from, wherever that is now.
Top(r) == handles[r].in \o <<Last(req[r].p)>>

\* At last the directory itself, by that name: gone already is fine too.
RemoveAllLast(r) ==
  /\ pc[r] = "removing"
  /\ IF handles[r].in # Null /\ ~Absent(Top(r))
     THEN /\ IsDir(Top(r)) /\ IsEmpty(Top(r))
          /\ tree' = Restrict(tree, DOMAIN tree \ {Top(r)})
          /\ handles' = [HandlesWithout(Top(r)) EXCEPT ![r] = NoHandles]
     ELSE handles' = [handles EXCEPT ![r] = NoHandles] /\ UNCHANGED tree
  /\ Return(r)
  /\ UNCHANGED <<whole, started, status, stray>>

-----------------------------------------------------------------------------
(* MoveObject and MoveFolder: move.                                        *)

LstatSource(r) ==
  /\ pc[r] = "lstat"
  /\ \/ req[r].op = "moveObject" /\ IsFile(req[r].p)
     \/ req[r].op = "moveFolder" /\ IsDir(req[r].p)
  /\ Goto(r, "check")
  /\ UNCHANGED <<tree, whole, req, mkdirs, handles, started, status, stray>>

LstatTarget(r) ==
  /\ pc[r] = "check" /\ Absent(req[r].q)
  /\ MkdirAll(r, Parent(req[r].q), "rename")
  /\ UNCHANGED <<tree, whole, req, handles, started, status, stray>>

MoveRename(r) ==
  /\ pc[r] = "rename" /\ CanRename(req[r].p, req[r].q)
  /\ Rename(req[r].p, req[r].q)
  /\ stray' = stray \union TempsUnder(req[r].p)
  /\ Return(r)
  /\ UNCHANGED <<whole, started, status>>

-----------------------------------------------------------------------------
(* checkFilesystemRoot.                                                     *)

RegisterBegin(r, p) ==
  /\ Start(r, Request("register", p, Null, Null))
  /\ Goto(r, "statRoot")
  /\ UNCHANGED <<tree, whole, mkdirs, handles, status, stray>>

\* A directory will do as it is; a missing one is made if its parent is there.
StatRoot(r) ==
  /\ pc[r] = "statRoot"
  /\ \/ IsDir(req[r].p) /\ Return(r)
     \/ Absent(req[r].p) /\ Goto(r, "statParent") /\ UNCHANGED <<req, mkdirs>>
  /\ UNCHANGED <<tree, whole, handles, started, status, stray>>

StatParent(r) ==
  /\ pc[r] = "statParent" /\ IsDir(Parent(req[r].p))
  /\ Goto(r, "mkdirRoot")
  /\ UNCHANGED <<tree, whole, req, mkdirs, handles, started, status, stray>>

\* ErrExist is taken for success, whatever has got the name in the meantime.
MkdirRoot(r) ==
  /\ pc[r] = "mkdirRoot"
  /\ \/ CanEnter(req[r].p) /\ Enter(req[r].p, "dir")
     \/ ~Absent(req[r].p) /\ UNCHANGED tree
  /\ Return(r)
  /\ UNCHANGED <<whole, handles, started, status, stray>>

-----------------------------------------------------------------------------
\* Any of these calls may fail, for lack of what it needs or otherwise, and
\* the request ends with an error; what it has done so far stays.
Fail(r) ==
  /\ pc[r] \in FsPCs \ {"idle", "fill", "publish", "unlink", "cleanup", "stat"}
  /\ IF req[r].op = "write" THEN Settle(r, "refused") ELSE UNCHANGED status
  /\ handles' = [handles EXCEPT ![r] = NoHandles]
  /\ Return(r)
  /\ UNCHANGED <<tree, whole, started, stray>>

Crash ==
  /\ stray' = stray \union {req[r].c : r \in {s \in Slots : req[s] # Null /\ req[s].op = "write"}}
  /\ pc' = [r \in Slots |-> "idle"]
  /\ req' = [r \in Slots |-> Null]
  /\ mkdirs' = [r \in Slots |-> <<>>]
  /\ handles' = [r \in Slots |-> NoHandles]
  /\ UNCHANGED <<tree, whole, started, status>>

Begin(r) ==
  \/ \E p \in Paths, c \in Contents : WriteBegin(r, p, c)
  \/ \E p \in Paths : MkdirBegin(r, p) \/ RegisterBegin(r, p)
  \/ \E p \in Paths : \E op \in {"deleteObject", "deleteFolder"} : OtherBegin(r, op, p, Null)
  \/ \E p, q \in Paths : \E op \in Moves : OtherBegin(r, op, p, q)

WriteStep(r) ==
  \/ OpenTemp(r) \/ Fill(r) \/ FillError(r) \/ Link(r) \/ RenameTemp(r)
  \/ PublishError(r) \/ Cleanup(r) \/ UnlinkTemp(r) \/ FinalStat(r)

RemoveStep(r) ==
  \/ LstatDelete(r) \/ RemoveObject(r) \/ RemoveAllOpen(r) \/ RemoveAllLast(r)
  \/ \E k \in DOMAIN tree : RemoveAllDescend(r, k) \/ RemoveAllEntry(r, k)

MoveStep(r) == LstatSource(r) \/ LstatTarget(r) \/ MoveRename(r)

RegisterStep(r) == StatRoot(r) \/ StatParent(r) \/ MkdirRoot(r)

Next ==
  \/ \E r \in Slots : \/ Begin(r) \/ MkdirNext(r)
                      \/ WriteStep(r) \/ RemoveStep(r) \/ MoveStep(r)
                      \/ RegisterStep(r) \/ Fail(r)
  \/ Crash

Spec == Init /\ [][Next]_vars

-----------------------------------------------------------------------------
(* Properties.                                                              *)

\* The objects a reader can find.  One not completely written reads as Null,
\* which no ObjectStore ever holds.
Objects ==
  [p \in {k \in DOMAIN tree : IsFile(k) /\ Last(k) \notin Contents} |->
     IF tree[p] \in whole THEN tree[p] ELSE Null]

Store == INSTANCE ObjectStore WITH objs <- Objects

\* The tree of files, whatever the requests' calls interleave, behaves as the
\* store of whole objects that backend.Backend promises: readers "only ever see
\* the old object or the complete new one", a create-only write never replaces
\* an object, a folder move carries every object and covers none, and a write
\* refused before it took its name never shows up, not even when a concurrent
\* folder move has carried off its temporary file.
ImplementsObjectStore == Store!Spec

\* "a failed/interrupted write leaves nothing" (filesystem.go:205-206): every
\* temporary file belongs to a write still running, apart from those a crash, a
\* failed removal or a folder move has put out of its reach.
NoStrayTemp ==
  \A p \in DOMAIN tree : Last(p) \in Contents \ stray =>
    \E r \in Slots : req[r] # Null /\ req[r].c = Last(p)

=============================================================================
