------------------------------ MODULE FlatStore ------------------------------
(***************************************************************************)
(* Folder operations on flat-key object stores (S3, GCS, Azure Blob), which *)
(* have none of their own: internal/backend/flatstore.go builds them out of *)
(* List, KeyExists, CopyKey and DeleteKey, one call per object.             *)
(*                                                                         *)
(* Each mover is one request.  A call may succeed, fail without effect, or  *)
(* take effect and still report an error; the process may crash between two *)
(* calls.  Nothing locks the bucket: other clients, and other requests, may *)
(* write and delete any object at any time.                                 *)
(*                                                                         *)
(* How keys spell folders is left to the constants Under and Dest, of which *)
(* only the facts below are used.  An object's content is identified by the *)
(* key it was first stored at, or by the client write that produced it.     *)
(***************************************************************************)
EXTENDS Naturals, FiniteSets

CONSTANTS
  Keys,              \* object keys, folder placeholders included
  Placeholders,      \* the zero-byte "folder/" keys among them
  Folders,           \* folder prefixes ("a/b/")
  Under(_),          \* the keys with a given folder prefix
  Dest(_, _, _),     \* Dest(from, to, k): k with prefix from replaced by to
  Inside(_, _),      \* Inside(to, from): to has the prefix from
  Movers,            \* requests that may run at once
  MaxFolderObjects,  \* maxFolderObjects
  MaxRequests,       \* bound on requests started
  ClientWrites,      \* contents other clients may write, {} for none
  ClientDeletes,     \* TRUE: other clients may delete objects
  Null

Contents == Keys \union ClientWrites

ASSUME FlatAssumption ==
  /\ MaxFolderObjects \in Nat
  /\ MaxRequests \in Nat
  /\ ClientDeletes \in BOOLEAN
  /\ Null \notin Contents \union Folders \union Movers
  /\ \A f \in Folders : Under(f) \subseteq Keys

\* Replacing a prefix keeps distinct keys distinct and lands under the target.
ASSUME DestAssumption ==
  \A f, t \in Folders : \A k, l \in Under(f) :
    /\ Dest(f, t, k) \in Keys => Dest(f, t, k) \in Under(t)
    /\ Dest(f, t, k) = Dest(f, t, l) => k = l

\* Two prefixes have keys in common only when one is a prefix of the other.
ASSUME NestAssumption ==
  \A f, t \in Folders :
    Under(f) \cap Under(t) = {} \/ Inside(t, f) \/ Under(f) \subseteq Under(t)

VARIABLES
  objs,    \* the bucket: each key's content, Null when there is no object
  pc,      \* where each request is
  target,  \* the destination folder of a folder move, Null otherwise
  plan,    \* the keys the request listed, each with its destination
  todo,    \* keys its current loop has still to visit
  copied,  \* destinations it has written so far
  orig,    \* history: what each listed key held when it was listed
  touched, \* history: keys others have changed since the request looked at them
  live,    \* history: contents no one asked to delete or wrote into a race
  started  \* history: requests started so far

vars == <<objs, pc, target, plan, todo, copied, orig, touched, live, started>>

MovePCs   == {"probe", "copy", "rollback", "delete"}
EndPCs    == {"idle", "moved", "refused", "copyFailed", "deleteFailed", "crashed"}
FlatPCs   == MovePCs \union EndPCs \union {"removing"}

TypeOK ==
  /\ objs \in [Keys -> Contents \union {Null}]
  /\ pc \in [Movers -> FlatPCs]
  /\ target \in [Movers -> Folders \union {Null}]
  /\ \A m \in Movers : /\ DOMAIN plan[m] \subseteq Keys
                       /\ plan[m] \in [DOMAIN plan[m] -> Keys]
                       /\ orig[m] \in [DOMAIN plan[m] -> Contents]
  /\ todo \in [Movers -> SUBSET Keys]
  /\ copied \in [Movers -> SUBSET Keys]
  /\ touched \in [Movers -> SUBSET Keys]
  /\ live \subseteq Contents
  /\ started \in Nat

Present   == {k \in Keys : objs[k] # Null}
NoPlan    == [k \in {} |-> k]

Init ==
  /\ \E S \in SUBSET Keys : objs = [k \in Keys |-> IF k \in S THEN k ELSE Null]
  /\ pc = [m \in Movers |-> "idle"]
  /\ target = [m \in Movers |-> Null]
  /\ plan = [m \in Movers |-> NoPlan]
  /\ todo = [m \in Movers |-> {}]
  /\ copied = [m \in Movers |-> {}]
  /\ orig = [m \in Movers |-> NoPlan]
  /\ touched = [m \in Movers |-> {}]
  /\ live = Present
  /\ started = 0

Goto(m, at) == pc' = [pc EXCEPT ![m] = at]

\* The keys a request listed, and where it takes them.
Sources(m) == DOMAIN plan[m]
Dests(m)   == {plan[m][k] : k \in Sources(m)}
Works(m)   == Sources(m) \union Dests(m)

\* One object stored, or erased, by request m or (m = Null) another client:
\* what any other request knew of that key is out of date from here on.
Put(m, k, c) ==
  /\ objs' = [objs EXCEPT ![k] = c]
  /\ touched' = [n \in Movers |->
                  IF n = m THEN touched[n] ELSE touched[n] \union ({k} \cap Works(n))]
Erase(m, k) == Put(m, k, Null)
Keep        == UNCHANGED <<objs, touched>>

\* The request starts with nothing copied and p as its list of keys.
Plan(m, p, at) ==
  /\ pc[m] \in EndPCs /\ started < MaxRequests
  /\ started' = started + 1
  /\ plan' = [plan EXCEPT ![m] = p]
  /\ orig' = [orig EXCEPT ![m] = [k \in DOMAIN p |-> objs[k]]]
  /\ touched' = [touched EXCEPT ![m] = {}]
  /\ copied' = [copied EXCEPT ![m] = {}]
  /\ todo' = [todo EXCEPT ![m] = DOMAIN p]
  /\ Goto(m, at)

\* keysUnder: every key under the folder; an empty or oversized one is refused.
\* It reads page after page; what pages miss or repeat is Listing's subject.
Listed(f) == Under(f) \intersect Present

Listable(f) == Listed(f) # {} /\ Cardinality(Listed(f)) <= MaxFolderObjects

-----------------------------------------------------------------------------
(* MoveFolderFlat and MoveObjectFlat.                                      *)

MoveFolderList(m, f, t) ==
  /\ f # t /\ ~Inside(t, f)
  /\ Listable(f)
  /\ \A k \in Listed(f) : Dest(f, t, k) \in Keys
  /\ Plan(m, [k \in Listed(f) |-> Dest(f, t, k)], "probe")
  /\ target' = [target EXCEPT ![m] = t]
  /\ UNCHANGED <<objs, live>>

MoveObjectCheck(m, a, b) ==
  /\ a # b /\ a \in Present /\ {a, b} \cap Placeholders = {}
  /\ Plan(m, [k \in {a} |-> b], "probe")
  /\ target' = [target EXCEPT ![m] = Null]
  /\ UNCHANGED <<objs, live>>

\* What must be absent at the destination: the folder, or the one key.
Taken(m) ==
  IF target[m] = Null THEN Dests(m) \cap Present # {}
                      ELSE Listed(target[m]) # {}

\* Mutant of Probe: the destination is not looked at.
ProbeSkipped(m) ==
  /\ pc[m] = "probe"
  /\ Goto(m, "copy")
  /\ touched' = [touched EXCEPT ![m] = @ \cap Sources(m)]
  /\ UNCHANGED <<objs, target, plan, todo, copied, orig, live, started>>

Probe(m) ==
  /\ pc[m] = "probe"
  /\ Goto(m, IF Taken(m) THEN "refused" ELSE "copy")
  /\ touched' = [touched EXCEPT ![m] = @ \cap Sources(m)]
  /\ UNCHANGED <<objs, target, plan, todo, copied, orig, live, started>>

\* A list or an existence check may fail; nothing has changed by then.
ProbeError(m) ==
  /\ pc[m] = "probe"
  /\ Goto(m, "refused")
  /\ Keep
  /\ UNCHANGED <<target, plan, todo, copied, orig, live, started>>

\* Visit one key of the current loop; after the last one go on to the next.
Visit(m, k, next, nextTodo) ==
  IF todo[m] = {k}
  THEN Goto(m, next) /\ todo' = [todo EXCEPT ![m] = nextTodo]
  ELSE todo' = [todo EXCEPT ![m] = @ \ {k}] /\ UNCHANGED pc

CopyKey(m, k) ==
  /\ pc[m] = "copy" /\ k \in todo[m] /\ k \in Present
  /\ Put(m, plan[m][k], objs[k])
  /\ copied' = [copied EXCEPT ![m] = @ \union {plan[m][k]}]
  /\ Visit(m, k, "delete", Sources(m))
  /\ UNCHANGED <<target, plan, orig, live, started>>

\* Mutant of CopyKeyError: the failed key is skipped and the move goes on.
CopyKeyErrorSkips(m, k) ==
  /\ pc[m] = "copy" /\ k \in todo[m]
  /\ Visit(m, k, "delete", Sources(m))
  /\ Keep
  /\ UNCHANGED <<target, plan, copied, orig, live, started>>

\* Mutant of CopyKeyError: the rollback walks the sources, not the copies.
CopyKeyErrorRollsSources(m, k) ==
  /\ pc[m] = "copy" /\ k \in todo[m]
  /\ Goto(m, "rollback") /\ todo' = [todo EXCEPT ![m] = Sources(m) \ {k}]
  /\ Keep
  /\ UNCHANGED <<target, plan, copied, orig, live, started>>

\* A failed copy (the source may have gone) undoes the copies made before it.
CopyKeyError(m, k) ==
  /\ pc[m] = "copy" /\ k \in todo[m]
  /\ \/ Keep
     \/ k \in Present /\ Put(m, plan[m][k], objs[k])
  /\ IF target[m] # Null /\ copied[m] # {}
     THEN Goto(m, "rollback") /\ todo' = [todo EXCEPT ![m] = copied[m]]
     ELSE Goto(m, "copyFailed") /\ todo' = [todo EXCEPT ![m] = {}]
  /\ UNCHANGED <<target, plan, copied, orig, live, started>>

\* Best effort: a failed delete is dropped and the loop goes on.
RollbackCopy(m, d) ==
  /\ pc[m] = "rollback" /\ d \in todo[m]
  /\ Erase(m, d) \/ Keep
  /\ Visit(m, d, "copyFailed", {})
  /\ UNCHANGED <<target, plan, copied, orig, live, started>>

\* Mutant of DeleteSource: the loop ends after the first source.
DeleteSourceOnce(m, k) ==
  /\ pc[m] = "delete" /\ k \in todo[m]
  /\ Erase(m, k)
  /\ Goto(m, "moved") /\ todo' = [todo EXCEPT ![m] = {}]
  /\ UNCHANGED <<target, plan, copied, orig, live, started>>

DeleteSource(m, k) ==
  /\ pc[m] = "delete" /\ k \in todo[m]
  /\ Erase(m, k)
  /\ Visit(m, k, "moved", {})
  /\ UNCHANGED <<target, plan, copied, orig, live, started>>

DeleteSourceError(m, k) ==
  /\ pc[m] = "delete" /\ k \in todo[m]
  /\ Erase(m, k) \/ Keep
  /\ Goto(m, "deleteFailed")
  /\ todo' = [todo EXCEPT ![m] = {}]
  /\ UNCHANGED <<target, plan, copied, orig, live, started>>

-----------------------------------------------------------------------------
(* DeleteFolderFlat.                                                       *)

\* Mutant of DeleteFolderList: a listing that is not of the present objects.
DeleteFolderListStale(m, f) ==
  /\ Listable(f)
  /\ Plan(m, [k \in Under(f) |-> k], "removing")
  /\ target' = [target EXCEPT ![m] = Null]
  /\ live' = live \ {objs[k] : k \in Listed(f)}
  /\ UNCHANGED objs

DeleteFolderList(m, f) ==
  /\ Listable(f)
  /\ Plan(m, [k \in Listed(f) |-> k], "removing")
  /\ target' = [target EXCEPT ![m] = Null]
  /\ live' = live \ {objs[k] : k \in Listed(f)}
  /\ UNCHANGED objs

DeleteFolderKey(m, k) ==
  /\ pc[m] = "removing" /\ k \in todo[m]
  /\ Erase(m, k)
  /\ Visit(m, k, "idle", {})
  /\ UNCHANGED <<target, plan, copied, orig, live, started>>

DeleteFolderError(m, k) ==
  /\ pc[m] = "removing" /\ k \in todo[m]
  /\ Erase(m, k) \/ Keep
  /\ Goto(m, "idle")
  /\ todo' = [todo EXCEPT ![m] = {}]
  /\ UNCHANGED <<target, plan, copied, orig, live, started>>

-----------------------------------------------------------------------------
(* Other clients of the same bucket, and crashes.                          *)

\* Where a content that appears while m runs may be overwritten or deleted:
\* m works on what it has listed and on where it takes it.
AtRisk(m) == IF pc[m] \in {"copy", "rollback", "delete", "removing"}
             THEN Works(m) ELSE {}

\* Backend.Write (and Mkdir, for a placeholder): the store replaces atomically.
ClientWrite(k, c) ==
  /\ c \in ClientWrites /\ objs[k] # c
  /\ Put(Null, k, c)
  /\ live' = (live \ {objs[k]}) \union {x \in {c} : \A m \in Movers : k \notin AtRisk(m)}
  /\ UNCHANGED <<pc, target, plan, todo, copied, orig, started>>

ClientDelete(k) ==
  /\ ClientDeletes /\ k \in Present
  /\ Erase(Null, k)
  /\ live' = live \ {objs[k]}
  /\ UNCHANGED <<pc, target, plan, todo, copied, orig, started>>

Crash ==
  /\ pc' = [m \in Movers |-> IF pc[m] \in EndPCs THEN pc[m] ELSE "crashed"]
  /\ todo' = [m \in Movers |-> {}]
  /\ UNCHANGED <<objs, target, plan, copied, orig, touched, live, started>>

MoveStep(m) ==
  \/ \E f, t \in Folders : MoveFolderList(m, f, t)
  \/ \E a, b \in Keys : MoveObjectCheck(m, a, b)
  \/ Probe(m) \/ ProbeError(m)
  \/ \E k \in Keys : \/ CopyKey(m, k) \/ CopyKeyError(m, k)
                     \/ RollbackCopy(m, k)
                     \/ DeleteSource(m, k) \/ DeleteSourceError(m, k)

RemoveStep(m) ==
  \/ \E f \in Folders : DeleteFolderList(m, f)
  \/ \E k \in Keys : DeleteFolderKey(m, k) \/ DeleteFolderError(m, k)

ClientStep ==
  \/ \E k \in Keys, c \in ClientWrites : ClientWrite(k, c)
  \/ \E k \in Keys : ClientDelete(k)

Next ==
  \/ \E m \in Movers : MoveStep(m) \/ RemoveStep(m)
  \/ ClientStep
  \/ Crash

Spec == Init /\ [][Next]_vars

-----------------------------------------------------------------------------
(* Properties.                                                              *)

\* Whatever calls fail and wherever the process stops, every content that no
\* one asked to delete is still stored under some key: the copies come first,
\* a rollback removes only copies, and an upload into a folder that is being
\* moved or deleted survives (flatstore.go:92-95).  Only what another client
\* writes at a key the request is working on may be lost.
NothingLost == \A c \in live : \E k \in Keys : objs[k] = c

\* Until every copy has been made, and after a copy has failed, the source
\* folder is exactly as it was listed ("the source is untouched",
\* flatstore.go:94), save for what others have changed there themselves.
SourceUntouched ==
  \A m \in Movers :
    pc[m] \in {"probe", "copy", "rollback", "refused", "copyFailed"} =>
      \A k \in Sources(m) \ touched[m] : objs[k] = orig[m][k]

\* A finished move has put every listed content at its destination, with
\* nothing left at the source, save for what others have changed meanwhile.
MovedIsMoved ==
  \A m \in Movers :
    pc[m] = "moved" => \A k \in Sources(m) \ touched[m] :
      /\ objs[k] = Null
      /\ plan[m][k] \notin touched[m] => objs[plan[m][k]] = orig[m][k]

\* No copy of a move replaces an object that was there when the move looked:
\* what it does replace, another client has put there since the probe
\* (flatstore.go:81-86, 110-116; CopyKey itself overwrites).
NoClobber ==
  [][\A m \in Movers, k \in Keys :
       CopyKey(m, k) \/ CopyKeyError(m, k) =>
         \/ objs[plan[m][k]] \in {Null, objs'[plan[m][k]]}
         \/ plan[m][k] \in touched[m]]_vars

=============================================================================
