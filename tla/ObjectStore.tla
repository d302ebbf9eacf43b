----------------------------- MODULE ObjectStore -----------------------------
(***************************************************************************)
(* What backend.Backend promises about objects (internal/backend/          *)
(* backend.go), whatever the kind: every operation takes effect in one     *)
(* step, an object is never seen half written, a create-only write never   *)
(* replaces anything and a refused write leaves nothing behind.            *)
(*                                                                         *)
(* Paths are sequences of names.  Each write carries its own content, so a *)
(* content also names the write.                                           *)
(***************************************************************************)
EXTENDS Sequences, SequencesExt, Functions

CONSTANTS
  Paths,       \* paths a request may name
  Contents,    \* one for each write
  CreateOnly   \* the writes made with WriteOptions.CreateOnly

VARIABLES
  objs,    \* the objects: a function from their paths to their contents
  status   \* what became of each write

vars == <<objs, status>>

\* k with its prefix f replaced by t.
Rebase(f, t, k) == t \o SubSeq(k, Len(f) + 1, Len(k))

\* g with every path at or under f moved to t, over whatever was at t.
MoveTree(g, f, t) ==
  LET moving  == {k \in DOMAIN g : IsPrefix(f, k)}
      staying == {k \in DOMAIN g : k \notin moving /\ k # t}
      from(k) == CHOOSE l \in moving : Rebase(f, t, l) = k
  IN [k \in staying \union {Rebase(f, t, l) : l \in moving} |->
        IF k \in staying THEN g[k] ELSE g[from(k)]]

Init ==
  /\ objs = [p \in {} |-> p]
  /\ status = [c \in Contents |-> "pending"]

Settle(c, as) ==
  /\ status[c] = "pending"
  /\ status' = [status EXCEPT ![c] = as]

Write(p, c) ==
  /\ c \in CreateOnly => p \notin DOMAIN objs
  /\ objs' = [k \in DOMAIN objs \union {p} |-> IF k = p THEN c ELSE objs[k]]
  /\ Settle(c, "stored")

Refuse(c) == Settle(c, "refused") /\ UNCHANGED objs

\* DeleteObject, or one object of a DeleteFolder.
Delete(p) ==
  /\ objs' = Restrict(objs, DOMAIN objs \ {p})
  /\ UNCHANGED status

\* A rename may replace an object stored at its destination after it looked.  The
\* interface promises the contrary ("a rename must never silently destroy data",
\* backend.go:200-201); filesystem.go:424-427 admits that the look is not race-free,
\* but not that an object may be lost.  What is promised here is what rename(2) does.
MoveObject(p, q) ==
  /\ p \in DOMAIN objs
  /\ objs' = MoveTree(objs, p, q)
  /\ UNCHANGED status

\* A folder is moved as a whole, and never onto objects.
MoveFolder(f, t) ==
  /\ ~ \E k \in DOMAIN objs : IsPrefix(t, k)
  /\ objs' = MoveTree(objs, f, t)
  /\ UNCHANGED status

Next ==
  \/ \E p \in Paths, c \in Contents : Write(p, c)
  \/ \E c \in Contents : Refuse(c)
  \/ \E p \in DOMAIN objs : Delete(p)
  \/ \E p, q \in Paths : MoveObject(p, q) \/ MoveFolder(p, q)

Spec == Init /\ [][Next]_vars

=============================================================================
