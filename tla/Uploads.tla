------------------------------- MODULE Uploads -------------------------------
(***************************************************************************)
(* Uploads through the API (handleWriteObject in internal/api/server.go)   *)
(* and the upload grants that let an app, which may otherwise only read,   *)
(* make create-only writes (internal/uploadgrant).                         *)
(*                                                                         *)
(* A request reads the grants, then the backend's row, then the row again  *)
(* to open the backend, and only then writes.  Owners save, delete and     *)
(* revoke grants, and change and test the backends, meanwhile.             *)
(*                                                                         *)
(* One workspace.  A storage server stores an object in one step (see      *)
(* ObjectStore); Open returns the server the row names (see Registry).     *)
(***************************************************************************)
EXTENDS Naturals, FiniteSets, Sequences, SequencesExt

CONSTANTS
  Apps,          \* principals of apps, with the role viewer
  Requests,      \* PUT requests that may be made
  Grants,        \* grants an owner may save, without their ID
  Backends,      \* backend IDs
  Servers,       \* what a backend's configuration may name
  S3Servers,     \* the ones reached as kind S3
  Enforcing,     \* the ones that honour "If-None-Match: *"
  UploadLimits,  \* possible values of MaxUploadBytes, 0 for no limit
  Writes,        \* identities of requests
  MaxChanges,    \* bound on what owners do
  MaxTests,      \* bound on the tests of backends under way at a time
  Null

ASSUME UploadsAssumption ==
  /\ \A q \in Requests : /\ q.backend \in Backends /\ q.dir \in Seq(STRING)
                         /\ q.size \in Nat /\ q.only \in BOOLEAN
  /\ \A g \in Grants : /\ g.who \in Apps /\ g.backend \in Backends
                       /\ g.prefix \in Seq(STRING) /\ g.max \in Nat \ {0}
  /\ S3Servers \subseteq Servers /\ Enforcing \subseteq Servers
  /\ Servers \ S3Servers \subseteq Enforcing
  /\ UploadLimits \subseteq Nat
  /\ MaxChanges \in Nat /\ MaxTests \in Nat
  /\ Null \notin Requests \union Grants \union Servers
  /\ Null \notin [server : Servers, proven : Servers \union {Null}]

VARIABLES
  grants,     \* table storage_upload_grants: [id, g]
  rows,       \* each backend's row: Null or [server, proven]; CreateOnlyVerified is
              \* proven # Null, and the server whose probe set it is history
  saving,     \* grants, with their IDs, still to be stored: their backend was found
  testing,    \* tests under way: [backend, server, at], with the server that was opened
  maxUpload,  \* MaxUploadBytes
  pc,         \* where each request is
  asked,      \* what it asks
  grant,      \* the grant that admits it, Null for an editor or owner
  opened,     \* the server its Open returned
  objects,    \* what each server holds: a set of [at, by], by being a write
  events,     \* storage.object.created events on the bus: [of, via]
  changes,    \* history: what owners have done so far
  stored,     \* history: requests whose object was stored
  since,      \* history: the grants there were at some time of a request, until it stored
  overtaken,  \* history: requests whose backend was changed after it was checked, or
              \* after the probe that the check relied on had opened it
  replaced    \* history: requests whose object took another's place

ownerVars   == <<grants, rows, saving, testing, changes>>
requestVars == <<maxUpload, pc, asked, grant, opened>>
effectVars  == <<objects, events, stored, replaced>>
vars        == <<ownerVars, requestVars, effectVars, since, overtaken>>

Rows  == [server : Servers, proven : Servers \union {Null}] \union {Null}
Saves == [id : 1..MaxChanges, g : Grants]
Tests == [backend : Backends, server : Servers, at : {"check", "probe"}]
PCs   == {"new", "admit", "check", "open", "write", "publish", "done"}

IsApp(w) == asked[w].who \in Apps

TypeOK ==
  /\ grants \subseteq Saves /\ saving \subseteq Saves
  /\ rows \in [Backends -> Rows]
  /\ testing \subseteq Tests
  /\ maxUpload \in UploadLimits
  /\ pc \in [Writes -> PCs]
  /\ asked \in [Writes -> Requests \union {Null}]
  /\ \A w \in Writes : asked[w] = Null <=> pc[w] = "new"
  /\ grant \in [Writes -> Grants \union {Null}]
  /\ \A w \in Writes : pc[w] \in {"check", "open", "write", "publish"} =>
       (grant[w] # Null <=> IsApp(w))
  /\ \A w \in Writes : pc[w] = "admit" => IsApp(w)
  /\ opened \in [Writes -> Servers \union {Null}]
  /\ \A w \in Writes : pc[w] \in {"write", "publish"} => opened[w] # Null
  /\ changes \in 0..MaxChanges
  /\ since \in [Writes -> SUBSET Grants]
  /\ stored \subseteq Writes /\ replaced \subseteq stored /\ overtaken \subseteq Writes

Init ==
  /\ grants = {} /\ saving = {} /\ testing = {} /\ changes = 0
  /\ rows \in [Backends -> Rows]
  /\ \A b \in Backends : rows[b] # Null /\ rows[b].proven # Null =>
       rows[b].proven = rows[b].server /\ rows[b].server \in S3Servers \intersect Enforcing
  /\ maxUpload \in UploadLimits
  /\ pc = [w \in Writes |-> "new"]
  /\ asked = [w \in Writes |-> Null]
  /\ grant = [w \in Writes |-> Null]
  /\ opened = [w \in Writes |-> Null]
  /\ objects = [s \in Servers |-> {}]
  /\ events = {} /\ stored = {} /\ overtaken = {} /\ replaced = {}
  /\ since = [w \in Writes |-> {}]

-----------------------------------------------------------------------------
(* handleWriteObject.                                                       *)

Goto(w, at) == pc' = [pc EXCEPT ![w] = at]

\* A request ends with an error and without an object.  It leaves nothing behind,
\* so that w may stand for another one.
Refuse(w) ==
  /\ Goto(w, "new")
  /\ asked' = [asked EXCEPT ![w] = Null] /\ grant' = [grant EXCEPT ![w] = Null]
  /\ opened' = [opened EXCEPT ![w] = Null] /\ since' = [since EXCEPT ![w] = {}]
  /\ overtaken' = overtaken \ {w}
  /\ UNCHANGED <<ownerVars, maxUpload, effectVars>>

\* Where a request starts.
FirstStep(q) ==
  IF q.who \in Apps THEN "admit" ELSE IF q.only THEN "check" ELSE "open"

\* Of an app, anything but a create-only write is refused at once.
Begin(w, q) ==
  /\ pc[w] = "new"
  /\ q.who \in Apps => q.only
  /\ asked' = [asked EXCEPT ![w] = q]
  /\ since' = [since EXCEPT ![w] = {e.g : e \in grants}]
  /\ Goto(w, FirstStep(q))
  /\ UNCHANGED <<ownerVars, maxUpload, grant, opened, effectVars, overtaken>>

\* MatchForUpload: the prefix is the path's directory itself.
Admits(g, q) == g.who = q.who /\ g.backend = q.backend /\ g.prefix = q.dir

\* Mutant of Admit: a request that no grant matches goes on without one.
AdmitUnmatched(w) ==
  /\ pc[w] = "admit"
  /\ LET matches == {e.g : e \in {f \in grants : Admits(f.g, asked[w])}} IN
     \E g \in matches \union {Null} :
       /\ g # Null => asked[w].ext \in g.exts
       /\ grant' = [grant EXCEPT ![w] = g]
  /\ Goto(w, "check")
  /\ UNCHANGED <<ownerVars, maxUpload, asked, opened, effectVars, since, overtaken>>

\* MatchForUpload takes the first match by ID, which is random.
Admit(w) ==
  /\ pc[w] = "admit"
  /\ \E e \in grants :
       /\ Admits(e.g, asked[w]) /\ asked[w].ext \in e.g.exts
       /\ grant' = [grant EXCEPT ![w] = e.g]
  /\ Goto(w, "check")
  /\ UNCHANGED <<ownerVars, maxUpload, asked, opened, effectVars, since, overtaken>>

\* No grant, an extension it does not allow, or no answer from the database.
AdmitError(w) == pc[w] = "admit" /\ Refuse(w)

Supports(row) == row.server \notin S3Servers \/ row.proven # Null

\* A verdict about another server than the row names, left by a late test.
Misjudged(row) == row.server \in S3Servers /\ row.proven \notin {Null, row.server}

\* History: did the check rely on such a verdict?
NoteVerdict(w) ==
  overtaken' = overtaken \union {v \in {w} : Misjudged(rows[asked[w].backend])}

\* Create-only writes need a backend that supports them.
Check(w) ==
  /\ pc[w] = "check"
  /\ rows[asked[w].backend] # Null /\ Supports(rows[asked[w].backend])
  /\ Goto(w, "open")
  /\ NoteVerdict(w)
  /\ UNCHANGED <<ownerVars, maxUpload, asked, grant, opened, effectVars, since>>

CheckError(w) == pc[w] = "check" /\ Refuse(w)

\* openBackend, which reads the row again.
Open(w) ==
  /\ pc[w] = "open" /\ rows[asked[w].backend] # Null
  /\ opened' = [opened EXCEPT ![w] = rows[asked[w].backend].server]
  /\ Goto(w, "write")
  /\ UNCHANGED <<ownerVars, maxUpload, asked, grant, effectVars, since, overtaken>>

OpenError(w) == pc[w] = "open" /\ Refuse(w)

\* Mutant of MaxBytes: the grant's limit counts only where there is no other.
MaxBytesOfServer(w) ==
  IF grant[w] # Null /\ maxUpload = 0 THEN grant[w].max ELSE maxUpload

\* The smaller of the server's limit, if any, and the grant's.
MaxBytes(w) ==
  IF grant[w] # Null /\ (maxUpload = 0 \/ grant[w].max < maxUpload)
  THEN grant[w].max ELSE maxUpload

Fits(w) == MaxBytes(w) = 0 \/ asked[w].size <= MaxBytes(w)

\* Where the object of w is, on its server.
At(w)      == <<asked[w].backend, asked[w].dir, asked[w].ext>>
Taken(w)   == {o \in objects[opened[w]] : o.at = At(w)}

\* The backend's Write: the object is stored whole, even if the answer is an
\* error after all, in which case there is no event.
Store(w) ==
  /\ pc[w] = "write" /\ Fits(w)
  /\ asked[w].only /\ opened[w] \in Enforcing => Taken(w) = {}
  /\ objects' = [objects EXCEPT ![opened[w]] = (@ \ Taken(w)) \union {[at |-> At(w), by |-> w]}]
  /\ stored' = stored \union {w}
  /\ replaced' = IF Taken(w) # {} THEN replaced \union {w} ELSE replaced
  /\ \E at \in {"publish", "done"} : Goto(w, at)
  /\ UNCHANGED <<ownerVars, maxUpload, asked, grant, opened, events, since, overtaken>>

\* Mutant of StoreError: the event goes out whether or not the write failed.
StoreErrorPublishes(w) ==
  /\ pc[w] = "write" /\ Goto(w, "publish")
  /\ UNCHANGED <<ownerVars, maxUpload, asked, grant, opened, effectVars, since, overtaken>>

\* Too large, already there, or any other error.
StoreError(w) == pc[w] = "write" /\ Refuse(w)

Via(w) == IF grant[w] # Null THEN "app-upload" ELSE "workspace-user"

\* publishObjectCreated: one attempt, which may fail or time out.
Publish(w) ==
  /\ pc[w] = "publish"
  /\ \/ events' = events \union {[of |-> w, via |-> Via(w)]}
     \/ UNCHANGED events
  /\ Goto(w, "done")
  /\ UNCHANGED <<ownerVars, maxUpload, asked, grant, opened, objects, stored, replaced, since, overtaken>>

\* The process stops: requests under way end where they are.
Crash ==
  LET lost == {w \in Writes : pc[w] \notin {"publish", "done"}} IN
  /\ \E w \in Writes : pc[w] \notin {"new", "done"}
  /\ pc' = [w \in Writes |-> IF w \in lost THEN "new" ELSE "done"]
  /\ asked' = [w \in Writes |-> IF w \in lost THEN Null ELSE asked[w]]
  /\ grant' = [w \in Writes |-> IF w \in lost THEN Null ELSE grant[w]]
  /\ opened' = [w \in Writes |-> IF w \in lost THEN Null ELSE opened[w]]
  /\ since' = [w \in Writes |-> IF w \in lost THEN {} ELSE since[w]]
  /\ overtaken' = overtaken \ lost
  /\ saving' = {} /\ testing' = {}
  /\ UNCHANGED <<grants, rows, changes, maxUpload, effectVars>>

-----------------------------------------------------------------------------
(* What owners do.                                                          *)

Change == changes < MaxChanges /\ changes' = changes + 1

\* handleAdminCreateUploadGrant: the backend must exist when it is looked up...
SaveGrantBegin(g) ==
  /\ Change
  /\ rows[g.backend] # Null
  /\ saving' = saving \union {[id |-> changes', g |-> g]}
  /\ UNCHANGED <<grants, rows, testing, requestVars, effectVars, since, overtaken>>

\* The rows that ON CONFLICT (workspace, principal, backend_id, prefix) leaves.
Others(g) ==
  {e \in grants : <<e.g.who, e.g.backend, e.g.prefix>> # <<g.who, g.backend, g.prefix>>}

\* ... and the grant is stored later, or not, whatever other saves are under way.
SaveGrant(s) ==
  /\ \/ /\ grants' = Others(s.g) \union {s}
        /\ since' = [w \in Writes |-> IF pc[w] \in {"new", "publish", "done"}
                                     THEN since[w] ELSE since[w] \union {s.g}]
     \/ UNCHANGED <<grants, since>>
  /\ saving' = saving \ {s}
  /\ UNCHANGED <<rows, testing, changes, requestVars, effectVars, overtaken>>

\* handleAdminDeleteUploadGrant.
DeleteGrant(e) ==
  /\ Change
  /\ grants' = grants \ {e}
  /\ UNCHANGED <<rows, saving, testing, requestVars, effectVars, since, overtaken>>

\* handleRevokeUploadGrantsByPrincipal: every grant of p, on every backend.
RevokePrincipal(p) ==
  /\ Change
  /\ grants' = {e \in grants : e.g.who # p}
  /\ UNCHANGED <<rows, saving, testing, requestVars, effectVars, since, overtaken>>

\* A backend is changed under the requests that have checked its row.
SetRow(b, row) ==
  /\ Change
  /\ rows' = [rows EXCEPT ![b] = row]
  /\ overtaken' = overtaken \union {w \in Writes : pc[w] = "open" /\ asked[w].backend = b}
  /\ UNCHANGED <<grants, saving, testing, requestVars, effectVars, since>>

\* The registry's Create, or an Update of the configuration, which keeps the
\* kind and resets CreateOnlyVerified.
Configure(b, s) ==
  /\ rows[b] # Null => s # rows[b].server /\ (s \in S3Servers <=> rows[b].server \in S3Servers)
  /\ SetRow(b, [server |-> s, proven |-> Null])

\* The registry's Delete; the backend's grants stay.
Unregister(b) == rows[b] # Null /\ SetRow(b, Null)

\* TestSaved: opens the backend and checks the connection (tests of one backend that
\* opened the same server count as one)...
TestBegin(b) ==
  /\ rows[b] # Null /\ Cardinality(testing) < MaxTests
  /\ testing' = testing \union {[backend |-> b, server |-> rows[b].server, at |-> "check"]}
  /\ UNCHANGED <<grants, rows, saving, changes, requestVars, effectVars, since, overtaken>>

\* ... reads the row again, for its kind, and probes what it has opened...
TestLook(t) ==
  /\ t.at = "check"
  /\ rows[t.backend] # Null /\ rows[t.backend].server \in S3Servers
  /\ testing' = (testing \ {t}) \union {[t EXCEPT !.at = "probe"]}
  /\ UNCHANGED <<grants, rows, saving, changes, requestVars, effectVars, since, overtaken>>

\* Mutant of Verdicts: a server that answers the probe passes it.
VerdictsAny(s) == {s, Null}

\* The probe passes only on a server that enforces the condition, and may fail there.
Verdicts(s) == ({s} \intersect Enforcing) \union {Null}

\* ... and records the verdict under the backend's ID, whatever its row says by now.
TestRecord(t) ==
  /\ t.at = "probe" /\ rows[t.backend] # Null
  /\ \E v \in Verdicts(t.server) : rows' = [rows EXCEPT ![t.backend].proven = v]
  /\ testing' = testing \ {t}
  /\ UNCHANGED <<grants, saving, changes, requestVars, effectVars, since, overtaken>>

\* Not S3, no longer there, or a failing call.
TestEnd(t) ==
  /\ testing' = testing \ {t}
  /\ UNCHANGED <<grants, rows, saving, changes, requestVars, effectVars, since, overtaken>>

-----------------------------------------------------------------------------

Handle(w) ==
  \/ \E q \in Requests : Begin(w, q)
  \/ Admit(w) \/ AdmitError(w) \/ Check(w) \/ CheckError(w)
  \/ Open(w) \/ OpenError(w) \/ Store(w) \/ StoreError(w) \/ Publish(w)

Administer ==
  \/ \E g \in Grants : SaveGrantBegin(g)
  \/ \E s \in saving : SaveGrant(s)
  \/ \E e \in grants : DeleteGrant(e)
  \/ \E p \in Apps : RevokePrincipal(p)
  \/ \E b \in Backends : TestBegin(b) \/ Unregister(b) \/ \E s \in Servers : Configure(b, s)
  \/ \E t \in testing : TestLook(t) \/ TestRecord(t) \/ TestEnd(t)

Next == (\E w \in Writes : Handle(w)) \/ Administer \/ Crash

Spec == Init /\ [][Next]_vars

-----------------------------------------------------------------------------
(* Properties.                                                              *)

\* Whatever an app has stored, it stored under a grant that was in force at some
\* time of its request: of its own, on that backend, for exactly that
\* directory, for that extension and at least that size, whatever the server's own
\* limit is.  A grant replaced by a narrower one, deleted or revoked before the
\* request began admits nothing (MatchForUpload and maxBytes).
AppWritesWereGranted ==
  \A w \in stored : IsApp(w) =>
    \E g \in since[w] :
      /\ g.who = asked[w].who /\ g.backend = asked[w].backend
      /\ g.prefix = asked[w].dir /\ asked[w].ext \in g.exts
      /\ asked[w].size <= g.max

\* "nothing may ever fall back to check-then-write": a create-only write takes no
\* other object's place, with two exceptions, both of a backend that is changed
\* under way: between the request's check of it and its Open, which reads the row
\* anew; and between the Open of a test and the record of its verdict, which then
\* vouches for a server that was never probed.
CreateOnlyReplacesNothing == \A w \in replaced \ overtaken : ~asked[w].only

\* An event tells of a write that did take effect, and says "app-upload" if and
\* only if it was an app's.
EventsAreTrue ==
  \A e \in events : e.of \in stored /\ (e.via = "app-upload" <=> IsApp(e.of))

=============================================================================
