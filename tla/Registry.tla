------------------------------ MODULE Registry ------------------------------
(***************************************************************************)
(* The backend registry (internal/registry/service.go) for ONE registered  *)
(* (workspace, id) key: the metadata row in Postgres, the credential       *)
(* Secret in Kubernetes, and the in-process cache of opened backends.      *)
(*                                                                         *)
(* Each slot is one request goroutine.  A request takes one step per store *)
(* call, so requests interleave between any two calls.  A store write may  *)
(* succeed, fail without effect, or take effect and still report an error  *)
(* (a timed-out call whose statement committed).  The process may crash    *)
(* between any two steps, which empties the cache and drops every request  *)
(* and leaves both stores as they are.                                     *)
(*                                                                         *)
(* Distinct keys share nothing but the cache map, so one key is enough.    *)
(***************************************************************************)
EXTENDS Naturals, FiniteSets

CONSTANTS
  Slots,        \* concurrent requests
  Ops,          \* operations clients call: subset of AllOps
  Configs,      \* backend configurations
  KindOf,       \* the kind each configuration belongs to
  Honours,      \* S3 configurations whose server enforces If-None-Match
  Creds,        \* non-empty credential sets
  MaxWriters,   \* admin requests in flight at once (Update, Delete, ...)
  MaxTime,      \* bound on clock readings and timestamps
  CreateTimes,  \* bound: the clock readings among which Creates happen
  MaxRegs,      \* bound on registrations ever attempted
  Null

AllOps == {"create", "update", "delete", "open", "test"}
Kinds  == {"s3", "azure", "gcs", "filesystem"}

ASSUME ConstantsAssumption ==
  /\ Ops \subseteq AllOps
  /\ KindOf \in [Configs -> Kinds]
  /\ Honours \subseteq Configs
  /\ MaxWriters \in Nat
  /\ MaxTime \in Nat
  /\ CreateTimes \subseteq 0..MaxTime
  /\ MaxRegs \in Nat

ASSUME SlotsAssumption == IsFiniteSet(Slots)

ASSUME SentinelAssumption == {"none", "keep"} \cap Creds = {}

VARIABLES
  meta,      \* the row in storage_backends, or Null
  secret,    \* the credential Secret, or Null
  cache,     \* Service.cache[key], or Null
  pc,        \* where each request is
  rec,       \* the Record each request holds (a snapshot, possibly edited)
  want,      \* the credentials each admin request carries
  bk,        \* the backend each Open holds
  regs,      \* history: registrations attempted so far, names each Record
  torn,      \* history: what ended with one of its two store writes missing:
             \* a "write" (Create, Update) or a "delete"
  crossed    \* history: TRUE once a lookup has hit an entry of another registration

vars == <<meta, secret, cache, pc, rec, want, bk, regs, torn, crossed>>

Stamps == 0..MaxTime
Regs   == 0..MaxRegs

Records == [kind : Kinds, cfg : Configs, hasCreds : BOOLEAN, verified : BOOLEAN,
            updatedAt : Stamps, reg : Regs]

\* A Secret's value and, as history, the registration it was entered for.
Secrets == [val : Creds, reg : Regs]

Backends == [cfg : Configs, creds : Secrets \union {Null}, reg : Regs]
Entries  == [updatedAt : Stamps, backend : Backends]

ASSUME NullAssumption ==
  /\ Null \notin Records \union Secrets
  /\ Null \notin Backends \union Entries
  /\ Null \notin Configs

(***************************************************************************)
(* Request positions.  The name says which call the request makes next.    *)
(***************************************************************************)
CreatePCs == {"create.meta", "create.put", "create.rollback"}
UpdatePCs == {"update.prepare", "update.creds", "update.meta", "update.invalidate"}
DeletePCs == {"delete.invalidate", "delete.creds"}
OpenPCs   == {"open.lookup", "open.creds", "open.store", "open.served"}
TestPCs   == {"test.lookup", "test.creds", "test.store", "test.check",
              "test.probe", "test.record"}
PCs       == {"idle"} \union CreatePCs \union UpdatePCs \union DeletePCs
                      \union OpenPCs \union TestPCs

WriterPCs == CreatePCs \union UpdatePCs \union DeletePCs \union TestPCs
Writers   == {r \in Slots : pc[r] \in WriterPCs}

TypeOK ==
  /\ meta \in Records \union {Null}
  /\ secret \in Secrets \union {Null}
  /\ cache \in Entries \union {Null}
  /\ pc \in [Slots -> PCs]
  /\ rec \in [Slots -> Records \union {Null}]
  /\ want \in [Slots -> Creds \union {"none", "keep"}]
  /\ bk \in [Slots -> Backends \union {Null}]
  /\ regs \in Regs
  /\ torn \subseteq {"write", "delete"}
  /\ crossed \in BOOLEAN

Init ==
  /\ meta = Null
  /\ secret = Null
  /\ cache = Null
  /\ pc = [r \in Slots |-> "idle"]
  /\ rec = [r \in Slots |-> Null]
  /\ want = [r \in Slots |-> "keep"]
  /\ bk = [r \in Slots |-> Null]
  /\ regs = 0
  /\ torn = {}
  /\ crossed = FALSE

Goto(r, at) == pc' = [pc EXCEPT ![r] = at]

\* The request returns to its caller; the slot takes another one later.
Return(r) ==
  /\ Goto(r, "idle")
  /\ rec' = [rec EXCEPT ![r] = Null]
  /\ want' = [want EXCEPT ![r] = "keep"]
  /\ bk' = [bk EXCEPT ![r] = Null]

TornIf(cond, op) == torn' = IF cond THEN torn \union {op} ELSE torn

\* One admin request may start: MaxWriters is the deployment's concurrency.
\* Creates may always overlap each other.
MayWrite(op) ==
  /\ op \in Ops
  /\ \/ Cardinality(Writers) < MaxWriters
     \/ op = "create" /\ \A r \in Writers : pc[r] \in CreatePCs

(***************************************************************************)
(* validateCredentials and buildBackend: which credential sets a kind      *)
(* accepts.  Azure demands one, the filesystem kind takes none.            *)
(***************************************************************************)
ValidCreds(kind, has) ==
  /\ kind = "azure" => has
  /\ kind = "filesystem" => ~has

SupportsCreateOnly(r) == r.kind # "s3" \/ r.verified

-----------------------------------------------------------------------------
(* Create: reserve the row, then write the Secret, roll back if that fails. *)

CreateBegin(r, cfg, creds, now) ==
  /\ pc[r] = "idle" /\ MayWrite("create") /\ regs < MaxRegs
  /\ ValidCreds(KindOf[cfg], creds # "none")
  /\ rec' = [rec EXCEPT ![r] =
       [kind |-> KindOf[cfg], cfg |-> cfg, hasCreds |-> creds # "none",
        verified |-> FALSE, updatedAt |-> now, reg |-> regs + 1]]
  /\ regs' = regs + 1
  /\ want' = [want EXCEPT ![r] = creds]
  /\ Goto(r, "create.meta")
  /\ UNCHANGED <<meta, secret, cache, bk, torn, crossed>>

\* Mutant of CreateMeta: an upsert, which lets a second Create take the row.
CreateMetaUpsert(r) ==
  /\ pc[r] = "create.meta"
  /\ meta' = rec[r]
  /\ IF rec[r].hasCreds
     THEN Goto(r, "create.put") /\ UNCHANGED <<rec, want, bk>>
     ELSE Return(r)
  /\ UNCHANGED <<secret, cache, regs, torn, crossed>>

CreateMeta(r) ==
  /\ pc[r] = "create.meta" /\ meta = Null
  /\ meta' = rec[r]
  /\ IF rec[r].hasCreds
     THEN Goto(r, "create.put") /\ UNCHANGED <<rec, want, bk>>
     ELSE Return(r)
  /\ UNCHANGED <<secret, cache, regs, torn, crossed>>

\* ErrExists, or the insert failed, or it committed and reported an error.
CreateMetaError(r) ==
  /\ pc[r] = "create.meta"
  /\ \/ UNCHANGED <<meta, torn>>
     \/ /\ meta = Null /\ meta' = rec[r]
        /\ TornIf(rec[r].hasCreds, "write")
  /\ Return(r)
  /\ UNCHANGED <<secret, cache, regs, crossed>>

NewSecret(r) == [val |-> want[r], reg |-> rec[r].reg]

\* Mutant of CreatePut: a Secret that is there already is left as it is.
CreatePutIfAbsent(r) ==
  /\ pc[r] = "create.put"
  /\ secret' = IF secret = Null THEN NewSecret(r) ELSE secret
  /\ Return(r)
  /\ UNCHANGED <<meta, cache, regs, torn, crossed>>

CreatePut(r) ==
  /\ pc[r] = "create.put"
  /\ secret' = NewSecret(r)
  /\ Return(r)
  /\ UNCHANGED <<meta, cache, regs, torn, crossed>>

CreatePutError(r) ==
  /\ pc[r] = "create.put"
  /\ \/ UNCHANGED <<secret, torn>>
     \/ secret' = NewSecret(r) /\ TornIf(TRUE, "write")
  /\ Goto(r, "create.rollback")
  /\ UNCHANGED <<meta, cache, rec, want, bk, regs, crossed>>

\* The rollback deletes whatever row has the key; its own failure is only logged.
CreateRollback(r) ==
  /\ pc[r] = "create.rollback"
  /\ \/ meta' = Null /\ UNCHANGED torn
     \/ meta # Null /\ TornIf(TRUE, "write") /\ UNCHANGED meta
  /\ Return(r)
  /\ UNCHANGED <<secret, cache, regs, crossed>>

-----------------------------------------------------------------------------
(* Update: prepareUpdate, then the Secret, then the row, then the cache.   *)

\* Mutant of UpdateGet: a changed configuration keeps the old probe verdict.
UpdateGetKeepsVerdict(r, cfg, creds) ==
  /\ pc[r] = "idle" /\ MayWrite("update") /\ meta # Null /\ meta.updatedAt < MaxTime
  /\ cfg # Null => KindOf[cfg] = meta.kind
  /\ rec' = [rec EXCEPT ![r] =
       [meta EXCEPT !.cfg = IF cfg = Null THEN @ ELSE cfg,
                    !.hasCreds = IF creds = "keep" THEN @ ELSE creds # "none"]]
  /\ want' = [want EXCEPT ![r] = creds]
  /\ Goto(r, "update.prepare")
  /\ UNCHANGED <<meta, secret, cache, bk, regs, torn, crossed>>

\* cfg = Null leaves the configuration unchanged (UpdateInput.Config empty).
\* MaxTime bounds the edits: at that stamp no Update is tried any more.
UpdateGet(r, cfg, creds) ==
  /\ pc[r] = "idle" /\ MayWrite("update") /\ meta # Null /\ meta.updatedAt < MaxTime
  /\ cfg # Null => KindOf[cfg] = meta.kind
  /\ rec' = [rec EXCEPT ![r] =
       [meta EXCEPT !.cfg = IF cfg = Null THEN @ ELSE cfg,
                    !.verified = IF cfg = Null THEN @ ELSE FALSE,
                    !.hasCreds = IF creds = "keep" THEN @ ELSE creds # "none"]]
  /\ want' = [want EXCEPT ![r] = creds]
  /\ Goto(r, "update.prepare")
  /\ UNCHANGED <<meta, secret, cache, bk, regs, torn, crossed>>

\* The credentials the updated backend will use: new ones, or the stored ones.
UpdateCredsInUse(r) ==
  IF want[r] # "keep" THEN want[r] # "none" ELSE rec[r].hasCreds /\ secret # Null

\* Mutants of Bumped: the clock's reading as it is; one that lets time stand still.
ClockAsRead(prev, now) == now
BumpedWeakly(prev, now) == IF now >= prev THEN now ELSE prev

Bumped(prev, now) == IF now > prev THEN now ELSE prev + 1

UpdatePrepare(r, now) ==
  /\ pc[r] = "update.prepare"
  /\ ValidCreds(rec[r].kind, UpdateCredsInUse(r))
  /\ Bumped(rec[r].updatedAt, now) \in Stamps
  /\ rec' = [rec EXCEPT ![r].updatedAt = Bumped(@, now)]
  /\ Goto(r, IF want[r] = "keep" THEN "update.meta" ELSE "update.creds")
  /\ UNCHANGED <<meta, secret, cache, want, bk, regs, torn, crossed>>

\* An empty set removes the Secret, any other replaces it wholesale.
UpdatedSecret(r) == IF want[r] = "none" THEN Null ELSE NewSecret(r)

UpdateCreds(r) ==
  /\ pc[r] = "update.creds"
  /\ secret' = UpdatedSecret(r)
  /\ Goto(r, "update.meta")
  /\ UNCHANGED <<meta, cache, rec, want, bk, regs, torn, crossed>>

UpdateCredsError(r) ==
  /\ pc[r] = "update.creds"
  /\ \/ UNCHANGED <<secret, torn>>
     \/ secret' = UpdatedSecret(r) /\ TornIf(TRUE, "write")
  /\ Return(r)
  /\ UNCHANGED <<meta, cache, regs, crossed>>

\* UPDATE ... SET replaces the mutable columns of whatever row has the key.
UpdatedRow(r) == [rec[r] EXCEPT !.kind = meta.kind, !.reg = meta.reg]

UpdateMeta(r) ==
  /\ pc[r] = "update.meta" /\ meta # Null
  /\ meta' = UpdatedRow(r)
  /\ Goto(r, "update.invalidate")
  /\ UNCHANGED <<secret, cache, rec, want, bk, regs, torn, crossed>>

\* ErrNotFound or a failed statement, or one that committed and reported an error.
UpdateMetaError(r) ==
  /\ pc[r] = "update.meta"
  /\ \/ UNCHANGED meta /\ TornIf(want[r] # "keep", "write")
     \/ meta # Null /\ meta' = UpdatedRow(r) /\ UNCHANGED torn
  /\ Return(r)
  /\ UNCHANGED <<secret, cache, regs, crossed>>

UpdateInvalidate(r) ==
  /\ pc[r] = "update.invalidate"
  /\ cache' = Null
  /\ Return(r)
  /\ UNCHANGED <<meta, secret, regs, torn, crossed>>

-----------------------------------------------------------------------------
(* Delete: the row, then the cache, then (best effort) the Secret.         *)

DeleteMeta(r) ==
  /\ pc[r] = "idle" /\ MayWrite("delete") /\ meta # Null
  /\ meta' = Null
  /\ \/ Goto(r, "delete.invalidate") /\ UNCHANGED torn
     \/ TornIf(secret # Null, "delete") /\ UNCHANGED pc  \* reported an error
  /\ UNCHANGED <<secret, cache, rec, want, bk, regs, crossed>>

DeleteInvalidate(r) ==
  /\ pc[r] = "delete.invalidate"
  /\ cache' = Null
  /\ Goto(r, "delete.creds")
  /\ UNCHANGED <<meta, secret, rec, want, bk, regs, torn, crossed>>

DeleteCreds(r) ==
  /\ pc[r] = "delete.creds"
  /\ \/ secret' = Null /\ UNCHANGED torn
     \/ secret # Null /\ TornIf(TRUE, "delete") /\ UNCHANGED secret  \* only logged
  /\ Return(r)
  /\ UNCHANGED <<meta, cache, regs, crossed>>

-----------------------------------------------------------------------------
(* Open, called by the data API ("open") and by TestSaved ("test").        *)

OpenGet(r, op) ==
  /\ pc[r] = "idle" /\ meta # Null
  /\ \/ op = "open" /\ op \in Ops /\ Goto(r, "open.lookup")
     \/ op = "test" /\ MayWrite(op) /\ Goto(r, "test.lookup")
  /\ rec' = [rec EXCEPT ![r] = meta]
  /\ UNCHANGED <<meta, secret, cache, want, bk, regs, torn, crossed>>

\* pc[r] is at step s of Open, whichever of the two callers runs it.
AtOpen(r, open, test) == pc[r] \in {open, test}

OpenGoto(r, open, test) ==
  Goto(r, IF pc[r] \in OpenPCs THEN open ELSE test)

CacheHit(r) ==
  /\ AtOpen(r, "open.lookup", "test.lookup")
  /\ cache # Null /\ cache.updatedAt = rec[r].updatedAt
  /\ bk' = [bk EXCEPT ![r] = cache.backend]
  /\ OpenGoto(r, "open.served", "test.check")
  /\ crossed' = (crossed \/ cache.backend.reg # rec[r].reg)
  /\ UNCHANGED <<meta, secret, cache, rec, want, regs, torn>>

Built(r, creds) == [cfg |-> rec[r].cfg, creds |-> creds, reg |-> rec[r].reg]

\* Mutant of CacheMiss: a backend without credentials is never built.
CacheMissUnbuilt(r) ==
  /\ AtOpen(r, "open.lookup", "test.lookup")
  /\ IF rec[r].hasCreds
     THEN OpenGoto(r, "open.creds", "test.creds")
     ELSE OpenGoto(r, "open.store", "test.store")
  /\ UNCHANGED <<meta, secret, cache, rec, want, bk, regs, torn, crossed>>

\* No entry, another UpdatedAt, or one older than openCacheTTL: the clock may
\* have passed the TTL at any lookup, so a miss is always possible.
CacheMiss(r) ==
  /\ AtOpen(r, "open.lookup", "test.lookup")
  /\ IF rec[r].hasCreds
     THEN OpenGoto(r, "open.creds", "test.creds") /\ UNCHANGED bk
     ELSE /\ ValidCreds(rec[r].kind, FALSE)
          /\ bk' = [bk EXCEPT ![r] = Built(r, Null)]
          /\ OpenGoto(r, "open.store", "test.store")
  /\ UNCHANGED <<meta, secret, cache, rec, want, regs, torn, crossed>>

OpenCreds(r) ==
  /\ AtOpen(r, "open.creds", "test.creds")
  /\ secret # Null /\ ValidCreds(rec[r].kind, TRUE)
  /\ bk' = [bk EXCEPT ![r] = Built(r, secret)]
  /\ OpenGoto(r, "open.store", "test.store")
  /\ UNCHANGED <<meta, secret, cache, rec, want, regs, torn, crossed>>

OpenStore(r) ==
  /\ AtOpen(r, "open.store", "test.store")
  /\ cache' = [updatedAt |-> rec[r].updatedAt, backend |-> bk[r]]
  /\ OpenGoto(r, "open.served", "test.check")
  /\ UNCHANGED <<meta, secret, rec, want, bk, regs, torn, crossed>>

OpenReturn(r) ==
  /\ pc[r] = "open.served"
  /\ Return(r)
  /\ UNCHANGED <<meta, secret, cache, regs, torn, crossed>>

-----------------------------------------------------------------------------
(* TestSaved: Open, Check, re-read the row, probe, record the verdict.     *)

TestCheck(r) ==
  /\ pc[r] = "test.check" /\ meta # Null /\ meta.kind = "s3"
  /\ Goto(r, "test.probe")
  /\ UNCHANGED <<meta, secret, cache, rec, want, bk, regs, torn, crossed>>

\* probeCreateOnly on the backend Open returned: a server that enforces the
\* precondition passes unless a call fails; no other server passes.
TestProbe(r, verdict) ==
  /\ pc[r] = "test.probe"
  /\ verdict => bk[r].cfg \in Honours
  /\ rec' = [rec EXCEPT ![r].verified = verdict]
  /\ Goto(r, "test.record")
  /\ UNCHANGED <<meta, secret, cache, want, bk, regs, torn, crossed>>

TestRecord(r) ==
  /\ pc[r] = "test.record" /\ meta # Null
  /\ meta' = [meta EXCEPT !.verified = rec[r].verified]
  /\ Return(r)
  /\ UNCHANGED <<secret, cache, regs, torn, crossed>>

-----------------------------------------------------------------------------
\* A step that only reads, or one whose failure is only logged, may fail and
\* end the request: not found, store unreachable, invalid, unreachable server.
Abort(r) ==
  /\ pc[r] \in {"update.prepare"} \union OpenPCs \union TestPCs
  /\ Return(r)
  /\ UNCHANGED <<meta, secret, cache, regs, torn, crossed>>

\* Requests that a crash leaves with one store written only, as torn names them.
Midway(r, op) ==
  CASE op = "write" -> \/ pc[r] = "create.put"
                       \/ pc[r] = "create.rollback" /\ meta # Null
                       \/ pc[r] = "update.meta" /\ want[r] # "keep"
    [] op = "delete" -> pc[r] \in DeletePCs

Crash ==
  /\ torn' = torn \union {op \in {"write", "delete"} :
                            \E r \in Slots : Midway(r, op)}
  /\ cache' = Null
  /\ pc' = [r \in Slots |-> "idle"]
  /\ rec' = [r \in Slots |-> Null]
  /\ want' = [r \in Slots |-> "keep"]
  /\ bk' = [r \in Slots |-> Null]
  /\ UNCHANGED <<meta, secret, regs, crossed>>

CreateStep(r) ==
  \/ \E cfg \in Configs, creds \in Creds \union {"none"}, now \in CreateTimes :
       CreateBegin(r, cfg, creds, now)
  \/ CreateMeta(r) \/ CreateMetaError(r)
  \/ CreatePut(r) \/ CreatePutError(r) \/ CreateRollback(r)

\* Mutant of UpdateStep: the row is written before the Secret.
UpdateStepRowFirst(r) ==
  \/ \E cfg \in Configs \union {Null}, creds \in Creds \union {"none", "keep"} :
       UpdateGet(r, cfg, creds)
  \/ \E now \in Stamps : UpdatePrepare(r, now)
  \/ /\ pc[r] = "update.creds" /\ meta # Null
     /\ meta' = UpdatedRow(r) /\ Goto(r, "update.meta")
     /\ UNCHANGED <<secret, cache, rec, want, bk, regs, torn, crossed>>
  \/ /\ pc[r] = "update.meta" /\ want[r] # "keep"
     /\ secret' = UpdatedSecret(r) /\ Goto(r, "update.invalidate")
     /\ UNCHANGED <<meta, cache, rec, want, bk, regs, torn, crossed>>
  \/ want[r] = "keep" /\ UpdateMeta(r)
  \/ UpdateInvalidate(r)

UpdateStep(r) ==
  \/ \E cfg \in Configs \union {Null}, creds \in Creds \union {"none", "keep"} :
       UpdateGet(r, cfg, creds)
  \/ \E now \in Stamps : UpdatePrepare(r, now)
  \/ UpdateCreds(r) \/ UpdateCredsError(r)
  \/ UpdateMeta(r) \/ UpdateMetaError(r) \/ UpdateInvalidate(r)

DeleteStep(r) == DeleteMeta(r) \/ DeleteInvalidate(r) \/ DeleteCreds(r)

OpenStep(r) ==
  \/ \E op \in {"open", "test"} : OpenGet(r, op)
  \/ CacheHit(r) \/ CacheMiss(r) \/ OpenCreds(r) \/ OpenStore(r) \/ OpenReturn(r)

TestStep(r) ==
  \/ TestCheck(r)
  \/ \E verdict \in BOOLEAN : TestProbe(r, verdict)
  \/ TestRecord(r)

Next ==
  \/ \E r \in Slots : CreateStep(r) \/ UpdateStep(r) \/ DeleteStep(r)
                        \/ OpenStep(r) \/ TestStep(r) \/ Abort(r)
  \/ Crash

Spec == Init /\ [][Next]_vars

-----------------------------------------------------------------------------
(* Properties.                                                              *)

\* Open hands out a client of the configuration it read from the registry,
\* never one of an earlier configuration of the same registration: a cache
\* entry stored late by a slow Open, after an Update has invalidated, is not
\* mistaken for current (service.go Open, keyed on Record.UpdatedAt).
OpenServesRecord ==
  \A r \in Slots :
    /\ pc[r] \in {"open.served", "test.check", "test.probe", "test.record"}
    /\ bk[r].reg = rec[r].reg
    => bk[r].cfg = rec[r].cfg

\* The credentials a row asks Open to use.
EffectiveCreds == IF meta.hasCreds THEN secret ELSE Null

\* Between admin requests, and while no request was left half done, a cache
\* entry that Open would hit holds exactly the credentials now stored, also
\* after a rotation that raced with a slow Open: this is why Update writes the
\* Secret before the row, and stamps every edit (service.go:221-235).
CacheCredsCurrent ==
  /\ torn = {} /\ Writers = {}
  /\ meta # Null /\ cache # Null
  /\ cache.updatedAt = meta.updatedAt /\ cache.backend.reg = meta.reg
  => cache.backend.creds = EffectiveCreds

\* Between admin requests, and while no request was left half done, the two
\* stores agree: a Secret exists exactly when the row says so, it was entered
\* for this very registration, and no Secret outlives its row.  In particular
\* a refused duplicate Create leaves the winner's Secret alone
\* (service.go:124-128) and a rolled-back Create leaves nothing.
StoresAgree ==
  torn = {} /\ Writers = {} =>
    IF meta = Null
    THEN secret = Null
    ELSE IF meta.hasCreds THEN secret # Null /\ secret.reg = meta.reg
                          ELSE secret = Null

\* A create-only write is admitted on an S3 backend only when the server of
\* the configuration now registered was seen to enforce If-None-Match
\* (model.go:65-72, SupportsCreateOnly, read by the upload handler).  The cache
\* is keyed on the ID and UpdatedAt only, so this is promised while no two
\* registrations of the ID met on one UpdatedAt: an entry of another
\* registration that TestSaved hits is the one that gets probed.
CreateOnlyIsProven ==
  ~crossed /\ meta # Null /\ meta.kind = "s3" /\ SupportsCreateOnly(meta)
    => meta.cfg \in Honours

\* Every edit of a registration gets a larger UpdatedAt, whatever the clock
\* reads; a probe verdict is not an edit and keeps it (service.go:200-205,
\* model.go:101-105).
EditsAdvanceUpdatedAt ==
  [][ /\ meta # Null /\ meta' # Null /\ meta.reg = meta'.reg
      /\ <<meta.cfg, meta.hasCreds, meta.updatedAt>> #
           <<meta'.cfg, meta'.hasCreds, meta'.updatedAt>>
      => meta'.updatedAt > meta.updatedAt ]_meta

\* A Secret that Delete failed to remove is used once more only while the
\* Create that takes the ID again is between its two writes, or has been rolled
\* back: as soon as Create has returned, "it is overwritten" (service.go:274)
\* and Open builds no backend of that registration from it.
LeftoverSecretWindow ==
  [][ \A r \in Slots :
        /\ AtOpen(r, "open.creds", "test.creds") /\ bk'[r] # Null
        /\ torn \subseteq {"delete"} /\ bk'[r].creds.reg < rec[r].reg
        /\ meta # Null /\ meta.reg = rec[r].reg
        => \E w \in Slots : /\ pc[w] \in {"create.put", "create.rollback"}
                            /\ rec[w].reg = rec[r].reg ]_vars

=============================================================================
