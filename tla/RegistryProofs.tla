--------------------------- MODULE RegistryProofs ---------------------------
(***************************************************************************)
(* Proofs about Registry, for any requests, configurations, credentials,   *)
(* clock readings and bounds.  TypeOK holds for any MaxWriters; the other  *)
(* theorems are about MaxWriters = 1: one Update, Delete or TestSaved at a *)
(* time, any number of Creates with each other, and any number of Opens    *)
(* with all of them.  (The two concurrent runs show that they are false    *)
(* for MaxWriters = 2.)                                                    *)
(*                                                                         *)
(* IInv is one conjunct per idea:                                          *)
(*   Shape     what a request holds at each of its steps;                  *)
(*   Alone     who may be in flight together;                              *)
(*   Fresh     a Create's registration is new until its row is inserted;   *)
(*   Owner     what a request knows of the row while nobody else edits it; *)
(*   Versions  (registration, UpdatedAt) determines a configuration,       *)
(*             wherever a copy of it is kept, and the row is the newest;   *)
(*   Proven    where a positive probe verdict may be;                      *)
(*   Paired    how the Secret relates to the row, step by step;            *)
(*   Keyed     the credentials in backends that were built from the        *)
(*             row's present version;                                      *)
(*   Leftover  which Secrets of earlier registrations may be read.         *)
(***************************************************************************)
EXTENDS Registry, TLAPS, FiniteSetTheorems

LookPCs   == {"open.lookup", "test.lookup"}
CredsPCs  == {"open.creds", "test.creds"}
StorePCs  == {"open.store", "test.store"}
ServedPCs == {"open.served", "test.check", "test.probe", "test.record"}
ReadPCs   == OpenPCs \union TestPCs
PutPCs    == {"create.put", "create.rollback"}

\* A position with the Record, credentials and backend that go with it.
ShapeOf(at, x, w, b) ==
  /\ at \in {"idle"} \union DeletePCs => x = Null /\ b = Null /\ w = "keep"
  /\ at \in CreatePCs \union UpdatePCs \union ReadPCs => x # Null
  /\ at \in CreatePCs \union UpdatePCs \union LookPCs \union CredsPCs => b = Null
  /\ at \in StorePCs \union ServedPCs => b # Null
  /\ at \in ReadPCs => w = "keep"
  /\ at \in CredsPCs \union PutPCs => x.hasCreds
  /\ at \in CreatePCs => w # "keep" /\ (x.hasCreds <=> w # "none") /\ ~x.verified
  /\ at \in UpdatePCs /\ w # "keep" => (x.hasCreds <=> w # "none")
  /\ at = "update.creds" => w # "keep"

Shape == \A r \in Slots : ShapeOf(pc[r], rec[r], want[r], bk[r])

Alone ==
  \A r, s \in Slots : r # s /\ pc[r] \in WriterPCs /\ pc[s] \in WriterPCs =>
    pc[r] \in CreatePCs /\ ~(pc[r] \in PutPCs /\ pc[s] \in PutPCs)

Fresh ==
  /\ meta # Null => meta.reg <= regs
  /\ cache # Null => cache.backend.reg <= regs
  /\ \A r \in Slots : /\ rec[r] # Null => rec[r].reg <= regs
                      /\ bk[r] # Null => bk[r].reg <= regs
  /\ \A r \in Slots : pc[r] = "create.meta" =>
       /\ meta # Null => meta.reg # rec[r].reg
       /\ cache # Null => cache.backend.reg # rec[r].reg
       /\ \A s \in Slots : /\ s # r /\ rec[s] # Null => rec[s].reg # rec[r].reg
                           /\ bk[s] # Null => bk[s].reg # rec[r].reg

Owner ==
  \A r \in Slots :
    /\ pc[r] \in PutPCs => meta = rec[r]
    /\ pc[r] \in UpdatePCs => /\ meta # Null
                              /\ rec[r].reg = meta.reg /\ rec[r].kind = meta.kind
    /\ pc[r] \in UpdatePCs \ {"update.invalidate"} /\ want[r] = "keep" =>
         (rec[r].hasCreds <=> meta.hasCreds)
    /\ pc[r] = "update.prepare" => rec[r].updatedAt = meta.updatedAt
    /\ pc[r] \in {"update.creds", "update.meta"} => rec[r].updatedAt > meta.updatedAt
    /\ pc[r] \in DeletePCs => meta = Null
    /\ pc[r] \in TestPCs => /\ meta # Null
                            /\ rec[r].reg = meta.reg /\ rec[r].updatedAt = meta.updatedAt

Versions ==
  /\ \A r \in Slots : pc[r] \in ReadPCs /\ meta # Null /\ rec[r].reg = meta.reg =>
       /\ rec[r].updatedAt <= meta.updatedAt
       /\ rec[r].updatedAt = meta.updatedAt =>
            rec[r].cfg = meta.cfg /\ (rec[r].hasCreds <=> meta.hasCreds)
  /\ \A r, s \in Slots :
       /\ pc[r] \in ReadPCs /\ pc[s] \in ReadPCs
       /\ rec[r].reg = rec[s].reg /\ rec[r].updatedAt = rec[s].updatedAt
       => rec[r].cfg = rec[s].cfg
  /\ cache # Null /\ meta # Null /\ cache.backend.reg = meta.reg =>
       /\ cache.updatedAt <= meta.updatedAt
       /\ cache.updatedAt = meta.updatedAt => cache.backend.cfg = meta.cfg
  /\ \A r \in Slots :
       /\ pc[r] \in ReadPCs /\ cache # Null
       /\ cache.backend.reg = rec[r].reg /\ cache.updatedAt = rec[r].updatedAt
       => cache.backend.cfg = rec[r].cfg
  /\ \A r \in Slots : pc[r] \in StorePCs =>
       bk[r].reg = rec[r].reg /\ bk[r].cfg = rec[r].cfg
  /\ \A r \in Slots : pc[r] \in ServedPCs =>
       /\ bk[r].reg = rec[r].reg => bk[r].cfg = rec[r].cfg
       /\ ~crossed => bk[r].reg = rec[r].reg

Proven ==
  ~crossed =>
    /\ meta # Null /\ meta.kind = "s3" /\ meta.verified => meta.cfg \in Honours
    /\ \A r \in Slots :
         /\ pc[r] \in UpdatePCs /\ rec[r].kind = "s3" /\ rec[r].verified => rec[r].cfg \in Honours
         /\ pc[r] = "test.record" /\ rec[r].verified => bk[r].cfg \in Honours

\* A request that has changed one of the two stores and not yet the other.
Replacing(r) == pc[r] = "update.meta" /\ want[r] # "keep"
Between(r)   == pc[r] \in PutPCs \/ Replacing(r)

Paired ==
  /\ \A r \in Slots : Replacing(r) => secret = UpdatedSecret(r)
  /\ torn = {} =>
       /\ \A r \in Slots : pc[r] \in PutPCs => secret = Null
       /\ meta = Null /\ (\A r \in Slots : pc[r] \notin DeletePCs) => secret = Null
       /\ meta # Null /\ (\A r \in Slots : ~Between(r)) =>
            IF meta.hasCreds THEN secret # Null /\ secret.reg = meta.reg ELSE secret = Null

Keyed ==
  /\ \A w, r \in Slots : /\ pc[w] \in PutPCs /\ pc[r] \in ReadPCs /\ rec[r].reg = meta.reg
                         => rec[r].hasCreds
  /\ torn = {} =>
       /\ \A w \in Slots : pc[w] \in PutPCs =>
            /\ cache # Null => cache.backend.reg # meta.reg
            /\ \A r \in Slots : pc[r] \in StorePCs => rec[r].reg # meta.reg
       /\ meta # Null /\ (\A w \in Slots : ~Between(w)) =>
            /\ cache # Null /\ cache.backend.reg = meta.reg /\ cache.updatedAt = meta.updatedAt
                 => cache.backend.creds = EffectiveCreds
            /\ \A r \in Slots :
                 /\ pc[r] \in StorePCs
                 /\ rec[r].reg = meta.reg /\ rec[r].updatedAt = meta.updatedAt
                 => bk[r].creds = EffectiveCreds

Leftover ==
  /\ torn \subseteq {"delete"} /\ meta # Null /\ (\A w \in Slots : pc[w] \notin PutPCs)
  => /\ meta.hasCreds => secret = Null \/ secret.reg = meta.reg
     /\ \A r \in Slots : pc[r] \in ReadPCs /\ rec[r].hasCreds /\ rec[r].reg = meta.reg
          => secret = Null \/ secret.reg = meta.reg

IInv == /\ TypeOK /\ Shape /\ Alone /\ Fresh /\ Owner /\ Versions /\ Proven
        /\ Paired /\ Keyed /\ Leftover


-----------------------------------------------------------------------------
(* What a step of request r leaves in r's own slot; nothing else moves.    *)

At(r, at, x, w, b) ==
  /\ pc'[r] = at /\ rec'[r] = x /\ want'[r] = w /\ bk'[r] = b
  /\ \A s \in Slots \ {r} : /\ pc'[s] = pc[s] /\ rec'[s] = rec[s]
                            /\ want'[s] = want[s] /\ bk'[s] = bk[s]

Ended(r) == At(r, "idle", Null, "keep", Null)

LEMMA ReturnEnds ==
  ASSUME TypeOK, NEW r \in Slots, Return(r) PROVE Ended(r)
BY DEF TypeOK, Return, Goto, Ended, At

LEMMA GotoOnly ==
  ASSUME TypeOK, NEW r \in Slots, NEW at, Goto(r, at), UNCHANGED <<rec, want, bk>>
  PROVE  At(r, at, rec[r], want[r], bk[r])
BY DEF TypeOK, Goto, At

-----------------------------------------------------------------------------
(* TypeOK and Shape, for any MaxWriters.                                   *)

LEMMA IdleShape == ShapeOf("idle", Null, "keep", Null)
BY DEF ShapeOf, CreatePCs, UpdatePCs, DeletePCs, OpenPCs, TestPCs, ReadPCs, LookPCs, CredsPCs,
       StorePCs, ServedPCs, PutPCs

LEMMA InitTypes == Init => TypeOK /\ Shape
<1> SUFFICES ASSUME Init PROVE TypeOK /\ Shape
  OBVIOUS
<1>1. 0 \in Regs
  BY ConstantsAssumption DEF Regs
<1>2. TypeOK
  BY <1>1 DEF Init, TypeOK, PCs
<1>3. Shape
  BY IdleShape DEF Init, Shape
<1> QED BY <1>2, <1>3

\* Shape speaks of each request by itself.
LEMMA ShapeKept ==
  ASSUME Shape, NEW r \in Slots, NEW at, NEW x, NEW w, NEW b, At(r, at, x, w, b),
         ShapeOf(at, x, w, b)
  PROVE  Shape'
<1> SUFFICES ASSUME NEW s \in Slots PROVE ShapeOf(pc'[s], rec'[s], want'[s], bk'[s])
  BY DEF Shape
<1>1. CASE s = r
  BY <1>1 DEF At
<1>2. CASE s # r
  BY <1>2 DEF At, Shape
<1> QED BY <1>1, <1>2

-----------------------------------------------------------------------------
(* The effect of each action on its own slot.                              *)

LEMMA CreateBeginEffect ==
  ASSUME TypeOK, NEW r \in Slots, NEW cfg \in Configs, NEW creds \in Creds \union {"none"},
         NEW now \in CreateTimes, CreateBegin(r, cfg, creds, now)
  PROVE  \E x \in Records :
           /\ x.reg = regs + 1 /\ ~x.verified /\ (x.hasCreds <=> creds # "none")
           /\ rec' = [rec EXCEPT ![r] = x]
           /\ At(r, "create.meta", x, creds, bk[r])
<1> DEFINE x == [kind |-> KindOf[cfg], cfg |-> cfg, hasCreds |-> creds # "none",
                 verified |-> FALSE, updatedAt |-> now, reg |-> regs + 1]
<1>1. KindOf[cfg] \in Kinds /\ now \in Stamps /\ regs + 1 \in Regs
  BY ConstantsAssumption DEF CreateBegin, TypeOK, Stamps, Regs
<1>2. x \in Records
  BY <1>1 DEF Records
<1>3. rec' = [rec EXCEPT ![r] = x]
  BY DEF CreateBegin
<1>4. At(r, "create.meta", x, creds, bk[r])
  BY <1>3 DEF TypeOK, CreateBegin, Goto, At
<1>5. x.reg = regs + 1 /\ ~x.verified /\ (x.hasCreds <=> creds # "none")
  OBVIOUS
<1> QED BY <1>2, <1>3, <1>4, <1>5

LEMMA UpdateGetEffect ==
  ASSUME TypeOK, NEW r \in Slots, NEW cfg \in Configs \union {Null},
         NEW creds \in Creds \union {"none", "keep"}, UpdateGet(r, cfg, creds)
  PROVE  \E x \in Records :
           /\ x.reg = meta.reg /\ x.kind = meta.kind /\ x.updatedAt = meta.updatedAt
           /\ x.verified => meta.verified /\ x.cfg = meta.cfg
           /\ creds = "keep" => (x.hasCreds <=> meta.hasCreds)
           /\ creds # "keep" => (x.hasCreds <=> creds # "none")
           /\ rec' = [rec EXCEPT ![r] = x]
           /\ At(r, "update.prepare", x, creds, bk[r])
<1> DEFINE x == [meta EXCEPT !.cfg = IF cfg = Null THEN @ ELSE cfg,
                             !.verified = IF cfg = Null THEN @ ELSE FALSE,
                             !.hasCreds = IF creds = "keep" THEN @ ELSE creds # "none"]
<1>1. meta \in Records
  BY DEF UpdateGet, TypeOK
<1>2. x \in Records
  BY <1>1 DEF Records
<1>3. rec' = [rec EXCEPT ![r] = x]
  BY DEF UpdateGet
<1>4. At(r, "update.prepare", x, creds, bk[r])
  BY <1>3 DEF TypeOK, UpdateGet, Goto, At
<1>5. /\ x.reg = meta.reg /\ x.kind = meta.kind /\ x.updatedAt = meta.updatedAt
      /\ x.verified => meta.verified /\ x.cfg = meta.cfg
  BY <1>1 DEF Records
<1>6. /\ creds = "keep" => (x.hasCreds <=> meta.hasCreds)
      /\ creds # "keep" => (x.hasCreds <=> creds # "none")
  BY <1>1 DEF Records
<1> QED BY <1>2, <1>3, <1>4, <1>5, <1>6

\* Every edit gets a larger UpdatedAt than the record it started from.
LEMMA BumpedGrows ==
  ASSUME NEW prev \in Nat, NEW now \in Nat PROVE Bumped(prev, now) > prev
BY DEF Bumped

LEMMA UpdatePrepareEffect ==
  ASSUME TypeOK, Shape, NEW r \in Slots, NEW now \in Stamps, UpdatePrepare(r, now)
  PROVE  \E x \in Records :
           /\ x.reg = rec[r].reg /\ x.kind = rec[r].kind /\ x.cfg = rec[r].cfg
           /\ (x.verified <=> rec[r].verified) /\ (x.hasCreds <=> rec[r].hasCreds)
           /\ x.updatedAt > rec[r].updatedAt
           /\ rec' = [rec EXCEPT ![r] = x]
           /\ At(r, IF want[r] = "keep" THEN "update.meta" ELSE "update.creds",
                 x, want[r], bk[r])
<1> DEFINE x == [rec[r] EXCEPT !.updatedAt = Bumped(@, now)]
<1>1. rec[r] \in Records
  BY DEF UpdatePrepare, TypeOK, Shape, ShapeOf, UpdatePCs
<1>2. Bumped(rec[r].updatedAt, now) > rec[r].updatedAt
  BY <1>1, BumpedGrows DEF Records, Stamps
<1>3. x \in Records
  BY <1>1 DEF Records, UpdatePrepare
<1>4. rec' = [rec EXCEPT ![r] = x]
  BY DEF UpdatePrepare
<1>5. At(r, IF want[r] = "keep" THEN "update.meta" ELSE "update.creds", x, want[r], bk[r])
  BY <1>4 DEF TypeOK, UpdatePrepare, Goto, At
<1>6. /\ x.reg = rec[r].reg /\ x.kind = rec[r].kind /\ x.cfg = rec[r].cfg
      /\ (x.verified <=> rec[r].verified) /\ (x.hasCreds <=> rec[r].hasCreds)
      /\ x.updatedAt = Bumped(rec[r].updatedAt, now)
  BY <1>1 DEF Records
<1> QED BY <1>2, <1>3, <1>4, <1>5, <1>6

LEMMA TestProbeEffect ==
  ASSUME TypeOK, Shape, NEW r \in Slots, NEW verdict \in BOOLEAN, TestProbe(r, verdict)
  PROVE  \E x \in Records :
           /\ x.reg = rec[r].reg /\ x.updatedAt = rec[r].updatedAt /\ x.cfg = rec[r].cfg
           /\ (x.hasCreds <=> rec[r].hasCreds) /\ (x.verified <=> verdict)
           /\ rec' = [rec EXCEPT ![r] = x]
           /\ At(r, "test.record", x, want[r], bk[r])
<1> DEFINE x == [rec[r] EXCEPT !.verified = verdict]
<1>1. rec[r] \in Records
  BY DEF TestProbe, TypeOK, Shape, ShapeOf, ReadPCs, TestPCs
<1>2. x \in Records
  BY <1>1 DEF Records
<1>3. rec' = [rec EXCEPT ![r] = x]
  BY DEF TestProbe
<1>4. At(r, "test.record", x, want[r], bk[r])
  BY <1>3 DEF TypeOK, TestProbe, Goto, At
<1>5. /\ x.reg = rec[r].reg /\ x.updatedAt = rec[r].updatedAt /\ x.cfg = rec[r].cfg
      /\ (x.hasCreds <=> rec[r].hasCreds) /\ (x.verified <=> verdict)
  BY <1>1 DEF Records
<1> QED BY <1>2, <1>3, <1>4, <1>5

\* The row an Update writes: the edited Record, under the row's own kind and
\* registration.
LEMMA UpdatedRowIs ==
  ASSUME TypeOK, NEW r \in Slots, rec[r] # Null, meta # Null
  PROVE  /\ UpdatedRow(r) \in Records
         /\ UpdatedRow(r).reg = meta.reg /\ UpdatedRow(r).kind = meta.kind
         /\ UpdatedRow(r).cfg = rec[r].cfg /\ UpdatedRow(r).updatedAt = rec[r].updatedAt
         /\ (UpdatedRow(r).hasCreds <=> rec[r].hasCreds)
         /\ (UpdatedRow(r).verified <=> rec[r].verified)
<1>1. rec[r] \in Records /\ meta \in Records
  BY DEF TypeOK
<1> QED BY <1>1 DEF UpdatedRow, Records

LEMMA BuiltIs ==
  ASSUME TypeOK, NEW r \in Slots, rec[r] # Null, NEW creds \in Secrets \union {Null}
  PROVE  /\ Built(r, creds) \in Backends
         /\ Built(r, creds).reg = rec[r].reg /\ Built(r, creds).cfg = rec[r].cfg
         /\ Built(r, creds).creds = creds
<1>1. rec[r] \in Records
  BY DEF TypeOK
<1> QED BY <1>1 DEF Built, Records, Backends

LEMMA NewSecretIs ==
  ASSUME TypeOK, NEW r \in Slots, rec[r] # Null, want[r] \notin {"none", "keep"}
  PROVE  NewSecret(r) \in Secrets /\ NewSecret(r).reg = rec[r].reg
<1>1. rec[r] \in Records /\ want[r] \in Creds
  BY DEF TypeOK
<1> QED BY <1>1 DEF NewSecret, Records, Secrets

-----------------------------------------------------------------------------
(* TypeOK and Shape are preserved, whatever MaxWriters is.                 *)

Arrays ==
  /\ pc \in [Slots -> PCs]
  /\ rec \in [Slots -> Records \union {Null}]
  /\ want \in [Slots -> Creds \union {"none", "keep"}]
  /\ bk \in [Slots -> Backends \union {Null}]

Shared ==
  /\ meta \in Records \union {Null}
  /\ secret \in Secrets \union {Null}
  /\ cache \in Entries \union {Null}
  /\ regs \in Regs
  /\ torn \subseteq {"write", "delete"}
  /\ crossed \in BOOLEAN

LEMMA TypeParts == TypeOK <=> Arrays /\ Shared
BY DEF TypeOK, Arrays, Shared

LEMMA TypePartsNext == Arrays' /\ Shared' => TypeOK'
BY DEF TypeOK, Arrays, Shared

LEMMA Positions ==
  /\ "idle" \in PCs
  /\ CreatePCs \subseteq PCs /\ UpdatePCs \subseteq PCs /\ DeletePCs \subseteq PCs
  /\ OpenPCs \subseteq PCs /\ TestPCs \subseteq PCs
BY DEF PCs

LEMMA ReturnTypes ==
  ASSUME TypeOK, Shape, NEW r \in Slots, Return(r) PROVE Arrays' /\ Shape'
<1>1. Arrays'
  BY DEF TypeOK, Return, Goto, Arrays, PCs
<1>2. Shape'
  BY ReturnEnds, ShapeKept, IdleShape DEF Ended
<1> QED BY <1>1, <1>2

\* A request that only moves on, to a position with the same Shape.
LEMMA GotoTypes ==
  ASSUME TypeOK, Shape, NEW r \in Slots, NEW at \in PCs, Goto(r, at),
         UNCHANGED <<rec, want, bk>>, ShapeOf(at, rec[r], want[r], bk[r])
  PROVE  Arrays' /\ Shape'
<1>1. Arrays'
  BY DEF TypeOK, Goto, Arrays
<1>2. Shape'
  BY GotoOnly, ShapeKept
<1> QED BY <1>1, <1>2

LEMMA OpenGotoIs ==
  ASSUME NEW r \in Slots, NEW open, NEW test, OpenGoto(r, open, test),
         pc[r] \in OpenPCs \union TestPCs
  PROVE  \/ pc[r] \in OpenPCs /\ Goto(r, open)
         \/ pc[r] \in TestPCs /\ Goto(r, test)
BY DEF OpenGoto

LEMMA CreateTypes ==
  ASSUME TypeOK, Shape, NEW r \in Slots, CreateStep(r) PROVE TypeOK' /\ Shape'
<1> USE DEF ShapeOf, CreatePCs, UpdatePCs, DeletePCs, OpenPCs, TestPCs, ReadPCs, LookPCs, CredsPCs,
            StorePCs, ServedPCs, PutPCs
<1>1. ASSUME NEW cfg \in Configs, NEW creds \in Creds \union {"none"}, NEW now \in CreateTimes,
             CreateBegin(r, cfg, creds, now)
      PROVE  TypeOK' /\ Shape'
  <2>1. PICK x \in Records :
          /\ x.reg = regs + 1 /\ ~x.verified /\ (x.hasCreds <=> creds # "none")
          /\ rec' = [rec EXCEPT ![r] = x]
          /\ At(r, "create.meta", x, creds, bk[r])
    BY <1>1, CreateBeginEffect
  <2>2. Arrays'
    <3>1. /\ pc' = [pc EXCEPT ![r] = "create.meta"] /\ bk' = bk
          /\ want' = [want EXCEPT ![r] = creds]
      BY <1>1 DEF CreateBegin, Goto
    <3> QED BY <2>1, <3>1 DEF TypeOK, Arrays, PCs
  <2>3. regs' \in Regs
    BY <1>1, ConstantsAssumption DEF CreateBegin, TypeOK, Regs
  <2>4. Shared'
    BY <1>1, <2>3 DEF TypeOK, CreateBegin, Shared
  <2>5. bk[r] = Null
    <3>1. pc[r] = "idle"
      BY <1>1 DEF CreateBegin
    <3> QED BY <3>1 DEF Shape
  <2>6. creds # "keep" /\ x # Null
    BY SentinelAssumption, NullAssumption
  <2>7. ShapeOf("create.meta", x, creds, bk[r])
    BY <2>1, <2>5, <2>6
  <2> QED BY <2>1, <2>2, <2>4, <2>7, ShapeKept, TypePartsNext
<1>2. ASSUME CreateMeta(r) PROVE TypeOK' /\ Shape'
  <2>1. Shared'
    BY <1>2 DEF TypeOK, CreateMeta, Shared
  <2>2. CASE rec[r].hasCreds
    <3>1. Goto(r, "create.put") /\ UNCHANGED <<rec, want, bk>> /\ pc[r] = "create.meta"
      BY <1>2, <2>2 DEF CreateMeta
    <3>2. ShapeOf("create.put", rec[r], want[r], bk[r])
      BY <3>1, <2>2 DEF Shape
    <3> QED BY <2>1, <3>1, <3>2, GotoTypes, TypePartsNext, Positions
  <2>3. CASE ~rec[r].hasCreds
    BY <1>2, <2>1, <2>3, ReturnTypes, TypePartsNext DEF CreateMeta
  <2> QED BY <2>2, <2>3
<1>3. ASSUME CreateMetaError(r) PROVE TypeOK' /\ Shape'
  <2>1. Shared'
    BY <1>3 DEF TypeOK, CreateMetaError, Shared, TornIf
  <2> QED BY <1>3, <2>1, ReturnTypes, TypePartsNext DEF CreateMetaError
<1>4. ASSUME pc[r] \in PutPCs PROVE NewSecret(r) \in Secrets
  <2>1. rec[r] # Null /\ want[r] \notin {"none", "keep"}
    BY <1>4 DEF Shape
  <2> QED BY <2>1, NewSecretIs
<1>5. ASSUME CreatePut(r) PROVE TypeOK' /\ Shape'
  <2>1. Shared'
    BY <1>4, <1>5 DEF TypeOK, CreatePut, Shared
  <2> QED BY <1>5, <2>1, ReturnTypes, TypePartsNext DEF CreatePut
<1>6. ASSUME CreatePutError(r) PROVE TypeOK' /\ Shape'
  <2>1. Shared'
    BY <1>4, <1>6 DEF TypeOK, CreatePutError, Shared, TornIf
  <2>2. Goto(r, "create.rollback") /\ UNCHANGED <<rec, want, bk>> /\ pc[r] = "create.put"
    BY <1>6 DEF CreatePutError
  <2>3. ShapeOf("create.rollback", rec[r], want[r], bk[r])
    BY <2>2 DEF Shape
  <2> QED BY <2>1, <2>2, <2>3, GotoTypes, TypePartsNext, Positions
<1>7. ASSUME CreateRollback(r) PROVE TypeOK' /\ Shape'
  <2>1. Shared'
    BY <1>7 DEF TypeOK, CreateRollback, Shared, TornIf
  <2> QED BY <1>7, <2>1, ReturnTypes, TypePartsNext DEF CreateRollback
<1> QED BY <1>1, <1>2, <1>3, <1>5, <1>6, <1>7 DEF CreateStep

LEMMA UpdateTypes ==
  ASSUME TypeOK, Shape, NEW r \in Slots, UpdateStep(r) PROVE TypeOK' /\ Shape'
<1> USE DEF ShapeOf, CreatePCs, UpdatePCs, DeletePCs, OpenPCs, TestPCs, ReadPCs, LookPCs, CredsPCs,
            StorePCs, ServedPCs, PutPCs
<1>1. ASSUME NEW cfg \in Configs \union {Null}, NEW creds \in Creds \union {"none", "keep"},
             UpdateGet(r, cfg, creds)
      PROVE  TypeOK' /\ Shape'
  <2>1. PICK x \in Records :
          /\ creds # "keep" => (x.hasCreds <=> creds # "none")
          /\ rec' = [rec EXCEPT ![r] = x]
          /\ At(r, "update.prepare", x, creds, bk[r])
    BY <1>1, UpdateGetEffect
  <2>2. Arrays'
    BY <1>1, <2>1 DEF TypeOK, UpdateGet, Goto, Arrays, PCs
  <2>3. Shared'
    BY <1>1 DEF TypeOK, UpdateGet, Shared
  <2>4. pc[r] = "idle"
    BY <1>1 DEF UpdateGet
  <2>5. bk[r] = Null
    BY <2>4 DEF Shape
  <2>6. x # Null
    BY NullAssumption
  <2>7. ShapeOf("update.prepare", x, creds, bk[r])
    BY <2>1, <2>5, <2>6
  <2> QED BY <2>1, <2>2, <2>3, <2>7, ShapeKept, TypePartsNext
<1>2. ASSUME NEW now \in Stamps, UpdatePrepare(r, now) PROVE TypeOK' /\ Shape'
  <2> DEFINE at == IF want[r] = "keep" THEN "update.meta" ELSE "update.creds"
  <2>1. PICK x \in Records :
          /\ (x.hasCreds <=> rec[r].hasCreds)
          /\ rec' = [rec EXCEPT ![r] = x]
          /\ At(r, at, x, want[r], bk[r])
    BY <1>2, UpdatePrepareEffect
  <2>2. Arrays'
    BY <1>2, <2>1 DEF TypeOK, UpdatePrepare, Goto, Arrays, PCs
  <2>3. Shared'
    BY <1>2 DEF TypeOK, UpdatePrepare, Shared
  <2>4. pc[r] = "update.prepare"
    BY <1>2 DEF UpdatePrepare
  <2>5. bk[r] = Null /\ (want[r] # "keep" => (rec[r].hasCreds <=> want[r] # "none"))
    BY <2>4 DEF Shape
  <2>6. x # Null
    BY NullAssumption
  <2>7. ShapeOf(at, x, want[r], bk[r])
    BY <2>1, <2>5, <2>6
  <2> QED BY <2>1, <2>2, <2>3, <2>7, ShapeKept, TypePartsNext
<1>3. ASSUME pc[r] = "update.creds" PROVE UpdatedSecret(r) \in Secrets \union {Null}
  <2>1. rec[r] # Null /\ want[r] # "keep"
    BY <1>3 DEF Shape
  <2> QED BY <2>1, NewSecretIs DEF UpdatedSecret
<1>4. ASSUME UpdateCreds(r) PROVE TypeOK' /\ Shape'
  <2>1. Shared'
    BY <1>3, <1>4 DEF TypeOK, UpdateCreds, Shared
  <2>2. Goto(r, "update.meta") /\ UNCHANGED <<rec, want, bk>> /\ pc[r] = "update.creds"
    BY <1>4 DEF UpdateCreds
  <2>3. ShapeOf("update.meta", rec[r], want[r], bk[r])
    BY <2>2 DEF Shape
  <2> QED BY <2>1, <2>2, <2>3, GotoTypes, TypePartsNext, Positions
<1>5. ASSUME UpdateCredsError(r) PROVE TypeOK' /\ Shape'
  <2>1. Shared'
    BY <1>3, <1>5 DEF TypeOK, UpdateCredsError, Shared, TornIf
  <2> QED BY <1>5, <2>1, ReturnTypes, TypePartsNext DEF UpdateCredsError
<1>6. ASSUME pc[r] = "update.meta", meta # Null PROVE UpdatedRow(r) \in Records
  <2>1. rec[r] # Null
    BY <1>6 DEF Shape
  <2> QED BY <1>6, <2>1, UpdatedRowIs
<1>7. ASSUME UpdateMeta(r) PROVE TypeOK' /\ Shape'
  <2>1. Shared'
    BY <1>6, <1>7 DEF TypeOK, UpdateMeta, Shared
  <2>2. Goto(r, "update.invalidate") /\ UNCHANGED <<rec, want, bk>> /\ pc[r] = "update.meta"
    BY <1>7 DEF UpdateMeta
  <2>3. ShapeOf("update.invalidate", rec[r], want[r], bk[r])
    BY <2>2 DEF Shape
  <2> QED BY <2>1, <2>2, <2>3, GotoTypes, TypePartsNext, Positions
<1>8. ASSUME UpdateMetaError(r) PROVE TypeOK' /\ Shape'
  <2>1. Shared'
    BY <1>6, <1>8 DEF TypeOK, UpdateMetaError, Shared, TornIf
  <2> QED BY <1>8, <2>1, ReturnTypes, TypePartsNext DEF UpdateMetaError
<1>9. ASSUME UpdateInvalidate(r) PROVE TypeOK' /\ Shape'
  <2>1. Shared'
    BY <1>9 DEF TypeOK, UpdateInvalidate, Shared
  <2> QED BY <1>9, <2>1, ReturnTypes, TypePartsNext DEF UpdateInvalidate
<1> QED BY <1>1, <1>2, <1>4, <1>5, <1>7, <1>8, <1>9 DEF UpdateStep

LEMMA DeleteTypes ==
  ASSUME TypeOK, Shape, NEW r \in Slots, DeleteStep(r) PROVE TypeOK' /\ Shape'
<1> USE DEF ShapeOf, CreatePCs, UpdatePCs, DeletePCs, OpenPCs, TestPCs, ReadPCs, LookPCs, CredsPCs,
            StorePCs, ServedPCs, PutPCs
<1>1. ASSUME DeleteMeta(r) PROVE TypeOK' /\ Shape'
  <2>1. Shared'
    BY <1>1 DEF TypeOK, DeleteMeta, Shared, TornIf
  <2>2. UNCHANGED <<rec, want, bk>> /\ pc[r] = "idle"
    BY <1>1 DEF DeleteMeta
  <2>3. CASE Goto(r, "delete.invalidate")
    <3>1. ShapeOf("delete.invalidate", rec[r], want[r], bk[r])
      BY <2>2 DEF Shape
    <3> QED BY <2>1, <2>2, <2>3, <3>1, GotoTypes, TypePartsNext, Positions
  <2>4. CASE UNCHANGED pc
    <3>1. Arrays'
      BY <2>2, <2>4 DEF TypeOK, Arrays
    <3>2. Shape'
      BY <2>2, <2>4 DEF Shape
    <3> QED BY <2>1, <3>1, <3>2, TypePartsNext
  <2> QED BY <1>1, <2>3, <2>4 DEF DeleteMeta
<1>2. ASSUME DeleteInvalidate(r) PROVE TypeOK' /\ Shape'
  <2>1. Shared'
    BY <1>2 DEF TypeOK, DeleteInvalidate, Shared
  <2>2. Goto(r, "delete.creds") /\ UNCHANGED <<rec, want, bk>> /\ pc[r] = "delete.invalidate"
    BY <1>2 DEF DeleteInvalidate
  <2>3. ShapeOf("delete.creds", rec[r], want[r], bk[r])
    BY <2>2 DEF Shape
  <2> QED BY <2>1, <2>2, <2>3, GotoTypes, TypePartsNext, Positions
<1>3. ASSUME DeleteCreds(r) PROVE TypeOK' /\ Shape'
  <2>1. Shared'
    BY <1>3 DEF TypeOK, DeleteCreds, Shared, TornIf
  <2> QED BY <1>3, <2>1, ReturnTypes, TypePartsNext DEF DeleteCreds
<1> QED BY <1>1, <1>2, <1>3 DEF DeleteStep

LEMMA OpenTypes ==
  ASSUME TypeOK, Shape, NEW r \in Slots, OpenStep(r) PROVE TypeOK' /\ Shape'
<1> USE DEF ShapeOf, CreatePCs, UpdatePCs, DeletePCs, OpenPCs, TestPCs, ReadPCs, LookPCs, CredsPCs,
            StorePCs, ServedPCs, PutPCs
<1>1. ASSUME NEW op \in {"open", "test"}, OpenGet(r, op) PROVE TypeOK' /\ Shape'
  <2>1. Shared'
    BY <1>1 DEF TypeOK, OpenGet, Shared
  <2>2. PICK at \in {"open.lookup", "test.lookup"} : Goto(r, at)
    BY <1>1 DEF OpenGet
  <2>3. Arrays'
    BY <1>1, <2>2 DEF TypeOK, OpenGet, Goto, Arrays, PCs
  <2>4. At(r, at, meta, want[r], bk[r])
    BY <1>1, <2>2 DEF TypeOK, OpenGet, Goto, At
  <2>5. pc[r] = "idle" /\ meta # Null
    BY <1>1 DEF OpenGet
  <2>6. bk[r] = Null /\ want[r] = "keep"
    BY <2>5 DEF Shape
  <2>7. ShapeOf(at, meta, want[r], bk[r])
    BY <2>5, <2>6
  <2> QED BY <2>1, <2>3, <2>4, <2>7, ShapeKept, TypePartsNext
<1>2. ASSUME CacheHit(r) PROVE TypeOK' /\ Shape'
  <2>1. Shared'
    BY <1>2 DEF TypeOK, CacheHit, Shared
  <2>2. PICK at \in {"open.served", "test.check"} : Goto(r, at)
    BY <1>2, OpenGotoIs DEF CacheHit, AtOpen
  <2>3. cache.backend \in Backends /\ cache.backend # Null
    BY <1>2, NullAssumption DEF TypeOK, CacheHit, Entries
  <2>4. Arrays'
    BY <1>2, <2>2, <2>3 DEF TypeOK, CacheHit, Goto, Arrays, PCs
  <2>5. At(r, at, rec[r], want[r], cache.backend)
    BY <1>2, <2>2 DEF TypeOK, CacheHit, Goto, At
  <2>6. pc[r] \in LookPCs
    BY <1>2 DEF CacheHit, AtOpen
  <2>7. rec[r] # Null /\ want[r] = "keep"
    BY <2>6 DEF Shape
  <2>8. ShapeOf(at, rec[r], want[r], cache.backend)
    BY <2>3, <2>7
  <2> QED BY <2>1, <2>4, <2>5, <2>8, ShapeKept, TypePartsNext
<1>3. ASSUME CacheMiss(r) PROVE TypeOK' /\ Shape'
  <2>1. Shared'
    BY <1>3 DEF TypeOK, CacheMiss, Shared
  <2>2. pc[r] \in LookPCs
    BY <1>3 DEF CacheMiss, AtOpen
  <2>3. rec[r] # Null /\ want[r] = "keep" /\ bk[r] = Null
    BY <2>2 DEF Shape
  <2>4. CASE rec[r].hasCreds
    <3>1. PICK at \in {"open.creds", "test.creds"} : Goto(r, at)
      BY <1>3, <2>4, OpenGotoIs DEF CacheMiss, AtOpen
    <3>2. UNCHANGED <<rec, want, bk>>
      BY <1>3, <2>4 DEF CacheMiss
    <3>3. ShapeOf(at, rec[r], want[r], bk[r])
      BY <2>3, <2>4
    <3> QED BY <2>1, <3>1, <3>2, <3>3, GotoTypes, TypePartsNext, Positions
  <2>5. CASE ~rec[r].hasCreds
    <3>1. PICK at \in {"open.store", "test.store"} : Goto(r, at)
      BY <1>3, <2>5, OpenGotoIs DEF CacheMiss, AtOpen
    <3>2. UNCHANGED <<rec, want>> /\ bk' = [bk EXCEPT ![r] = Built(r, Null)]
      BY <1>3, <2>5 DEF CacheMiss
    <3>3. Built(r, Null) \in Backends /\ Built(r, Null) # Null
      BY <2>3, BuiltIs, NullAssumption
    <3>4. Arrays'
      BY <3>1, <3>2, <3>3 DEF TypeOK, Goto, Arrays, PCs
    <3>5. At(r, at, rec[r], want[r], Built(r, Null))
      BY <3>1, <3>2 DEF TypeOK, Goto, At
    <3>6. ShapeOf(at, rec[r], want[r], Built(r, Null))
      BY <2>3, <3>3
    <3> QED BY <2>1, <3>4, <3>5, <3>6, ShapeKept, TypePartsNext
  <2> QED BY <2>4, <2>5
<1>4. ASSUME OpenCreds(r) PROVE TypeOK' /\ Shape'
  <2>1. Shared'
    BY <1>4 DEF TypeOK, OpenCreds, Shared
  <2>2. pc[r] \in CredsPCs
    BY <1>4 DEF OpenCreds, AtOpen
  <2>3. rec[r] # Null /\ want[r] = "keep"
    BY <2>2 DEF Shape
  <2>4. PICK at \in {"open.store", "test.store"} : Goto(r, at)
    BY <1>4, OpenGotoIs DEF OpenCreds, AtOpen
  <2>5. UNCHANGED <<rec, want>> /\ bk' = [bk EXCEPT ![r] = Built(r, secret)]
    BY <1>4 DEF OpenCreds
  <2>6. secret \in Secrets \union {Null}
    BY DEF TypeOK
  <2>7. Built(r, secret) \in Backends /\ Built(r, secret) # Null
    BY <2>3, <2>6, BuiltIs, NullAssumption
  <2>8. Arrays'
    BY <2>4, <2>5, <2>7 DEF TypeOK, Goto, Arrays, PCs
  <2>9. At(r, at, rec[r], want[r], Built(r, secret))
    BY <2>4, <2>5 DEF TypeOK, Goto, At
  <2>10. ShapeOf(at, rec[r], want[r], Built(r, secret))
    BY <2>3, <2>7
  <2> QED BY <2>1, <2>8, <2>9, <2>10, ShapeKept, TypePartsNext
<1>5. ASSUME OpenStore(r) PROVE TypeOK' /\ Shape'
  <2>1. pc[r] \in StorePCs
    BY <1>5 DEF OpenStore, AtOpen
  <2>2. rec[r] # Null /\ want[r] = "keep" /\ bk[r] # Null
    BY <2>1 DEF Shape
  <2>3. rec[r] \in Records /\ bk[r] \in Backends
    BY <2>2 DEF TypeOK
  <2>4. [updatedAt |-> rec[r].updatedAt, backend |-> bk[r]] \in Entries
    BY <2>3 DEF Records, Entries
  <2>5. Shared'
    BY <1>5, <2>4 DEF TypeOK, OpenStore, Shared
  <2>6. PICK at \in {"open.served", "test.check"} : Goto(r, at)
    BY <1>5, OpenGotoIs DEF OpenStore, AtOpen
  <2>7. UNCHANGED <<rec, want, bk>>
    BY <1>5 DEF OpenStore
  <2>8. ShapeOf(at, rec[r], want[r], bk[r])
    BY <2>2
  <2> QED BY <2>5, <2>6, <2>7, <2>8, GotoTypes, TypePartsNext, Positions
<1>6. ASSUME OpenReturn(r) PROVE TypeOK' /\ Shape'
  <2>1. Shared'
    BY <1>6 DEF TypeOK, OpenReturn, Shared
  <2> QED BY <1>6, <2>1, ReturnTypes, TypePartsNext DEF OpenReturn
<1> QED BY <1>1, <1>2, <1>3, <1>4, <1>5, <1>6 DEF OpenStep

LEMMA TestTypes ==
  ASSUME TypeOK, Shape, NEW r \in Slots, TestStep(r) PROVE TypeOK' /\ Shape'
<1> USE DEF ShapeOf, CreatePCs, UpdatePCs, DeletePCs, OpenPCs, TestPCs, ReadPCs, LookPCs, CredsPCs,
            StorePCs, ServedPCs, PutPCs
<1>1. ASSUME TestCheck(r) PROVE TypeOK' /\ Shape'
  <2>1. Shared'
    BY <1>1 DEF TypeOK, TestCheck, Shared
  <2>2. Goto(r, "test.probe") /\ UNCHANGED <<rec, want, bk>> /\ pc[r] = "test.check"
    BY <1>1 DEF TestCheck
  <2>3. ShapeOf("test.probe", rec[r], want[r], bk[r])
    BY <2>2 DEF Shape
  <2> QED BY <2>1, <2>2, <2>3, GotoTypes, TypePartsNext, Positions
<1>2. ASSUME NEW verdict \in BOOLEAN, TestProbe(r, verdict) PROVE TypeOK' /\ Shape'
  <2>1. PICK x \in Records : /\ rec' = [rec EXCEPT ![r] = x]
                             /\ At(r, "test.record", x, want[r], bk[r])
    BY <1>2, TestProbeEffect
  <2>2. Arrays'
    BY <1>2, <2>1 DEF TypeOK, TestProbe, Goto, Arrays, PCs
  <2>3. Shared'
    BY <1>2 DEF TypeOK, TestProbe, Shared
  <2>4. pc[r] = "test.probe" /\ x # Null
    BY <1>2, NullAssumption DEF TestProbe
  <2>5. want[r] = "keep" /\ bk[r] # Null
    BY <2>4 DEF Shape
  <2>6. ShapeOf("test.record", x, want[r], bk[r])
    BY <2>4, <2>5
  <2> QED BY <2>1, <2>2, <2>3, <2>6, ShapeKept, TypePartsNext
<1>3. ASSUME TestRecord(r) PROVE TypeOK' /\ Shape'
  <2>1. pc[r] = "test.record" /\ meta # Null
    BY <1>3 DEF TestRecord
  <2>2. rec[r] # Null
    BY <2>1 DEF Shape
  <2>3. rec[r] \in Records /\ meta \in Records
    BY <2>1, <2>2 DEF TypeOK
  <2>4. meta' \in Records
    BY <1>3, <2>3 DEF TestRecord, Records
  <2>5. Shared'
    BY <1>3, <2>4 DEF TypeOK, TestRecord, Shared
  <2> QED BY <1>3, <2>5, ReturnTypes, TypePartsNext DEF TestRecord
<1> QED BY <1>1, <1>2, <1>3 DEF TestStep

LEMMA NextTypes ==
  ASSUME TypeOK, Shape, [Next]_vars PROVE TypeOK' /\ Shape'
<1>1. ASSUME NEW r \in Slots, Abort(r) PROVE TypeOK' /\ Shape'
  <2>1. Shared'
    BY <1>1 DEF TypeOK, Abort, Shared
  <2> QED BY <1>1, <2>1, ReturnTypes, TypePartsNext DEF Abort
<1>2. CASE Crash
  <2>1. Shared'
    BY <1>2 DEF TypeOK, Crash, Shared
  <2>2. Arrays'
    BY <1>2 DEF Crash, Arrays, PCs
  <2>3. Shape'
    BY <1>2, IdleShape DEF Crash, Shape
  <2> QED BY <2>1, <2>2, <2>3, TypePartsNext
<1>3. CASE UNCHANGED vars
  BY <1>3 DEF vars, TypeOK, Shape
<1> QED BY <1>1, <1>2, <1>3, CreateTypes, UpdateTypes, DeleteTypes, OpenTypes, TestTypes DEF Next

\* Every variable keeps its type, for any MaxWriters; with it, a request at a
\* given step of service.go holds the Record, credentials and client that the
\* step uses.
THEOREM RegistryTypeOK == Spec => []TypeOK
<1>1. Init => TypeOK /\ Shape
  BY InitTypes
<1>2. TypeOK /\ Shape /\ [Next]_vars => (TypeOK /\ Shape)'
  BY NextTypes
<1> QED BY <1>1, <1>2, PTL DEF Spec

-----------------------------------------------------------------------------
(* The rest of IInv, for one admin request at a time.                      *)

Rest == Alone /\ Fresh /\ Owner /\ Versions /\ Proven /\ Paired /\ Keyed /\ Leftover

SharedVars == <<meta, secret, cache, regs, torn, crossed>>

LEMMA InitRest == Init => Rest
<1> SUFFICES ASSUME Init PROVE Rest
  OBVIOUS
<1> USE DEF Init, CreatePCs, UpdatePCs, DeletePCs, OpenPCs, TestPCs, ReadPCs, StorePCs, ServedPCs,
            PutPCs, WriterPCs
<1>1. Alone /\ Fresh /\ Owner
  BY DEF Alone, Fresh, Owner
<1>2. Versions /\ Proven
  BY DEF Versions, Proven
<1>3. Paired /\ Keyed /\ Leftover
  BY DEF Paired, Keyed, Leftover, Between, Replacing
<1> QED BY <1>1, <1>2, <1>3 DEF Rest

\* With one admin request at a time, whoever starts one finds no other in
\* flight, except that a Create may find other Creates.
LEMMA StartsAlone ==
  ASSUME MaxWriters = 1, TypeOK, NEW op, MayWrite(op), NEW s \in Slots, pc[s] \in WriterPCs
  PROVE  op = "create" /\ pc[s] \in CreatePCs
<1>1. s \in Writers
  BY DEF Writers
<1>2. IsFiniteSet(Writers)
  BY SlotsAssumption, FS_Subset DEF Writers
<1>3. Cardinality(Writers) # 0 /\ Cardinality(Writers) \in Nat
  BY <1>1, <1>2, FS_EmptySet, FS_CardinalityType
<1> QED BY <1>1, <1>3 DEF MayWrite

\* The numbers in Records, entries and backends are numbers.
LEMMA Numbers ==
  ASSUME TypeOK
  PROVE  /\ regs \in Nat
         /\ meta # Null => meta.reg \in Nat /\ meta.updatedAt \in Nat
         /\ cache # Null => cache.backend.reg \in Nat /\ cache.updatedAt \in Nat
         /\ \A r \in Slots : rec[r] # Null => rec[r].reg \in Nat /\ rec[r].updatedAt \in Nat
         /\ \A r \in Slots : bk[r] # Null => bk[r].reg \in Nat
<1>1. regs \in Nat
  BY DEF TypeOK, Regs
<1>2. meta # Null => meta.reg \in Nat /\ meta.updatedAt \in Nat
  BY DEF TypeOK, Regs, Stamps, Records
<1>3. cache # Null => cache.backend.reg \in Nat /\ cache.updatedAt \in Nat
  BY DEF TypeOK, Regs, Stamps, Entries, Backends
<1>4. \A r \in Slots : rec[r] # Null => rec[r].reg \in Nat /\ rec[r].updatedAt \in Nat
  BY DEF TypeOK, Regs, Stamps, Records
<1>5. \A r \in Slots : bk[r] # Null => bk[r].reg \in Nat
  BY DEF TypeOK, Regs, Backends
<1> QED BY <1>1, <1>2, <1>3, <1>4, <1>5

\* A request that ends with nothing half done takes nothing with it.
LEMMA EndKeeps ==
  ASSUME TypeOK, Shape, Rest, NEW r \in Slots, Ended(r), UNCHANGED SharedVars,
         ~Between(r), pc[r] \notin DeletePCs
  PROVE  Rest'
<1> USE Numbers DEF At, Ended, SharedVars, CreatePCs, UpdatePCs, DeletePCs, OpenPCs, TestPCs, ReadPCs, LookPCs, CredsPCs,
            StorePCs, ServedPCs, PutPCs, WriterPCs
<1>1. Alone'
  BY DEF Rest, Alone
<1>2. Fresh'
  BY DEF Rest, Fresh
<1>3. Owner'
  BY DEF Rest, Owner
<1>4. Versions'
  BY DEF Rest, Versions
<1>5. Proven'
  BY DEF Rest, Proven
<1>6. Paired'
  BY DEF Rest, Paired, Between, Replacing, UpdatedSecret, NewSecret
<1>7. Keyed'
  BY DEF Rest, Keyed, Between, Replacing, EffectiveCreds
<1>8. Leftover'
  BY DEF Rest, Leftover, Between, Replacing
<1> QED BY <1>1, <1>2, <1>3, <1>4, <1>5, <1>6, <1>7, <1>8 DEF Rest

LEMMA CreateBeginKeeps ==
  ASSUME TypeOK, Shape, Rest, NEW r \in Slots, NEW cfg \in Configs, NEW creds \in Creds \union {"none"},
         NEW now \in CreateTimes, MaxWriters = 1, CreateBegin(r, cfg, creds, now)
  PROVE  Rest'
<1> USE Numbers DEF At, Ended, SharedVars, CreatePCs, UpdatePCs, DeletePCs, OpenPCs, TestPCs, ReadPCs, LookPCs, CredsPCs,
            StorePCs, ServedPCs, PutPCs, WriterPCs
<1>1. PICK x \in Records : x.reg = regs + 1 /\ At(r, "create.meta", x, creds, bk[r])
  BY CreateBeginEffect
<1>2. /\ pc[r] = "idle" /\ regs' = regs + 1
      /\ UNCHANGED <<meta, secret, cache, torn, crossed>>
  BY DEF CreateBegin
<1>3. bk[r] = Null
  BY <1>2 DEF Shape, ShapeOf
<1>4. \A s \in Slots : pc[s] \in WriterPCs => pc[s] \in CreatePCs
  BY StartsAlone DEF CreateBegin
<1>5. Alone'
  BY <1>1, <1>2, <1>3, <1>4 DEF Rest, Alone
<1>6. Fresh'
  <2>1. /\ meta # Null => meta.reg <= regs
        /\ cache # Null => cache.backend.reg <= regs
        /\ \A s \in Slots : /\ rec[s] # Null => rec[s].reg <= regs
                            /\ bk[s] # Null => bk[s].reg <= regs
    BY DEF Rest, Fresh
  <2>2. \A n \in Nat : n <= regs => n <= regs + 1 /\ n # regs + 1
    BY Numbers
  <2>3. /\ meta' # Null => meta'.reg <= regs' /\ meta'.reg # x.reg
        /\ cache' # Null => cache'.backend.reg <= regs' /\ cache'.backend.reg # x.reg
    BY <1>1, <1>2, <2>1, <2>2
  <2>4. \A s \in Slots \ {r} :
          /\ rec'[s] # Null => rec'[s].reg <= regs' /\ rec'[s].reg # x.reg
          /\ bk'[s] # Null => bk'[s].reg <= regs' /\ bk'[s].reg # x.reg
    BY <1>1, <1>2, <2>1, <2>2
  <2>5. rec'[r].reg = x.reg /\ x.reg <= regs' /\ bk'[r] = Null
    BY <1>1, <1>2, <1>3
  <2>6. \A s \in Slots \ {r} : pc'[s] = "create.meta" =>
          /\ meta' # Null => meta'.reg # rec'[s].reg
          /\ cache' # Null => cache'.backend.reg # rec'[s].reg
          /\ \A t \in Slots : /\ t # s /\ rec'[t] # Null => rec'[t].reg # rec'[s].reg
                              /\ bk'[t] # Null => bk'[t].reg # rec'[s].reg
    <3>1. \A s \in Slots : pc[s] = "create.meta" => rec[s] # Null
      BY DEF Shape, ShapeOf
    <3> QED BY <1>1, <1>2, <1>3, <2>4, <2>5, <3>1 DEF Rest, Fresh
  <2> QED BY <2>3, <2>4, <2>5, <2>6 DEF Fresh
<1>7. Owner'
  BY <1>1, <1>2, <1>3, <1>4 DEF Rest, Owner
<1>8. Versions'
  BY <1>1, <1>2, <1>3, <1>4 DEF Rest, Versions
<1>9. Proven'
  BY <1>1, <1>2, <1>3, <1>4 DEF Rest, Proven
<1>10. Paired'
  BY <1>1, <1>2, <1>3, <1>4 DEF Rest, Paired, Between, Replacing, UpdatedSecret, NewSecret
<1>11. Keyed'
  BY <1>1, <1>2, <1>3, <1>4 DEF Rest, Keyed, Between, Replacing, EffectiveCreds
<1>12. Leftover'
  BY <1>1, <1>2, <1>3, <1>4 DEF Rest, Leftover, Between, Replacing
<1> QED BY <1>5, <1>6, <1>7, <1>8, <1>9, <1>10, <1>11, <1>12 DEF Rest

LEMMA CreateMetaKeeps ==
  ASSUME TypeOK, Shape, Rest, NEW r \in Slots, CreateMeta(r)
  PROVE  Rest'
<1> USE Numbers DEF At, Ended, SharedVars, CreatePCs, UpdatePCs, DeletePCs, OpenPCs, TestPCs, ReadPCs, LookPCs, CredsPCs,
            StorePCs, ServedPCs, PutPCs, WriterPCs
<1>1. /\ pc[r] = "create.meta" /\ meta = Null /\ meta' = rec[r]
      /\ UNCHANGED <<secret, cache, regs, torn, crossed>>
  BY DEF CreateMeta
<1>2. \/ rec[r].hasCreds /\ At(r, "create.put", rec[r], want[r], bk[r])
      \/ ~rec[r].hasCreds /\ Ended(r)
  BY GotoOnly, ReturnEnds DEF CreateMeta
<1>3. rec[r] # Null /\ ~rec[r].verified /\ bk[r] = Null
  BY <1>1 DEF Shape, ShapeOf
<1>4. \A s \in Slots \ {r} : pc[s] \notin UpdatePCs \union DeletePCs \union TestPCs \union PutPCs
  BY <1>1 DEF Rest, Alone, Owner, Shape, ShapeOf
<1>5. /\ \A s \in Slots : pc[s] \in ReadPCs => rec[s].reg # rec[r].reg
      /\ cache # Null => cache.backend.reg # rec[r].reg
  BY <1>1 DEF Rest, Fresh, Shape, ShapeOf
<1>6. Alone'
  BY <1>1, <1>2, <1>3, <1>4, <1>5 DEF Rest, Alone
<1>7. Fresh'
  BY <1>1, <1>2, <1>3, <1>4, <1>5 DEF Rest, Fresh
<1>8. Owner'
  BY <1>1, <1>2, <1>3, <1>4, <1>5 DEF Rest, Owner
<1>9. Versions'
  BY <1>1, <1>2, <1>3, <1>4, <1>5 DEF Rest, Versions
<1>10. Proven'
  BY <1>1, <1>2, <1>3, <1>4, <1>5 DEF Rest, Proven
<1>11. Paired'
  BY <1>1, <1>2, <1>3, <1>4, <1>5 DEF Rest, Paired, Between, Replacing, UpdatedSecret, NewSecret
<1>12. Keyed'
  BY <1>1, <1>2, <1>3, <1>4, <1>5 DEF Rest, Keyed, Between, Replacing, EffectiveCreds
<1>13. Leftover'
  BY <1>1, <1>2, <1>3, <1>4, <1>5 DEF Rest, Leftover, Between, Replacing
<1> QED BY <1>6, <1>7, <1>8, <1>9, <1>10, <1>11, <1>12, <1>13 DEF Rest

\* A row inserted by a Create that was told otherwise.
LEMMA CreateMetaErrorKeeps ==
  ASSUME TypeOK, Shape, Rest, NEW r \in Slots, pc[r] = "create.meta", meta = Null, meta' = rec[r],
         TornIf(rec[r].hasCreds, "write"), Ended(r), UNCHANGED <<secret, cache, regs, crossed>>
  PROVE  Rest'
<1> USE Numbers DEF At, Ended, SharedVars, CreatePCs, UpdatePCs, DeletePCs, OpenPCs, TestPCs, ReadPCs, LookPCs, CredsPCs,
            StorePCs, ServedPCs, PutPCs, WriterPCs
<1>1. IF rec[r].hasCreds THEN "write" \in torn' ELSE torn' = torn
  BY DEF TornIf
<1>2. rec[r] # Null /\ ~rec[r].verified /\ bk[r] = Null
  BY DEF Shape, ShapeOf
<1>3. \A s \in Slots \ {r} : pc[s] \notin UpdatePCs \union DeletePCs \union TestPCs \union PutPCs
  BY DEF Rest, Alone, Owner, Shape, ShapeOf
<1>4. /\ \A s \in Slots : pc[s] \in ReadPCs => rec[s].reg # rec[r].reg
      /\ cache # Null => cache.backend.reg # rec[r].reg
  BY DEF Rest, Fresh, Shape, ShapeOf
<1>5. Alone'
  BY <1>1, <1>2, <1>3, <1>4 DEF Rest, Alone
<1>6. Fresh'
  BY <1>1, <1>2, <1>3, <1>4 DEF Rest, Fresh
<1>7. Owner'
  BY <1>1, <1>2, <1>3, <1>4 DEF Rest, Owner
<1>8. Versions'
  BY <1>1, <1>2, <1>3, <1>4 DEF Rest, Versions
<1>9. Proven'
  BY <1>1, <1>2, <1>3, <1>4 DEF Rest, Proven
<1>10. Paired'
  BY <1>1, <1>2, <1>3, <1>4 DEF Rest, Paired, Between, Replacing, UpdatedSecret, NewSecret
<1>11. Keyed'
  BY <1>1, <1>2, <1>3, <1>4 DEF Rest, Keyed, Between, Replacing, EffectiveCreds
<1>12. Leftover'
  BY <1>1, <1>2, <1>3, <1>4 DEF Rest, Leftover, Between, Replacing
<1> QED BY <1>5, <1>6, <1>7, <1>8, <1>9, <1>10, <1>11, <1>12 DEF Rest

LEMMA CreatePutKeeps ==
  ASSUME TypeOK, Shape, Rest, NEW r \in Slots, CreatePut(r)
  PROVE  Rest'
<1> USE Numbers DEF At, Ended, SharedVars, CreatePCs, UpdatePCs, DeletePCs, OpenPCs, TestPCs, ReadPCs, LookPCs, CredsPCs,
            StorePCs, ServedPCs, PutPCs, WriterPCs
<1>1. pc[r] = "create.put" /\ secret' = NewSecret(r) /\ Ended(r)
      /\ UNCHANGED <<meta, cache, regs, torn, crossed>>
  BY ReturnEnds DEF CreatePut
<1>2. rec[r] # Null /\ rec[r].hasCreds /\ want[r] \notin {"none", "keep"}
  BY <1>1 DEF Shape, ShapeOf
<1>3. secret' # Null /\ secret'.reg = rec[r].reg
  BY <1>1, <1>2, NewSecretIs, NullAssumption
<1>4. \A s \in Slots \ {r} : pc[s] \notin UpdatePCs \union DeletePCs \union TestPCs \union PutPCs
  BY <1>1 DEF Rest, Alone
<1>5. meta = rec[r]
  BY <1>1 DEF Rest, Owner
<1>6. Alone'
  BY <1>1, <1>2, <1>3, <1>4, <1>5 DEF Rest, Alone
<1>7. Fresh'
  BY <1>1, <1>2, <1>3, <1>4, <1>5 DEF Rest, Fresh
<1>8. Owner'
  BY <1>1, <1>2, <1>3, <1>4, <1>5 DEF Rest, Owner
<1>9. Versions'
  BY <1>1, <1>2, <1>3, <1>4, <1>5 DEF Rest, Versions
<1>10. Proven'
  BY <1>1, <1>2, <1>3, <1>4, <1>5 DEF Rest, Proven
<1>11. Paired'
  BY <1>1, <1>2, <1>3, <1>4, <1>5 DEF Rest, Paired, Between, Replacing, UpdatedSecret, NewSecret
<1>12. Keyed'
  BY <1>1, <1>2, <1>3, <1>4, <1>5 DEF Rest, Keyed, Between, Replacing, EffectiveCreds
<1>13. Leftover'
  BY <1>1, <1>2, <1>3, <1>4, <1>5 DEF Rest, Leftover, Between, Replacing
<1> QED BY <1>6, <1>7, <1>8, <1>9, <1>10, <1>11, <1>12, <1>13 DEF Rest

LEMMA CreatePutErrorKeeps ==
  ASSUME TypeOK, Shape, Rest, NEW r \in Slots, CreatePutError(r)
  PROVE  Rest'
<1> USE Numbers DEF At, Ended, SharedVars, CreatePCs, UpdatePCs, DeletePCs, OpenPCs, TestPCs, ReadPCs, LookPCs, CredsPCs,
            StorePCs, ServedPCs, PutPCs, WriterPCs
<1>1. pc[r] = "create.put" /\ UNCHANGED <<meta, cache, regs, crossed>>
  BY DEF CreatePutError
<1>2. "write" \in torn' \/ UNCHANGED <<secret, torn>>
  BY DEF CreatePutError, TornIf
<1>3. At(r, "create.rollback", rec[r], want[r], bk[r])
  BY GotoOnly DEF CreatePutError
<1>4. rec[r] # Null
  BY <1>1 DEF Shape, ShapeOf
<1>5. \A s \in Slots \ {r} : pc[s] \notin UpdatePCs \union DeletePCs \union TestPCs \union PutPCs
  BY <1>1 DEF Rest, Alone
<1>6. meta = rec[r]
  BY <1>1 DEF Rest, Owner
<1>7. Alone'
  BY <1>1, <1>2, <1>3, <1>4, <1>5, <1>6 DEF Rest, Alone
<1>8. Fresh'
  BY <1>1, <1>2, <1>3, <1>4, <1>5, <1>6 DEF Rest, Fresh
<1>9. Owner'
  BY <1>1, <1>2, <1>3, <1>4, <1>5, <1>6 DEF Rest, Owner
<1>10. Versions'
  BY <1>1, <1>2, <1>3, <1>4, <1>5, <1>6 DEF Rest, Versions
<1>11. Proven'
  BY <1>1, <1>2, <1>3, <1>4, <1>5, <1>6 DEF Rest, Proven
<1>12. Paired'
  BY <1>1, <1>2, <1>3, <1>4, <1>5, <1>6 DEF Rest, Paired, Between, Replacing, UpdatedSecret, NewSecret
<1>13. Keyed'
  BY <1>1, <1>2, <1>3, <1>4, <1>5, <1>6 DEF Rest, Keyed, Between, Replacing, EffectiveCreds
<1>14. Leftover'
  BY <1>1, <1>2, <1>3, <1>4, <1>5, <1>6 DEF Rest, Leftover, Between, Replacing
<1> QED BY <1>7, <1>8, <1>9, <1>10, <1>11, <1>12, <1>13, <1>14 DEF Rest

LEMMA CreateRollbackKeeps ==
  ASSUME TypeOK, Shape, Rest, NEW r \in Slots, CreateRollback(r)
  PROVE  Rest'
<1> USE Numbers DEF At, Ended, SharedVars, CreatePCs, UpdatePCs, DeletePCs, OpenPCs, TestPCs, ReadPCs, LookPCs, CredsPCs,
            StorePCs, ServedPCs, PutPCs, WriterPCs
<1>1. pc[r] = "create.rollback" /\ Ended(r) /\ UNCHANGED <<secret, cache, regs, crossed>>
  BY ReturnEnds DEF CreateRollback
<1>2. \/ meta' = Null /\ torn' = torn
      \/ meta' = meta /\ "write" \in torn'
  BY DEF CreateRollback, TornIf
<1>3. \A s \in Slots \ {r} : pc[s] \notin UpdatePCs \union DeletePCs \union TestPCs \union PutPCs
  BY <1>1 DEF Rest, Alone
<1>4. meta = rec[r]
  BY <1>1 DEF Rest, Owner
<1>5. Alone'
  BY <1>1, <1>2, <1>3, <1>4 DEF Rest, Alone
<1>6. Fresh'
  BY <1>1, <1>2, <1>3, <1>4 DEF Rest, Fresh
<1>7. Owner'
  BY <1>1, <1>2, <1>3, <1>4 DEF Rest, Owner
<1>8. Versions'
  BY <1>1, <1>2, <1>3, <1>4 DEF Rest, Versions
<1>9. Proven'
  BY <1>1, <1>2, <1>3, <1>4 DEF Rest, Proven
<1>10. Paired'
  BY <1>1, <1>2, <1>3, <1>4 DEF Rest, Paired, Between, Replacing, UpdatedSecret, NewSecret
<1>11. Keyed'
  BY <1>1, <1>2, <1>3, <1>4 DEF Rest, Keyed, Between, Replacing, EffectiveCreds
<1>12. Leftover'
  BY <1>1, <1>2, <1>3, <1>4 DEF Rest, Leftover, Between, Replacing
<1> QED BY <1>5, <1>6, <1>7, <1>8, <1>9, <1>10, <1>11, <1>12 DEF Rest

LEMMA UpdateGetKeeps ==
  ASSUME TypeOK, Shape, Rest, NEW r \in Slots, NEW cfg \in Configs \union {Null}, NEW creds \in Creds \union {"none", "keep"},
         MaxWriters = 1, UpdateGet(r, cfg, creds)
  PROVE  Rest'
<1> USE Numbers DEF At, Ended, SharedVars, CreatePCs, UpdatePCs, DeletePCs, OpenPCs, TestPCs, ReadPCs, LookPCs, CredsPCs,
            StorePCs, ServedPCs, PutPCs, WriterPCs
<1>1. PICK x \in Records :
        /\ x.reg = meta.reg /\ x.kind = meta.kind /\ x.updatedAt = meta.updatedAt
        /\ x.verified => meta.verified /\ x.cfg = meta.cfg
        /\ creds = "keep" => (x.hasCreds <=> meta.hasCreds)
        /\ At(r, "update.prepare", x, creds, bk[r])
  BY UpdateGetEffect
<1>2. pc[r] = "idle" /\ meta # Null /\ UNCHANGED SharedVars
  BY DEF UpdateGet
<1>3. bk[r] = Null
  BY <1>2 DEF Shape, ShapeOf
<1>4. \A s \in Slots : pc[s] \notin WriterPCs
  BY StartsAlone DEF UpdateGet
<1>5. Alone'
  BY <1>1, <1>2, <1>3, <1>4 DEF Rest, Alone
<1>6. Fresh'
  BY <1>1, <1>2, <1>3, <1>4 DEF Rest, Fresh
<1>7. Owner'
  BY <1>1, <1>2, <1>3, <1>4 DEF Rest, Owner
<1>8. Versions'
  BY <1>1, <1>2, <1>3, <1>4 DEF Rest, Versions
<1>9. Proven'
  BY <1>1, <1>2, <1>3, <1>4 DEF Rest, Proven
<1>10. Paired'
  BY <1>1, <1>2, <1>3, <1>4 DEF Rest, Paired, Between, Replacing, UpdatedSecret, NewSecret
<1>11. Keyed'
  BY <1>1, <1>2, <1>3, <1>4 DEF Rest, Keyed, Between, Replacing, EffectiveCreds
<1>12. Leftover'
  BY <1>1, <1>2, <1>3, <1>4 DEF Rest, Leftover, Between, Replacing
<1> QED BY <1>5, <1>6, <1>7, <1>8, <1>9, <1>10, <1>11, <1>12 DEF Rest

LEMMA UpdatePrepareKeeps ==
  ASSUME TypeOK, Shape, Rest, NEW r \in Slots, NEW now \in Stamps, UpdatePrepare(r, now)
  PROVE  Rest'
<1> USE Numbers DEF At, Ended, SharedVars, CreatePCs, UpdatePCs, DeletePCs, OpenPCs, TestPCs, ReadPCs, LookPCs, CredsPCs,
            StorePCs, ServedPCs, PutPCs, WriterPCs
<1>1. PICK x \in Records :
        /\ x.reg = rec[r].reg /\ x.kind = rec[r].kind /\ x.cfg = rec[r].cfg
        /\ (x.verified <=> rec[r].verified) /\ (x.hasCreds <=> rec[r].hasCreds)
        /\ x.updatedAt > rec[r].updatedAt
        /\ At(r, IF want[r] = "keep" THEN "update.meta" ELSE "update.creds",
              x, want[r], bk[r])
  BY UpdatePrepareEffect
<1>2. pc[r] = "update.prepare" /\ UNCHANGED SharedVars
  BY DEF UpdatePrepare
<1>3. bk[r] = Null /\ rec[r] # Null
  BY <1>2 DEF Shape, ShapeOf
<1>4. \A s \in Slots \ {r} : pc[s] \notin WriterPCs
  BY <1>2 DEF Rest, Alone
<1>5. Alone'
  BY <1>1, <1>2, <1>3, <1>4 DEF Rest, Alone
<1>6. Fresh'
  BY <1>1, <1>2, <1>3, <1>4 DEF Rest, Fresh
<1>7. Owner'
  BY <1>1, <1>2, <1>3, <1>4 DEF Rest, Owner
<1>8. Versions'
  BY <1>1, <1>2, <1>3, <1>4 DEF Rest, Versions
<1>9. Proven'
  BY <1>1, <1>2, <1>3, <1>4 DEF Rest, Proven
<1>10. Paired'
  BY <1>1, <1>2, <1>3, <1>4 DEF Rest, Paired, Between, Replacing, UpdatedSecret, NewSecret
<1>11. Keyed'
  BY <1>1, <1>2, <1>3, <1>4 DEF Rest, Keyed, Between, Replacing, EffectiveCreds
<1>12. Leftover'
  BY <1>1, <1>2, <1>3, <1>4 DEF Rest, Leftover, Between, Replacing
<1> QED BY <1>5, <1>6, <1>7, <1>8, <1>9, <1>10, <1>11, <1>12 DEF Rest

LEMMA UpdateCredsKeeps ==
  ASSUME TypeOK, Shape, Rest, NEW r \in Slots, UpdateCreds(r)
  PROVE  Rest'
<1> USE Numbers DEF At, Ended, SharedVars, CreatePCs, UpdatePCs, DeletePCs, OpenPCs, TestPCs, ReadPCs, LookPCs, CredsPCs,
            StorePCs, ServedPCs, PutPCs, WriterPCs
<1>1. /\ pc[r] = "update.creds" /\ secret' = UpdatedSecret(r)
      /\ UNCHANGED <<meta, cache, regs, torn, crossed>>
  BY DEF UpdateCreds
<1>2. At(r, "update.meta", rec[r], want[r], bk[r])
  BY GotoOnly DEF UpdateCreds
<1>3. bk[r] = Null /\ rec[r] # Null /\ want[r] # "keep"
  BY <1>1 DEF Shape, ShapeOf
<1>4. secret' = Null \/ secret'.reg = rec[r].reg
  BY <1>1, <1>3, NewSecretIs DEF UpdatedSecret
<1>5. \A s \in Slots \ {r} : pc[s] \notin WriterPCs
  BY <1>1 DEF Rest, Alone
<1>6. rec[r].reg = meta.reg /\ meta # Null
  BY <1>1 DEF Rest, Owner
<1>7. Alone'
  BY <1>1, <1>2, <1>3, <1>4, <1>5, <1>6 DEF Rest, Alone
<1>8. Fresh'
  BY <1>1, <1>2, <1>3, <1>4, <1>5, <1>6 DEF Rest, Fresh
<1>9. Owner'
  BY <1>1, <1>2, <1>3, <1>4, <1>5, <1>6 DEF Rest, Owner
<1>10. Versions'
  BY <1>1, <1>2, <1>3, <1>4, <1>5, <1>6 DEF Rest, Versions
<1>11. Proven'
  BY <1>1, <1>2, <1>3, <1>4, <1>5, <1>6 DEF Rest, Proven
<1>12. Paired'
  BY <1>1, <1>2, <1>3, <1>4, <1>5, <1>6 DEF Rest, Paired, Between, Replacing, UpdatedSecret, NewSecret
<1>13. Keyed'
  BY <1>1, <1>2, <1>3, <1>4, <1>5, <1>6 DEF Rest, Keyed, Between, Replacing, EffectiveCreds
<1>14. Leftover'
  BY <1>1, <1>2, <1>3, <1>4, <1>5, <1>6 DEF Rest, Leftover, Between, Replacing
<1> QED BY <1>7, <1>8, <1>9, <1>10, <1>11, <1>12, <1>13, <1>14 DEF Rest

\* A Secret replaced by an Update that was told otherwise.
LEMMA UpdateCredsErrorKeeps ==
  ASSUME TypeOK, Shape, Rest, NEW r \in Slots, pc[r] = "update.creds", "write" \in torn', Ended(r),
         UNCHANGED <<meta, cache, regs, crossed>>
  PROVE  Rest'
<1> USE Numbers DEF At, Ended, SharedVars, CreatePCs, UpdatePCs, DeletePCs, OpenPCs, TestPCs, ReadPCs, LookPCs, CredsPCs,
            StorePCs, ServedPCs, PutPCs, WriterPCs
<1>1. \A s \in Slots \ {r} : pc[s] \notin WriterPCs
  BY DEF Rest, Alone
<1>2. Alone'
  BY <1>1 DEF Rest, Alone
<1>3. Fresh'
  BY <1>1 DEF Rest, Fresh
<1>4. Owner'
  BY <1>1 DEF Rest, Owner
<1>5. Versions'
  BY <1>1 DEF Rest, Versions
<1>6. Proven'
  BY <1>1 DEF Rest, Proven
<1>7. Paired'
  BY <1>1 DEF Rest, Paired, Between, Replacing, UpdatedSecret, NewSecret
<1>8. Keyed'
  BY <1>1 DEF Rest, Keyed, Between, Replacing, EffectiveCreds
<1>9. Leftover'
  BY <1>1 DEF Rest, Leftover, Between, Replacing
<1> QED BY <1>2, <1>3, <1>4, <1>5, <1>6, <1>7, <1>8, <1>9 DEF Rest

\* A row edited by an Update, whether or not it is told so.
LEMMA UpdateMetaKeeps ==
  ASSUME TypeOK, Shape, Rest, NEW r \in Slots, pc[r] = "update.meta", meta # Null,
         meta' = UpdatedRow(r), UNCHANGED <<secret, cache, regs, torn, crossed>>,
         At(r, "update.invalidate", rec[r], want[r], bk[r]) \/ Ended(r)
  PROVE  Rest'
<1> USE Numbers DEF At, Ended, SharedVars, CreatePCs, UpdatePCs, DeletePCs, OpenPCs, TestPCs, ReadPCs, LookPCs, CredsPCs,
            StorePCs, ServedPCs, PutPCs, WriterPCs
<1>1. rec[r] # Null /\ bk[r] = Null /\ (want[r] # "keep" => (rec[r].hasCreds <=> want[r] # "none"))
  BY DEF Shape, ShapeOf
<1>2. \A s \in Slots \ {r} : pc[s] \notin WriterPCs
  BY DEF Rest, Alone
<1>3. /\ meta'.reg = meta.reg /\ meta'.kind = meta.kind /\ meta' # Null
      /\ meta'.cfg = rec[r].cfg /\ meta'.updatedAt = rec[r].updatedAt
      /\ (meta'.hasCreds <=> rec[r].hasCreds) /\ (meta'.verified <=> rec[r].verified)
  BY <1>1, UpdatedRowIs, NullAssumption
<1>4. /\ rec[r].reg = meta.reg /\ rec[r].kind = meta.kind /\ rec[r].updatedAt > meta.updatedAt
      /\ want[r] = "keep" => (rec[r].hasCreds <=> meta.hasCreds)
  BY DEF Rest, Owner
<1>5. want[r] # "keep" =>
        IF want[r] = "none" THEN secret = Null
                            ELSE secret # Null /\ secret.reg = meta.reg
  BY <1>1, <1>4, NewSecretIs, NullAssumption DEF Rest, Paired, Replacing, UpdatedSecret
<1>6. \A s \in Slots : pc[s] \in ReadPCs /\ rec[s].reg = meta.reg => rec[s].updatedAt < meta'.updatedAt
  BY <1>1, <1>3, <1>4 DEF Rest, Versions, Shape, ShapeOf
<1>7. cache # Null /\ cache.backend.reg = meta.reg => cache.updatedAt < meta'.updatedAt
  BY <1>1, <1>3, <1>4 DEF Rest, Versions
<1>8. \A s \in Slots : pc[s] \in ReadPCs => rec[s] # Null
  BY DEF Shape, ShapeOf
<1>9. Alone'
  BY <1>1, <1>2, <1>3, <1>4, <1>5, <1>6, <1>7, <1>8 DEF Rest, Alone
<1>10. Fresh'
  BY <1>1, <1>2, <1>3, <1>4, <1>5, <1>6, <1>7, <1>8 DEF Rest, Fresh
<1>11. Owner'
  BY <1>1, <1>2, <1>3, <1>4, <1>5, <1>6, <1>7, <1>8 DEF Rest, Owner
<1>12. Versions'
  BY <1>1, <1>2, <1>3, <1>4, <1>5, <1>6, <1>7, <1>8 DEF Rest, Versions
<1>13. Proven'
  BY <1>1, <1>2, <1>3, <1>4, <1>5, <1>6, <1>7, <1>8 DEF Rest, Proven
<1>14. Paired'
  BY <1>1, <1>2, <1>3, <1>4, <1>5, <1>6, <1>7, <1>8 DEF Rest, Paired, Between, Replacing, UpdatedSecret, NewSecret
<1>15. Keyed'
  BY <1>1, <1>2, <1>3, <1>4, <1>5, <1>6, <1>7, <1>8 DEF Rest, Keyed, Between, Replacing, EffectiveCreds
<1>16. Leftover'
  BY <1>1, <1>2, <1>3, <1>4, <1>5, <1>6, <1>7, <1>8 DEF Rest, Leftover, Between, Replacing
<1> QED BY <1>9, <1>10, <1>11, <1>12, <1>13, <1>14, <1>15, <1>16 DEF Rest

\* A Secret replaced, the row not.
LEMMA UpdateMetaErrorKeeps ==
  ASSUME TypeOK, Shape, Rest, NEW r \in Slots, pc[r] = "update.meta", "write" \in torn', Ended(r),
         UNCHANGED <<meta, secret, cache, regs, crossed>>
  PROVE  Rest'
<1> USE Numbers DEF At, Ended, SharedVars, CreatePCs, UpdatePCs, DeletePCs, OpenPCs, TestPCs, ReadPCs, LookPCs, CredsPCs,
            StorePCs, ServedPCs, PutPCs, WriterPCs
<1>1. \A s \in Slots \ {r} : pc[s] \notin WriterPCs
  BY DEF Rest, Alone
<1>2. Alone'
  BY <1>1 DEF Rest, Alone
<1>3. Fresh'
  BY <1>1 DEF Rest, Fresh
<1>4. Owner'
  BY <1>1 DEF Rest, Owner
<1>5. Versions'
  BY <1>1 DEF Rest, Versions
<1>6. Proven'
  BY <1>1 DEF Rest, Proven
<1>7. Paired'
  BY <1>1 DEF Rest, Paired, Between, Replacing, UpdatedSecret, NewSecret
<1>8. Keyed'
  BY <1>1 DEF Rest, Keyed, Between, Replacing, EffectiveCreds
<1>9. Leftover'
  BY <1>1 DEF Rest, Leftover, Between, Replacing
<1> QED BY <1>2, <1>3, <1>4, <1>5, <1>6, <1>7, <1>8, <1>9 DEF Rest

LEMMA UpdateInvalidateKeeps ==
  ASSUME TypeOK, Shape, Rest, NEW r \in Slots, UpdateInvalidate(r)
  PROVE  Rest'
<1> USE Numbers DEF At, Ended, SharedVars, CreatePCs, UpdatePCs, DeletePCs, OpenPCs, TestPCs, ReadPCs, LookPCs, CredsPCs,
            StorePCs, ServedPCs, PutPCs, WriterPCs
<1>1. pc[r] = "update.invalidate" /\ cache' = Null /\ Ended(r)
      /\ UNCHANGED <<meta, secret, regs, torn, crossed>>
  BY ReturnEnds DEF UpdateInvalidate
<1>2. \A s \in Slots \ {r} : pc[s] \notin WriterPCs
  BY <1>1 DEF Rest, Alone
<1>3. Alone'
  BY <1>1, <1>2 DEF Rest, Alone
<1>4. Fresh'
  BY <1>1, <1>2 DEF Rest, Fresh
<1>5. Owner'
  BY <1>1, <1>2 DEF Rest, Owner
<1>6. Versions'
  BY <1>1, <1>2 DEF Rest, Versions
<1>7. Proven'
  BY <1>1, <1>2 DEF Rest, Proven
<1>8. Paired'
  BY <1>1, <1>2 DEF Rest, Paired, Between, Replacing, UpdatedSecret, NewSecret
<1>9. Keyed'
  BY <1>1, <1>2 DEF Rest, Keyed, Between, Replacing, EffectiveCreds
<1>10. Leftover'
  BY <1>1, <1>2 DEF Rest, Leftover, Between, Replacing
<1> QED BY <1>3, <1>4, <1>5, <1>6, <1>7, <1>8, <1>9, <1>10 DEF Rest

LEMMA DeleteMetaKeeps ==
  ASSUME TypeOK, Shape, Rest, NEW r \in Slots, MaxWriters = 1, DeleteMeta(r)
  PROVE  Rest'
<1> USE Numbers DEF At, Ended, SharedVars, CreatePCs, UpdatePCs, DeletePCs, OpenPCs, TestPCs, ReadPCs, LookPCs, CredsPCs,
            StorePCs, ServedPCs, PutPCs, WriterPCs
<1>1. /\ pc[r] = "idle" /\ meta # Null /\ meta' = Null
      /\ UNCHANGED <<secret, cache, regs, crossed>>
  BY DEF DeleteMeta
<1>2. rec[r] = Null /\ want[r] = "keep" /\ bk[r] = Null
  BY <1>1 DEF Shape, ShapeOf
<1>3. \/ torn' = torn /\ At(r, "delete.invalidate", Null, "keep", Null)
      \/ (torn' = {} => torn = {} /\ secret = Null) /\ Ended(r)
  BY <1>1, <1>2, GotoOnly DEF DeleteMeta, TornIf
<1>4. \A s \in Slots : pc[s] \notin WriterPCs
  BY StartsAlone DEF DeleteMeta
<1>5. Alone'
  BY <1>1, <1>2, <1>3, <1>4 DEF Rest, Alone
<1>6. Fresh'
  BY <1>1, <1>2, <1>3, <1>4 DEF Rest, Fresh
<1>7. Owner'
  BY <1>1, <1>2, <1>3, <1>4 DEF Rest, Owner
<1>8. Versions'
  BY <1>1, <1>2, <1>3, <1>4 DEF Rest, Versions
<1>9. Proven'
  BY <1>1, <1>2, <1>3, <1>4 DEF Rest, Proven
<1>10. Paired'
  BY <1>1, <1>2, <1>3, <1>4 DEF Rest, Paired, Between, Replacing, UpdatedSecret, NewSecret
<1>11. Keyed'
  BY <1>1, <1>2, <1>3, <1>4 DEF Rest, Keyed, Between, Replacing, EffectiveCreds
<1>12. Leftover'
  BY <1>1, <1>2, <1>3, <1>4 DEF Rest, Leftover, Between, Replacing
<1> QED BY <1>5, <1>6, <1>7, <1>8, <1>9, <1>10, <1>11, <1>12 DEF Rest

LEMMA DeleteInvalidateKeeps ==
  ASSUME TypeOK, Shape, Rest, NEW r \in Slots, DeleteInvalidate(r)
  PROVE  Rest'
<1> USE Numbers DEF At, Ended, SharedVars, CreatePCs, UpdatePCs, DeletePCs, OpenPCs, TestPCs, ReadPCs, LookPCs, CredsPCs,
            StorePCs, ServedPCs, PutPCs, WriterPCs
<1>1. /\ pc[r] = "delete.invalidate" /\ cache' = Null
      /\ UNCHANGED <<meta, secret, regs, torn, crossed>>
  BY DEF DeleteInvalidate
<1>2. At(r, "delete.creds", rec[r], want[r], bk[r])
  BY GotoOnly DEF DeleteInvalidate
<1>3. rec[r] = Null /\ bk[r] = Null
  BY <1>1 DEF Shape, ShapeOf
<1>4. \A s \in Slots \ {r} : pc[s] \notin WriterPCs
  BY <1>1 DEF Rest, Alone
<1>5. Alone'
  BY <1>1, <1>2, <1>3, <1>4 DEF Rest, Alone
<1>6. Fresh'
  BY <1>1, <1>2, <1>3, <1>4 DEF Rest, Fresh
<1>7. Owner'
  BY <1>1, <1>2, <1>3, <1>4 DEF Rest, Owner
<1>8. Versions'
  BY <1>1, <1>2, <1>3, <1>4 DEF Rest, Versions
<1>9. Proven'
  BY <1>1, <1>2, <1>3, <1>4 DEF Rest, Proven
<1>10. Paired'
  BY <1>1, <1>2, <1>3, <1>4 DEF Rest, Paired, Between, Replacing, UpdatedSecret, NewSecret
<1>11. Keyed'
  BY <1>1, <1>2, <1>3, <1>4 DEF Rest, Keyed, Between, Replacing, EffectiveCreds
<1>12. Leftover'
  BY <1>1, <1>2, <1>3, <1>4 DEF Rest, Leftover, Between, Replacing
<1> QED BY <1>5, <1>6, <1>7, <1>8, <1>9, <1>10, <1>11, <1>12 DEF Rest

LEMMA DeleteCredsKeeps ==
  ASSUME TypeOK, Shape, Rest, NEW r \in Slots, DeleteCreds(r)
  PROVE  Rest'
<1> USE Numbers DEF At, Ended, SharedVars, CreatePCs, UpdatePCs, DeletePCs, OpenPCs, TestPCs, ReadPCs, LookPCs, CredsPCs,
            StorePCs, ServedPCs, PutPCs, WriterPCs
<1>1. pc[r] = "delete.creds" /\ Ended(r) /\ UNCHANGED <<meta, cache, regs, crossed>>
  BY ReturnEnds DEF DeleteCreds
<1>2. \/ secret' = Null /\ torn' = torn
      \/ "delete" \in torn'
  BY DEF DeleteCreds, TornIf
<1>3. meta = Null
  BY <1>1 DEF Rest, Owner
<1>4. \A s \in Slots \ {r} : pc[s] \notin WriterPCs
  BY <1>1 DEF Rest, Alone
<1>5. Alone'
  BY <1>1, <1>2, <1>3, <1>4 DEF Rest, Alone
<1>6. Fresh'
  BY <1>1, <1>2, <1>3, <1>4 DEF Rest, Fresh
<1>7. Owner'
  BY <1>1, <1>2, <1>3, <1>4 DEF Rest, Owner
<1>8. Versions'
  BY <1>1, <1>2, <1>3, <1>4 DEF Rest, Versions
<1>9. Proven'
  BY <1>1, <1>2, <1>3, <1>4 DEF Rest, Proven
<1>10. Paired'
  BY <1>1, <1>2, <1>3, <1>4 DEF Rest, Paired, Between, Replacing, UpdatedSecret, NewSecret
<1>11. Keyed'
  BY <1>1, <1>2, <1>3, <1>4 DEF Rest, Keyed, Between, Replacing, EffectiveCreds
<1>12. Leftover'
  BY <1>1, <1>2, <1>3, <1>4 DEF Rest, Leftover, Between, Replacing
<1> QED BY <1>5, <1>6, <1>7, <1>8, <1>9, <1>10, <1>11, <1>12 DEF Rest

LEMMA OpenGetKeeps ==
  ASSUME TypeOK, Shape, Rest, NEW r \in Slots, NEW op \in {"open", "test"}, MaxWriters = 1, OpenGet(r, op)
  PROVE  Rest'
<1> USE Numbers DEF At, Ended, SharedVars, CreatePCs, UpdatePCs, DeletePCs, OpenPCs, TestPCs, ReadPCs, LookPCs, CredsPCs,
            StorePCs, ServedPCs, PutPCs, WriterPCs
<1>1. pc[r] = "idle" /\ meta # Null /\ UNCHANGED SharedVars
  BY DEF OpenGet
<1>2. want[r] = "keep" /\ bk[r] = Null
  BY <1>1 DEF Shape, ShapeOf
<1>3. PICK at \in LookPCs : /\ At(r, at, meta, "keep", Null)
                            /\ at = "test.lookup" => MayWrite("test")
  BY <1>2 DEF OpenGet, Goto, TypeOK
<1>4. at = "test.lookup" => \A s \in Slots : pc[s] \notin WriterPCs
  BY <1>3, StartsAlone
<1>5. \A w \in Slots : pc[w] \in PutPCs => meta.hasCreds
  BY DEF Rest, Owner, Shape, ShapeOf
<1>6. Alone'
  BY <1>1, <1>2, <1>3, <1>4, <1>5 DEF Rest, Alone
<1>7. Fresh'
  BY <1>1, <1>2, <1>3, <1>4, <1>5 DEF Rest, Fresh
<1>8. Owner'
  BY <1>1, <1>2, <1>3, <1>4, <1>5 DEF Rest, Owner
<1>9. Versions'
  BY <1>1, <1>2, <1>3, <1>4, <1>5 DEF Rest, Versions
<1>10. Proven'
  BY <1>1, <1>2, <1>3, <1>4, <1>5 DEF Rest, Proven
<1>11. Paired'
  BY <1>1, <1>2, <1>3, <1>4, <1>5 DEF Rest, Paired, Between, Replacing, UpdatedSecret, NewSecret
<1>12. Keyed'
  BY <1>1, <1>2, <1>3, <1>4, <1>5 DEF Rest, Keyed, Between, Replacing, EffectiveCreds
<1>13. Leftover'
  BY <1>1, <1>2, <1>3, <1>4, <1>5 DEF Rest, Leftover, Between, Replacing
<1> QED BY <1>6, <1>7, <1>8, <1>9, <1>10, <1>11, <1>12, <1>13 DEF Rest

LEMMA CacheHitKeeps ==
  ASSUME TypeOK, Shape, Rest, NEW r \in Slots, CacheHit(r)
  PROVE  Rest'
<1> USE Numbers DEF At, Ended, SharedVars, CreatePCs, UpdatePCs, DeletePCs, OpenPCs, TestPCs, ReadPCs, LookPCs, CredsPCs,
            StorePCs, ServedPCs, PutPCs, WriterPCs
<1>1. /\ pc[r] \in LookPCs /\ cache # Null /\ cache.updatedAt = rec[r].updatedAt
      /\ (crossed' <=> crossed \/ cache.backend.reg # rec[r].reg)
      /\ UNCHANGED <<meta, secret, cache, regs, torn>>
  BY DEF CacheHit, AtOpen
<1>2. PICK at \in {"open.served", "test.check"} : /\ At(r, at, rec[r], want[r], cache.backend)
        /\ (at \in OpenPCs <=> pc[r] \in OpenPCs)
  BY OpenGotoIs DEF CacheHit, AtOpen, Goto, TypeOK
<1>3. rec[r] # Null /\ want[r] = "keep"
  BY <1>1 DEF Shape, ShapeOf
<1>4. Alone'
  BY <1>1, <1>2, <1>3 DEF Rest, Alone
<1>5. Fresh'
  BY <1>1, <1>2, <1>3 DEF Rest, Fresh
<1>6. Owner'
  BY <1>1, <1>2, <1>3 DEF Rest, Owner
<1>7. Versions'
  BY <1>1, <1>2, <1>3 DEF Rest, Versions
<1>8. Proven'
  BY <1>1, <1>2, <1>3 DEF Rest, Proven
<1>9. Paired'
  BY <1>1, <1>2, <1>3 DEF Rest, Paired, Between, Replacing, UpdatedSecret, NewSecret
<1>10. Keyed'
  BY <1>1, <1>2, <1>3 DEF Rest, Keyed, Between, Replacing, EffectiveCreds
<1>11. Leftover'
  BY <1>1, <1>2, <1>3 DEF Rest, Leftover, Between, Replacing
<1> QED BY <1>4, <1>5, <1>6, <1>7, <1>8, <1>9, <1>10, <1>11 DEF Rest

LEMMA CacheMissKeeps ==
  ASSUME TypeOK, Shape, Rest, NEW r \in Slots, CacheMiss(r)
  PROVE  Rest'
<1> USE Numbers DEF At, Ended, SharedVars, CreatePCs, UpdatePCs, DeletePCs, OpenPCs, TestPCs, ReadPCs, LookPCs, CredsPCs,
            StorePCs, ServedPCs, PutPCs, WriterPCs
<1>1. pc[r] \in LookPCs /\ UNCHANGED SharedVars
  BY DEF CacheMiss, AtOpen
<1>2. rec[r] # Null /\ want[r] = "keep" /\ bk[r] = Null
  BY <1>1 DEF Shape, ShapeOf
<1>3. ASSUME rec[r].hasCreds
      PROVE  \E at \in CredsPCs : /\ At(r, at, rec[r], want[r], bk[r])
                                 /\ (at \in OpenPCs <=> pc[r] \in OpenPCs)
  BY <1>1, <1>3, OpenGotoIs DEF CacheMiss, Goto, TypeOK
<1>4. ASSUME ~rec[r].hasCreds
      PROVE  \E at \in StorePCs : /\ At(r, at, rec[r], want[r], Built(r, Null))
                                 /\ (at \in OpenPCs <=> pc[r] \in OpenPCs)
  BY <1>1, <1>4, OpenGotoIs DEF CacheMiss, Goto, TypeOK
<1>5. /\ Built(r, Null).reg = rec[r].reg /\ Built(r, Null).cfg = rec[r].cfg
      /\ Built(r, Null).creds = Null
  BY <1>2, BuiltIs
<1>6. ~rec[r].hasCreds =>
        /\ meta # Null /\ rec[r].reg = meta.reg /\ rec[r].updatedAt = meta.updatedAt => ~meta.hasCreds
        /\ \A w \in Slots : pc[w] \in PutPCs => rec[r].reg # meta.reg
  BY <1>1 DEF Rest, Versions, Keyed
<1>7. Alone'
  BY <1>1, <1>2, <1>3, <1>4, <1>5, <1>6 DEF Rest, Alone
<1>8. Fresh'
  BY <1>1, <1>2, <1>3, <1>4, <1>5, <1>6 DEF Rest, Fresh
<1>9. Owner'
  BY <1>1, <1>2, <1>3, <1>4, <1>5, <1>6 DEF Rest, Owner
<1>10. Versions'
  BY <1>1, <1>2, <1>3, <1>4, <1>5, <1>6 DEF Rest, Versions
<1>11. Proven'
  BY <1>1, <1>2, <1>3, <1>4, <1>5, <1>6 DEF Rest, Proven
<1>12. Paired'
  BY <1>1, <1>2, <1>3, <1>4, <1>5, <1>6 DEF Rest, Paired, Between, Replacing, UpdatedSecret, NewSecret
<1>13. Keyed'
  BY <1>1, <1>2, <1>3, <1>4, <1>5, <1>6 DEF Rest, Keyed, Between, Replacing, EffectiveCreds
<1>14. Leftover'
  BY <1>1, <1>2, <1>3, <1>4, <1>5, <1>6 DEF Rest, Leftover, Between, Replacing
<1> QED BY <1>7, <1>8, <1>9, <1>10, <1>11, <1>12, <1>13, <1>14 DEF Rest

LEMMA OpenCredsKeeps ==
  ASSUME TypeOK, Shape, Rest, NEW r \in Slots, OpenCreds(r)
  PROVE  Rest'
<1> USE Numbers DEF At, Ended, SharedVars, CreatePCs, UpdatePCs, DeletePCs, OpenPCs, TestPCs, ReadPCs, LookPCs, CredsPCs,
            StorePCs, ServedPCs, PutPCs, WriterPCs
<1>1. pc[r] \in CredsPCs /\ secret # Null /\ UNCHANGED SharedVars
  BY DEF OpenCreds, AtOpen
<1>2. rec[r] # Null /\ rec[r].hasCreds /\ want[r] = "keep" /\ bk[r] = Null
  BY <1>1 DEF Shape, ShapeOf
<1>3. PICK at \in StorePCs : /\ At(r, at, rec[r], want[r], Built(r, secret))
                           /\ (at \in OpenPCs <=> pc[r] \in OpenPCs)
  BY OpenGotoIs DEF OpenCreds, AtOpen, Goto, TypeOK
<1>4. secret \in Secrets \union {Null}
  BY DEF TypeOK
<1>5. /\ Built(r, secret).reg = rec[r].reg /\ Built(r, secret).cfg = rec[r].cfg
      /\ Built(r, secret).creds = secret
  BY <1>2, <1>4, BuiltIs
<1>6. /\ meta # Null /\ rec[r].reg = meta.reg /\ rec[r].updatedAt = meta.updatedAt => meta.hasCreds
      /\ torn = {} => \A w \in Slots : pc[w] \notin PutPCs
  BY <1>1, <1>2 DEF Rest, Versions, Paired
<1>7. Alone'
  BY <1>1, <1>2, <1>3, <1>4, <1>5, <1>6 DEF Rest, Alone
<1>8. Fresh'
  BY <1>1, <1>2, <1>3, <1>4, <1>5, <1>6 DEF Rest, Fresh
<1>9. Owner'
  BY <1>1, <1>2, <1>3, <1>4, <1>5, <1>6 DEF Rest, Owner
<1>10. Versions'
  BY <1>1, <1>2, <1>3, <1>4, <1>5, <1>6 DEF Rest, Versions
<1>11. Proven'
  BY <1>1, <1>2, <1>3, <1>4, <1>5, <1>6 DEF Rest, Proven
<1>12. Paired'
  BY <1>1, <1>2, <1>3, <1>4, <1>5, <1>6 DEF Rest, Paired, Between, Replacing, UpdatedSecret, NewSecret
<1>13. Keyed'
  BY <1>1, <1>2, <1>3, <1>4, <1>5, <1>6 DEF Rest, Keyed, Between, Replacing, EffectiveCreds
<1>14. Leftover'
  BY <1>1, <1>2, <1>3, <1>4, <1>5, <1>6 DEF Rest, Leftover, Between, Replacing
<1> QED BY <1>7, <1>8, <1>9, <1>10, <1>11, <1>12, <1>13, <1>14 DEF Rest

LEMMA OpenStoreKeeps ==
  ASSUME TypeOK, Shape, Rest, NEW r \in Slots, OpenStore(r)
  PROVE  Rest'
<1> USE Numbers DEF At, Ended, SharedVars, CreatePCs, UpdatePCs, DeletePCs, OpenPCs, TestPCs, ReadPCs, LookPCs, CredsPCs,
            StorePCs, ServedPCs, PutPCs, WriterPCs
<1>1. pc[r] \in StorePCs /\ UNCHANGED <<meta, secret, regs, torn, crossed>>
  BY DEF OpenStore, AtOpen
<1>2. cache' # Null /\ cache'.updatedAt = rec[r].updatedAt /\ cache'.backend = bk[r]
  BY <1>1, NullAssumption DEF OpenStore, TypeOK, Shape, ShapeOf, Entries, Records
<1>3. rec[r] # Null /\ want[r] = "keep" /\ bk[r] # Null
  BY <1>1 DEF Shape, ShapeOf
<1>4. PICK at \in {"open.served", "test.check"} : /\ At(r, at, rec[r], want[r], bk[r])
        /\ (at \in OpenPCs <=> pc[r] \in OpenPCs)
  BY OpenGotoIs DEF OpenStore, AtOpen, Goto, TypeOK
<1>5. bk[r].reg = rec[r].reg
  BY <1>1 DEF Rest, Versions
<1>6. Alone'
  BY <1>1, <1>2, <1>3, <1>4, <1>5 DEF Rest, Alone
<1>7. Fresh'
  BY <1>1, <1>2, <1>3, <1>4, <1>5 DEF Rest, Fresh
<1>8. Owner'
  BY <1>1, <1>2, <1>3, <1>4, <1>5 DEF Rest, Owner
<1>9. Versions'
  BY <1>1, <1>2, <1>3, <1>4, <1>5 DEF Rest, Versions
<1>10. Proven'
  BY <1>1, <1>2, <1>3, <1>4, <1>5 DEF Rest, Proven
<1>11. Paired'
  BY <1>1, <1>2, <1>3, <1>4, <1>5 DEF Rest, Paired, Between, Replacing, UpdatedSecret, NewSecret
<1>12. Keyed'
  BY <1>1, <1>2, <1>3, <1>4, <1>5 DEF Rest, Keyed, Between, Replacing, EffectiveCreds
<1>13. Leftover'
  BY <1>1, <1>2, <1>3, <1>4, <1>5 DEF Rest, Leftover, Between, Replacing
<1> QED BY <1>6, <1>7, <1>8, <1>9, <1>10, <1>11, <1>12, <1>13 DEF Rest

LEMMA TestCheckKeeps ==
  ASSUME TypeOK, Shape, Rest, NEW r \in Slots, TestCheck(r)
  PROVE  Rest'
<1> USE Numbers DEF At, Ended, SharedVars, CreatePCs, UpdatePCs, DeletePCs, OpenPCs, TestPCs, ReadPCs, LookPCs, CredsPCs,
            StorePCs, ServedPCs, PutPCs, WriterPCs
<1>1. pc[r] = "test.check" /\ UNCHANGED SharedVars
  BY DEF TestCheck
<1>2. At(r, "test.probe", rec[r], want[r], bk[r])
  BY GotoOnly DEF TestCheck
<1>3. rec[r] # Null /\ want[r] = "keep" /\ bk[r] # Null
  BY <1>1 DEF Shape, ShapeOf
<1>4. Alone'
  BY <1>1, <1>2, <1>3 DEF Rest, Alone
<1>5. Fresh'
  BY <1>1, <1>2, <1>3 DEF Rest, Fresh
<1>6. Owner'
  BY <1>1, <1>2, <1>3 DEF Rest, Owner
<1>7. Versions'
  BY <1>1, <1>2, <1>3 DEF Rest, Versions
<1>8. Proven'
  BY <1>1, <1>2, <1>3 DEF Rest, Proven
<1>9. Paired'
  BY <1>1, <1>2, <1>3 DEF Rest, Paired, Between, Replacing, UpdatedSecret, NewSecret
<1>10. Keyed'
  BY <1>1, <1>2, <1>3 DEF Rest, Keyed, Between, Replacing, EffectiveCreds
<1>11. Leftover'
  BY <1>1, <1>2, <1>3 DEF Rest, Leftover, Between, Replacing
<1> QED BY <1>4, <1>5, <1>6, <1>7, <1>8, <1>9, <1>10, <1>11 DEF Rest

LEMMA TestProbeKeeps ==
  ASSUME TypeOK, Shape, Rest, NEW r \in Slots, NEW verdict \in BOOLEAN, TestProbe(r, verdict)
  PROVE  Rest'
<1> USE Numbers DEF At, Ended, SharedVars, CreatePCs, UpdatePCs, DeletePCs, OpenPCs, TestPCs, ReadPCs, LookPCs, CredsPCs,
            StorePCs, ServedPCs, PutPCs, WriterPCs
<1>1. PICK x \in Records :
        /\ x.reg = rec[r].reg /\ x.updatedAt = rec[r].updatedAt /\ x.cfg = rec[r].cfg
        /\ (x.hasCreds <=> rec[r].hasCreds) /\ (x.verified <=> verdict)
        /\ At(r, "test.record", x, want[r], bk[r])
  BY TestProbeEffect
<1>2. pc[r] = "test.probe" /\ (verdict => bk[r].cfg \in Honours) /\ UNCHANGED SharedVars
  BY DEF TestProbe
<1>3. rec[r] # Null /\ want[r] = "keep" /\ bk[r] # Null
  BY <1>2 DEF Shape, ShapeOf
<1>4. Alone'
  BY <1>1, <1>2, <1>3 DEF Rest, Alone
<1>5. Fresh'
  BY <1>1, <1>2, <1>3 DEF Rest, Fresh
<1>6. Owner'
  BY <1>1, <1>2, <1>3 DEF Rest, Owner
<1>7. Versions'
  BY <1>1, <1>2, <1>3 DEF Rest, Versions
<1>8. Proven'
  BY <1>1, <1>2, <1>3 DEF Rest, Proven
<1>9. Paired'
  BY <1>1, <1>2, <1>3 DEF Rest, Paired, Between, Replacing, UpdatedSecret, NewSecret
<1>10. Keyed'
  BY <1>1, <1>2, <1>3 DEF Rest, Keyed, Between, Replacing, EffectiveCreds
<1>11. Leftover'
  BY <1>1, <1>2, <1>3 DEF Rest, Leftover, Between, Replacing
<1> QED BY <1>4, <1>5, <1>6, <1>7, <1>8, <1>9, <1>10, <1>11 DEF Rest

LEMMA TestRecordKeeps ==
  ASSUME TypeOK, Shape, Rest, NEW r \in Slots, TestRecord(r)
  PROVE  Rest'
<1> USE Numbers DEF At, Ended, SharedVars, CreatePCs, UpdatePCs, DeletePCs, OpenPCs, TestPCs, ReadPCs, LookPCs, CredsPCs,
            StorePCs, ServedPCs, PutPCs, WriterPCs
<1>1. /\ pc[r] = "test.record" /\ meta # Null /\ Ended(r)
      /\ UNCHANGED <<secret, cache, regs, torn, crossed>>
  BY ReturnEnds DEF TestRecord
<1>2. rec[r] # Null /\ bk[r] # Null
  BY <1>1 DEF Shape, ShapeOf
<1>3. /\ meta' # Null /\ meta'.reg = meta.reg /\ meta'.kind = meta.kind /\ meta'.cfg = meta.cfg
      /\ meta'.updatedAt = meta.updatedAt /\ (meta'.hasCreds <=> meta.hasCreds)
      /\ (meta'.verified <=> rec[r].verified)
  BY <1>1, <1>2, NullAssumption DEF TestRecord, TypeOK, Records
<1>4. \A s \in Slots \ {r} : pc[s] \notin WriterPCs
  BY <1>1 DEF Rest, Alone
<1>5. ~crossed /\ rec[r].verified => meta.cfg \in Honours
  BY <1>1, <1>2 DEF Rest, Proven, Versions, Owner
<1>6. Alone'
  BY <1>1, <1>2, <1>3, <1>4, <1>5 DEF Rest, Alone
<1>7. Fresh'
  BY <1>1, <1>2, <1>3, <1>4, <1>5 DEF Rest, Fresh
<1>8. Owner'
  BY <1>1, <1>2, <1>3, <1>4, <1>5 DEF Rest, Owner
<1>9. Versions'
  BY <1>1, <1>2, <1>3, <1>4, <1>5 DEF Rest, Versions
<1>10. Proven'
  BY <1>1, <1>2, <1>3, <1>4, <1>5 DEF Rest, Proven
<1>11. Paired'
  BY <1>1, <1>2, <1>3, <1>4, <1>5 DEF Rest, Paired, Between, Replacing, UpdatedSecret, NewSecret
<1>12. Keyed'
  BY <1>1, <1>2, <1>3, <1>4, <1>5 DEF Rest, Keyed, Between, Replacing, EffectiveCreds
<1>13. Leftover'
  BY <1>1, <1>2, <1>3, <1>4, <1>5 DEF Rest, Leftover, Between, Replacing
<1> QED BY <1>6, <1>7, <1>8, <1>9, <1>10, <1>11, <1>12, <1>13 DEF Rest

\* A crash ends every request at once, and names in torn what it cut in two.
LEMMA CrashKeeps ==
  ASSUME TypeOK, Shape, Rest, Crash PROVE Rest'
<1> USE Numbers DEF CreatePCs, UpdatePCs, DeletePCs, OpenPCs, TestPCs, ReadPCs, LookPCs, CredsPCs,
            StorePCs, ServedPCs, PutPCs, WriterPCs
<1>1. /\ cache' = Null /\ UNCHANGED <<meta, secret, regs, crossed>>
      /\ \A s \in Slots : pc'[s] = "idle" /\ rec'[s] = Null /\ bk'[s] = Null
  BY DEF Crash
<1>2. \A s \in Slots : pc[s] \in PutPCs => meta # Null
  BY DEF Rest, Owner, Shape, ShapeOf
<1>3. /\ torn \subseteq torn'
      /\ \A s \in Slots : Between(s) => "write" \in torn'
      /\ \A s \in Slots : pc[s] \in DeletePCs => "delete" \in torn'
  BY <1>2 DEF Crash, Midway, Between, Replacing
<1>4. Alone' /\ Owner' /\ Fresh'
  BY <1>1 DEF Rest, Alone, Owner, Fresh
<1>5. Versions' /\ Proven'
  BY <1>1 DEF Rest, Versions, Proven
<1>6. Paired'
  <2>1. ASSUME torn' = {} PROVE torn = {} /\ \A s \in Slots : ~Between(s) /\ pc[s] \notin DeletePCs
    BY <1>3, <2>1
  <2> QED BY <1>1, <2>1 DEF Rest, Paired, Between, Replacing
<1>7. Keyed'
  BY <1>1 DEF Keyed
<1>8. Leftover'
  <2>1. ASSUME torn' \subseteq {"delete"}
        PROVE  torn \subseteq {"delete"} /\ \A s \in Slots : pc[s] \notin PutPCs
    BY <1>3, <2>1 DEF Between
  <2> QED BY <1>1, <2>1 DEF Rest, Leftover
<1> QED BY <1>4, <1>5, <1>6, <1>7, <1>8 DEF Rest

LEMMA StutterKeeps ==
  ASSUME Rest, UNCHANGED vars PROVE Rest'
<1> USE DEF vars
<1>1. Alone' /\ Fresh' /\ Owner'
  BY DEF Rest, Alone, Fresh, Owner
<1>2. Versions' /\ Proven'
  BY DEF Rest, Versions, Proven
<1>3. Paired'
  BY DEF Rest, Paired, Between, Replacing, UpdatedSecret, NewSecret
<1>4. Keyed'
  BY DEF Rest, Keyed, Between, Replacing, EffectiveCreds
<1>5. Leftover'
  BY DEF Rest, Leftover
<1> QED BY <1>1, <1>2, <1>3, <1>4, <1>5 DEF Rest

-----------------------------------------------------------------------------
(* The inductive step, operation by operation.                             *)

LEMMA CreateKeeps ==
  ASSUME MaxWriters = 1, TypeOK, Shape, Rest, NEW r \in Slots, CreateStep(r) PROVE Rest'
<1>1. ASSUME CreateMetaError(r) PROVE Rest'
  <2>1. Ended(r)
    BY <1>1, ReturnEnds DEF CreateMetaError
  <2>2. CASE UNCHANGED <<meta, torn>>
    BY <1>1, <2>1, <2>2, EndKeeps
       DEF CreateMetaError, SharedVars, Between, Replacing, PutPCs, DeletePCs
  <2>3. CASE meta = Null /\ meta' = rec[r] /\ TornIf(rec[r].hasCreds, "write")
    BY <1>1, <2>1, <2>3, CreateMetaErrorKeeps DEF CreateMetaError
  <2> QED BY <1>1, <2>2, <2>3 DEF CreateMetaError
<1> QED BY <1>1, CreateBeginKeeps, CreateMetaKeeps, CreatePutKeeps, CreatePutErrorKeeps,
           CreateRollbackKeeps DEF CreateStep

LEMMA UpdateKeeps ==
  ASSUME MaxWriters = 1, TypeOK, Shape, Rest, NEW r \in Slots, UpdateStep(r) PROVE Rest'
<1>1. ASSUME UpdateCredsError(r) PROVE Rest'
  <2>1. Ended(r)
    BY <1>1, ReturnEnds DEF UpdateCredsError
  <2>2. CASE UNCHANGED <<secret, torn>>
    BY <1>1, <2>1, <2>2, EndKeeps
       DEF UpdateCredsError, SharedVars, Between, Replacing, PutPCs, DeletePCs
  <2>3. CASE TornIf(TRUE, "write")
    BY <1>1, <2>1, <2>3, UpdateCredsErrorKeeps DEF UpdateCredsError, TornIf
  <2> QED BY <1>1, <2>2, <2>3 DEF UpdateCredsError
<1>2. ASSUME UpdateMeta(r) PROVE Rest'
  <2>1. At(r, "update.invalidate", rec[r], want[r], bk[r])
    BY <1>2, GotoOnly DEF UpdateMeta
  <2> QED BY <1>2, <2>1, UpdateMetaKeeps DEF UpdateMeta
<1>3. ASSUME UpdateMetaError(r) PROVE Rest'
  <2>1. Ended(r) /\ pc[r] = "update.meta"
    BY <1>3, ReturnEnds DEF UpdateMetaError
  <2>2. CASE UNCHANGED meta /\ TornIf(want[r] # "keep", "write") /\ want[r] = "keep"
    BY <1>3, <2>1, <2>2, EndKeeps
       DEF UpdateMetaError, TornIf, SharedVars, Between, Replacing, PutPCs, DeletePCs
  <2>3. CASE UNCHANGED meta /\ TornIf(want[r] # "keep", "write") /\ want[r] # "keep"
    BY <1>3, <2>1, <2>3, UpdateMetaErrorKeeps DEF UpdateMetaError, TornIf
  <2>4. CASE meta # Null /\ meta' = UpdatedRow(r) /\ UNCHANGED torn
    BY <1>3, <2>1, <2>4, UpdateMetaKeeps DEF UpdateMetaError
  <2> QED BY <1>3, <2>2, <2>3, <2>4 DEF UpdateMetaError
<1> QED BY <1>1, <1>2, <1>3, UpdateGetKeeps, UpdatePrepareKeeps, UpdateCredsKeeps,
           UpdateInvalidateKeeps DEF UpdateStep

LEMMA OpenKeeps ==
  ASSUME MaxWriters = 1, TypeOK, Shape, Rest, NEW r \in Slots, OpenStep(r) PROVE Rest'
<1>1. ASSUME OpenReturn(r) PROVE Rest'
  BY <1>1, ReturnEnds, EndKeeps
     DEF OpenReturn, SharedVars, Between, Replacing, PutPCs, DeletePCs
<1> QED BY <1>1, OpenGetKeeps, CacheHitKeeps, CacheMissKeeps, OpenCredsKeeps, OpenStoreKeeps
        DEF OpenStep

LEMMA NextRest ==
  ASSUME MaxWriters = 1, TypeOK, Shape, Rest, [Next]_vars PROVE Rest'
<1>1. ASSUME NEW r \in Slots, DeleteStep(r) PROVE Rest'
  BY <1>1, DeleteMetaKeeps, DeleteInvalidateKeeps, DeleteCredsKeeps DEF DeleteStep
<1>2. ASSUME NEW r \in Slots, TestStep(r) PROVE Rest'
  BY <1>2, TestCheckKeeps, TestProbeKeeps, TestRecordKeeps DEF TestStep
<1>3. ASSUME NEW r \in Slots, Abort(r) PROVE Rest'
  <2>1. Ended(r) /\ UNCHANGED SharedVars
    BY <1>3, ReturnEnds DEF Abort, SharedVars
  <2>2. ~Between(r) /\ pc[r] \notin DeletePCs
    BY <1>3 DEF Abort, Between, Replacing, PutPCs, DeletePCs, OpenPCs, TestPCs
  <2> QED BY <2>1, <2>2, EndKeeps
<1> QED BY <1>1, <1>2, <1>3, CreateKeeps, UpdateKeeps, OpenKeeps, CrashKeeps, StutterKeeps DEF Next

\* What each request knows of the row, the Secret and the cache at each of its
\* steps, in every reachable state, for one admin request at a time
\* (service.go Create, Update, Delete, Open and TestSaved).
THEOREM RegistryInvariant == ASSUME MaxWriters = 1 PROVE Spec => []IInv
<1>1. Init => IInv
  BY InitTypes, InitRest DEF IInv, Rest
<1>2. IInv /\ [Next]_vars => IInv'
  <2> SUFFICES ASSUME IInv, [Next]_vars PROVE IInv'
    OBVIOUS
  <2>1. TypeOK /\ Shape /\ Rest
    BY DEF IInv, Rest
  <2>2. TypeOK' /\ Shape' /\ Rest'
    BY <2>1, NextTypes, NextRest
  <2> QED BY <2>2 DEF IInv, Rest
<1> QED BY <1>1, <1>2, PTL DEF Spec

-----------------------------------------------------------------------------
(* What follows from it.                                                   *)

\* Open hands out a client of the configuration it read, never one of an
\* earlier configuration of the same registration (service.go Open).
THEOREM OpenServesWhatItRead == ASSUME MaxWriters = 1 PROVE Spec => []OpenServesRecord
<1>1. IInv => OpenServesRecord
  BY DEF IInv, Versions, OpenServesRecord, ServedPCs
<1> QED BY <1>1, RegistryInvariant, PTL

\* Between admin requests, with none left half done, a cache entry that Open
\* would hit holds the credentials now stored (service.go:221-235).
THEOREM CachedCredsCurrent == ASSUME MaxWriters = 1 PROVE Spec => []CacheCredsCurrent
<1>1. IInv => CacheCredsCurrent
  <2>1. ASSUME Writers = {} PROVE \A r \in Slots : ~Between(r)
    BY <2>1 DEF Writers, WriterPCs, Between, Replacing, PutPCs, CreatePCs, UpdatePCs
  <2> QED BY <2>1 DEF IInv, Keyed, CacheCredsCurrent
<1> QED BY <1>1, RegistryInvariant, PTL

\* Between admin requests, with none left half done, the row and the Secret
\* agree (service.go Create with its rollback, Update, Delete).
THEOREM StoresAlwaysAgree == ASSUME MaxWriters = 1 PROVE Spec => []StoresAgree
<1>1. IInv => StoresAgree
  <2>1. ASSUME Writers = {} PROVE \A r \in Slots : ~Between(r) /\ pc[r] \notin DeletePCs
    BY <2>1 DEF Writers, WriterPCs, Between, Replacing, PutPCs, CreatePCs, UpdatePCs, DeletePCs
  <2> QED BY <2>1 DEF IInv, Paired, StoresAgree
<1> QED BY <1>1, RegistryInvariant, PTL

\* A create-only write is admitted on an S3 backend only when the server now
\* registered was seen to enforce If-None-Match (model.go:65-72), unless the
\* cache served one registration of the ID to another.
THEOREM CreateOnlyProven == ASSUME MaxWriters = 1 PROVE Spec => []CreateOnlyIsProven
<1>1. IInv => CreateOnlyIsProven
  BY DEF IInv, Proven, CreateOnlyIsProven, SupportsCreateOnly
<1> QED BY <1>1, RegistryInvariant, PTL

\* The row is replaced by an Update and marked by TestSaved; any other step
\* inserts it, removes it or leaves it alone.
LEMMA RowChanges ==
  ASSUME [Next]_vars
  PROVE  \/ meta = Null \/ meta' = Null \/ meta' = meta
         \/ \E r \in Slots : pc[r] = "update.meta" /\ meta' = UpdatedRow(r)
         \/ \E r \in Slots : TestRecord(r)
<1>1. ASSUME NEW r \in Slots, CreateStep(r) PROVE meta = Null \/ meta' = Null \/ meta' = meta
  BY <1>1 DEF CreateStep, CreateBegin, CreateMeta, CreateMetaError, CreatePut, CreatePutError,
              CreateRollback
<1>2. ASSUME NEW r \in Slots, UpdateStep(r)
      PROVE  meta' = meta \/ (pc[r] = "update.meta" /\ meta' = UpdatedRow(r))
  BY <1>2 DEF UpdateStep, UpdateGet, UpdatePrepare, UpdateCreds, UpdateCredsError, UpdateMeta,
              UpdateMetaError, UpdateInvalidate
<1>3. ASSUME NEW r \in Slots, DeleteStep(r) PROVE meta' = Null \/ meta' = meta
  BY <1>3 DEF DeleteStep, DeleteMeta, DeleteInvalidate, DeleteCreds
<1>4. ASSUME NEW r \in Slots, OpenStep(r) \/ Abort(r) PROVE meta' = meta
  BY <1>4 DEF OpenStep, OpenGet, CacheHit, CacheMiss, OpenCreds, OpenStore, OpenReturn, Abort
<1>5. ASSUME NEW r \in Slots, TestStep(r) PROVE meta' = meta \/ TestRecord(r)
  BY <1>5 DEF TestStep, TestCheck, TestProbe
<1>6. CASE Crash
  BY <1>6 DEF Crash
<1>7. CASE UNCHANGED vars
  BY <1>7 DEF vars
<1> QED BY <1>1, <1>2, <1>3, <1>4, <1>5, <1>6, <1>7 DEF Next

\* Every edit of a registration gets a larger UpdatedAt, whatever the clock
\* reads, and a probe verdict keeps it (service.go:200-205, model.go:101-105).
THEOREM EditsAdvance == ASSUME MaxWriters = 1 PROVE Spec => EditsAdvanceUpdatedAt
<1> DEFINE Edit == /\ meta # Null /\ meta' # Null /\ meta.reg = meta'.reg
                   /\ <<meta.cfg, meta.hasCreds, meta.updatedAt>> #
                        <<meta'.cfg, meta'.hasCreds, meta'.updatedAt>>
                   => meta'.updatedAt > meta.updatedAt
<1>1. IInv /\ [Next]_vars => [Edit]_meta
  <2> SUFFICES ASSUME IInv, [Next]_vars, meta # Null, meta' # Null, meta' # meta,
                      <<meta.cfg, meta.hasCreds, meta.updatedAt>> #
                        <<meta'.cfg, meta'.hasCreds, meta'.updatedAt>>
               PROVE  meta'.updatedAt > meta.updatedAt
    OBVIOUS
  <2>1. ASSUME NEW r \in Slots, pc[r] = "update.meta", meta' = UpdatedRow(r)
        PROVE  meta'.updatedAt > meta.updatedAt
    <3>1. rec[r] # Null
      BY <2>1 DEF IInv, Shape, ShapeOf, UpdatePCs
    <3>2. meta'.updatedAt = rec[r].updatedAt
      BY <2>1, <3>1, UpdatedRowIs DEF IInv
    <3> QED BY <2>1, <3>2 DEF IInv, Owner
  <2>2. ASSUME NEW r \in Slots, TestRecord(r) PROVE FALSE
    <3>1. meta \in Records
      BY DEF IInv, TypeOK
    <3> QED BY <2>2, <3>1 DEF TestRecord, Records
  <2> QED BY <2>1, <2>2, RowChanges
<1>2. Spec => [][Edit]_meta
  BY <1>1, RegistryInvariant, PTL DEF Spec
<1> QED BY <1>2 DEF EditsAdvanceUpdatedAt

\* Only a request's own read of the Secret gives it a backend while it waits
\* for that read.
LEMMA BackendFromSecret ==
  ASSUME TypeOK, Shape, [Next]_vars, NEW r \in Slots, pc[r] \in CredsPCs, bk'[r] # Null
  PROVE  OpenCreds(r)
<1> USE DEF CredsPCs
<1>1. bk[r] = Null
  BY DEF Shape, ShapeOf
<1>2. ASSUME NEW s \in Slots, Return(s) PROVE FALSE
  BY <1>1, <1>2 DEF Return, TypeOK
<1>3. ASSUME NEW s \in Slots, CreateStep(s) PROVE FALSE
  BY <1>1, <1>2, <1>3 DEF CreateStep, CreateBegin, CreateMeta, CreateMetaError, CreatePut,
     CreatePutError, CreateRollback
<1>4. ASSUME NEW s \in Slots, UpdateStep(s) PROVE FALSE
  BY <1>1, <1>2, <1>4 DEF UpdateStep, UpdateGet, UpdatePrepare, UpdateCreds, UpdateCredsError,
     UpdateMeta, UpdateMetaError, UpdateInvalidate
<1>5. ASSUME NEW s \in Slots, DeleteStep(s) PROVE FALSE
  BY <1>1, <1>2, <1>5 DEF DeleteStep, DeleteMeta, DeleteInvalidate, DeleteCreds
<1>6. ASSUME NEW s \in Slots, OpenStep(s) PROVE OpenCreds(r)
  <2>1. CASE s = r
    BY <1>1, <1>2, <1>6, <2>1 DEF OpenStep, OpenGet, CacheHit, CacheMiss, OpenStore, OpenReturn, AtOpen
  <2>2. CASE s # r
    <3>1. bk'[r] = bk[r] \/ Return(s)
      BY <1>6, <2>2 DEF OpenStep, OpenGet, CacheHit, CacheMiss, OpenCreds, OpenStore, OpenReturn, TypeOK
    <3> QED BY <1>1, <1>2, <3>1
  <2> QED BY <2>1, <2>2
<1>7. ASSUME NEW s \in Slots, TestStep(s) \/ Abort(s) PROVE FALSE
  BY <1>1, <1>2, <1>7 DEF TestStep, TestCheck, TestProbe, TestRecord, Abort
<1>8. ASSUME Crash PROVE FALSE
  BY <1>8 DEF Crash
<1>9. ASSUME UNCHANGED vars PROVE FALSE
  BY <1>1, <1>9 DEF vars
<1> QED BY <1>3, <1>4, <1>5, <1>6, <1>7, <1>8, <1>9 DEF Next

\* A Secret that Delete failed to remove is used again only while the Create
\* that takes the ID is between its two writes or rolling back
\* (service.go:270-277).
THEOREM LeftoverWindow == ASSUME MaxWriters = 1 PROVE Spec => LeftoverSecretWindow
<1> DEFINE Window ==
      \A r \in Slots :
        /\ AtOpen(r, "open.creds", "test.creds") /\ bk'[r] # Null
        /\ torn \subseteq {"delete"} /\ bk'[r].creds.reg < rec[r].reg
        /\ meta # Null /\ meta.reg = rec[r].reg
        => \E w \in Slots : /\ pc[w] \in {"create.put", "create.rollback"}
                            /\ rec[w].reg = rec[r].reg
<1>1. IInv /\ [Next]_vars => [Window]_vars
  <2> SUFFICES ASSUME IInv, [Next]_vars, NEW r \in Slots, pc[r] \in CredsPCs, bk'[r] # Null,
                      torn \subseteq {"delete"}, bk'[r].creds.reg < rec[r].reg,
                      meta # Null, meta.reg = rec[r].reg,
                      \A w \in Slots : pc[w] \in PutPCs => rec[w].reg # rec[r].reg
               PROVE  FALSE
    BY DEF AtOpen, CredsPCs, PutPCs
  <2>1. OpenCreds(r)
    BY BackendFromSecret DEF IInv
  <2>2. rec[r] # Null /\ rec[r].hasCreds
    BY DEF IInv, Shape, ShapeOf, CredsPCs, ReadPCs, OpenPCs, TestPCs
  <2>3. secret # Null /\ bk'[r].creds = secret
    BY <2>1, <2>2, BuiltIs DEF OpenCreds, IInv, TypeOK
  <2>4. \A w \in Slots : pc[w] \notin PutPCs
    BY DEF IInv, Owner
  <2>5. secret.reg = rec[r].reg
    BY <2>2, <2>3, <2>4 DEF IInv, Leftover, CredsPCs, ReadPCs, OpenPCs, TestPCs
  <2>6. rec[r].reg \in Nat
    BY <2>2, Numbers DEF IInv
  <2> QED BY <2>3, <2>5, <2>6
<1>2. Spec => [][Window]_vars
  BY <1>1, RegistryInvariant, PTL DEF Spec
<1> QED BY <1>2 DEF LeftoverSecretWindow

=============================================================================
