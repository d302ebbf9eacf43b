--------------------------- MODULE UploadsProofs ---------------------------
(***************************************************************************)
(* Proofs about Uploads, for any apps, requests, grants, backends and      *)
(* servers, any numbers of them, and any limits.                           *)
(*                                                                         *)
(* IInv says what a request has established when it reaches each of its    *)
(* steps, in terms that changes by owners cannot take back: that a grant   *)
(* admitted it (Admission) and that its backend enforces create-only       *)
(* writes (Proven).                                                        *)
(***************************************************************************)
EXTENDS Uploads, TLAPS

\* What a request has of the grants: those in force now are among those of its
\* time, and the one that admitted it is one of them and does admit it.
Admission ==
  \A w \in Writes :
    /\ pc[w] \in {"admit", "check", "open", "write"} => \A e \in grants : e.g \in since[w]
    /\ grant[w] # Null =>
         /\ pc[w] # "new" /\ grant[w] \in since[w]
         /\ Admits(grant[w], asked[w]) /\ asked[w].ext \in grant[w].exts

\* A stored object is within the limit its request was given, and a request
\* about to publish has stored one.
Recorded ==
  \A w \in Writes :
    /\ w \in stored => pc[w] \in {"publish", "done"} /\ Fits(w) /\ (IsApp(w) <=> grant[w] # Null)
    /\ pc[w] = "publish" => w \in stored

\* A verdict is true of the server that was probed, which need not be the one its
\* row names by now; and a create-only request goes to a server that enforces,
\* unless it was overtaken.
Proven ==
  /\ \A b \in Backends : rows[b] # Null /\ rows[b].proven # Null => rows[b].proven \in Enforcing
  /\ \A w \in Writes \ overtaken : pc[w] # "new" /\ asked[w].only =>
       /\ pc[w] = "open" =>
            rows[asked[w].backend] # Null /\ rows[asked[w].backend].server \in Enforcing
       /\ pc[w] = "write" => opened[w] \in Enforcing

IInv ==
  /\ TypeOK /\ Admission /\ Recorded /\ Proven
  /\ CreateOnlyReplacesNothing /\ EventsAreTrue

-----------------------------------------------------------------------------
(* The inductive step, action by action.                                   *)

LEMMA InitIInv == Init => IInv
BY UploadsAssumption DEF Init, IInv, TypeOK, Rows, PCs, Admission, Recorded, Proven,
   CreateOnlyReplacesNothing, EventsAreTrue

\* Requests end without an object, by an error or a crash: nothing is left of them.
LEMMA LostKeeps ==
  ASSUME IInv, NEW lost \in SUBSET Writes, \A w \in lost : pc[w] \notin {"publish", "done"},
         pc' \in [Writes -> PCs], asked' \in [Writes -> Requests \union {Null}],
         grant' \in [Writes -> Grants \union {Null}],
         opened' \in [Writes -> Servers \union {Null}], since' \in [Writes -> SUBSET Grants],
         \A w \in lost : /\ pc'[w] = "new" /\ asked'[w] = Null /\ grant'[w] = Null
                         /\ opened'[w] = Null /\ since'[w] = {},
         \A w \in Writes \ lost :
           /\ pc'[w] = pc[w] \/ (pc[w] = "publish" /\ pc'[w] = "done")
           /\ asked'[w] = asked[w] /\ grant'[w] = grant[w]
           /\ opened'[w] = opened[w] /\ since'[w] = since[w],
         overtaken' = overtaken \ lost, saving' \subseteq saving, testing' \subseteq testing,
         UNCHANGED <<grants, rows, changes, maxUpload, effectVars>>
  PROVE  IInv'
<1> USE UploadsAssumption DEF IInv, effectVars
<1>1. TypeOK'
  <2>1. /\ \A w \in Writes : asked'[w] = Null <=> pc'[w] = "new"
        /\ \A w \in Writes : pc'[w] \in {"check", "open", "write", "publish"} =>
             (grant'[w] # Null <=> IsApp(w)')
        /\ \A w \in Writes : pc'[w] = "admit" => IsApp(w)'
        /\ \A w \in Writes : pc'[w] \in {"write", "publish"} => opened'[w] # Null
    <3> SUFFICES ASSUME NEW w \in Writes
                 PROVE  /\ asked'[w] = Null <=> pc'[w] = "new"
                        /\ pc'[w] \in {"check", "open", "write", "publish"} =>
                             (grant'[w] # Null <=> IsApp(w)')
                        /\ pc'[w] = "admit" => IsApp(w)'
                        /\ pc'[w] \in {"write", "publish"} => opened'[w] # Null
      OBVIOUS
    <3>1. CASE w \in lost
      BY <3>1 DEF TypeOK
    <3>2. CASE w \notin lost
      <4>1. asked'[w] = asked[w] /\ grant'[w] = grant[w] /\ opened'[w] = opened[w]
        BY <3>2
      <4>2. pc'[w] = pc[w] \/ (pc[w] = "publish" /\ pc'[w] = "done")
        BY <3>2
      <4>3. IsApp(w)' <=> IsApp(w)
        BY <4>1 DEF IsApp
      <4> QED BY <4>1, <4>2, <4>3 DEF TypeOK
    <3> QED BY <3>1, <3>2
  <2> QED BY <2>1 DEF TypeOK
<1>2. Admission'
  <2> SUFFICES ASSUME NEW w \in Writes
               PROVE  /\ pc'[w] \in {"admit", "check", "open", "write"} =>
                           \A e \in grants' : e.g \in since'[w]
                      /\ grant'[w] # Null =>
                           /\ pc'[w] # "new" /\ grant'[w] \in since'[w]
                           /\ Admits(grant'[w], asked'[w]) /\ asked'[w].ext \in grant'[w].exts
    BY DEF Admission, Admits
  <2>1. CASE w \in lost
    BY <2>1
  <2>2. CASE w \notin lost
    <3>1. /\ pc'[w] = pc[w] \/ (pc[w] = "publish" /\ pc'[w] = "done")
          /\ asked'[w] = asked[w] /\ grant'[w] = grant[w] /\ since'[w] = since[w]
      BY <2>2
    <3> QED BY <3>1 DEF Admission
  <2> QED BY <2>1, <2>2
<1>3. Recorded'
  <2>1. \A w \in stored : w \notin lost /\ w \in Writes
    BY DEF TypeOK, Recorded
  <2>2. \A w \in stored : Fits(w) => Fits(w)'
    BY <2>1 DEF Fits, MaxBytes
  <2>3. \A w \in stored : IsApp(w)' <=> IsApp(w)
    BY <2>1 DEF IsApp
  <2> QED BY <2>1, <2>2, <2>3 DEF Recorded
<1>4. Proven'
  BY DEF Proven
<1>5. \A w \in stored : w \notin lost /\ w \in Writes
  BY DEF TypeOK, Recorded
<1>6. CreateOnlyReplacesNothing'
  BY <1>5 DEF TypeOK, CreateOnlyReplacesNothing
<1>7. EventsAreTrue'
  BY <1>5 DEF EventsAreTrue, IsApp
<1> QED BY <1>1, <1>2, <1>3, <1>4, <1>6, <1>7

LEMMA RefuseKeeps ==
  ASSUME IInv, NEW w \in Writes, pc[w] \notin {"publish", "done"}, Refuse(w) PROVE IInv'
<1>1. /\ pc' \in [Writes -> PCs] /\ asked' \in [Writes -> Requests \union {Null}]
      /\ grant' \in [Writes -> Grants \union {Null}]
      /\ opened' \in [Writes -> Servers \union {Null}] /\ since' \in [Writes -> SUBSET Grants]
  BY DEF Refuse, Goto, IInv, TypeOK, PCs
<1>2. \A v \in {w} : /\ pc'[v] = "new" /\ asked'[v] = Null /\ grant'[v] = Null
                     /\ opened'[v] = Null /\ since'[v] = {}
  BY DEF Refuse, Goto, IInv, TypeOK
<1>3. \A v \in Writes \ {w} :
        /\ pc'[v] = pc[v] /\ asked'[v] = asked[v] /\ grant'[v] = grant[v]
        /\ opened'[v] = opened[v] /\ since'[v] = since[v]
  BY DEF Refuse, Goto, IInv, TypeOK
<1>4. /\ overtaken' = overtaken \ {w} /\ saving' \subseteq saving /\ testing' \subseteq testing
      /\ UNCHANGED <<grants, rows, changes, maxUpload, effectVars>>
  BY DEF Refuse, ownerVars
<1>5. {w} \in SUBSET Writes /\ \A v \in {w} : pc[v] \notin {"publish", "done"}
  OBVIOUS
<1> QED BY <1>1, <1>2, <1>3, <1>4, <1>5, LostKeeps

LEMMA BeginKeeps ==
  ASSUME IInv, NEW w \in Writes, NEW q \in Requests, Begin(w, q) PROVE IInv'
<1> USE UploadsAssumption DEF Begin, FirstStep, Goto, IInv, ownerVars, effectVars
<1>1. TypeOK'
  BY DEF TypeOK, Saves, Admission, PCs, IsApp
<1>2. Admission'
  BY DEF TypeOK, Admission, Admits
<1>3. Recorded'
  BY DEF TypeOK, Recorded, Fits, MaxBytes, IsApp
<1>4. Proven'
  BY DEF TypeOK, Proven
<1>5. CreateOnlyReplacesNothing' /\ EventsAreTrue'
  BY DEF TypeOK, Recorded, CreateOnlyReplacesNothing, EventsAreTrue, IsApp
<1> QED BY <1>1, <1>2, <1>3, <1>4, <1>5

LEMMA AdmitKeeps ==
  ASSUME IInv, NEW w \in Writes, Admit(w) PROVE IInv'
<1> USE UploadsAssumption DEF Admit, Goto, IInv, ownerVars, effectVars
<1>1. TypeOK'
  BY DEF TypeOK, Saves, PCs, IsApp
<1>2. Admission'
  BY DEF TypeOK, Admission, Admits
<1>3. Recorded'
  BY DEF TypeOK, Recorded, Fits, MaxBytes, IsApp
<1>4. Proven'
  BY DEF TypeOK, Proven
<1>5. CreateOnlyReplacesNothing' /\ EventsAreTrue'
  BY DEF CreateOnlyReplacesNothing, EventsAreTrue, IsApp
<1> QED BY <1>1, <1>2, <1>3, <1>4, <1>5

LEMMA CheckKeeps ==
  ASSUME IInv, NEW w \in Writes, Check(w) PROVE IInv'
<1> USE UploadsAssumption DEF Check, NoteVerdict, Misjudged, Goto, IInv, ownerVars, effectVars
<1>1. TypeOK'
  BY DEF TypeOK, PCs, IsApp
<1>2. Admission'
  BY DEF TypeOK, Admission, Admits
<1>3. Recorded'
  BY DEF TypeOK, Recorded, Fits, MaxBytes, IsApp
<1>4. Proven'
  BY DEF TypeOK, Rows, Proven, Supports
<1>5. CreateOnlyReplacesNothing' /\ EventsAreTrue'
  BY DEF TypeOK, CreateOnlyReplacesNothing, EventsAreTrue, IsApp
<1> QED BY <1>1, <1>2, <1>3, <1>4, <1>5

LEMMA OpenKeeps ==
  ASSUME IInv, NEW w \in Writes, Open(w) PROVE IInv'
<1> USE UploadsAssumption DEF Open, Goto, IInv, ownerVars, effectVars
<1>1. TypeOK'
  BY DEF TypeOK, Rows, PCs, IsApp
<1>2. Admission'
  BY DEF TypeOK, Admission, Admits
<1>3. Recorded'
  BY DEF TypeOK, Recorded, Fits, MaxBytes, IsApp
<1>4. Proven'
  BY DEF TypeOK, Rows, Proven
<1>5. CreateOnlyReplacesNothing' /\ EventsAreTrue'
  BY DEF CreateOnlyReplacesNothing, EventsAreTrue, IsApp
<1> QED BY <1>1, <1>2, <1>3, <1>4, <1>5

LEMMA StoreKeeps ==
  ASSUME IInv, NEW w \in Writes, Store(w) PROVE IInv'
<1> USE UploadsAssumption DEF Store, Goto, IInv, ownerVars
<1>1. TypeOK'
  BY DEF TypeOK, PCs, IsApp
<1>2. Admission'
  BY DEF TypeOK, Admission, Admits
<1>3. Recorded'
  BY DEF TypeOK, Recorded, Fits, MaxBytes, IsApp
<1>4. Proven'
  BY DEF TypeOK, Proven
<1>5. CreateOnlyReplacesNothing'
  BY DEF TypeOK, Proven, CreateOnlyReplacesNothing
<1>6. EventsAreTrue'
  BY DEF EventsAreTrue, IsApp
<1> QED BY <1>1, <1>2, <1>3, <1>4, <1>5, <1>6

LEMMA PublishKeeps ==
  ASSUME IInv, NEW w \in Writes, Publish(w) PROVE IInv'
<1> USE DEF Publish, Goto, IInv, ownerVars
<1>1. TypeOK'
  BY DEF TypeOK, PCs, IsApp
<1>2. Admission'
  BY DEF TypeOK, Admission, Admits
<1>3. Recorded'
  BY DEF TypeOK, Recorded, Fits, MaxBytes, IsApp
<1>4. Proven'
  BY DEF TypeOK, Proven
<1>5. EventsAreTrue'
  BY DEF TypeOK, Recorded, EventsAreTrue, Via, IsApp
<1>6. CreateOnlyReplacesNothing'
  BY DEF CreateOnlyReplacesNothing
<1> QED BY <1>1, <1>2, <1>3, <1>4, <1>5, <1>6

LEMMA CrashKeeps ==
  ASSUME IInv, Crash PROVE IInv'
<1> DEFINE lost == {w \in Writes : pc[w] \notin {"publish", "done"}}
<1>1. /\ pc' \in [Writes -> PCs] /\ asked' \in [Writes -> Requests \union {Null}]
      /\ grant' \in [Writes -> Grants \union {Null}]
      /\ opened' \in [Writes -> Servers \union {Null}] /\ since' \in [Writes -> SUBSET Grants]
  BY DEF Crash, IInv, TypeOK, PCs
<1>2. \A w \in lost : /\ pc'[w] = "new" /\ asked'[w] = Null /\ grant'[w] = Null
                      /\ opened'[w] = Null /\ since'[w] = {}
  BY DEF Crash
<1>3. \A w \in Writes \ lost :
        /\ pc'[w] = pc[w] \/ (pc[w] = "publish" /\ pc'[w] = "done")
        /\ asked'[w] = asked[w] /\ grant'[w] = grant[w]
        /\ opened'[w] = opened[w] /\ since'[w] = since[w]
  BY DEF Crash
<1>4. /\ overtaken' = overtaken \ lost /\ saving' \subseteq saving /\ testing' \subseteq testing
      /\ UNCHANGED <<grants, rows, changes, maxUpload, effectVars>>
  BY DEF Crash
<1>5. lost \in SUBSET Writes /\ \A w \in lost : pc[w] \notin {"publish", "done"}
  OBVIOUS
<1> HIDE DEF lost
<1> QED BY <1>1, <1>2, <1>3, <1>4, <1>5, LostKeeps

LEMMA SaveGrantBeginKeeps ==
  ASSUME IInv, NEW g \in Grants, SaveGrantBegin(g) PROVE IInv'
<1> USE UploadsAssumption DEF SaveGrantBegin, Change, IInv, requestVars, effectVars
<1>1. TypeOK'
  <2>1. changes' \in 1..MaxChanges
    BY DEF TypeOK
  <2>2. saving' \subseteq Saves
    BY <2>1 DEF TypeOK, Saves
  <2> QED BY <2>1, <2>2 DEF TypeOK, IsApp
<1>2. Admission' /\ Recorded' /\ Proven'
  BY DEF Admission, Admits, Recorded, Fits, MaxBytes, IsApp, Proven
<1>3. CreateOnlyReplacesNothing' /\ EventsAreTrue'
  BY DEF CreateOnlyReplacesNothing, EventsAreTrue, IsApp
<1> QED BY <1>1, <1>2, <1>3

LEMMA SaveGrantKeeps ==
  ASSUME IInv, NEW s \in saving, SaveGrant(s) PROVE IInv'
<1> USE UploadsAssumption DEF SaveGrant, Others, IInv, requestVars, effectVars
<1>1. TypeOK'
  <2>1. s \in Saves /\ s.g \in Grants
    BY DEF TypeOK, Saves
  <2>2. grants' \subseteq Saves /\ saving' \subseteq Saves
    BY <2>1 DEF TypeOK
  <2>3. since' \in [Writes -> SUBSET Grants]
    <3>1. since \in [Writes -> SUBSET Grants]
      BY DEF TypeOK
    <3>2. CASE UNCHANGED since
      BY <3>1, <3>2
    <3>3. CASE since' = [w \in Writes |-> IF pc[w] \in {"new", "publish", "done"}
                                        THEN since[w] ELSE since[w] \union {s.g}]
      <4> HIDE DEF SaveGrant, IInv
      <4> QED BY <2>1, <3>1, <3>3
    <3> QED BY <3>2, <3>3
  <2> QED BY <2>2, <2>3 DEF TypeOK, IsApp
<1>2. Admission'
  <2>1. /\ \A w \in Writes : since[w] \subseteq since'[w]
        /\ \A w \in Writes : pc[w] \in {"admit", "check", "open", "write"} =>
                               \A e \in grants' : e.g \in since'[w]
    <3>1. CASE UNCHANGED <<grants, since>>
      BY <3>1 DEF Admission
    <3>2. CASE /\ grants' = Others(s.g) \union {s}
               /\ since' = [w \in Writes |-> IF pc[w] \in {"new", "publish", "done"}
                                            THEN since[w] ELSE since[w] \union {s.g}]
      <4> HIDE DEF SaveGrant
      <4> QED BY <3>2 DEF Admission
    <3> QED BY <3>1, <3>2
  <2>2. UNCHANGED <<pc, asked, grant>>
    OBVIOUS
  <2> HIDE DEF SaveGrant
  <2> QED BY <2>1, <2>2 DEF Admission, Admits
<1>3. Recorded' /\ Proven'
  BY DEF Recorded, Fits, MaxBytes, IsApp, Proven
<1>4. CreateOnlyReplacesNothing' /\ EventsAreTrue'
  BY DEF CreateOnlyReplacesNothing, EventsAreTrue, IsApp
<1> QED BY <1>1, <1>2, <1>3, <1>4

\* Deleting or revoking: the grants only become fewer.
LEMMA FewerGrantsKeep ==
  ASSUME IInv, Change, grants' \subseteq grants,
         UNCHANGED <<rows, saving, testing, requestVars, effectVars, since, overtaken>>
  PROVE  IInv'
<1> USE UploadsAssumption DEF Change, IInv, requestVars, effectVars
<1>1. TypeOK'
  BY DEF TypeOK, IsApp
<1>2. Admission' /\ Recorded' /\ Proven'
  BY DEF Admission, Admits, Recorded, Fits, MaxBytes, IsApp, Proven
<1>3. CreateOnlyReplacesNothing' /\ EventsAreTrue'
  BY DEF CreateOnlyReplacesNothing, EventsAreTrue, IsApp
<1> QED BY <1>1, <1>2, <1>3

LEMMA SetRowKeeps ==
  ASSUME IInv, NEW b \in Backends, NEW row \in Rows, SetRow(b, row),
         row # Null => row.proven = Null
  PROVE  IInv'
<1> USE UploadsAssumption DEF SetRow, Change, IInv, requestVars, effectVars
<1>1. TypeOK'
  BY DEF TypeOK, IsApp
<1>2. Admission' /\ Recorded'
  BY DEF Admission, Admits, Recorded, Fits, MaxBytes, IsApp
<1>3. Proven'
  BY DEF TypeOK, Proven
<1>4. CreateOnlyReplacesNothing' /\ EventsAreTrue'
  BY DEF CreateOnlyReplacesNothing, EventsAreTrue, IsApp
<1> QED BY <1>1, <1>2, <1>3, <1>4

\* Steps of a test before its verdict, and its end.
LEMMA TestingKeeps ==
  ASSUME IInv, testing' \subseteq Tests,
         UNCHANGED <<grants, rows, saving, changes, requestVars, effectVars, since, overtaken>>
  PROVE  IInv'
<1> USE DEF IInv, requestVars, effectVars
<1>1. TypeOK'
  BY DEF TypeOK, IsApp
<1>2. Admission' /\ Recorded' /\ Proven'
  BY DEF Admission, Admits, Recorded, Fits, MaxBytes, IsApp, Proven
<1>3. CreateOnlyReplacesNothing' /\ EventsAreTrue'
  BY DEF CreateOnlyReplacesNothing, EventsAreTrue, IsApp
<1> QED BY <1>1, <1>2, <1>3

\* A verdict leaves the row's server alone and is about the server that was opened.
LEMMA TestRecordKeeps ==
  ASSUME IInv, NEW t \in testing, TestRecord(t) PROVE IInv'
<1> DEFINE b == t.backend
<1>1. t \in Tests /\ b \in Backends /\ rows[b] # Null /\ rows[b] \in Rows
  BY DEF IInv, TypeOK, Tests, TestRecord
<1>2. UNCHANGED <<grants, saving, changes, requestVars, effectVars, since, overtaken>>
  BY DEF TestRecord
<1>3. PICK v \in Verdicts(t.server) : rows' = [rows EXCEPT ![b].proven = v]
  BY DEF TestRecord
<1>4. v \in Servers \union {Null} /\ (v # Null => v \in Enforcing)
  BY <1>1 DEF Verdicts, Tests
<1> DEFINE row == [server |-> rows[b].server, proven |-> v]
<1>5. rows[b] \in [server : Servers, proven : Servers \union {Null}]
  BY <1>1 DEF Rows
<1>6. row \in [server : Servers, proven : Servers \union {Null}]
  BY <1>4, <1>5
<1>7. row \in Rows /\ row # Null
  BY <1>6, UploadsAssumption DEF Rows
<1>8. rows' = [rows EXCEPT ![b] = row]
  <2>1. [rows[b] EXCEPT !.proven = v] = row
    BY <1>5
  <2> QED BY <1>3, <2>1
<1>9. row.server = rows[b].server /\ row.proven = v
  OBVIOUS
<1>10. \A c \in Backends : rows'[c] = IF c = b THEN row ELSE rows[c]
  BY <1>1, <1>8 DEF IInv, TypeOK
<1> HIDE DEF row
<1>11. TypeOK'
  <2>1. rows' \in [Backends -> Rows]
    BY <1>1, <1>7, <1>8 DEF IInv, TypeOK
  <2>2. testing' \subseteq Tests
    BY DEF IInv, TypeOK, TestRecord
  <2> QED BY <1>2, <2>1, <2>2 DEF IInv, TypeOK, IsApp, requestVars, effectVars
<1>12. Admission' /\ Recorded'
  BY <1>2 DEF IInv, Admission, Admits, Recorded, Fits, MaxBytes, IsApp, requestVars, effectVars
<1>13. Proven'
  <2>1. \A c \in Backends : rows'[c] # Null /\ rows'[c].proven # Null =>
                             rows'[c].proven \in Enforcing
    BY <1>4, <1>9, <1>10 DEF IInv, Proven
  <2>2. \A c \in Backends : rows[c] # Null /\ rows[c].server \in Enforcing =>
                             rows'[c] # Null /\ rows'[c].server \in Enforcing
    BY <1>7, <1>9, <1>10
  <2>3. \A w \in Writes : pc[w] # "new" => asked[w].backend \in Backends
    BY UploadsAssumption DEF IInv, TypeOK
  <2>4. UNCHANGED <<asked, pc, opened, overtaken>>
    BY <1>2 DEF requestVars
  <2> QED BY <2>1, <2>2, <2>3, <2>4 DEF IInv, Proven
<1>14. CreateOnlyReplacesNothing' /\ EventsAreTrue'
  BY <1>2 DEF IInv, CreateOnlyReplacesNothing, EventsAreTrue, IsApp, requestVars, effectVars
<1> QED BY <1>11, <1>12, <1>13, <1>14 DEF IInv

LEMMA HandleKeeps ==
  ASSUME IInv, NEW w \in Writes, Handle(w) PROVE IInv'
<1>1. CASE \E q \in Requests : Begin(w, q)
  BY <1>1, BeginKeeps
<1>2. CASE AdmitError(w) \/ CheckError(w) \/ OpenError(w) \/ StoreError(w)
  BY <1>2, RefuseKeeps DEF AdmitError, CheckError, OpenError, StoreError
<1>3. CASE Admit(w) \/ Check(w) \/ Open(w) \/ Store(w) \/ Publish(w)
  BY <1>3, AdmitKeeps, CheckKeeps, OpenKeeps, StoreKeeps, PublishKeeps
<1> QED BY <1>1, <1>2, <1>3 DEF Handle

LEMMA AdministerKeeps ==
  ASSUME IInv, Administer PROVE IInv'
<1>1. CASE \E g \in Grants : SaveGrantBegin(g)
  BY <1>1, SaveGrantBeginKeeps
<1>2. CASE \E s \in saving : SaveGrant(s)
  BY <1>2, SaveGrantKeeps
<1>3. CASE \E e \in grants : DeleteGrant(e)
  BY <1>3, FewerGrantsKeep DEF DeleteGrant
<1>4. CASE \E p \in Apps : RevokePrincipal(p)
  BY <1>4, FewerGrantsKeep DEF RevokePrincipal
<1>5. ASSUME NEW b \in Backends, TestBegin(b) \/ Unregister(b) \/ \E s \in Servers : Configure(b, s)
      PROVE  IInv'
  <2>1. CASE TestBegin(b)
    <3>1. rows[b] \in [server : Servers, proven : Servers \union {Null}]
      BY <2>1 DEF TestBegin, IInv, TypeOK, Rows
    <3>2. testing' \subseteq Tests
      BY <2>1, <3>1 DEF TestBegin, IInv, TypeOK, Tests
    <3> QED BY <2>1, <3>2, TestingKeeps DEF TestBegin
  <2>2. CASE Unregister(b)
    BY <2>2, SetRowKeeps DEF Unregister, Rows
  <2>3. ASSUME NEW s \in Servers, Configure(b, s) PROVE IInv'
    <3> DEFINE row == [server |-> s, proven |-> Null]
    <3>1. row \in Rows /\ row.proven = Null
      BY DEF Rows
    <3> HIDE DEF row
    <3> QED BY <2>3, <3>1, SetRowKeeps DEF Configure, row
  <2> QED BY <1>5, <2>1, <2>2, <2>3
<1>6. ASSUME NEW t \in testing, TestLook(t) \/ TestRecord(t) \/ TestEnd(t)
      PROVE  IInv'
  <2>1. t \in Tests
    BY DEF IInv, TypeOK
  <2>2. CASE TestLook(t)
    <3>1. testing' \subseteq Tests
      BY <2>1, <2>2 DEF TestLook, IInv, TypeOK, Tests
    <3> QED BY <2>2, <3>1, TestingKeeps DEF TestLook
  <2>3. CASE TestRecord(t)
    BY <2>3, TestRecordKeeps
  <2>4. CASE TestEnd(t)
    <3>1. testing' \subseteq Tests
      BY <2>4 DEF TestEnd, IInv, TypeOK
    <3> QED BY <2>4, <3>1, TestingKeeps DEF TestEnd
  <2> QED BY <1>6, <2>2, <2>3, <2>4
<1> QED BY <1>1, <1>2, <1>3, <1>4, <1>5, <1>6 DEF Administer

LEMMA StutterKeeps == IInv /\ UNCHANGED vars => IInv'
BY DEF vars, ownerVars, requestVars, effectVars, IInv, TypeOK, Admission, Admits, Recorded,
   Fits, MaxBytes, IsApp, Proven, CreateOnlyReplacesNothing, EventsAreTrue

-----------------------------------------------------------------------------
(* The theorems.                                                           *)

\* What each request has established by the step it is at holds in every
\* reachable state.
THEOREM UploadsInvariant == Spec => []IInv
<1>1. IInv /\ [Next]_vars => IInv'
  BY HandleKeeps, AdministerKeeps, CrashKeeps, StutterKeeps DEF Next
<1> QED BY InitIInv, <1>1, PTL DEF Spec

\* Every variable keeps its type, and an app never gets past admission without
\* a grant.
THEOREM UploadsTypeOK == Spec => []TypeOK
<1>1. IInv => TypeOK
  BY DEF IInv
<1> QED BY UploadsInvariant, <1>1, PTL

\* An app stores only what a grant of its request's time admits, within that
\* grant's limit.
THEOREM AppWritesGranted == Spec => []AppWritesWereGranted
<1>1. IInv => AppWritesWereGranted
  <2> SUFFICES ASSUME IInv, NEW w \in stored, IsApp(w)
               PROVE  \E g \in since[w] :
                        /\ g.who = asked[w].who /\ g.backend = asked[w].backend
                        /\ g.prefix = asked[w].dir /\ asked[w].ext \in g.exts
                        /\ asked[w].size <= g.max
    BY DEF AppWritesWereGranted
  <2>1. w \in Writes /\ grant[w] # Null /\ Fits(w) /\ pc[w] # "new"
    BY DEF IInv, TypeOK, Recorded
  <2>2. /\ grant[w] \in since[w] /\ Admits(grant[w], asked[w])
        /\ asked[w].ext \in grant[w].exts
    BY <2>1 DEF IInv, Admission
  <2>3. grant[w].max \in Nat \ {0} /\ asked[w].size \in Nat /\ maxUpload \in Nat
    BY <2>1, UploadsAssumption DEF IInv, TypeOK
  <2>4. asked[w].size <= grant[w].max
    BY <2>1, <2>3 DEF Fits, MaxBytes
  <2> QED BY <2>2, <2>4 DEF Admits
<1> QED BY UploadsInvariant, <1>1, PTL

\* A create-only write replaces nothing, unless its backend was changed between
\* the check and the Open, or the check relied on the verdict of a late test, which
\* is about a server the row no longer names.
THEOREM CreateOnlyKept == Spec => []CreateOnlyReplacesNothing
<1>1. IInv => CreateOnlyReplacesNothing
  BY DEF IInv
<1> QED BY UploadsInvariant, <1>1, PTL

\* Events tell of writes that took effect, and say whose they were.
THEOREM EventsTrue == Spec => []EventsAreTrue
<1>1. IInv => EventsAreTrue
  BY DEF IInv
<1> QED BY UploadsInvariant, <1>1, PTL

=============================================================================
