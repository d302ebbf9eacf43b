------------------------- MODULE SeaweedLeaseProofs -------------------------
(***************************************************************************)
(* Proofs about SeaweedLease, for any numbers of mints, backends, servers  *)
(* and faults, any batch size and any clock bound.                         *)
(*                                                                         *)
(* None of the properties is inductive by itself.  IInv adds what a mint   *)
(* knows of its server (Provenance), which mints can have a lease row      *)
(* (LeasePhase), what each phase of a mint can have left on the server     *)
(* (Unwinding) and what the sweeper has established about the lease it is  *)
(* working on (Sweeping).                                                  *)
(***************************************************************************)
EXTENDS SeaweedLease, TLAPS

\* A mint's user and key exist on the server it read and nowhere else, and its
\* backend still names that server unless an administrator changed it.
Provenance ==
  \A m \in Mints :
    /\ mpc[m] # "idle" => mserver[m] \in Servers /\ mbackend[m] \in Backends
    /\ mpc[m] # "idle" /\ mbackend[m] \notin moved => reg[mbackend[m]] = mserver[m]
    /\ \A s \in Servers : m \in keys[s] \/ m \in users[s] => mpc[m] # "idle" /\ s = mserver[m]

\* A lease row exists only once RecordLease has run, and for every credential
\* that was returned.
LeasePhase ==
  \A m \in Mints :
    /\ lease[m] # "none" => mpc[m] \in {"returned", "undoKey", "undoUser", "failed", "crashed"}
    /\ mpc[m] = "returned" => lease[m] # "none"

\* What a mint can have on any server, phase by phase.
Unwinding ==
  \A m \in Mints :
    /\ mpc[m] \in {"idle", "user", "policy", "key", "record"} => faults[m] = 0 /\ m \notin hidden
    /\ mpc[m] \in {"undoKey", "undoUser"} => faults[m] >= 1
    /\ mpc[m] \in {"idle", "user"} => \A s \in Servers : m \notin users[s]
    /\ mpc[m] \in {"idle", "user", "policy", "key"} => \A s \in Servers : m \notin keys[s]
    /\ mpc[m] \in {"undoUser", "failed"} /\ faults[m] <= 1 /\ m \notin hidden =>
         \A s \in Servers : m \notin keys[s]
    /\ mpc[m] = "failed" /\ faults[m] <= 1 /\ m \notin hidden =>
         \A s \in Servers : m \notin users[s]

\* The sweeper works on expired, recorded leases, at the server they were
\* minted on unless the backend moved, and removes the key before the user.
Sweeping ==
  /\ \A m \in batch : lease[m] = "pending" /\ mexpiry[m] < now
  /\ spc \in {"key", "user", "mark"} =>
       /\ cur \in batch
       /\ mbackend[cur] \notin moved => sserver = mserver[cur]
  /\ spc \in {"key", "user"} => sserver \in Servers
  /\ spc = "user" => cur \notin keys[sserver]
  /\ spc = "mark" /\ mbackend[cur] \notin moved => ~Exists(cur)

IInv == TypeOK /\ Provenance /\ LeasePhase /\ Unwinding /\ Sweeping /\ SweptMeansGone

-----------------------------------------------------------------------------
(* The inductive step, action by action.                                   *)

LEMMA InitIInv == Init => IInv
BY LeaseAssumption DEF Init, IInv, TypeOK, Provenance, LeasePhase, Unwinding, Sweeping,
     SweptMeansGone, MintPCs, InFlight, SweeperPCs

LEMMA MintBeginKeeps ==
  ASSUME IInv, NEW m \in Mints, NEW b \in Backends, MintBegin(m, b) PROVE IInv'
<1> USE LeaseAssumption DEF MintBegin, MintGoto, IInv, iam, svars, admin
<1>1. TypeOK'
  BY DEF TypeOK, MintPCs, InFlight
<1>2. Provenance'
  BY DEF TypeOK, Provenance
<1>3. LeasePhase'
  BY DEF TypeOK, LeasePhase
<1>4. Unwinding'
  BY DEF TypeOK, Provenance, Unwinding
<1>5. Sweeping'
  BY DEF TypeOK, Provenance, LeasePhase, Sweeping, Exists
<1>6. SweptMeansGone'
  BY DEF TypeOK, Provenance, LeasePhase, SweptMeansGone, Exists
<1> QED
  BY <1>1, <1>2, <1>3, <1>4, <1>5, <1>6

LEMMA CreateUserKeeps ==
  ASSUME IInv, NEW m \in Mints, CreateUser(m) PROVE IInv'
<1> USE LeaseAssumption DEF CreateUser, MintCall, Add, MintGoto, IInv, iam, svars, admin
<1>1. TypeOK'
  BY DEF TypeOK, MintPCs, InFlight
<1>2. Provenance'
  BY DEF TypeOK, Provenance
<1>3. LeasePhase'
  BY DEF TypeOK, LeasePhase
<1>4. Unwinding'
  BY DEF TypeOK, Provenance, Unwinding
<1>5. Sweeping'
  BY DEF TypeOK, Provenance, LeasePhase, Sweeping, Exists
<1>6. SweptMeansGone'
  BY DEF TypeOK, Provenance, LeasePhase, SweptMeansGone, Exists
<1> QED
  BY <1>1, <1>2, <1>3, <1>4, <1>5, <1>6

LEMMA CreateUserErrorKeeps ==
  ASSUME IInv, NEW m \in Mints, CreateUserError(m) PROVE IInv'
<1> USE LeaseAssumption DEF CreateUserError, MintCall, Add, MintGoto, MintFault, IInv, iam, svars, admin
<1>1. TypeOK'
  BY DEF TypeOK, MintPCs, InFlight
<1>2. Provenance'
  BY DEF TypeOK, Provenance
<1>3. LeasePhase'
  BY DEF TypeOK, LeasePhase
<1>4. Unwinding'
  BY DEF TypeOK, Provenance, Unwinding
<1>5. Sweeping'
  BY DEF TypeOK, Provenance, LeasePhase, Sweeping, Exists
<1>6. SweptMeansGone'
  BY DEF TypeOK, Provenance, LeasePhase, SweptMeansGone, Exists
<1> QED
  BY <1>1, <1>2, <1>3, <1>4, <1>5, <1>6

LEMMA PutUserPolicyKeeps ==
  ASSUME IInv, NEW m \in Mints, PutUserPolicy(m) PROVE IInv'
<1> USE LeaseAssumption DEF PutUserPolicy, MintCall, MintGoto, IInv, iam, svars, admin
<1>1. TypeOK'
  BY DEF TypeOK, MintPCs, InFlight
<1>2. Provenance'
  BY DEF TypeOK, Provenance
<1>3. LeasePhase'
  BY DEF TypeOK, LeasePhase
<1>4. Unwinding'
  BY DEF TypeOK, Provenance, Unwinding
<1>5. Sweeping'
  BY DEF TypeOK, Provenance, LeasePhase, Sweeping, Exists
<1>6. SweptMeansGone'
  BY DEF TypeOK, Provenance, LeasePhase, SweptMeansGone, Exists
<1> QED
  BY <1>1, <1>2, <1>3, <1>4, <1>5, <1>6

LEMMA PutUserPolicyErrorKeeps ==
  ASSUME IInv, NEW m \in Mints, PutUserPolicyError(m) PROVE IInv'
<1> USE LeaseAssumption DEF PutUserPolicyError, MintGoto, MintFault, IInv, iam, svars, admin
<1>1. TypeOK'
  BY DEF TypeOK, MintPCs, InFlight
<1>2. Provenance'
  BY DEF TypeOK, Provenance
<1>3. LeasePhase'
  BY DEF TypeOK, LeasePhase
<1>4. Unwinding'
  BY DEF TypeOK, Provenance, Unwinding
<1>5. Sweeping'
  BY DEF TypeOK, Provenance, LeasePhase, Sweeping, Exists
<1>6. SweptMeansGone'
  BY DEF TypeOK, Provenance, LeasePhase, SweptMeansGone, Exists
<1> QED
  BY <1>1, <1>2, <1>3, <1>4, <1>5, <1>6

LEMMA CreateAccessKeyKeeps ==
  ASSUME IInv, NEW m \in Mints, NEW ttl \in TTLs, CreateAccessKey(m, ttl) PROVE IInv'
<1> USE LeaseAssumption DEF CreateAccessKey, MintCall, Add, MintGoto, EffectiveTTL, IInv, iam, svars, admin
<1>0. EffectiveTTL(ttl) \in Nat /\ now + EffectiveTTL(ttl) \in Nat
  BY DEF TypeOK
<1>1. TypeOK'
  BY <1>0 DEF TypeOK, MintPCs, InFlight
<1>2. Provenance'
  BY DEF TypeOK, Provenance
<1>3. LeasePhase'
  BY DEF TypeOK, LeasePhase
<1>4. Unwinding'
  BY DEF TypeOK, Provenance, Unwinding
<1>5. Sweeping'
  BY DEF TypeOK, Provenance, LeasePhase, Sweeping, Exists
<1>6. SweptMeansGone'
  BY DEF TypeOK, Provenance, LeasePhase, SweptMeansGone, Exists
<1> QED
  BY <1>1, <1>2, <1>3, <1>4, <1>5, <1>6

LEMMA CreateAccessKeyErrorKeeps ==
  ASSUME IInv, NEW m \in Mints, CreateAccessKeyError(m) PROVE IInv'
<1> USE LeaseAssumption DEF CreateAccessKeyError, MintCall, Add, MintGoto, MintFault, IInv, iam, svars, admin
<1>1. TypeOK'
  BY DEF TypeOK, MintPCs, InFlight
<1>2. Provenance'
  BY DEF TypeOK, Provenance
<1>3. LeasePhase'
  BY DEF TypeOK, LeasePhase
<1>4. Unwinding'
  BY DEF TypeOK, Provenance, Unwinding
<1>5. Sweeping'
  BY DEF TypeOK, Provenance, LeasePhase, Sweeping, Exists
<1>6. SweptMeansGone'
  BY DEF TypeOK, Provenance, LeasePhase, SweptMeansGone, Exists
<1> QED
  BY <1>1, <1>2, <1>3, <1>4, <1>5, <1>6

LEMMA RecordLeaseKeeps ==
  ASSUME IInv, NEW m \in Mints, RecordLease(m) PROVE IInv'
<1> USE LeaseAssumption DEF RecordLease, MintGoto, IInv, iam, svars, admin
<1>1. TypeOK'
  BY DEF TypeOK, MintPCs, InFlight
<1>2. Provenance'
  BY DEF TypeOK, Provenance
<1>3. LeasePhase'
  BY DEF TypeOK, LeasePhase
<1>4. Unwinding'
  BY DEF TypeOK, Provenance, Unwinding
<1>5. Sweeping'
  BY DEF TypeOK, Provenance, LeasePhase, Sweeping, Exists
<1>6. SweptMeansGone'
  BY DEF TypeOK, Provenance, LeasePhase, SweptMeansGone, Exists
<1> QED
  BY <1>1, <1>2, <1>3, <1>4, <1>5, <1>6

LEMMA RecordLeaseErrorKeeps ==
  ASSUME IInv, NEW m \in Mints, RecordLeaseError(m) PROVE IInv'
<1> USE LeaseAssumption DEF RecordLeaseError, MintGoto, MintFault, IInv, iam, svars, admin
<1>1. TypeOK'
  BY DEF TypeOK, MintPCs, InFlight
<1>2. Provenance'
  BY DEF TypeOK, Provenance
<1>3. LeasePhase'
  BY DEF TypeOK, LeasePhase
<1>4. Unwinding'
  BY DEF TypeOK, Provenance, Unwinding
<1>5. Sweeping'
  BY DEF TypeOK, Provenance, LeasePhase, Sweeping, Exists
<1>6. SweptMeansGone'
  BY DEF TypeOK, Provenance, LeasePhase, SweptMeansGone, Exists
<1> QED
  BY <1>1, <1>2, <1>3, <1>4, <1>5, <1>6

LEMMA UndoKeyKeeps ==
  ASSUME IInv, NEW m \in Mints, UndoKey(m) PROVE IInv'
<1> USE LeaseAssumption DEF UndoKey, MintCall, Remove, MintGoto, MintFault, IInv, iam, svars, admin
<1>1. TypeOK'
  BY DEF TypeOK, MintPCs, InFlight
<1>2. Provenance'
  BY DEF TypeOK, Provenance
<1>3. LeasePhase'
  BY DEF TypeOK, LeasePhase
<1>4. Unwinding'
  BY DEF TypeOK, Provenance, Unwinding
<1>5. Sweeping'
  BY DEF TypeOK, Provenance, LeasePhase, Sweeping, Exists
<1>6. SweptMeansGone'
  BY DEF TypeOK, Provenance, LeasePhase, SweptMeansGone, Exists
<1> QED
  BY <1>1, <1>2, <1>3, <1>4, <1>5, <1>6

LEMMA UndoUserKeeps ==
  ASSUME IInv, NEW m \in Mints, UndoUser(m) PROVE IInv'
<1> USE LeaseAssumption DEF UndoUser, MintCall, Deletable, Remove, MintGoto, MintFault, IInv, iam, svars, admin
<1>1. TypeOK'
  BY DEF TypeOK, MintPCs, InFlight
<1>2. Provenance'
  BY DEF TypeOK, Provenance
<1>3. LeasePhase'
  BY DEF TypeOK, LeasePhase
<1>4. Unwinding'
  BY DEF TypeOK, Provenance, Unwinding
<1>5. Sweeping'
  BY DEF TypeOK, Provenance, LeasePhase, Sweeping, Exists
<1>6. SweptMeansGone'
  BY DEF TypeOK, Provenance, LeasePhase, SweptMeansGone, Exists
<1> QED
  BY <1>1, <1>2, <1>3, <1>4, <1>5, <1>6

-----------------------------------------------------------------------------
LEMMA SweepBeginKeeps ==
  ASSUME IInv, SweepBegin PROVE IInv'
<1> USE LeaseAssumption DEF SweepBegin, Expired, PendingSweep, IInv, iam, mvars, admin
<1>1. TypeOK'
  BY DEF TypeOK, Sweeping, SweeperPCs, MintPCs
<1>2. Provenance'
  BY DEF TypeOK, Provenance, Sweeping
<1>3. LeasePhase'
  BY DEF TypeOK, LeasePhase, Sweeping
<1>4. Unwinding'
  BY DEF TypeOK, Unwinding, Sweeping
<1>5. Sweeping'
  BY DEF TypeOK, Provenance, LeasePhase, Sweeping, Exists
<1>6. SweptMeansGone'
  BY DEF TypeOK, Provenance, LeasePhase, Sweeping, SweptMeansGone, Exists
<1> QED
  BY <1>1, <1>2, <1>3, <1>4, <1>5, <1>6

LEMMA SweepResolveKeeps ==
  ASSUME IInv, NEW m \in Mints, SweepResolve(m) PROVE IInv'
<1> USE LeaseAssumption DEF SweepResolve, Oldest, IInv, iam, mvars, admin
<1>1. TypeOK'
  BY DEF TypeOK, Sweeping, SweeperPCs, MintPCs
<1>2. Provenance'
  BY DEF TypeOK, Provenance, Sweeping
<1>3. LeasePhase'
  BY DEF TypeOK, LeasePhase, Sweeping
<1>4. Unwinding'
  BY DEF TypeOK, Unwinding, Sweeping
<1>5. Sweeping'
  BY DEF TypeOK, Provenance, LeasePhase, Sweeping, Exists
<1>6. SweptMeansGone'
  BY DEF TypeOK, Provenance, LeasePhase, Sweeping, SweptMeansGone, Exists
<1> QED
  BY <1>1, <1>2, <1>3, <1>4, <1>5, <1>6

LEMMA SweepResolveErrorKeeps ==
  ASSUME IInv, NEW m \in Mints, SweepResolveError(m) PROVE IInv'
<1> USE LeaseAssumption DEF SweepResolveError, Oldest, SweepContinue, IInv, iam, mvars, admin
<1>1. TypeOK'
  BY DEF TypeOK, Sweeping, SweeperPCs, MintPCs
<1>2. Provenance'
  BY DEF TypeOK, Provenance, Sweeping
<1>3. LeasePhase'
  BY DEF TypeOK, LeasePhase, Sweeping
<1>4. Unwinding'
  BY DEF TypeOK, Unwinding, Sweeping
<1>5. Sweeping'
  BY DEF TypeOK, Provenance, LeasePhase, Sweeping, Exists
<1>6. SweptMeansGone'
  BY DEF TypeOK, Provenance, LeasePhase, Sweeping, SweptMeansGone, Exists
<1> QED
  BY <1>1, <1>2, <1>3, <1>4, <1>5, <1>6

LEMMA SweepKeyKeeps ==
  ASSUME IInv, SweepKey PROVE IInv'
<1> USE LeaseAssumption DEF SweepKey, Remove, IInv, iam, mvars, admin
<1>1. TypeOK'
  BY DEF TypeOK, Sweeping, SweeperPCs, MintPCs
<1>2. Provenance'
  BY DEF TypeOK, Provenance, Sweeping
<1>3. LeasePhase'
  BY DEF TypeOK, LeasePhase, Sweeping
<1>4. Unwinding'
  BY DEF TypeOK, Unwinding, Sweeping
<1>5. Sweeping'
  BY DEF TypeOK, Provenance, LeasePhase, Sweeping, Exists
<1>6. SweptMeansGone'
  BY DEF TypeOK, Provenance, LeasePhase, Sweeping, SweptMeansGone, Exists
<1> QED
  BY <1>1, <1>2, <1>3, <1>4, <1>5, <1>6

LEMMA SweepKeyErrorKeeps ==
  ASSUME IInv, SweepKeyError PROVE IInv'
<1> USE LeaseAssumption DEF SweepKeyError, Remove, SweepContinue, IInv, iam, mvars, admin
<1>1. TypeOK'
  BY DEF TypeOK, Sweeping, SweeperPCs, MintPCs
<1>2. Provenance'
  BY DEF TypeOK, Provenance, Sweeping
<1>3. LeasePhase'
  BY DEF TypeOK, LeasePhase, Sweeping
<1>4. Unwinding'
  BY DEF TypeOK, Unwinding, Sweeping
<1>5. Sweeping'
  BY DEF TypeOK, Provenance, LeasePhase, Sweeping, Exists
<1>6. SweptMeansGone'
  BY DEF TypeOK, Provenance, LeasePhase, Sweeping, SweptMeansGone, Exists
<1> QED
  BY <1>1, <1>2, <1>3, <1>4, <1>5, <1>6

LEMMA SweepUserKeeps ==
  ASSUME IInv, SweepUser PROVE IInv'
<1> USE LeaseAssumption DEF SweepUser, Deletable, Remove, IInv, iam, mvars, admin
<1>1. TypeOK'
  BY DEF TypeOK, Sweeping, SweeperPCs, MintPCs
<1>2. Provenance'
  BY DEF TypeOK, Provenance, Sweeping
<1>3. LeasePhase'
  BY DEF TypeOK, LeasePhase, Sweeping
<1>4. Unwinding'
  BY DEF TypeOK, Unwinding, Sweeping
<1>5. Sweeping'
  BY DEF TypeOK, Provenance, LeasePhase, Sweeping, Exists
<1>6. SweptMeansGone'
  BY DEF TypeOK, Provenance, LeasePhase, Sweeping, SweptMeansGone, Exists
<1> QED
  BY <1>1, <1>2, <1>3, <1>4, <1>5, <1>6

LEMMA SweepUserErrorKeeps ==
  ASSUME IInv, SweepUserError PROVE IInv'
<1> USE LeaseAssumption DEF SweepUserError, Deletable, Remove, SweepContinue, IInv, iam, mvars, admin
<1>1. TypeOK'
  BY DEF TypeOK, Sweeping, SweeperPCs, MintPCs
<1>2. Provenance'
  BY DEF TypeOK, Provenance, Sweeping
<1>3. LeasePhase'
  BY DEF TypeOK, LeasePhase, Sweeping
<1>4. Unwinding'
  BY DEF TypeOK, Unwinding, Sweeping
<1>5. Sweeping'
  BY DEF TypeOK, Provenance, LeasePhase, Sweeping, Exists
<1>6. SweptMeansGone'
  BY DEF TypeOK, Provenance, LeasePhase, Sweeping, SweptMeansGone, Exists
<1> QED
  BY <1>1, <1>2, <1>3, <1>4, <1>5, <1>6

LEMMA MarkSweptKeeps ==
  ASSUME IInv, MarkSwept PROVE IInv'
<1> USE LeaseAssumption DEF MarkSwept, SweepContinue, IInv, iam, mvars, admin
<1>1. TypeOK'
  BY DEF TypeOK, Sweeping, SweeperPCs, MintPCs
<1>2. Provenance'
  BY DEF TypeOK, Provenance, Sweeping
<1>3. LeasePhase'
  BY DEF TypeOK, LeasePhase, Sweeping
<1>4. Unwinding'
  BY DEF TypeOK, Unwinding, Sweeping
<1>5. Sweeping'
  BY DEF TypeOK, Provenance, LeasePhase, Sweeping, Exists
<1>6. SweptMeansGone'
  BY DEF TypeOK, Provenance, LeasePhase, Sweeping, SweptMeansGone, Exists
<1> QED
  BY <1>1, <1>2, <1>3, <1>4, <1>5, <1>6

LEMMA MarkSweptErrorKeeps ==
  ASSUME IInv, MarkSweptError PROVE IInv'
<1> USE LeaseAssumption DEF MarkSweptError, SweepContinue, IInv, iam, mvars, admin
<1>1. TypeOK'
  BY DEF TypeOK, Sweeping, SweeperPCs, MintPCs
<1>2. Provenance'
  BY DEF TypeOK, Provenance, Sweeping
<1>3. LeasePhase'
  BY DEF TypeOK, LeasePhase, Sweeping
<1>4. Unwinding'
  BY DEF TypeOK, Unwinding, Sweeping
<1>5. Sweeping'
  BY DEF TypeOK, Provenance, LeasePhase, Sweeping, Exists
<1>6. SweptMeansGone'
  BY DEF TypeOK, Provenance, LeasePhase, Sweeping, SweptMeansGone, Exists
<1> QED
  BY <1>1, <1>2, <1>3, <1>4, <1>5, <1>6

LEMMA ChangeBackendKeeps ==
  ASSUME IInv, NEW b \in Backends, NEW to \in Servers \union Elsewhere, ChangeBackend(b, to) PROVE IInv'
<1> USE LeaseAssumption DEF ChangeBackend, svars, IInv, iam, mvars, admin
<1>1. TypeOK'
  BY DEF TypeOK, Sweeping, SweeperPCs, MintPCs
<1>2. Provenance'
  BY DEF TypeOK, Provenance, Sweeping
<1>3. LeasePhase'
  BY DEF TypeOK, LeasePhase, Sweeping
<1>4. Unwinding'
  BY DEF TypeOK, Unwinding, Sweeping
<1>5. Sweeping'
  BY DEF TypeOK, Provenance, LeasePhase, Sweeping, Exists
<1>6. SweptMeansGone'
  BY DEF TypeOK, Provenance, LeasePhase, Sweeping, SweptMeansGone, Exists
<1> QED
  BY <1>1, <1>2, <1>3, <1>4, <1>5, <1>6

LEMMA TickKeeps ==
  ASSUME IInv, Tick PROVE IInv'
<1> USE LeaseAssumption DEF Tick, svars, IInv, iam, mvars, admin
<1>1. TypeOK'
  BY DEF TypeOK, Sweeping, SweeperPCs, MintPCs
<1>2. Provenance'
  BY DEF TypeOK, Provenance, Sweeping
<1>3. LeasePhase'
  BY DEF TypeOK, LeasePhase, Sweeping
<1>4. Unwinding'
  BY DEF TypeOK, Unwinding, Sweeping
<1>5. Sweeping'
  BY DEF TypeOK, Provenance, LeasePhase, Sweeping, Exists
<1>6. SweptMeansGone'
  BY DEF TypeOK, Provenance, LeasePhase, Sweeping, SweptMeansGone, Exists
<1> QED
  BY <1>1, <1>2, <1>3, <1>4, <1>5, <1>6

LEMMA GoDownKeeps ==
  ASSUME IInv, NEW s \in Servers, GoDown(s) PROVE IInv'
<1> USE LeaseAssumption DEF GoDown, svars, IInv, iam, mvars, admin
<1>1. TypeOK'
  BY DEF TypeOK, Sweeping, SweeperPCs, MintPCs
<1>2. Provenance'
  BY DEF TypeOK, Provenance, Sweeping
<1>3. LeasePhase'
  BY DEF TypeOK, LeasePhase, Sweeping
<1>4. Unwinding'
  BY DEF TypeOK, Unwinding, Sweeping
<1>5. Sweeping'
  BY DEF TypeOK, Provenance, LeasePhase, Sweeping, Exists
<1>6. SweptMeansGone'
  BY DEF TypeOK, Provenance, LeasePhase, Sweeping, SweptMeansGone, Exists
<1> QED
  BY <1>1, <1>2, <1>3, <1>4, <1>5, <1>6

LEMMA CrashKeeps ==
  ASSUME IInv, Crash PROVE IInv'
<1> USE LeaseAssumption DEF Crash, InFlight, IInv, iam, mvars, admin
<1>1. TypeOK'
  BY DEF TypeOK, Sweeping, SweeperPCs, MintPCs
<1>2. Provenance'
  BY DEF TypeOK, Provenance, Sweeping
<1>3. LeasePhase'
  BY DEF TypeOK, LeasePhase, Sweeping
<1>4. Unwinding'
  BY DEF TypeOK, Unwinding, Sweeping
<1>5. Sweeping'
  BY DEF TypeOK, Provenance, LeasePhase, Sweeping, Exists
<1>6. SweptMeansGone'
  BY DEF TypeOK, Provenance, LeasePhase, Sweeping, SweptMeansGone, Exists
<1> QED
  BY <1>1, <1>2, <1>3, <1>4, <1>5, <1>6

LEMMA StutterKeeps ==
  ASSUME IInv, UNCHANGED vars PROVE IInv'
BY DEF IInv, vars, iam, mvars, svars, admin, TypeOK, Provenance, LeasePhase, Unwinding,
     Sweeping, SweptMeansGone, Exists

LEMMA NextKeeps ==
  ASSUME IInv, [Next]_vars PROVE IInv'
<1>1. ASSUME NEW m \in Mints, MintStep(m) PROVE IInv'
  BY <1>1, MintBeginKeeps, CreateUserKeeps, CreateUserErrorKeeps, PutUserPolicyKeeps,
     PutUserPolicyErrorKeeps, CreateAccessKeyKeeps, CreateAccessKeyErrorKeeps,
     RecordLeaseKeeps, RecordLeaseErrorKeeps, UndoKeyKeeps, UndoUserKeeps DEF MintStep
<1>2. ASSUME SweepStep PROVE IInv'
  BY <1>2, SweepBeginKeeps, SweepResolveKeeps, SweepResolveErrorKeeps, SweepKeyKeeps,
     SweepKeyErrorKeeps, SweepUserKeeps, SweepUserErrorKeeps, MarkSweptKeeps,
     MarkSweptErrorKeeps, StutterKeeps DEF SweepStep, SweepNothing
<1> QED
  BY <1>1, <1>2, ChangeBackendKeeps, TickKeeps, GoDownKeeps, CrashKeeps, StutterKeeps DEF Next

\* The strengthened invariant holds in every reachable state of the mint, the
\* lease table and the sweeper.
THEOREM LeaseInvariant == Spec => []IInv
BY InitIInv, NextKeeps, PTL DEF Spec

\* Every variable keeps its type: in particular the sweeper only ever calls a
\* server, never the name of an unregistered or non-S3 backend (sweepLease).
THEOREM LeaseTypeOK == Spec => []TypeOK
BY LeaseInvariant, PTL DEF IInv

\* A lease is marked swept only when its user and key are gone, while its
\* backend keeps its registration (sweepOnce, MarkSwept).
THEOREM SweptGone == Spec => []SweptMeansGone
BY LeaseInvariant, PTL DEF IInv

\* A returned credential stays on the sweeper's list until its user and key
\* are gone, while its backend keeps its registration (mintSeaweedFSIAM,
\* sweepOnce).
THEOREM Tracked == Spec => []TrackedUntilGone
<1>1. IInv => TrackedUntilGone
  BY DEF IInv, TypeOK, LeasePhase, SweptMeansGone, TrackedUntilGone
<1> QED
  BY <1>1, LeaseInvariant, PTL

\* A mint refused after a single failed call leaves nothing on the server
\* (mintSeaweedFSIAM's undo calls).
THEOREM Unwound == Spec => []SingleFailureUnwound
<1>1. IInv => SingleFailureUnwound
  BY DEF IInv, TypeOK, Provenance, Unwinding, SingleFailureUnwound, Exists
<1> QED
  BY <1>1, LeaseInvariant, PTL

\* No step removes the key of a returned credential before its lease has
\* expired (PendingSweep's cutoff, DeleteSeaweedFSIAMLease).
THEOREM NotEarly == Spec => NoEarlyRevocation
<1> DEFINE Early(m) == /\ mpc[m] = "returned"
                       /\ m \in keys[mserver[m]] /\ m \notin keys'[mserver[m]]
<1>1. ASSUME IInv, [Next]_vars, NEW m \in Mints, Early(m) PROVE mexpiry[m] < now
  <2>1. ASSUME NEW n \in Mints, MintStep(n) PROVE mexpiry[m] < now
    BY <1>1, <2>1 DEF MintStep, MintBegin, CreateUser, CreateUserError, PutUserPolicy,
       PutUserPolicyError, CreateAccessKey, CreateAccessKeyError, RecordLease,
       RecordLeaseError, UndoKey, UndoUser, MintCall, Add, Remove, iam, IInv, TypeOK,
       Provenance
  <2>2. ASSUME SweepStep PROVE mexpiry[m] < now
    BY <1>1, <2>2 DEF SweepStep, SweepNothing, vars, SweepBegin, SweepResolve, SweepResolveError, SweepKey,
       SweepKeyError, SweepUser, SweepUserError, MarkSwept, MarkSweptError, Remove, iam,
       IInv, TypeOK, Provenance, Sweeping
  <2> QED
    BY <1>1, <2>1, <2>2 DEF Next, vars, iam, ChangeBackend, Tick, GoDown, Crash
<1>2. IInv /\ [Next]_vars => [\A m \in Mints : Early(m) => mexpiry[m] < now]_vars
  BY <1>1
<1> QED
  BY <1>2, LeaseInvariant, PTL DEF Spec, NoEarlyRevocation

=============================================================================
