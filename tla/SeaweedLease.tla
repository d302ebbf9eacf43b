---------------------------- MODULE SeaweedLease ----------------------------
(***************************************************************************)
(* Scoped SeaweedFS credentials and their cleanup: the broker's mint       *)
(* (internal/backend/s3/seaweedfs_iam.go, called by                        *)
(* internal/credentialbroker), the lease table (internal/seaweedfslease)   *)
(* and the sweeper (internal/seaweedfssweep).                              *)
(*                                                                         *)
(* A mint is one broker request; its IAM user name, access key and lease   *)
(* ID are all fresh, so the mint's own name stands for the three.  Every   *)
(* IAM or database call may succeed, fail without effect, or take effect   *)
(* and still report an error.  The process may crash between two calls.    *)
(* An administrator may re-point, unregister or re-register a backend      *)
(* while its leases are out.                                               *)
(***************************************************************************)
EXTENDS Naturals, FiniteSets

CONSTANTS
  Mints,        \* broker requests, each with its own user, key and lease ID
  Backends,     \* registered S3 backends with a seaweedfs-iam provider
  Servers,      \* SeaweedFS IAM endpoints a backend configuration may name
  TTLs,         \* time-to-live values a request may ask for (0: none given)
  DefaultTTL,   \* defaultSeaweedFSLeaseTTL
  BatchSize,    \* batchSize: leases per sweep cycle
  MaxTime,      \* bound on the clock
  MaxFaults,    \* bound on the calls of one mint that report an error
  MaxCrashes,   \* bound on crashes: the process does not crash for ever
  MayGoDown,    \* servers that may become unreachable for good
  AdminActs,    \* TRUE: an administrator may change registrations
  Null

ASSUME LeaseAssumption ==
  /\ TTLs \subseteq Nat
  /\ DefaultTTL \in Nat \ {0}
  /\ BatchSize \in Nat \ {0}
  /\ MaxTime \in Nat
  /\ MaxFaults \in Nat
  /\ MaxCrashes \in Nat
  /\ MayGoDown \subseteq Servers
  /\ AdminActs \in BOOLEAN
  /\ Null \notin Mints

\* What the registry may hold for an ID besides a server: nothing, or a kind other
\* than S3, with credentials (Azure, GCS) or without (filesystem).
Elsewhere == {"gone", "notS3", "noCredentials"}

ASSUME ServerAssumption == Elsewhere \cap Servers = {}

VARIABLES
  reg,      \* the registry: the server each backend's configuration names
  users,    \* IAM users that exist on each server
  keys,     \* access keys that work on each server
  lease,    \* each mint's lease row: "none", "pending" or "swept"
  mpc,      \* where each mint is
  mbackend, \* the backend the request named (BackendID of the lease row)
  mserver,  \* the server it read from the registry, held in memory
  mexpiry,  \* ExpiresAt of the credential and of the lease row
  spc,      \* where the sweeper is
  batch,    \* leases of this cycle still to be swept
  cur,      \* the lease being swept
  sserver,  \* the server the sweeper read for it
  snow,     \* the cycle's time
  now,      \* the clock
  down,     \* servers that no longer answer
  moved,    \* history: backends whose registration has changed
  crashes,  \* history: crashes so far
  faults,   \* history: calls of each mint that reported an error
  hidden    \* history: mints one of whose creating calls took effect and erred

iam   == <<users, keys>>
mvars == <<mpc, mbackend, mserver, mexpiry, faults, hidden>>
svars == <<spc, batch, cur, sserver, snow>>
admin == <<reg, moved, down, crashes>>
vars  == <<iam, mvars, svars, admin, lease, now>>

InFlight   == {"user", "policy", "key", "record", "undoKey", "undoUser"}
MintPCs    == {"idle", "returned", "failed", "crashed"} \union InFlight
SweeperPCs == {"idle", "next", "key", "user", "mark"}

TypeOK ==
  /\ reg \in [Backends -> Servers \union Elsewhere]
  /\ users \in [Servers -> SUBSET Mints]
  /\ keys \in [Servers -> SUBSET Mints]
  /\ lease \in [Mints -> {"none", "pending", "swept"}]
  /\ mpc \in [Mints -> MintPCs]
  /\ mbackend \in [Mints -> Backends \union {Null}]
  /\ mserver \in [Mints -> Servers \union {Null}]
  /\ mexpiry \in [Mints -> Nat]
  /\ spc \in SweeperPCs
  /\ batch \subseteq Mints
  /\ cur \in Mints \union {Null}
  /\ sserver \in Servers \union {Null}
  /\ snow \in Nat
  /\ now \in Nat
  /\ down \subseteq Servers
  /\ moved \subseteq Backends
  /\ crashes \in Nat
  /\ faults \in [Mints -> Nat]
  /\ hidden \subseteq Mints

Init ==
  /\ reg \in [Backends -> Servers]
  /\ users = [s \in Servers |-> {}]
  /\ keys = [s \in Servers |-> {}]
  /\ lease = [m \in Mints |-> "none"]
  /\ mpc = [m \in Mints |-> "idle"]
  /\ mbackend = [m \in Mints |-> Null]
  /\ mserver = [m \in Mints |-> Null]
  /\ mexpiry = [m \in Mints |-> 0]
  /\ spc = "idle"
  /\ batch = {}
  /\ cur = Null
  /\ sserver = Null
  /\ snow = 0
  /\ now = 0
  /\ down = {}
  /\ moved = {}
  /\ crashes = 0
  /\ faults = [m \in Mints |-> 0]
  /\ hidden = {}

-----------------------------------------------------------------------------
(* The SeaweedFS IAM API (external), as the client observes it.            *)

Add(f, s, m)    == f' = [f EXCEPT ![s] = @ \union {m}]
Remove(f, s, m) == f' = [f EXCEPT ![s] = @ \ {m}]

\* A user that still has an access key cannot be deleted (DeleteConflict).
Deletable(s, m) == m \notin keys[s]

-----------------------------------------------------------------------------
(* Minting: mintSeaweedFSIAM, one step per call.                           *)

MintGoto(m, at) == mpc' = [mpc EXCEPT ![m] = at]
MintFault(m) ==
  /\ faults[m] < MaxFaults
  /\ faults' = [faults EXCEPT ![m] = @ + 1]

\* The broker has authenticated and validated the request and has read the
\* backend's record and admin credentials; a refusal before this changes nothing.
MintBegin(m, b) ==
  /\ mpc[m] = "idle" /\ reg[b] \in Servers
  /\ mbackend' = [mbackend EXCEPT ![m] = b]
  /\ mserver' = [mserver EXCEPT ![m] = reg[b]]
  /\ MintGoto(m, "user")
  /\ UNCHANGED <<iam, svars, admin, lease, now, mexpiry, faults, hidden>>

\* m is at step `at' and its server answers.
MintCall(m, at) == mpc[m] = at /\ mserver[m] \notin down

CreateUser(m) ==
  /\ MintCall(m, "user")
  /\ Add(users, mserver[m], m)
  /\ MintGoto(m, "policy")
  /\ UNCHANGED <<keys, svars, admin, lease, now, mbackend, mserver, mexpiry, faults, hidden>>

CreateUserError(m) ==
  /\ mpc[m] = "user"
  /\ \/ UNCHANGED <<users, hidden>>
     \/ MintCall(m, "user") /\ Add(users, mserver[m], m) /\ hidden' = hidden \union {m}
  /\ MintGoto(m, "failed") /\ MintFault(m)
  /\ UNCHANGED <<keys, svars, admin, lease, now, mbackend, mserver, mexpiry>>

PutUserPolicy(m) ==
  /\ MintCall(m, "policy")
  /\ MintGoto(m, "key")
  /\ UNCHANGED <<iam, svars, admin, lease, now, mbackend, mserver, mexpiry, faults, hidden>>

\* Mutant of PutUserPolicyError: the user created before it is left behind.
PutUserPolicyErrorKeepsUser(m) ==
  /\ mpc[m] = "policy"
  /\ MintGoto(m, "failed") /\ MintFault(m)
  /\ UNCHANGED <<iam, svars, admin, lease, now, mbackend, mserver, mexpiry, hidden>>

PutUserPolicyError(m) ==
  /\ mpc[m] = "policy"
  /\ MintGoto(m, "undoUser") /\ MintFault(m)
  /\ UNCHANGED <<iam, svars, admin, lease, now, mbackend, mserver, mexpiry, hidden>>

EffectiveTTL(ttl) == IF ttl <= 0 THEN DefaultTTL ELSE ttl

CreateAccessKey(m, ttl) ==
  /\ MintCall(m, "key")
  /\ now + EffectiveTTL(ttl) < MaxTime
  /\ Add(keys, mserver[m], m)
  /\ mexpiry' = [mexpiry EXCEPT ![m] = now + EffectiveTTL(ttl)]
  /\ MintGoto(m, "record")
  /\ UNCHANGED <<users, svars, admin, lease, now, mbackend, mserver, faults, hidden>>

CreateAccessKeyError(m) ==
  /\ mpc[m] = "key"
  /\ \/ UNCHANGED <<keys, hidden>>
     \/ MintCall(m, "key") /\ Add(keys, mserver[m], m) /\ hidden' = hidden \union {m}
  /\ MintGoto(m, "undoUser") /\ MintFault(m)
  /\ UNCHANGED <<users, svars, admin, lease, now, mbackend, mserver, mexpiry>>

\* Mutant of RecordLease: the credential is returned without its lease row.
ReturnUnrecorded(m) ==
  /\ mpc[m] = "record"
  /\ MintGoto(m, "returned")
  /\ UNCHANGED <<iam, svars, admin, lease, now, mbackend, mserver, mexpiry, faults, hidden>>

\* Inserting the lease row is the last thing before the credential is returned.
RecordLease(m) ==
  /\ mpc[m] = "record"
  /\ lease' = [lease EXCEPT ![m] = "pending"]
  /\ MintGoto(m, "returned")
  /\ UNCHANGED <<iam, svars, admin, now, mbackend, mserver, mexpiry, faults, hidden>>

RecordLeaseError(m) ==
  /\ mpc[m] = "record"
  /\ \/ UNCHANGED lease
     \/ lease' = [lease EXCEPT ![m] = "pending"]
  /\ MintGoto(m, "undoKey") /\ MintFault(m)
  /\ UNCHANGED <<iam, svars, admin, now, mbackend, mserver, mexpiry, hidden>>

\* The undo calls are best effort: their errors are dropped.
UndoKey(m) ==
  /\ mpc[m] = "undoKey"
  /\ \/ MintCall(m, "undoKey") /\ Remove(keys, mserver[m], m) /\ UNCHANGED faults
     \/ MintFault(m) /\ UNCHANGED keys
  /\ MintGoto(m, "undoUser")
  /\ UNCHANGED <<users, svars, admin, lease, now, mbackend, mserver, mexpiry, hidden>>

UndoUser(m) ==
  /\ mpc[m] = "undoUser"
  /\ \/ /\ MintCall(m, "undoUser") /\ Deletable(mserver[m], m)
        /\ Remove(users, mserver[m], m) /\ UNCHANGED faults
     \/ MintFault(m) /\ UNCHANGED users
  /\ MintGoto(m, "failed")
  /\ UNCHANGED <<keys, svars, admin, lease, now, mbackend, mserver, mexpiry, hidden>>

-----------------------------------------------------------------------------
(* Sweeping: sweepOnce, one step per call.                                 *)

\* Mutant of Expired: every unswept lease is taken for expired.
Unswept(t) == {m \in Mints : lease[m] = "pending"}

Expired(t) == {m \in Mints : lease[m] = "pending" /\ mexpiry[m] < t}

\* PendingSweep: at most BatchSize expired leases, oldest expiry first.
PendingSweep(t, b) ==
  /\ b \subseteq Expired(t)
  /\ Cardinality(b) <= BatchSize
  /\ b # Expired(t) => Cardinality(b) = BatchSize
  /\ \A m \in b, n \in Expired(t) \ b : mexpiry[m] <= mexpiry[n]

SweepBegin ==
  /\ spc = "idle" /\ Expired(now) # {}
  /\ batch' \in SUBSET Mints /\ PendingSweep(now, batch')
  /\ snow' = now
  /\ spc' = "next"
  /\ UNCHANGED <<iam, mvars, admin, lease, now, cur, sserver>>

\* A cycle that finds no lease to sweep.
SweepNothing == spc = "idle" /\ Expired(now) = {} /\ UNCHANGED vars

Oldest(m) == m \in batch /\ \A n \in batch : mexpiry[m] <= mexpiry[n]

\* Mutant of SweepResolve: an unregistered backend is not told apart.
SweepResolveBlindly(m) ==
  /\ spc = "next" /\ Oldest(m)
  /\ cur' = m
  /\ sserver' = reg[mbackend[m]] /\ spc' = "key"
  /\ UNCHANGED <<iam, mvars, admin, lease, now, batch, snow>>

\* RawCredentials for the lease's backend as registered NOW: an unregistered
\* one, or one of another kind, has nothing to clean up.  Of a backend without
\* credentials the kind is never looked at: that is an error, cycle after cycle.
SweepResolve(m) ==
  /\ spc = "next" /\ Oldest(m) /\ reg[mbackend[m]] # "noCredentials"
  /\ cur' = m
  /\ IF reg[mbackend[m]] \in Servers
     THEN sserver' = reg[mbackend[m]] /\ spc' = "key"
     ELSE sserver' = Null /\ spc' = "mark"
  /\ UNCHANGED <<iam, mvars, admin, lease, now, batch, snow>>

\* This lease is done with for this cycle; the next one, or the cycle's end.
SweepContinue(m) ==
  /\ batch' = batch \ {m}
  /\ cur' = Null /\ sserver' = Null
  /\ IF batch' = {} THEN spc' = "idle" /\ snow' = 0 ELSE spc' = "next" /\ snow' = snow

\* The registry could not be read, or has a record without credentials, or without
\* its Secret.
SweepResolveError(m) ==
  /\ spc = "next" /\ Oldest(m)
  /\ SweepContinue(m)
  /\ UNCHANGED <<iam, mvars, admin, lease, now>>

\* Deleting what is not there (NoSuchEntity) is a success.
SweepKey ==
  /\ spc = "key" /\ sserver \notin down
  /\ Remove(keys, sserver, cur)
  /\ spc' = "user"
  /\ UNCHANGED <<users, mvars, admin, lease, now, batch, cur, sserver, snow>>

\* Mutant of SweepKeyError: one failed lease ends the whole cycle.
SweepKeyErrorStops ==
  /\ spc = "key"
  /\ \/ UNCHANGED keys
     \/ sserver \notin down /\ Remove(keys, sserver, cur)
  /\ spc' = "idle" /\ batch' = {} /\ cur' = Null /\ sserver' = Null /\ snow' = 0
  /\ UNCHANGED <<users, mvars, admin, lease, now>>

SweepKeyError ==
  /\ spc = "key"
  /\ \/ UNCHANGED keys
     \/ sserver \notin down /\ Remove(keys, sserver, cur)
  /\ SweepContinue(cur)
  /\ UNCHANGED <<users, mvars, admin, lease, now>>

SweepUser ==
  /\ spc = "user" /\ sserver \notin down /\ Deletable(sserver, cur)
  /\ Remove(users, sserver, cur)
  /\ spc' = "mark"
  /\ UNCHANGED <<keys, mvars, admin, lease, now, batch, cur, sserver, snow>>

\* Mutant of SweepUserError: the error is dropped and the lease marked.
SweepUserErrorDropped ==
  /\ spc = "user"
  /\ spc' = "mark"
  /\ UNCHANGED <<iam, mvars, admin, lease, now, batch, cur, sserver, snow>>

SweepUserError ==
  /\ spc = "user"
  /\ \/ UNCHANGED users
     \/ sserver \notin down /\ Deletable(sserver, cur) /\ Remove(users, sserver, cur)
  /\ SweepContinue(cur)
  /\ UNCHANGED <<keys, mvars, admin, lease, now>>

MarkSwept ==
  /\ spc = "mark"
  /\ lease' = [lease EXCEPT ![cur] = "swept"]
  /\ SweepContinue(cur)
  /\ UNCHANGED <<iam, mvars, admin, now>>

MarkSweptError ==
  /\ spc = "mark"
  /\ SweepContinue(cur)
  /\ UNCHANGED <<iam, mvars, admin, lease, now>>

-----------------------------------------------------------------------------
(* The environment: administrators, the clock, outages and crashes.        *)

\* registry.Service.Update, Delete and Create as the two processes see them.
ChangeBackend(b, to) ==
  /\ AdminActs /\ reg[b] # to
  /\ \/ reg[b] \in Servers /\ to \in Servers \union {"gone"}   \* Update, Delete
     \/ reg[b] \in {"notS3", "noCredentials"} /\ to = "gone"   \* Delete
     \/ reg[b] = "gone"                                        \* Create
  /\ reg' = [reg EXCEPT ![b] = to]
  /\ moved' = moved \union {b}
  /\ UNCHANGED <<iam, mvars, svars, lease, now, down, crashes>>

Tick ==
  /\ now < MaxTime
  /\ now' = now + 1
  /\ UNCHANGED <<iam, mvars, svars, admin, lease>>

GoDown(s) ==
  /\ s \in MayGoDown \ down
  /\ down' = down \union {s}
  /\ UNCHANGED <<iam, mvars, svars, lease, now, reg, moved, crashes>>

Crash ==
  /\ crashes < MaxCrashes /\ crashes' = crashes + 1
  /\ mpc' = [m \in Mints |-> IF mpc[m] \in InFlight THEN "crashed" ELSE mpc[m]]
  /\ spc' = "idle" /\ batch' = {} /\ cur' = Null /\ sserver' = Null /\ snow' = 0
  /\ UNCHANGED <<iam, reg, moved, down, lease, now, mbackend, mserver, mexpiry, faults, hidden>>

MintStep(m) ==
  \/ \E b \in Backends : MintBegin(m, b)
  \/ CreateUser(m) \/ CreateUserError(m)
  \/ PutUserPolicy(m) \/ PutUserPolicyError(m)
  \/ (\E ttl \in TTLs : CreateAccessKey(m, ttl)) \/ CreateAccessKeyError(m)
  \/ RecordLease(m) \/ RecordLeaseError(m)
  \/ UndoKey(m) \/ UndoUser(m)

SweepStep ==
  \/ SweepBegin \/ SweepNothing
  \/ \E m \in Mints : SweepResolve(m) \/ SweepResolveError(m)
  \/ SweepKey \/ SweepKeyError
  \/ SweepUser \/ SweepUserError
  \/ MarkSwept \/ MarkSweptError

Next ==
  \/ \E m \in Mints : MintStep(m)
  \/ SweepStep
  \/ \E b \in Backends, to \in Servers \union Elsewhere : ChangeBackend(b, to)
  \/ Tick
  \/ \E s \in Servers : GoDown(s)
  \/ Crash

Spec == Init /\ [][Next]_vars

(***************************************************************************)
(* Fairness: Run's ticker keeps starting cycles and a cycle keeps going    *)
(* (weak fairness of the sweeper's steps taken together); the clock runs;  *)
(* and a call retried for ever to a server or database that answers does   *)
(* not fail every time (strong fairness of each successful outcome).  The  *)
(* process crashes at most MaxCrashes times: one that always crashes at    *)
(* the same lease never gets past it.                                      *)
(***************************************************************************)
Fairness ==
  /\ WF_vars(Tick)
  /\ WF_vars(SweepStep)
  /\ \A m \in Mints : SF_vars(SweepResolve(m))
  /\ \A m \in Mints : SF_vars(cur = m /\ SweepKey)
  /\ \A m \in Mints : SF_vars(cur = m /\ SweepUser)
  /\ \A m \in Mints : SF_vars(cur = m /\ MarkSwept)

FairSpec == Spec /\ Fairness

-----------------------------------------------------------------------------
(* Properties.                                                              *)

Exists(m) == m \in keys[mserver[m]] \/ m \in users[mserver[m]]

\* A credential handed to a caller stays on the sweeper's list as long as its
\* key or user exists, provided the backend is still registered as it was at
\* mint time: neither a crash, nor an error after the fact, nor a sweep that
\* gave up half way makes the module forget it (lease.Lease, sweepLease).
TrackedUntilGone ==
  \A m \in Mints :
    mpc[m] = "returned" /\ mbackend[m] \notin moved /\ Exists(m) => lease[m] = "pending"

\* A lease is marked swept only when its user and key are gone, provided its
\* backend's registration has not changed (sweepOnce "never falsely marks
\* success", sweep.go:73-76).
SweptMeansGone ==
  \A m \in Mints :
    lease[m] = "swept" /\ mbackend[m] \notin moved => ~Exists(m)

\* A caller's key keeps working until its lease has expired: no concurrent
\* sweep, retry or undo removes it early (seaweedfslease PendingSweep).
NoEarlyRevocation ==
  [][\A m \in Mints :
       /\ mpc[m] = "returned"
       /\ m \in keys[mserver[m]] /\ m \notin keys'[mserver[m]]
       => mexpiry[m] < now]_vars

\* "any failure after the user is created unwinds it" (seaweedfs_iam.go:57-58),
\* when no second call fails: a refused mint leaves neither user nor key.
SingleFailureUnwound ==
  \A m \in Mints :
    mpc[m] = "failed" /\ faults[m] <= 1 /\ m \notin hidden => ~Exists(m)

\* Every recorded lease is eventually swept, through crashes, failed calls and
\* other leases that can never be swept, unless its own server stops answering or
\* its backend's ID has come to name one without credentials.
LeasesAreSwept ==
  \A m \in Mints :
    lease[m] = "pending" ~>
      lease[m] = "swept" \/ \E b \in Backends : mbackend[m] = b /\ reg[b] \in down \union {"noCredentials"}

=============================================================================
