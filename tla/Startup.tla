------------------------------- MODULE Startup -------------------------------
(***************************************************************************)
(* How a replica of booth-storage starts and stops: run and openStores in  *)
(* cmd/storage/main.go, NewPostgresStore and migrate in                    *)
(* internal/registry/postgres.go, and Retry in internal/dbwait/retry.go,   *)
(* with the kubelet that restarts it and a database that comes and goes.    *)
(* Replicas of two images run side by side while a rollout is under way.    *)
(*                                                                         *)
(* Time is counted in units of Retry's first backoff.  What happens after   *)
(* the verifier has been made is in Process.                               *)
(***************************************************************************)
EXTENDS Naturals, Sequences

CONSTANTS
  Replicas,    \* the processes, over all their restarts
  Known,       \* the number of migrations in each one's image
  MaxElapsed,  \* DefaultMaxElapsed
  MaxBackoff,  \* maxBackoff
  MaxStops,    \* bound on stops, passing failures and losses of the database
  Null

ASSUME StartupAssumption ==
  /\ Known \in [Replicas -> Nat]
  /\ MaxElapsed \in Nat /\ MaxBackoff \in Nat \ {0}
  /\ MaxStops \in Nat
  /\ Null \notin Replicas

VARIABLES
  pc,       \* where each replica is
  age,      \* time since it began to connect; no longer counted past Horizon
  backoff,  \* Retry's next wait
  timer,    \* what is left of the present one
  db,       \* how the database answers
  log,      \* storage_schema_migrations: the committed versions, in order
  lock,     \* who holds the advisory lock
  next,     \* the migration that migrate looks at
  tx,       \* the versions applied in its open transaction
  stops     \* history: stops, passing failures and losses of the database

waitVars    == <<age, backoff, timer>>
migrateVars == <<lock, next, tx>>
startupVars == <<pc, waitVars, db, log, migrateVars, stops>>

PCs == {"down", "ping", "wait", "migrate", "apply", "verifier", "bus", "serving",
        "closing"}

\* The database may refuse connections or be starting up, or turn this module
\* away for good: wrong credentials, a missing database.
Answers == {"up", "starting", "rejecting"}

\* Beyond this age nothing depends on it any more.
Horizon == MaxElapsed + MaxBackoff

StartupTypeOK ==
  /\ pc \in [Replicas -> PCs]
  /\ age \in [Replicas -> 0..Horizon]
  /\ backoff \in [Replicas -> 1..MaxBackoff]
  /\ timer \in [Replicas -> 0..MaxBackoff]
  /\ db \in Answers
  /\ log \in Seq(Nat)
  /\ lock \in Replicas \union {Null}
  /\ next \in [Replicas -> Nat]
  /\ tx \in [Replicas -> Seq(Nat)]
  /\ stops \in 0..MaxStops

StartupInit ==
  /\ pc = [r \in Replicas |-> "down"]
  /\ age = [r \in Replicas |-> 0]
  /\ backoff = [r \in Replicas |-> 1]
  /\ timer = [r \in Replicas |-> 0]
  /\ db \in Answers
  /\ log = <<>> /\ lock = Null
  /\ next = [r \in Replicas |-> 1]
  /\ tx = [r \in Replicas |-> <<>>]
  /\ stops = 0

Goto(r, at) == pc' = [pc EXCEPT ![r] = at]

\* The process ends; its connections go with it, and PostgreSQL rolls back.
Exit(r) ==
  /\ Goto(r, "down")
  /\ age' = [age EXCEPT ![r] = 0]
  /\ backoff' = [backoff EXCEPT ![r] = 1]
  /\ timer' = [timer EXCEPT ![r] = 0]
  /\ lock' = IF lock = r THEN Null ELSE lock
  /\ next' = [next EXCEPT ![r] = 1]
  /\ tx' = [tx EXCEPT ![r] = <<>>]
  /\ UNCHANGED <<db, log>>

\* The kubelet starts the container, again and again.
Start(r) ==
  /\ pc[r] = "down" /\ Goto(r, "ping")
  /\ UNCHANGED <<waitVars, db, log, migrateVars, stops>>

-----------------------------------------------------------------------------
(* Retry around the first ping.                                             *)

Retryable(answer) == answer = "starting"

\* The wait is over once connected; what follows is not timed.
Ping(r) ==
  /\ pc[r] = "ping" /\ db = "up"
  /\ Goto(r, "migrate")
  /\ age' = [age EXCEPT ![r] = 0]
  /\ backoff' = [backoff EXCEPT ![r] = 1]
  /\ UNCHANGED <<timer, db, log, migrateVars, stops>>

\* Mutant of Doubled: the wait is not capped.
DoubledUncapped(b) == 2 * b

Doubled(b) == IF 2 * b > MaxBackoff THEN MaxBackoff ELSE 2 * b

\* Mutant of PingAgain: only the number of failures could end the loop.
PingAgainUntimed(r) ==
  /\ pc[r] = "ping" /\ Retryable(db)
  /\ Goto(r, "wait")
  /\ timer' = [timer EXCEPT ![r] = backoff[r]]
  /\ backoff' = [backoff EXCEPT ![r] = Doubled(@)]
  /\ UNCHANGED <<age, db, log, migrateVars, stops>>

\* A failure that may pass, before the deadline.
PingAgain(r) ==
  /\ pc[r] = "ping" /\ Retryable(db) /\ age[r] < MaxElapsed
  /\ Goto(r, "wait")
  /\ timer' = [timer EXCEPT ![r] = backoff[r]]
  /\ backoff' = [backoff EXCEPT ![r] = Doubled(@)]
  /\ UNCHANGED <<age, db, log, migrateVars, stops>>

\* A failure that will not pass, or the deadline.
GiveUp(r) ==
  /\ pc[r] = "ping"
  /\ db # "up" /\ (Retryable(db) => age[r] >= MaxElapsed)
  /\ Exit(r) /\ UNCHANGED stops

Wake(r) ==
  /\ pc[r] = "wait" /\ timer[r] = 0
  /\ Goto(r, "ping")
  /\ UNCHANGED <<waitVars, db, log, migrateVars, stops>>

\* A ping may hang, but a timer that has run out fires at once.
Tick ==
  /\ \E r \in Replicas : pc[r] \in {"ping", "wait"} /\ age[r] < Horizon
  /\ \A r \in Replicas : pc[r] = "wait" => timer[r] > 0
  /\ age' = [r \in Replicas |->
       IF pc[r] \in {"ping", "wait"} /\ age[r] < Horizon THEN age[r] + 1 ELSE age[r]]
  /\ timer' = [r \in Replicas |-> IF pc[r] = "wait" THEN timer[r] - 1 ELSE timer[r]]
  /\ UNCHANGED <<pc, backoff, db, log, migrateVars, stops>>

-----------------------------------------------------------------------------
(* migrate.                                                                 *)

\* Mutant of TakeLock: the lock is not waited for.
TakeLockUnheld(r) ==
  /\ pc[r] = "migrate" /\ db = "up"
  /\ lock' = r
  /\ Goto(r, "apply")
  /\ UNCHANGED <<waitVars, db, log, next, tx, stops>>

\* pg_advisory_xact_lock, first thing in the transaction.
TakeLock(r) ==
  /\ pc[r] = "migrate" /\ db = "up" /\ lock = Null
  /\ lock' = r
  /\ Goto(r, "apply")
  /\ UNCHANGED <<waitVars, db, log, next, tx, stops>>

Applied(r, v) == \E s \in {log, tx[r]} : \E i \in DOMAIN s : s[i] = v

\* Each statement sees what has been committed before it and what its own
\* transaction has done; a version that is not there yet is applied.
Apply(r) ==
  /\ pc[r] = "apply" /\ db = "up" /\ next[r] <= Known[r]
  /\ tx' = IF Applied(r, next[r]) THEN tx ELSE [tx EXCEPT ![r] = Append(@, next[r])]
  /\ next' = [next EXCEPT ![r] = @ + 1]
  /\ UNCHANGED <<pc, waitVars, db, log, lock, stops>>

\* A commit whose answer is lost is this step and then an Exit.
Commit(r) ==
  /\ pc[r] = "apply" /\ db = "up" /\ next[r] > Known[r]
  /\ log' = log \o tx[r]
  /\ lock' = Null
  /\ tx' = [tx EXCEPT ![r] = <<>>]
  /\ next' = [next EXCEPT ![r] = 1]
  /\ Goto(r, "verifier")
  /\ UNCHANGED <<waitVars, db, stops>>

\* Nothing in here is retried: a lost connection or a failing statement ends
\* the process, whatever the reason.
MigrateError(r) ==
  /\ pc[r] \in {"migrate", "apply"} /\ db # "up"
  /\ Exit(r) /\ UNCHANGED stops

-----------------------------------------------------------------------------
(* The rest of run, and what is done to a replica.                          *)

\* NewVerifier, after the sweeper has been started.
Verifier(r) ==
  /\ pc[r] = "verifier" /\ Goto(r, "bus")
  /\ UNCHANGED <<waitVars, db, log, migrateVars, stops>>

Count == stops < MaxStops /\ stops' = stops + 1

\* The discovery of the identity provider (auth.go:148), or a statement of migrate,
\* fails this time.  There is no retry within a start: while the provider is away
\* every start ends here, of which MaxStops allows only so many.
StartError(r) ==
  /\ pc[r] \in {"migrate", "apply", "verifier"}
  /\ Count /\ Exit(r)

\* SIGTERM while starting, a crash at any time, or the kubelet's kill of a
\* replica that does not answer /livez yet: nothing listens before the last
\* step of a start.
Stop(r) == pc[r] # "down" /\ Count /\ Exit(r)

\* SIGTERM: ListenAndServe returns at once, and run with it.
Terminate(r) ==
  /\ pc[r] = "serving" /\ Count
  /\ Goto(r, "closing")
  /\ UNCHANGED <<waitVars, db, log, migrateVars>>

\* The deferred calls are done, whatever requests are still under way.
Return(r) == pc[r] = "closing" /\ Exit(r) /\ UNCHANGED stops

DatabaseChange ==
  /\ db' \in Answers \ {db}
  /\ db = "up" => stops < MaxStops
  /\ stops' = IF db = "up" THEN stops + 1 ELSE stops
  /\ UNCHANGED <<pc, waitVars, log, migrateVars>>

=============================================================================
