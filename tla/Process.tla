------------------------------- MODULE Process -------------------------------
(***************************************************************************)
(* The life of the replicas, run in cmd/storage/main.go: Startup followed  *)
(* by openEventBus and ListenAndServe, with the poller of EventBus beside  *)
(* them.  The steps that wait for other systems are timed or retried only  *)
(* where the code does that: everything else that fails ends the process,  *)
(* and the kubelet starts it again.                                        *)
(***************************************************************************)
EXTENDS Startup, EventBus

ASSUME SamePeers == Peers = Replicas

vars == <<startupVars, busVars>>

TypeOK == StartupTypeOK /\ BusTypeOK

Init == StartupInit /\ BusInit

\* Mutant of OpenBus: no replica serves before it has a bus.
OpenBusGated(r) ==
  /\ pc[r] = "bus" /\ Goto(r, "serving")
  /\ ConnectDirect(r) \/ (bus /\ StartNoop(r))
  /\ UNCHANGED <<waitVars, db, log, migrateVars, stops>>

OpenBus(r) ==
  /\ pc[r] = "bus" /\ Goto(r, "serving")
  /\ ConnectDirect(r) \/ StartNoop(r)
  /\ UNCHANGED <<waitVars, db, log, migrateVars, stops>>

\* The one dial of a direct bus fails, also when the bus is there.
OpenBusError(r) ==
  /\ pc[r] = "bus" /\ BusMode[r] = "direct"
  /\ Exit(r) /\ UNCHANGED stops

\* What the replica does by itself and stays.
Work(r) ==
  /\ \/ Start(r) \/ Ping(r) \/ PingAgain(r) \/ Wake(r)
     \/ TakeLock(r) \/ Apply(r) \/ Commit(r) \/ Verifier(r)
  /\ UNCHANGED busVars

\* What ends the process.
Leave(r) ==
  /\ GiveUp(r) \/ MigrateError(r) \/ OpenBusError(r) \/ Return(r)
  /\ Disconnect(r)

Interrupt(r) == (StartError(r) \/ Stop(r)) /\ Disconnect(r)

\* The poller runs until the process ends.
Poll(r) == (FindUrl(r) \/ ConnectError(r)) /\ UNCHANGED startupVars

Connected(r) == Connect(r) /\ UNCHANGED startupVars

Surroundings ==
  \/ (DatabaseChange /\ UNCHANGED busVars)
  \/ (BusChange /\ UNCHANGED startupVars)

Next ==
  \/ \E r \in Replicas :
       \/ Work(r) \/ OpenBus(r) \/ Leave(r) \/ Poll(r) \/ Connected(r)
       \/ Interrupt(r) \/ (Terminate(r) /\ UNCHANGED busVars)
  \/ (Tick /\ UNCHANGED busVars)
  \/ Surroundings

Spec == Init /\ [][Next]_vars

\* Time passes, the kubelet restarts, the processes run and Run's ticker ticks.
\* A dial that is tried for ever while the bus is there works at last, and
\* PostgreSQL serves those who wait for a lock in turn: a replica that restarts
\* for ever must not keep the others out.  The database, the bus and booth-core
\* owe nothing.
Fairness ==
  /\ WF_vars(Tick /\ UNCHANGED busVars)
  /\ \A r \in Replicas :
       /\ WF_vars(Work(r) \/ OpenBus(r) \/ Leave(r))
       /\ WF_vars(Poll(r))
       /\ SF_vars(TakeLock(r) /\ UNCHANGED busVars)
       /\ SF_vars(Connected(r))

FairSpec == Spec /\ Fairness

-----------------------------------------------------------------------------
(* Properties.                                                              *)

\* The migrations have run in filename order, each exactly once, whichever
\* images start side by side and wherever one of them dies, and a replica that
\* has left NewPostgresStore works on a schema that has all of its own
\* (postgres.go:67-68).
SchemaReady ==
  /\ \A v \in DOMAIN log : log[v] = v
  /\ \A r \in Replicas :
       pc[r] \in {"verifier", "bus", "serving", "closing"} => Known[r] <= Len(log)

\* However the database answers and however long each ping hangs, a wait ends
\* before maxElapsed and one longest backoff have passed (retry.go:24-26).
WaitEnds ==
  \A r \in Replicas : pc[r] = "wait" => age[r] + timer[r] < MaxElapsed + MaxBackoff

\* The bus never gates a start (main.go:110-113, lazy.go:21-23): once the
\* database stays up, and starts stop failing for other reasons (MaxStops bounds
\* those, the identity provider's discovery among them), every replica that is not
\* configured for a direct bus serves for good, whatever becomes of the bus and of
\* its Secret.
EventuallyServes ==
  <>[](db = "up") =>
    \A r \in Replicas : BusMode[r] # "direct" => <>[](pc[r] = "serving")

\* A replica that started without a bus publishes for good once the Secret is
\* mounted and the bus is there, however often it failed before
\* (lazy.go:50-71).
EventuallyPublishes ==
  <>[](db = "up" /\ bus /\ mount = Files) =>
    \A r \in Replicas : BusMode[r] = "lazy" => <>[](conn[r] = "nats")

=============================================================================
