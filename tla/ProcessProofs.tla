---------------------------- MODULE ProcessProofs ----------------------------
(***************************************************************************)
(* Proofs about Process, for any number of replicas, any images and any    *)
(* bounds.                                                                 *)
(*                                                                         *)
(* The inductive part of SchemaReady is Migrating: only the holder of the  *)
(* advisory lock has an open transaction, and what that one has applied    *)
(* continues the committed log without a gap.                              *)
(***************************************************************************)
EXTENDS Process, SequenceTheorems, TLAPS

Migrating ==
  \A r \in Replicas :
    /\ pc[r] = "apply" <=> lock = r
    /\ pc[r] # "apply" => Len(tx[r]) = 0 /\ next[r] = 1
    /\ pc[r] = "apply" =>
         /\ next[r] \in 1..(Known[r] + 1)
         /\ next[r] - 1 <= Len(log) + Len(tx[r])
         /\ Len(tx[r]) > 0 => Len(log) + Len(tx[r]) = next[r] - 1
         /\ \A i \in 1..Len(tx[r]) : tx[r][i] = Len(log) + i

IInv == TypeOK /\ WaitEnds /\ SchemaReady /\ Migrating

-----------------------------------------------------------------------------
(* The types.                                                               *)

LEMMA GotoTypes ==
  ASSUME TypeOK, NEW r \in Replicas, NEW at \in PCs, Goto(r, at)
  PROVE  pc' \in [Replicas -> PCs]
BY DEF TypeOK, StartupTypeOK, Goto

LEMMA StopsCounted ==
  ASSUME TypeOK, Count PROVE stops' \in 0..MaxStops
<1>1. stops \in 0..MaxStops /\ MaxStops \in Nat
  BY StartupAssumption DEF TypeOK, StartupTypeOK
<1> QED BY <1>1 DEF Count

LEMMA ExitTypes ==
  ASSUME TypeOK, NEW r \in Replicas, Exit(r), Disconnect(r), stops' \in 0..MaxStops
  PROVE  TypeOK'
<1>1. pc' \in [Replicas -> PCs]
  BY GotoTypes DEF Exit, PCs
<1>2. age' \in [Replicas -> 0..Horizon]
  BY StartupAssumption DEF TypeOK, StartupTypeOK, Exit, Horizon
<1>3. backoff' \in [Replicas -> 1..MaxBackoff] /\ timer' \in [Replicas -> 0..MaxBackoff]
  BY StartupAssumption DEF TypeOK, StartupTypeOK, Exit
<1>4. /\ lock' \in Replicas \union {Null} /\ next' \in [Replicas -> Nat]
      /\ tx' \in [Replicas -> Seq(Nat)] /\ UNCHANGED <<db, log>>
  BY DEF TypeOK, StartupTypeOK, Exit
<1>5. StartupTypeOK'
  BY <1>1, <1>2, <1>3, <1>4 DEF TypeOK, StartupTypeOK
<1>6. BusTypeOK'
  BY SamePeers DEF TypeOK, BusTypeOK, Disconnect
<1> QED BY <1>5, <1>6 DEF TypeOK

LEMMA WaitTypes ==
  ASSUME TypeOK, NEW r \in Replicas, UNCHANGED busVars,
         Start(r) \/ Ping(r) \/ PingAgain(r) \/ Wake(r)
  PROVE  TypeOK'
<1>1. BusTypeOK'
  BY DEF TypeOK, BusTypeOK, busVars
<1>2. pc' \in [Replicas -> PCs]
  BY GotoTypes DEF Start, Ping, PingAgain, Wake, PCs
<1>3. UNCHANGED <<db, log, lock, next, tx, stops>>
  BY DEF Start, Ping, PingAgain, Wake, migrateVars
<1>4. /\ age' \in [Replicas -> 0..Horizon]
      /\ backoff' \in [Replicas -> 1..MaxBackoff]
      /\ timer' \in [Replicas -> 0..MaxBackoff]
  <2>1. /\ age \in [Replicas -> 0..Horizon]
        /\ backoff \in [Replicas -> 1..MaxBackoff]
        /\ timer \in [Replicas -> 0..MaxBackoff]
        /\ MaxElapsed \in Nat /\ MaxBackoff \in Nat \ {0} /\ Horizon \in Nat
    <3>1. /\ age \in [Replicas -> 0..Horizon]
          /\ backoff \in [Replicas -> 1..MaxBackoff]
          /\ timer \in [Replicas -> 0..MaxBackoff]
      BY Zenon DEF TypeOK, StartupTypeOK
    <3>2. MaxElapsed \in Nat /\ MaxBackoff \in Nat \ {0}
      BY Zenon, StartupAssumption
    <3>3. Horizon \in Nat
      BY <3>2 DEF Horizon
    <3> QED BY Zenon, <3>1, <3>2, <3>3
  <2>2. CASE Start(r) \/ Wake(r)
    BY <2>1, <2>2 DEF Start, Wake, waitVars
  <2>3. CASE Ping(r)
    BY <2>1, <2>3 DEF Ping
  <2>4. CASE PingAgain(r)
    <3>1. Doubled(backoff[r]) \in 1..MaxBackoff
      BY <2>1 DEF Doubled
    <3> QED BY <2>1, <2>4, <3>1 DEF PingAgain
  <2> QED BY <2>2, <2>3, <2>4
<1>5. StartupTypeOK'
  BY <1>2, <1>3, <1>4 DEF TypeOK, StartupTypeOK
<1> QED BY <1>1, <1>5 DEF TypeOK

LEMMA MigrateTypes ==
  ASSUME TypeOK, NEW r \in Replicas, UNCHANGED busVars,
         TakeLock(r) \/ Apply(r) \/ Commit(r) \/ Verifier(r) \/ Terminate(r)
  PROVE  TypeOK'
<1>1. BusTypeOK'
  BY DEF TypeOK, BusTypeOK, busVars
<1>2. pc' \in [Replicas -> PCs]
  <2>1. CASE Apply(r)
    BY <2>1 DEF Apply, TypeOK, StartupTypeOK
  <2> QED BY <2>1, GotoTypes DEF TakeLock, Commit, Verifier, Terminate, PCs
<1>3. UNCHANGED <<age, backoff, timer, db>>
  BY DEF TakeLock, Apply, Commit, Verifier, Terminate, waitVars
<1>4. stops' \in 0..MaxStops
  BY StopsCounted DEF TakeLock, Apply, Commit, Verifier, Terminate, TypeOK, StartupTypeOK
<1>5. /\ log' \in Seq(Nat) /\ lock' \in Replicas \union {Null}
      /\ next' \in [Replicas -> Nat] /\ tx' \in [Replicas -> Seq(Nat)]
  <2>1. /\ log \in Seq(Nat) /\ lock \in Replicas \union {Null}
        /\ next \in [Replicas -> Nat] /\ tx \in [Replicas -> Seq(Nat)]
    BY DEF TypeOK, StartupTypeOK
  <2>2. CASE TakeLock(r) \/ Verifier(r) \/ Terminate(r)
    BY <2>1, <2>2 DEF TakeLock, Verifier, Terminate, migrateVars
  <2>3. CASE Apply(r)
    <3>1. next[r] \in Nat /\ Append(tx[r], next[r]) \in Seq(Nat)
      BY <2>1
    <3> QED BY <2>1, <2>3, <3>1 DEF Apply
  <2>4. CASE Commit(r)
    <3>1. log \o tx[r] \in Seq(Nat)
      BY <2>1, ConcatProperties
    <3> QED BY <2>1, <2>4, <3>1 DEF Commit
  <2> QED BY <2>2, <2>3, <2>4
<1>6. StartupTypeOK'
  BY <1>2, <1>3, <1>4, <1>5 DEF TypeOK, StartupTypeOK
<1> QED BY <1>1, <1>6 DEF TypeOK

LEMMA BusTypes ==
  ASSUME TypeOK, NEW r \in Replicas, OpenBus(r) \/ Poll(r) \/ Connected(r)
  PROVE  TypeOK'
<1> USE SamePeers DEF TypeOK, StartupTypeOK, BusTypeOK, PCs, Goto
<1>1. CASE OpenBus(r)
  BY <1>1 DEF OpenBus, ConnectDirect, StartNoop, waitVars, migrateVars
<1>2. CASE Poll(r)
  BY <1>2 DEF Poll, FindUrl, ConnectError, startupVars, waitVars, migrateVars
<1>3. CASE Connected(r)
  BY <1>3 DEF Connected, Connect, startupVars, waitVars, migrateVars
<1> QED BY <1>1, <1>2, <1>3

LEMMA TickTypes == TypeOK /\ Tick /\ UNCHANGED busVars => TypeOK'
<1> SUFFICES ASSUME TypeOK, Tick, UNCHANGED busVars PROVE TypeOK'
  OBVIOUS
<1> USE StartupAssumption
<1>1. /\ age \in [Replicas -> 0..Horizon] /\ timer \in [Replicas -> 0..MaxBackoff]
      /\ Horizon \in Nat
  BY DEF TypeOK, StartupTypeOK, Horizon
<1>2. /\ age' = [r \in Replicas |->
           IF pc[r] \in {"ping", "wait"} /\ age[r] < Horizon THEN age[r] + 1 ELSE age[r]]
      /\ timer' = [r \in Replicas |-> IF pc[r] = "wait" THEN timer[r] - 1 ELSE timer[r]]
      /\ \A r \in Replicas : pc[r] = "wait" => timer[r] > 0
  BY DEF Tick
<1>3. ASSUME NEW r \in Replicas
      PROVE  /\ (IF pc[r] \in {"ping", "wait"} /\ age[r] < Horizon
                  THEN age[r] + 1 ELSE age[r]) \in 0..Horizon
             /\ (IF pc[r] = "wait" THEN timer[r] - 1 ELSE timer[r]) \in 0..MaxBackoff
  <2>1. age[r] \in 0..Horizon /\ timer[r] \in 0..MaxBackoff
    BY <1>1
  <2> QED BY <1>1, <1>2, <2>1
<1>4. age' \in [Replicas -> 0..Horizon] /\ timer' \in [Replicas -> 0..MaxBackoff]
  BY <1>2, <1>3
<1> QED BY <1>4 DEF TypeOK, StartupTypeOK, BusTypeOK, Tick, busVars, migrateVars

LEMMA SurroundingsTypes == TypeOK /\ Surroundings => TypeOK'
<1> SUFFICES ASSUME TypeOK, Surroundings PROVE TypeOK'
  OBVIOUS
<1>1. CASE DatabaseChange /\ UNCHANGED busVars
  <2>1. /\ UNCHANGED <<pc, age, backoff, timer, log, lock, next, tx>>
        /\ db' \in Answers
    BY <1>1 DEF DatabaseChange, waitVars, migrateVars
  <2>2. stops' \in 0..MaxStops
    <3>1. stops \in 0..MaxStops /\ MaxStops \in Nat
      BY StartupAssumption DEF TypeOK, StartupTypeOK
    <3>2. stops' = stops \/ (stops < MaxStops /\ stops' = stops + 1)
      BY <1>1 DEF DatabaseChange
    <3> QED BY <3>1, <3>2
  <2>3. StartupTypeOK'
    BY <2>1, <2>2 DEF TypeOK, StartupTypeOK
  <2>4. BusTypeOK'
    BY <1>1 DEF TypeOK, BusTypeOK, busVars
  <2> QED BY <2>3, <2>4 DEF TypeOK
<1>2. CASE BusChange /\ UNCHANGED startupVars
  <2>1. StartupTypeOK'
    BY <1>2 DEF TypeOK, StartupTypeOK, startupVars, waitVars, migrateVars
  <2>2. BusTypeOK'
    BY <1>2 DEF TypeOK, BusTypeOK, BusChange
  <2> QED BY <2>1, <2>2 DEF TypeOK
<1> QED BY <1>1, <1>2 DEF Surroundings

\* Every step that ends the process is an Exit, whatever brought it about.
LEMMA Ends ==
  ASSUME TypeOK, NEW r \in Replicas, Leave(r) \/ Interrupt(r)
  PROVE  Exit(r) /\ Disconnect(r) /\ stops' \in 0..MaxStops
<1>1. CASE Leave(r)
  <2>1. Exit(r) /\ Disconnect(r) /\ UNCHANGED stops
    BY <1>1 DEF Leave, GiveUp, MigrateError, OpenBusError, Return
  <2> QED BY <2>1 DEF TypeOK, StartupTypeOK
<1>2. CASE Interrupt(r)
  <2>1. Exit(r) /\ Disconnect(r) /\ Count
    BY <1>2 DEF Interrupt, StartError, Stop
  <2> QED BY <2>1, StopsCounted
<1> QED BY <1>1, <1>2

LEMMA TypeStep == TypeOK /\ [Next]_vars => TypeOK'
<1> SUFFICES ASSUME TypeOK, [Next]_vars PROVE TypeOK'
  OBVIOUS
<1>1. CASE UNCHANGED vars
  BY <1>1 DEF TypeOK, StartupTypeOK, BusTypeOK, vars, startupVars, busVars, waitVars, migrateVars
<1>2. ASSUME NEW r \in Replicas, Work(r) PROVE TypeOK'
  BY <1>2, WaitTypes, MigrateTypes DEF Work
<1>3. ASSUME NEW r \in Replicas, Leave(r) \/ Interrupt(r) PROVE TypeOK'
  BY <1>3, Ends, ExitTypes
<1>4. ASSUME NEW r \in Replicas, Terminate(r), UNCHANGED busVars PROVE TypeOK'
  BY <1>4, MigrateTypes
<1>5. ASSUME NEW r \in Replicas, OpenBus(r) \/ Poll(r) \/ Connected(r) PROVE TypeOK'
  BY <1>5, BusTypes
<1> QED BY <1>1, <1>2, <1>3, <1>4, <1>5, TickTypes, SurroundingsTypes DEF Next

-----------------------------------------------------------------------------
(* Retry.                                                                   *)

\* A step of one replica that does not begin a wait leaves the others waiting
\* as they were.
LEMMA WaitKept ==
  ASSUME TypeOK, WaitEnds, NEW r \in Replicas, NEW at \in PCs \ {"wait"},
         Goto(r, at),
         \A s \in Replicas \ {r} : age'[s] = age[s] /\ timer'[s] = timer[s]
  PROVE  WaitEnds'
BY DEF TypeOK, StartupTypeOK, WaitEnds, Goto

LEMMA WaitBegins ==
  ASSUME TypeOK, WaitEnds, NEW r \in Replicas, PingAgain(r)
  PROVE  WaitEnds'
<1> USE StartupAssumption
<1>1. /\ age[r] \in Nat /\ backoff[r] \in 1..MaxBackoff /\ age[r] < MaxElapsed
      /\ timer \in [Replicas -> 0..MaxBackoff] /\ age' = age
      /\ timer' = [timer EXCEPT ![r] = backoff[r]]
      /\ pc' = [pc EXCEPT ![r] = "wait"] /\ pc \in [Replicas -> PCs]
  BY DEF TypeOK, StartupTypeOK, Horizon, PingAgain, Goto
<1> QED BY <1>1 DEF WaitEnds

LEMMA TickWaits == TypeOK /\ WaitEnds /\ Tick => WaitEnds'
<1> SUFFICES ASSUME TypeOK, WaitEnds, Tick, NEW r \in Replicas, pc'[r] = "wait"
             PROVE  age'[r] + timer'[r] < MaxElapsed + MaxBackoff
  BY DEF WaitEnds
<1>1. /\ pc[r] = "wait" /\ age[r] \in Nat /\ timer[r] \in Nat
      /\ MaxElapsed \in Nat /\ MaxBackoff \in Nat
      /\ timer'[r] = timer[r] - 1 /\ age'[r] \in {age[r], age[r] + 1}
  BY StartupAssumption DEF TypeOK, StartupTypeOK, Horizon, Tick
<1>2. age[r] + timer[r] < MaxElapsed + MaxBackoff
  BY <1>1 DEF WaitEnds
<1> QED BY <1>1, <1>2

LEMMA WaitStep == TypeOK /\ WaitEnds /\ [Next]_vars => WaitEnds'
<1> SUFFICES ASSUME TypeOK, WaitEnds, [Next]_vars PROVE WaitEnds'
  OBVIOUS
<1>1. ASSUME UNCHANGED <<pc, waitVars>> PROVE WaitEnds'
  BY <1>1 DEF WaitEnds, waitVars
<1>2. ASSUME NEW r \in Replicas, Exit(r) PROVE WaitEnds'
  <2>1. /\ Goto(r, "down")
        /\ \A s \in Replicas \ {r} : age'[s] = age[s] /\ timer'[s] = timer[s]
    BY <1>2 DEF Exit, TypeOK, StartupTypeOK
  <2> QED BY <2>1, WaitKept DEF PCs
<1>3. ASSUME NEW r \in Replicas, Work(r) PROVE WaitEnds'
  <2>1. CASE PingAgain(r)
    BY <2>1, WaitBegins
  <2>2. CASE Ping(r)
    <3>1. /\ Goto(r, "migrate")
          /\ \A s \in Replicas \ {r} : age'[s] = age[s] /\ timer'[s] = timer[s]
      BY <2>2 DEF Ping, TypeOK, StartupTypeOK
    <3> QED BY <3>1, WaitKept DEF PCs
  <2>3. CASE Apply(r)
    BY <2>3, <1>1 DEF Apply
  <2>4. CASE Start(r) \/ Wake(r) \/ TakeLock(r) \/ Commit(r) \/ Verifier(r)
    <3>1. /\ \E at \in PCs \ {"wait"} : Goto(r, at)
          /\ UNCHANGED waitVars
      BY <2>4 DEF Start, Wake, TakeLock, Commit, Verifier, PCs
    <3> QED BY <3>1, WaitKept DEF waitVars
  <2> QED BY <1>3, <2>1, <2>2, <2>3, <2>4 DEF Work
<1>4. ASSUME NEW r \in Replicas, OpenBus(r) \/ Terminate(r) PROVE WaitEnds'
  <2>1. (Goto(r, "serving") \/ Goto(r, "closing")) /\ UNCHANGED waitVars
    BY <1>4 DEF OpenBus, Terminate
  <2> QED BY <2>1, WaitKept DEF PCs, waitVars
<1>5. ASSUME NEW r \in Replicas, Poll(r) \/ Connected(r) PROVE WaitEnds'
  BY <1>5, <1>1 DEF Poll, Connected, startupVars
<1>6. CASE Surroundings \/ UNCHANGED vars
  BY <1>6, <1>1 DEF Surroundings, DatabaseChange, vars, startupVars
<1> QED BY <1>2, <1>3, <1>4, <1>5, <1>6, Ends, TickWaits DEF Next

-----------------------------------------------------------------------------
(* migrate.                                                                 *)

\* What SchemaReady and Migrating are about.
schema == <<pc, log, lock, next, tx>>

LEMMA SchemaKept ==
  IInv /\ UNCHANGED schema => SchemaReady' /\ Migrating'
BY DEF IInv, SchemaReady, Migrating, schema

\* A replica that goes on without touching the schema: neither from nor to the
\* transaction, and past migrate only if it was.
LEMMA SchemaUntouched ==
  ASSUME IInv, NEW r \in Replicas, NEW at \in PCs, Goto(r, at),
         UNCHANGED <<log, lock, next, tx>>,
         pc[r] # "apply", at # "apply",
         at \in {"verifier", "bus", "serving", "closing"} =>
           pc[r] \in {"verifier", "bus", "serving", "closing"}
  PROVE  SchemaReady' /\ Migrating'
<1>1. pc' = [pc EXCEPT ![r] = at] /\ pc \in [Replicas -> PCs]
  BY DEF Goto, IInv, TypeOK, StartupTypeOK
<1>2. SchemaReady'
  BY <1>1 DEF IInv, SchemaReady
<1>3. Migrating'
  BY <1>1 DEF IInv, Migrating
<1> QED BY <1>2, <1>3

LEMMA ExitSchema ==
  ASSUME IInv, NEW r \in Replicas, Exit(r)
  PROVE  SchemaReady' /\ Migrating'
<1>1. /\ pc' = [pc EXCEPT ![r] = "down"] /\ pc \in [Replicas -> PCs]
      /\ next' = [next EXCEPT ![r] = 1] /\ next \in [Replicas -> Nat]
      /\ tx' = [tx EXCEPT ![r] = <<>>] /\ tx \in [Replicas -> Seq(Nat)]
      /\ lock' = IF lock = r THEN Null ELSE lock
      /\ log' = log /\ Null \notin Replicas
  BY StartupAssumption DEF Exit, Goto, IInv, TypeOK, StartupTypeOK
<1>2. SchemaReady'
  BY <1>1 DEF IInv, SchemaReady
<1>3. Len(tx'[r]) = 0
  BY <1>1
<1>4. Migrating'
  BY <1>1, <1>3 DEF IInv, Migrating
<1> QED BY <1>2, <1>4

LEMMA TakeLockSchema ==
  ASSUME IInv, NEW r \in Replicas, TakeLock(r)
  PROVE  SchemaReady' /\ Migrating'
<1>1. /\ pc' = [pc EXCEPT ![r] = "apply"] /\ pc \in [Replicas -> PCs]
      /\ pc[r] = "migrate" /\ lock = Null /\ lock' = r
      /\ UNCHANGED <<log, next, tx>>
      /\ Known \in [Replicas -> Nat] /\ Null \notin Replicas
      /\ log \in Seq(Nat)
  BY StartupAssumption DEF TakeLock, Goto, IInv, TypeOK, StartupTypeOK
<1>2. SchemaReady'
  BY <1>1 DEF IInv, SchemaReady
<1>3. /\ \A s \in Replicas : pc[s] # "apply"
      /\ \A s \in Replicas : Len(tx[s]) = 0 /\ next[s] = 1
  BY <1>1 DEF IInv, Migrating
<1>4. Migrating'
  BY <1>1, <1>3 DEF Migrating
<1> QED BY <1>2, <1>4

\* A version that is not there is the one after all that are.
LEMMA ApplySchema ==
  ASSUME IInv, NEW r \in Replicas, Apply(r)
  PROVE  SchemaReady' /\ Migrating'
<1>1. /\ pc[r] = "apply" /\ next[r] <= Known[r] /\ UNCHANGED <<pc, log, lock>>
      /\ next' = [next EXCEPT ![r] = @ + 1] /\ next \in [Replicas -> Nat]
      /\ tx' = IF Applied(r, next[r]) THEN tx ELSE [tx EXCEPT ![r] = Append(@, next[r])]
      /\ tx \in [Replicas -> Seq(Nat)] /\ log \in Seq(Nat)
      /\ Known[r] \in Nat /\ next[r] \in Nat /\ tx[r] \in Seq(Nat)
  BY StartupAssumption DEF Apply, IInv, TypeOK, StartupTypeOK
<1>2. SchemaReady'
  BY <1>1 DEF IInv, SchemaReady
<1>3. /\ next[r] \in 1..(Known[r] + 1)
      /\ next[r] - 1 <= Len(log) + Len(tx[r])
      /\ Len(tx[r]) > 0 => Len(log) + Len(tx[r]) = next[r] - 1
      /\ \A i \in 1..Len(tx[r]) : tx[r][i] = Len(log) + i
      /\ \A v \in DOMAIN log : log[v] = v
  BY <1>1 DEF IInv, Migrating, SchemaReady
<1>4. /\ \A s \in Replicas \ {r} : next'[s] = next[s] /\ tx'[s] = tx[s]
      /\ next'[r] = next[r] + 1
  BY <1>1
<1>5. /\ DOMAIN log = 1..Len(log) /\ DOMAIN tx[r] = 1..Len(tx[r])
      /\ Len(log) \in Nat /\ Len(tx[r]) \in Nat /\ next[r] \in Nat
  BY <1>1
<1>6. Applied(r, next[r]) <=> \/ \E i \in 1..Len(log) : log[i] = next[r]
                             \/ \E i \in 1..Len(tx[r]) : tx[r][i] = next[r]
  BY <1>5 DEF Applied
<1>7. /\ next'[r] \in 1..(Known[r] + 1)
      /\ next'[r] - 1 <= Len(log) + Len(tx'[r])
      /\ Len(tx'[r]) > 0 => Len(log) + Len(tx'[r]) = next'[r] - 1
      /\ \A i \in 1..Len(tx'[r]) : tx'[r][i] = Len(log) + i
  <2>1. next'[r] \in 1..(Known[r] + 1)
    BY <1>1, <1>3, <1>4
  <2>2. CASE Applied(r, next[r])
    <3>1. next[r] <= Len(log) + Len(tx[r])
      <4>1. CASE \E i \in 1..Len(log) : log[i] = next[r]
        BY <4>1, <1>3, <1>5
      <4>2. CASE \E i \in 1..Len(tx[r]) : tx[r][i] = next[r]
        BY <4>2, <1>3, <1>5
      <4> QED BY <2>2, <1>6, <4>1, <4>2
    <3>2. tx' = tx
      BY <1>1, <2>2
    <3>3. Len(tx[r]) = 0
      BY <1>1, <1>3, <1>5, <3>1
    <3>4. Len(tx'[r]) = 0
      BY Zenon, <3>2, <3>3
    <3>5. next'[r] - 1 = next[r]
      BY <1>4, <1>5
    <3>6. next'[r] - 1 <= Len(log) + Len(tx'[r])
      BY <1>5, <3>1, <3>3, <3>4, <3>5
    <3> QED BY <2>1, <3>4, <3>6
  <2>3. CASE ~Applied(r, next[r])
    <3>1. tx'[r] = Append(tx[r], next[r])
      BY <1>1, <2>3
    <3>2. /\ Len(tx'[r]) = Len(tx[r]) + 1
          /\ \A i \in 1..Len(tx[r]) : tx'[r][i] = tx[r][i]
          /\ tx'[r][Len(tx[r]) + 1] = next[r]
      BY <1>1, <3>1, AppendProperties
    <3>3. ~(next[r] <= Len(log))
      <4> SUFFICES ASSUME next[r] <= Len(log) PROVE FALSE
        OBVIOUS
      <4>1. next[r] \in 1..Len(log)
        BY <1>1, <1>3, <1>5
      <4>2. log[next[r]] = next[r]
        BY <4>1, <1>3, <1>5
      <4> QED BY <4>1, <4>2, <2>3, <1>6
    <3>4. Len(log) + Len(tx[r]) = next[r] - 1
      BY <1>1, <1>3, <1>5, <3>3
    <3>5. \A i \in 1..Len(tx'[r]) : tx'[r][i] = Len(log) + i
      <4> SUFFICES ASSUME NEW i \in 1..(Len(tx[r]) + 1) PROVE tx'[r][i] = Len(log) + i
        BY <3>2
      <4>1. CASE i \in 1..Len(tx[r])
        BY Zenon, <4>1, <1>3, <3>2
      <4>2. CASE i = Len(tx[r]) + 1
        <5>1. tx'[r][i] = next[r]
          BY <4>2, <3>2
        <5>2. Len(log) + i = next[r]
          BY <4>2, <1>5, <3>4
        <5> QED BY <5>1, <5>2
      <4> QED BY <1>5, <4>1, <4>2
    <3>6. next'[r] - 1 = next[r] /\ Len(log) + Len(tx'[r]) = next[r]
      BY <1>1, <1>4, <1>5, <3>2, <3>4
    <3> QED BY <1>1, <2>1, <3>5, <3>6
  <2> QED BY <2>2, <2>3
<1>8. Migrating'
  BY <1>1, <1>4, <1>7 DEF IInv, Migrating
<1> QED BY <1>2, <1>8

LEMMA CommitSchema ==
  ASSUME IInv, NEW r \in Replicas, Commit(r)
  PROVE  SchemaReady' /\ Migrating'
<1>1. /\ pc[r] = "apply" /\ pc' = [pc EXCEPT ![r] = "verifier"] /\ pc \in [Replicas -> PCs]
      /\ next[r] > Known[r]
      /\ next' = [next EXCEPT ![r] = 1] /\ next \in [Replicas -> Nat]
      /\ tx' = [tx EXCEPT ![r] = <<>>] /\ tx \in [Replicas -> Seq(Nat)]
      /\ lock' = Null /\ Null \notin Replicas
      /\ log' = log \o tx[r] /\ log \in Seq(Nat)
      /\ Known[r] \in Nat /\ next[r] \in Nat /\ tx[r] \in Seq(Nat)
      /\ Known \in [Replicas -> Nat]
  BY StartupAssumption DEF Commit, Goto, IInv, TypeOK, StartupTypeOK
<1>2. /\ next[r] - 1 <= Len(log) + Len(tx[r])
      /\ \A i \in 1..Len(tx[r]) : tx[r][i] = Len(log) + i
      /\ \A v \in DOMAIN log : log[v] = v
      /\ \A s \in Replicas :
           pc[s] \in {"verifier", "bus", "serving", "closing"} => Known[s] <= Len(log)
      /\ lock = r
      /\ \A s \in Replicas : pc[s] = "apply" <=> lock = s
      /\ \A s \in Replicas : pc[s] # "apply" => Len(tx[s]) = 0 /\ next[s] = 1
  BY <1>1 DEF IInv, Migrating, SchemaReady
<1>3. /\ log' \in Seq(Nat) /\ Len(log') = Len(log) + Len(tx[r])
      /\ \A i \in 1..Len(log') : log'[i] = IF i <= Len(log) THEN log[i] ELSE tx[r][i - Len(log)]
      /\ Len(log) \in Nat /\ Len(tx[r]) \in Nat
  BY <1>1, ConcatProperties
<1>4. \A v \in DOMAIN log' : log'[v] = v
  <2> SUFFICES ASSUME NEW v \in 1..Len(log') PROVE log'[v] = v
    BY <1>3
  <2>1. CASE v <= Len(log)
    BY <1>1, <1>2, <1>3, <2>1
  <2>2. CASE ~(v <= Len(log))
    <3>1. v - Len(log) \in 1..Len(tx[r]) /\ log'[v] = tx[r][v - Len(log)]
      BY <1>3, <2>2
    <3> QED BY <1>2, <1>3, <3>1
  <2> QED BY <2>1, <2>2
<1>5. SchemaReady'
  <2>1. Known[r] <= Len(log') /\ Len(log) <= Len(log')
    BY <1>1, <1>2, <1>3
  <2>2. ASSUME NEW s \in Replicas, pc'[s] \in {"verifier", "bus", "serving", "closing"}
        PROVE  Known[s] <= Len(log')
    <3>1. CASE s = r
      BY <2>1, <3>1
    <3>2. CASE s # r
      <4>1. Known[s] <= Len(log) /\ Known[s] \in Nat
        BY <1>1, <1>2, <2>2, <3>2
      <4> QED BY <1>3, <2>1, <4>1
    <3> QED BY <3>1, <3>2
  <2> QED BY <1>4, <2>2 DEF SchemaReady
<1>6. /\ \A s \in Replicas : pc'[s] # "apply" /\ lock' # s
      /\ \A s \in Replicas : Len(tx'[s]) = 0 /\ next'[s] = 1
  <2>1. Len(tx'[r]) = 0 /\ next'[r] = 1 /\ pc'[r] = "verifier"
    BY <1>1
  <2>2. ASSUME NEW s \in Replicas \ {r} PROVE pc'[s] # "apply" /\ Len(tx'[s]) = 0 /\ next'[s] = 1
    BY <1>1, <1>2
  <2> QED BY <1>1, <2>1, <2>2
<1>7. Migrating'
  BY <1>6 DEF Migrating
<1> QED BY <1>5, <1>7

LEMMA SchemaStep == IInv /\ [Next]_vars => SchemaReady' /\ Migrating'
<1> SUFFICES ASSUME IInv, [Next]_vars PROVE SchemaReady' /\ Migrating'
  OBVIOUS
<1>1. ASSUME NEW r \in Replicas, Work(r) PROVE SchemaReady' /\ Migrating'
  <2>1. CASE TakeLock(r) \/ Apply(r) \/ Commit(r)
    BY <2>1, TakeLockSchema, ApplySchema, CommitSchema
  <2>2. CASE Start(r) \/ Ping(r) \/ PingAgain(r) \/ Wake(r)
    <3>1. /\ Goto(r, "ping") \/ Goto(r, "migrate") \/ Goto(r, "wait")
          /\ pc[r] # "apply" /\ UNCHANGED <<log, lock, next, tx>>
      BY <2>2 DEF Start, Ping, PingAgain, Wake, migrateVars
    <3> QED BY <3>1, SchemaUntouched DEF PCs
  <2>3. CASE Verifier(r)
    <3>1. /\ Goto(r, "bus") /\ pc[r] = "verifier" /\ UNCHANGED <<log, lock, next, tx>>
      BY <2>3 DEF Verifier, migrateVars
    <3> QED BY <3>1, SchemaUntouched DEF PCs
  <2> QED BY <1>1, <2>1, <2>2, <2>3 DEF Work
<1>2. ASSUME NEW r \in Replicas, Leave(r) \/ Interrupt(r) PROVE SchemaReady' /\ Migrating'
  BY <1>2, Ends, ExitSchema DEF IInv
<1>3. ASSUME NEW r \in Replicas, OpenBus(r) \/ Terminate(r) PROVE SchemaReady' /\ Migrating'
  <2>1. /\ Goto(r, "serving") \/ Goto(r, "closing")
        /\ pc[r] \in {"bus", "serving"} /\ UNCHANGED <<log, lock, next, tx>>
    BY <1>3 DEF OpenBus, Terminate, migrateVars
  <2> QED BY <2>1, SchemaUntouched DEF PCs
<1>4. ASSUME UNCHANGED schema PROVE SchemaReady' /\ Migrating'
  BY <1>4, SchemaKept
<1>5. ASSUME NEW r \in Replicas, Poll(r) \/ Connected(r) PROVE SchemaReady' /\ Migrating'
  BY <1>4, <1>5 DEF Poll, Connected, startupVars, migrateVars, schema
<1>6. CASE Tick \/ Surroundings \/ UNCHANGED vars
  BY <1>4, <1>6 DEF Tick, Surroundings, DatabaseChange, vars, startupVars, migrateVars, schema
<1> QED BY <1>1, <1>2, <1>3, <1>5, <1>6 DEF Next

-----------------------------------------------------------------------------
(* The theorems.                                                            *)

LEMMA InitIInv == Init => IInv
<1> SUFFICES ASSUME Init PROVE IInv
  OBVIOUS
<1> USE StartupAssumption, SamePeers DEF Init, StartupInit, BusInit
<1>1. TypeOK
  BY DEF TypeOK, StartupTypeOK, BusTypeOK, PCs, Horizon
<1>2. WaitEnds
  BY DEF WaitEnds
<1>3. SchemaReady
  BY DEF SchemaReady
<1>4. Migrating
  BY DEF Migrating
<1> QED BY <1>1, <1>2, <1>3, <1>4 DEF IInv

LEMMA Inductive == Spec => []IInv
<1>1. IInv /\ [Next]_vars => IInv'
  BY TypeStep, WaitStep, SchemaStep DEF IInv
<1> QED BY InitIInv, <1>1, PTL DEF Spec

\* Type correctness, for any replicas, images and bounds (cmd/storage/main.go).
THEOREM TypesHold == Spec => []TypeOK
<1>1. IInv => TypeOK
  BY DEF IInv
<1> QED BY Inductive, <1>1, PTL

\* However many replicas of however many images start at once, and wherever
\* they die, every migration is committed exactly once and in order, and no
\* replica gets past NewPostgresStore before all of its own are
\* (postgres.go migrate).
THEOREM MigrationsRunOnce == Spec => []SchemaReady
<1>1. IInv => SchemaReady
  BY DEF IInv
<1> QED BY Inductive, <1>1, PTL

\* No wait of Retry goes on past maxElapsed and one longest backoff, for any
\* values of the two (retry.go Retry).
THEOREM WaitsAreBounded == Spec => []WaitEnds
<1>1. IInv => WaitEnds
  BY DEF IInv
<1> QED BY Inductive, <1>1, PTL

=============================================================================
