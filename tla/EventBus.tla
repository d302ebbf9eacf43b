------------------------------ MODULE EventBus ------------------------------
(***************************************************************************)
(* The publisher of storage.object.created in each replica: LazyPublisher  *)
(* and connect in internal/eventbus, as openEventBus in                    *)
(* cmd/storage/main.go chooses between them.  booth-core writes the        *)
(* credentials Secret when it likes, the kubelet mounts its files, and the *)
(* bus itself comes and goes.  After a first dial nats.go reconnects by    *)
(* itself, so a connection that was made stays.                            *)
(***************************************************************************)
EXTENDS Naturals

CONSTANTS
  Peers,   \* the replicas
  BusMode  \* how each is configured: NATSURL, EventBusDir, or neither

ASSUME BusAssumption == BusMode \in [Peers -> {"direct", "lazy", "none"}]

VARIABLES
  mount,  \* which files of the Secret are in EventBusDir
  bus,    \* TRUE: a dial can succeed
  poll,   \* where each Run is: it has read a url when "found"
  conn    \* each current publisher

busVars == <<mount, bus, poll, conn>>

\* urlFile and credsFile.
Files == {"url", "nats.creds"}

BusTypeOK ==
  /\ mount \subseteq Files
  /\ bus \in BOOLEAN
  /\ poll \in [Peers -> {"off", "waiting", "found"}]
  /\ conn \in [Peers -> {"noop", "nats"}]

BusInit ==
  /\ mount \in SUBSET Files
  /\ bus \in BOOLEAN
  /\ poll = [r \in Peers |-> "off"]
  /\ conn = [r \in Peers |-> "noop"]

\* openEventBus: a direct bus must be there now; with a directory, Run looks
\* for it in the background; otherwise events are dropped.
ConnectDirect(r) ==
  /\ BusMode[r] = "direct" /\ bus
  /\ conn' = [conn EXCEPT ![r] = "nats"]
  /\ UNCHANGED <<mount, bus, poll>>

StartNoop(r) ==
  /\ BusMode[r] # "direct"
  /\ poll' = IF BusMode[r] = "lazy" THEN [poll EXCEPT ![r] = "waiting"] ELSE poll
  /\ UNCHANGED <<mount, bus, conn>>

\* tryConnect, at once and then at every tick of Run: the url first ...
FindUrl(r) ==
  /\ poll[r] = "waiting" /\ "url" \in mount
  /\ poll' = [poll EXCEPT ![r] = "found"]
  /\ UNCHANGED <<mount, bus, conn>>

\* ... then the credentials and the dial, which end Run if they work ...
Connect(r) ==
  /\ poll[r] = "found" /\ "nats.creds" \in mount /\ bus
  /\ conn' = [conn EXCEPT ![r] = "nats"]
  /\ poll' = [poll EXCEPT ![r] = "off"]
  /\ UNCHANGED <<mount, bus>>

\* Mutant of ConnectError: Run gives up after a try.
ConnectErrorEnds(r) ==
  /\ poll[r] = "found"
  /\ poll' = [poll EXCEPT ![r] = "off"]
  /\ UNCHANGED <<mount, bus, conn>>

\* ... and leave it to the next tick if they do not, for whatever reason.
ConnectError(r) ==
  /\ poll[r] = "found"
  /\ poll' = [poll EXCEPT ![r] = "waiting"]
  /\ UNCHANGED <<mount, bus, conn>>

\* The process is gone, and its poller and connection with it.
Disconnect(r) ==
  /\ poll' = [poll EXCEPT ![r] = "off"]
  /\ conn' = [conn EXCEPT ![r] = "noop"]
  /\ UNCHANGED <<mount, bus>>

\* booth-core, the kubelet and the bus.
BusChange ==
  /\ mount' \in SUBSET Files /\ bus' \in BOOLEAN
  /\ <<mount', bus'>> # <<mount, bus>>
  /\ UNCHANGED <<poll, conn>>

=============================================================================
