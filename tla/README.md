# booth-storage in TLA+

TLA+ models of booth-storage, the storage module of the Booth platform: what it
keeps, what its requests do to it step by step, what must hold whatever the
interleaving, failure or crash, and proofs of all of that but liveness. `PROJECT.json` relates
every definition to the lines it models, every property to a run and every
hazard of the code to the properties that would catch it.

Check a run with `tlc -config <run>.cfg <module>` and the proofs with
`tlapm` on the eight `...Proofs.tla`.

## 1. The system

booth-storage lets the members of a workspace browse and edit objects in storage
backends that its owners register. It is one Go process (it may be restarted at
any time; nothing but two stores survives), serving HTTP.

| Component | State | Operations | What makes it correct |
|---|---|---|---|
| Registry service (`internal/registry`) | row in Postgres, Secret in Kubernetes, cache of opened backends | Create, Update, Delete, Open, Test, TestSaved | the two stores agree; Open serves what is registered, never a stale client; the create-only verdict belongs to the configuration it is stored with |
| Backends (`internal/backend/...`) | the objects: a directory tree, or a bucket | Read, Write, List, Mkdir, deletes, moves | objects are whole, create-only writes replace nothing, moves and partial failures lose nothing anybody relies on, listings are complete |
| Flat-key folders (`flatstore.go`) | none of its own | MoveFolder, MoveObject, DeleteFolder out of single-object calls | as above, although not atomic |
| Scoped SeaweedFS credentials (`seaweedfs_iam.go`, `seaweedfslease`, `seaweedfssweep`, `credentialbroker`) | IAM users and keys on the server, lease table | mint with undo, sweep | what was handed out is tracked until it is gone, is not revoked early and is eventually removed; a refused mint leaves nothing |
| Upload grants (`internal/uploadgrant`) | grant table | save, delete, revoke a principal, match | what is admitted was granted, at a time of the request's |
| HTTP API (`internal/api`) | none | object, folder, admin and grant routes | admission of writes, limits, events only for what was stored, exact answers to ranged reads |
| Authentication (`internal/auth`) | key cache (of the go-oidc library) | verify a token, derive the role | nobody gets more than the token grants, whatever the headers say |
| Event bus (`internal/eventbus`) | lazily opened connection | poll and dial, Publish, Close | best effort: never holds up a start or a write, and connects once it can |
| Start-up (`cmd/storage`, `config`, `dbwait`, `migrate`) | the schema's version table | wait for the database, migrate, wire everything, stop | the wait is bounded; every migration runs once and in order although replicas start side by side; a start succeeds once the database stays up |
| Web UI, Helm chart, conformance suite | - | - | not modelled |

Interactions: the API calls the registry, which opens a backend from row, Secret
and cache; the broker mints through the configuration the registry returned and
records a lease; the sweeper reads leases and goes back to the registry for each
of them; an upload reads the grants, the row, and the row again through Open, and
then writes to the backend and publishes an event.

What is hard here: no request holds a lock or a transaction across two store
calls, so every request interleaves with every other one between any two of its
calls; two-store writes (row and Secret; IAM and lease; object and event) stop
half way; a call may take effect and still report an error; administrators change
a backend under requests and leases that use it; retries meet what an earlier
attempt has done. The list with lines is in `PROJECT.json` under `hazards`.

## 2. Modules

| Module | Models | Properties |
|---|---|---|
| `Registry` | service.go and its stores for one (workspace, id): a step per store call, any of which may fail with or without effect; crash | `OpenServesRecord`, `CacheCredsCurrent`, `StoresAgree`, `CreateOnlyIsProven`, `EditsAdvanceUpdatedAt`, `LeftoverSecretWindow` |
| `RegistryProofs` | the inductive invariant of `Registry` and the theorems | |
| `SeaweedLease` | mint, undo, lease table, sweeper; failing IAM, database and servers; administrators moving backends; crash | `TrackedUntilGone`, `SweptMeansGone`, `SingleFailureUnwound`, `NoEarlyRevocation`, `LeasesAreSwept` |
| `SeaweedLeaseProofs` | the inductive invariant of `SeaweedLease` and the theorems | |
| `FlatStore` | flatstore.go: a step per object, with failures, crashes and other clients | `NothingLost`, `SourceUntouched`, `MovedIsMoved`, `NoClobber` |
| `FlatStoreProofs` | the inductive invariant of `FlatStore` and the theorems | |
| `ObjectStore` | abstract: what backend.Backend promises of writes, deletes and moves, each in one step | |
| `Filesystem` | filesystem.go, and the making of a backend's root (fsroot.go): a step per system call, several requests at once, failures, crash | `NoStrayTemp`, `ImplementsObjectStore` (refinement) |
| `FilesystemProofs` | facts about paths and trees, the inductive invariant of `Filesystem`, the theorems, the refinement included | |
| `Listing` | List, listDir and walk of filesystem.go, a step per system call; List of the flat stores and `keysUnder`, a step per page; changes in between | `ListsEverythingSteady`, `ListsOnce`, `ListsOnlyEntries` |
| `ListingProofs` | facts about `comparePaths` and pages, the inductive invariant of `Listing` and the theorems | |
| `Uploads` | handleWriteObject with grants, limits, backends, their tests and events | `AppWritesWereGranted`, `CreateOnlyReplacesNothing`, `EventsAreTrue` |
| `UploadsProofs` | the inductive invariant of `Uploads` and the theorems | |
| `Access` | auth.go and the routes' checks: operators from a token and headers to a role | |
| `Reads` | GET with ranges, HEAD and DELETE of an object over the four kinds, with `Access` in front | `ServedWithinToken`, `RangeAnswered`, `LengthsHonest`, `AnswersWereTrue` |
| `ReadsProofs` | the inductive invariant of `Reads`, facts about `parseRange` and `Middleware`, and the theorems | |
| `Startup` | run, openStores, NewPostgresStore, migrate and `dbwait.Retry` of several replicas: a step per call, time, restarts, a database that comes and goes | |
| `EventBus` | the choice of the publisher and `LazyPublisher`: the Secret mounted in parts, the dial, the bus that comes and goes | |
| `Process` | `Startup` and `EventBus` composed, with the kubelet | `SchemaReady`, `WaitEnds`, `EventuallyServes`, `EventuallyPublishes` |
| `ProcessProofs` | the inductive invariant of `Process` and the theorems | |
| `MC...` | the small instances | |

`Uploads` composes the others by their promises: Open is one step that returns
the server the row names (what `Registry` checks as `OpenServesRecord`), and a
backend's Write is one step (what `Filesystem` shows to implement `ObjectStore`).
`Process` composes `Startup` and `EventBus` step by step: a replica's exit is also
its poller's and its connection's.

State and actions carry the code's names where there are any. A request's
position (`pc`) names the call it makes next. Variables marked *history* in the
declarations exist for the properties only and never guard an action, other than
the counters that bound a run.

### Registry
`meta` is the row, `secret` the Secret, `cache` the entry of `Service.cache`. A
record carries the registration it belongs to, a Secret the registration it was
entered for, so that a property can tell a re-registered ID from its predecessor.
`CreateBegin` ... `CreateRollback`, `UpdateGet` ... `UpdateInvalidate`,
`DeleteMeta` ... `DeleteCreds`, `OpenGet` ... `OpenReturn` and `TestCheck` ...
`TestRecord` are the requests' steps. The clock may read anything up to `MaxTime`,
also less than before: `Bumped` is what keeps UpdatedAt increasing. The cache's
TTL only ever drops an entry, so a miss (`CacheMiss`) is always possible.
`LeftoverSecretWindow` is about the Secret that a failed Delete leaves behind:
Create inserts its row before it overwrites that Secret, so an Open in between
opens a backend with the deleted registration's credentials. The property says
that this happens in that window only. `torn` remembers that a request ended with
one of its two store writes missing, and `crossed` that a lookup hit a cache entry
of another registration of the ID (section 5): the properties that such an event
excuses say so.

### SeaweedLease
A mint's user name, access key and lease ID are fresh, so a mint's own name stands
for the three. `faults` counts its failed calls and `hidden` tells of a creating
call that took effect and erred. The sweeper is one process; a lease it cannot
sweep is left for a later cycle. What a backend's ID may lead to besides a server
(`Elsewhere`) is nothing (`gone`), another kind with credentials (`notS3`) or one
without (`noCredentials`): sweepLease marks the lease in the first two cases, and in
the third fails before it looks at the kind, cycle after cycle.

### FlatStore
Keys and folders are abstract; `Under`, `Dest` and `Inside` are what the string
prefixes do, with the assumptions stated in the module. A content is named by
where it came from, so losing one is visible. Nothing locks a bucket, so nothing is
assumed of the other clients: they write and delete any key at any time, the sources
and the destinations of a running move included, as do other movers. `touched`
remembers, for each request, the keys that others changed since it looked at them (a
destination counts from the probe on), and the properties speak of the keys that were
not: `NoClobber` says that what a copy replaces is only what others put there after
the probe. `live` are the contents that must be kept: what somebody writes at a key a
request is just working on (`AtRisk`) is not among them.

### Filesystem and ObjectStore
A file is named by the write that made it; a temporary name is the write's own.
POSIX is modelled by what mkdir, open(O_EXCL), link, unlink, rmdir and rename do
to a tree, and os.Root.RemoveAll by open directory handles that follow their
directory. The refinement maps a tree to its visible files; one not completely
written maps to a value no `ObjectStore` ever holds. So the refinement says that
every system call is, for a reader, one whole operation or nothing: no half
object, no create-only write that replaces, no folder move onto objects, no
refused write that shows up later. `ObjectStore!MoveObject` may replace an object
created after the look at the destination (see section 5). `TypeOK` also says where
each request may stand: at a step of its own handler, and at the one that gives the
object its name only with a completely written file.

One request may be `RegisterBegin`: another backend is registered with a root
inside this tree, and `checkFilesystemRoot` looks for the root, then for its
parent, then makes the directory, each in a step of its own between the system
calls of the other requests. For a reader of objects it is a `Mkdir`, or nothing.

### Listing
A name is its rank in byte order, and order on paths is that of `comparePaths`.

A page of the filesystem takes many steps: List's Stat of the prefix (`StatPrefix`),
the first look or read of it (`Start`), then one step for each name in the order in
which fs.WalkDir, or listDir, gets to it: a temporary name or one before the cursor is
passed over (`Skip`, with `SkippedDir` for subtrees), a file is looked at and collected
(`Collect`), a directory read (`ReadFolder`). What is gone by then is passed over
(`Vanished`); what lies under something that is a file by now answers ENOTDIR, which
List turns into an empty page without a cursor (`WalkError`, filesystem.go:301-303).
Writes, deletes and moves of other requests come between any two of these steps.

On the flat stores a page is one step: the services order, delimit and cut the pages,
and the code drops placeholders from them: S3 and GCS the folder's own, Azure also the
keys marked by metadata (`Stubs`). So a page may be empty and have a successor.

`steady` are the entries that were there all the time, `during` what was an entry at
some moment of the call under way. `replaced` says that in the call which ended the
listing, or is under way, a file took the place of a directory that had been below the
prefix: `ListsEverythingSteady` excepts it, as the code does miss entries then (section
5).

### Uploads
`since` remembers, for each request, the grants there were at some time since it
began, until its object is stored: an admitted write must be covered by one of those.
Any number of saves of a grant may be under way (`saving`: the backend was found, the
row is not yet written).

TestSaved is modelled with its steps, as it races with the uploads: it opens the
backend (`TestBegin`), reads the row again for its kind (`TestLook`), probes the server
it has opened (`Verdicts`) and writes the verdict to whatever row the ID has by then
(`TestRecord`). So a row may be verified although its server was never probed. `proven`
in a row is CreateOnlyVerified, with the server whose probe set it. `overtaken` marks a
request whose backend was changed between its check and its Open, or whose check
relied on such a verdict: the two ways in which a create-only write comes to replace an
object.

### Access and Reads
`Access` has no state: a request carries its token, the issuer that signed it and
the two forwarded headers, and `Middleware` and `Require` decide from them alone.
What the library checks of a token (signature, audience, expiry) is what its
fields say. `Reads` takes one step per call of a backend, so between the Stat of a
ranged read and its ReadRange the object may be replaced or removed. `parseRange`
is translated branch by branch and `RangeAnswered` compares what comes out with the
bytes the header asks for, one by one. `during` collects what was at the path while
a request ran; `AnswersWereTrue` asks each answer to have been true at one of those
times.

### Startup, EventBus and Process
A replica is a process over all its restarts; `Known` is how many migrations its
image carries, so that replicas of two images model a rollout. `log` is the table
of applied versions, `tx` what the open transaction has added, `lock` PostgreSQL's
advisory lock. Time is counted in units of Retry's first backoff and passes while a
ping hangs; a timer that has run out is taken before time goes on. `db` says how
the database answers: `starting` stands for every error that
`isRetryableConnectionError` accepts, `rejecting` for every other. Only the ping is
retried; everything else that fails ends the process (`Exit`) and the kubelet starts
it again. `poll` is LazyPublisher's loop with a step for each of its looks at
the mounted files, and `conn` the publisher in use.

## 3. Runs

| Run | Result | Shows |
|---|---|---|
| `registry_serial` | passes | one administrator at a time, or several Creates at once, an Open and a crash anywhere: cache, row and Secret stay consistent, and of several Creates one wins and the others leave its Secret alone; a Secret that a Delete left behind is used in one window of the next Create only |
| `registry_concurrent_updates` | violation | two Updates at once may give two configurations one UpdatedAt; Open then serves the wrong one |
| `registry_late_probe` | violation | a probe that overlaps an Update marks the new configuration as verified |
| `lease_safety` | passes | the four safety properties with two mints, three faults each, crashes and an administrator |
| `lease_liveness` | passes | every lease is swept although another one's server is down for good |
| `lease_starvation` | violation | as many unsweepable leases as a batch holds starve every newer one |
| `flat_safety` | passes | two requests in sequence, a client that writes and deletes the same keys, failures and crashes: nothing is lost but what was written into the race, and only that is replaced |
| `filesystem` | passes | three requests, two at once, implement `ObjectStore`; no temporary file is forgotten |
| `listing` | passes | pages of two entries over every small tree, one system call at a time, and over every small set of keys with placeholders, with two changes between pages or during them: complete but for a directory replaced by a file under the walk, no duplicates, nothing that was not there |
| `uploads` | passes | two uploads against two changes by owners and a test of a backend, over two backends and three servers |
| `reads` | passes | one request of every kind against two changes of the object and the loss of the backend: nothing beyond the token, exact ranges, honest lengths, true answers |
| `process` | passes | two replicas of different images start, wait, migrate, die and restart while database, Secret and bus come and go |

Bounds and why they are enough:

- `registry_*`: two or three requests, because each property is about one writer
  and one reader, or about two writers; S3 configurations of both sorts (a server that
  honours the precondition, one that does not; what `ValidCreds` asks of the other
  kinds only forbids requests, and the proofs are for every `KindOf`), in `registry_serial` two sets of
  credentials, so that a rotation and the order of Secret and row can be told, two
  registrations of the ID, so
  that leftovers of the first meet the second, and timestamps up to 2 or 3, so
  that the clock can stand still and go back. `MaxWriters = 1` is an assumption,
  not only a bound (Creates are exempt and always overlap one another): the
  violations show that two administrators at once do break `OpenServesRecord` and
  `CreateOnlyIsProven`. `CreateTimes` is a bound: in `registry_serial` Creates read
  the clock at 1 of 0 to 2, so that an Update can find it at, before and after the
  row's stamp, and a re-registration gets its predecessor's. `MaxTime` bounds the
  Updates of one registration: no Update is tried on a row stamped with it. The proofs need neither
  this bound nor any other, only `MaxWriters = 1`.
- `lease_*`: two mints are one more than a sweep handles at a time; batch sizes 1
  and 2 lie on either side of the number of stuck leases. `MaxTime = 3` lets a
  lease expire before, during and after a cycle, and leases expire at different
  times, so that the order within a batch matters. `lease_liveness` starts with
  one backend on the server that may fail and the other elsewhere.
- `flat_safety`: two folders, one of which holds a third that moves and is deleted by
  itself too, each with as many keys as `MaxFolderObjects = 2` allows; a placeholder
  would be one more key that MoveObjectFlat refuses. One mover at a time, which
  `NothingLost` needs: of two moves to one folder the roll-back of one removes the
  copies of the other. The client is not bounded in what it does, only in the one
  content it writes. keysUnder's listing is one step here; what its pages miss when
  the bucket changes between them is `Listing`'s subject.
- `filesystem`: two folders and an object in each, so that every kind of request,
  a registration included, can meet every other on a folder and inside it; one write of
  each kind.
- `listing`: three levels, where the skipping of subtrees matters; name 0 is a
  temporary name. Two changes are what it takes to put a file where a directory was.
  A write adds one file with its directories; a delete, or a move away, is one step for
  the tree it takes away, and ReadDir sees a directory at one moment. A page that fails
  otherwise (an I/O error, a client that went away) is asked for again and changes
  nothing, so it is left out. The keys include a folder's placeholder, a key beside the
  folder that sorts between its name with and without the slash, and a stub.
  `MaxFolderObjects` is below the number of keys, so `keysUnder` can refuse.
- `uploads`: a wide and a narrow grant and one with another extension, sizes on
  both sides of every limit, with and without a server limit, a strict and a lax
  S3 server and one of another kind. `MaxTests = 1` bounds the tests under way; tests
  of one backend that opened the same server count as one. At the start `b2` is not
  registered (`MCSpec`): it is there to show that a grant does not reach beyond its own
  backend. A request that ends without an object leaves nothing, so its name may stand
  for another one and requests are not bounded.

- `reads`: one request, as requests to read do not see one another and a competing
  DELETE is a `Remove`; objects of up to three bytes, so that a range can lie inside,
  at, across and past the end, and two changes, so that an object can shrink, or go
  and come back, between two calls.

- `process`: one replica with an older and one with a newer image, one on a direct
  bus, one lazily connected: two migrations of difference, so that the newer one can
  find the older one's, its own half-way and none. `MaxElapsed = 3` and
  `MaxBackoff = 2` let the backoff reach its cap and a wait reach over the deadline;
  with 4 and 3 the run was checked as well. `MaxStops = 2` stops, errors or losses of
  the database hit one replica twice or both. The Secret and the bus change without
  bound.

Deadlock is checked everywhere but in `uploads` and `reads`, where a finite number
of requests and changes comes to its end.

Fairness (`SeaweedLease!Fairness`, runs `lease_liveness` and `lease_starvation`):
weak fairness of the clock and of the sweeper, whose loop (`Run`, sweep.go:43-55)
starts a cycle at every tick and carries it through; strong fairness of the
successful outcome of each call of the sweeper, which says that a server or
database that is not down does not fail every single retry. Nothing is assumed of
a server in `down`, of mints or of administrators. Crashes end after
`MaxCrashes`: a process that crashes every time it reaches the same lease never
gets to the next one, and no code could help that.

Fairness of `Process` (run `process`): weak fairness of the clock, of each replica's
own steps, restart by the kubelet included, and of the poller, whose ticker runs
until the process ends. Strong fairness of two steps that other programs answer for:
the successful dial, as a bus that is there does not refuse every one of infinitely
many dials, and `TakeLock`, as PostgreSQL queues those who wait for an advisory lock
and serves them in turn. Without the latter a replica that a missing direct bus
keeps restarting could take the lock each time before another one gets it. Nothing
is assumed of the database, the bus, booth-core or the mount: the two liveness
properties are about behaviours in which the database stays up from some time on,
and, for `EventuallyPublishes`, the Secret and the bus as well. A replica on a
direct bus is promised nothing (main.go:123-125).

## 4. What is proved

`SeaweedLeaseProofs` proves, for any number of mints, backends, servers and faults,
any batch size and any clock bound, from `LeaseAssumption` and `ServerAssumption`
only:

- `LeaseTypeOK`: `TypeOK` always holds;
- `SweptGone`: `SweptMeansGone`; `Tracked`: `TrackedUntilGone`; `Unwound`:
  `SingleFailureUnwound`;
- `NotEarly`: the action property `NoEarlyRevocation`.

None of these is inductive. `SweptMeansGone` needs to know that when the sweeper
marks a lease its user and key are gone on the server they were made on: that is
the last conjunct of `Sweeping`, which in turn needs that the sweeper's server is
the mint's (`Provenance`, as long as the backend was not moved), that it removed
the key before the user, and that nobody creates the user again, which holds
because only a mint in an early phase does (`Unwinding`) and the leases in a batch
belong to mints past it (`LeasePhase`). `LeaseInvariant` is the conjunction; one
lemma per action shows that the action keeps it, conjunct by conjunct.
`TrackedUntilGone` then follows from `LeasePhase` and `SweptMeansGone`, and
`NoEarlyRevocation` from the expiry recorded for every lease in the batch and
from a returned mint being past its undo.

`UploadsProofs` proves, for any apps, requests, grants, backends, servers and
limits, any number of saves and tests at once, from `UploadsAssumption` only:
`UploadsTypeOK`, `AppWritesGranted` (`AppWritesWereGranted`), `CreateOnlyKept`
(`CreateOnlyReplacesNothing`) and `EventsTrue` (`EventsAreTrue`). The argument
is that what a request found out at one step has to survive whatever owners do
before its next one. `Admission` says so of the grant: the grants in force are
always among those of a running request's time (`since`), so the one that admitted
it stays covered after it is revoked. `Recorded` carries the limit from the
admission to the stored object. `Proven` says that a row's verdict is true of the
server that was probed, which need not be the one the row names, and that a create-only
request past its check is headed for an enforcing server unless it was overtaken,
which is what `CreateOnlyReplacesNothing` needs when the object is stored.

`ReadsProofs` proves, for any requests, any number of them at once, any kinds of
backend, and objects of any size that change any number of times, `ReadsTypeOK`,
`WithinToken` (`ServedWithinToken`), `RangesExact` (`RangeAnswered`), `LengthsTrue`
(`LengthsHonest`) and `AnswersTrue` (`AnswersWereTrue`), and on the way two facts
about pure code: `ParseRangeExact`, that `parseRange` finds the bytes a header asks
for whatever the numbers in it and the size of the object, and `OnlyWithinToken`,
that `Middleware` and `Require` let nobody through whom a trusted token does not
entitle. The assumptions are `ReadsAssumption`, `RequestAssumption` (a request is
for one of the three routes, its Range header has one of the forms of `Headers`, and
a token's groups name one of the three roles, as `groupRE` sees to) and
`NullAssumption`. The argument: what is at the path is always among what was there
while a request ran (`Watched`), so what Stat found stays true of some time of the
request's when ReadRange or the removal comes later (`Resolved`). If the object
stayed what it was, the range that `parseRange` placed inside Stat's size lies inside
the object, and every kind's ReadRange returns all of it; if it shrank, S3 and GCS
return less and the others nothing, which is `LengthsHonest` (`ReadRangeLength`).
`Told` says the properties of a response from the moment its headers are sent, since
the object may change while the body is copied.

`ProcessProofs` proves, for any number of replicas and images with any numbers of
migrations, any deadline and any cap, from `StartupAssumption`, `BusAssumption` and
`SamePeers` only: `TypesHold` (`TypeOK`), `MigrationsRunOnce` (`SchemaReady`) and
`WaitsAreBounded` (`WaitEnds`). `SchemaReady` is not inductive: that a commit appends
exactly the versions that are missing has to be known while the transaction is
open. `Migrating` says so: a replica is between lock and commit exactly when it
holds the lock, so no other one changes `log` meanwhile; all versions before `next`
are in `log` or in `tx`; and `tx` continues `log` without a gap, up to `next` if it
is not empty. Each action's lemma keeps that; those of `Apply` are split by
whether the version was there. `WaitEnds` is inductive with the types: a wait is
entered before the deadline, with at most the cap to go, and a tick takes from the
timer what it adds to the age.

`RegistryProofs` proves `RegistryTypeOK` for any number of administrators and, for
`MaxWriters = 1`, that is one Update, Delete or TestSaved at a time with any number
of Creates and Opens: `OpenServesWhatItRead` (`OpenServesRecord`),
`CachedCredsCurrent` (`CacheCredsCurrent`), `StoresAlwaysAgree` (`StoresAgree`),
`CreateOnlyProven` (`CreateOnlyIsProven`), `EditsAdvance` (`EditsAdvanceUpdatedAt`)
and `LeftoverWindow` (`LeftoverSecretWindow`). The restriction is an assumption of the
theorems and not of the module: the two violating runs show that they are false
without it. Assumed of the constants besides: `ConstantsAssumption`,
`SentinelAssumption` and `NullAssumption`, and that requests are finitely many
(`SlotsAssumption`), which the counting of writers needs. The invariant: a request
holds what its step uses (`Shape`); who can be in flight together (`Alone`); the
registration of a Create is in nobody's hands until its row is there (`Fresh`); what
the one writer knows of the row stays true (`Owner`). Then `Versions`: registration
and UpdatedAt determine the configuration, in every snapshot, backend and cache
entry, and none is newer than the row, which an Update keeps because its stamp is
above the row's. `Paired` and `Keyed` follow the Secret through the steps between
the two writes, `Leftover` the Secrets of earlier registrations.

`FlatStoreProofs` proves, for any number of folder operations at once and any other
clients, `FlatTypeOK`, `FlatInvariant`, `SourceStaysUntouched` (`SourceUntouched`),
`MovedMeansMoved` (`MovedIsMoved`) and `MoveClobbersOnlyLateWrites` (`NoClobber`), and
for one folder operation at a time beside any other clients `NothingIsLost`
(`NothingLost`), for any keys and any spelling of them that `DestAssumption` and
`NestAssumption` allow (replacing a prefix keeps keys apart and lands under the target;
two prefixes share keys only when one is a prefix of the other), any limit and wherever
calls fail. The invariant speaks of the keys that nobody else has touched. Its key fact
is `Apart`: the probe found nothing at the destinations while the sources were there,
so an untouched key is not both. Then `Copying` and `Deleting` say where each listed
content is, and `Planned` what the request's lists have to do with each other. For
`NothingLost`, `Safe` says of each content to be kept that some key holds it which the
request will not erase or overwrite before it has copied it (`Sheltered`).

`ListingProofs` proves, for any tree, any set of keys with placeholders, any page size
and any number of changes between pages and between the system calls of one, from
`ListingAssumption` only: `ListingInvariant`, `ListingTypeOK`, `ListingIsComplete`
(`ListsEverythingSteady`), `ListingHasNoDuplicates` (`ListsOnce`) and
`ListingReturnsEntries` (`ListsOnlyEntries`). `comparePaths` is shown to be a strict
total order on paths, by the first position at which two of them differ; a finite set
of entries then has its n first ones and a last one, although neither is defined by
recursion. Of a walk under way `VisitInv` says what has to be known between any two
system calls: an entry that was always there and lies after the cursor is on the page,
or at or below a name still to be visited (`Covered`), or a directory has been replaced;
no pending name lies below another (`Apart`), and the page lies before all of them
(`PageFirst`). A call then returns everything up to its new cursor that was always
there, and nothing beyond it; on the flat stores that follows from the cut. From this
follows `Progress`: an entry that was always there has been returned or lies after the
cursor, and nothing returned lies after it.

`FilesystemProofs` proves, for any number of requests at once, any paths and any
contents, from `FilesystemAssumption` only: `FilesystemTypeOK`, `NoStrayTemps`
(`NoStrayTemp`) and `FilesystemIsObjectStore`, the refinement
`Spec => ImplementsObjectStore`. The assumption says that no request names a temporary
file: its name is random (`tempName`). The invariant: every path's directory is there
(`TreeOK`), which rename(2) keeps since what it replaces has nothing below it
(`Ancestors`, `RenameTree`); a file with an object's name is whole, one with a
temporary name is its write's (`Files`); what a request was asked, as far as its
position tells (`Requested`); the write still under way is pending and the only one
of its content (`Writes`); a temporary file is at the place its write will clean up,
or has gone astray (`Temps`). With that each step is mapped: a link or rename of a
temporary file is `ObjectStore!Write`, the end of a failed write `Refuse`, the removal
of a visible file `Delete`, the rename of a file or of a folder `MoveObject` or
`MoveFolder` on the visible files (`MovedObjects`), and every other call a stutter.

The inductive invariants were checked by TLC on the runs' instances before they were
proved. Only model-checked: liveness (`LeasesAreSwept`, `EventuallyServes`,
`EventuallyPublishes`), which is out of the prover's reach, and the three violations.
Every invariant and action property of a passing run is stated by a theorem.

## 5. Where code and comments disagree

Checked as violations:

1. `registry_concurrent_updates`: service.go:200 says UpdatedAt is strictly
   increasing so that the cache cannot mistake a changed record; two overlapping
   Updates compute it from the same row.
2. `registry_late_probe`: model.go:68 says CreateOnlyVerified is reset when the
   configuration changes; TestSaved writes its verdict to the row by ID, whatever
   configuration it has by then.
3. `lease_starvation`: sweep.go:27 says the next cycle picks up what is left; the
   next batch starts with the same leases.

Met while modelling, stated here without a run of their own:

- backend.go:200-201 says that the destination of a MoveObject must not exist, as "a
  rename must never silently destroy data". No backend keeps that against a concurrent
  writer. On the flat stores the probe (flatstore.go:81-86, 110-116) and the copies are
  calls apart, and CopyKey overwrites: what another client puts at a destination in
  between is silently replaced, in a folder move as well, and a roll-back may then
  delete it altogether. `NoClobber` says that nothing else is replaced.
- On the filesystem likewise: renaming an object replaces an object written to the
  destination after the look, while filesystem.go:424-427, which accepts the race, says
  that a losing rename "fails or replaces an empty directory". `ObjectStore!MoveObject`
  allows it.
- filesystem.go:303 calls ENOENT and ENOTDIR from a walk "nothing under this prefix",
  which ENOTDIR does not mean: when a file takes the name of a subdirectory between
  ReadDir of its parent and the walk's own look at it (filesystem.go:513-520), the page
  is empty and has no cursor, and a listing ends early without an error and without the
  entries that stayed. `ListsEverythingSteady` excepts this case only.
- filesystem.go:276-279 has List look at the prefix first, without which "the walk
  would list the file itself". The look and the walk are two calls: a file that takes
  the prefix's name in between is listed under its own name (`ListsOnlyEntries`).
- docs/contracts/upload-grants.md:140 answers 413 beyond the grant's `maxBytes`, "never
  the module-wide upload limit", and says at :64 that there is "no platform-wide
  ceiling"; server.go:526-529 applies the smaller of the two, so that a server limit
  below a grant's cuts the grant. `AppWritesWereGranted` is about the grant's limit
  only.
- server.go:508 says that "nothing may ever fall back to check-then-write". Two things
  get a create-only write to a server that does not enforce the precondition: a
  configuration changed between the check of the row and openBackend, which reads it
  again, and a verdict that TestSaved records on a row changed since it opened the
  backend it probed (service.go:394-411; finding 2 is the same step, seen from the
  registry). `CreateOnlyReplacesNothing` excepts these two only (`overtaken`).
- sweep.go:120-122 takes a backend that was reconfigured to another kind for cleaned
  up. One of a kind that has no credentials (filesystem) never gets that far:
  RawCredentials fails with ErrNoCredentials (service.go:346-348) before the kind is
  looked at, and the lease is retried for ever. `LeasesAreSwept` excepts it.
- A folder move carries away the temporary files of writes in it; those writes
  fail and cannot remove them (`stray` in `Filesystem`).
- The cache is keyed by ID and UpdatedAt, not by registration. A backend deleted and
  registered again within one microsecond may be served from its predecessor's entry;
  and of two overlapping Creates one may be rolled back after an Open has read its row
  and before that Open fills the cache, while the other is inserted and updated to the
  same stamp. TestSaved then probes the other registration's server and records the
  verdict (`crossed`; three requests and 19 steps).
- service.go:274 calls a leftover Secret inert. A Create of the same ID makes the row
  refer to it before it overwrites it, and an Open between the two builds, and caches
  under the row's UpdatedAt, a backend with the deleted registration's credentials
  (`LeftoverSecretWindow`).
- run returns as soon as ListenAndServe does, which is when Shutdown begins; the up to
  `shutdownTimeout` that Shutdown waits for requests (main.go:92-105) has no effect,
  and requests under way end where they are. In the models that is a crash.
- Retry looks at its deadline between tries; a ping that hangs is bounded by the
  driver only (`WaitEnds` is about waits).
- Only the ping is retried. A start whose identity provider does not answer discovery
  (auth.go:148) fails at once, every time while that lasts; the models bound such
  failures by `MaxStops` like every other error of a start, so `EventuallyServes` is
  about a provider that answers in the end.
- Retry may wait for about a minute before anything listens, while the chart's liveness
  probe has no start-up probe in front of it: a replica may be killed in its wait
  (`Stop`) and begin another.
- checkFilesystemRoot takes EEXIST from Mkdir for success (fsroot.go:79), also if it is
  a file that took the name after the first look.
- A process that stops between CreateAccessKey and Insert leaves a key without a
  lease; `TrackedUntilGone` is about returned credentials for that reason.
- A lease whose backend was moved to another server is marked swept there, where
  the user does not exist (`moved` in `SeaweedLease`).
- Deleting a backend leaves its upload grants, which then apply to its successor.
- handleWriteObject says that auth.Middleware leaves only a viewer for its
  create-only branch; an unrecognised forwarded role (which leaves no role) and the
  grants service get there as well, and the grants decide. `Require` refuses both on
  the routes of `Reads`.
- parseRange is documented to ignore a malformed header; "bytes=5-2" and "bytes=5-x"
  are answered 416 when the object has at most five bytes, as the first byte is
  looked at before the rest (`RangeAnswered` allows it).
- ReadRange of S3 and GCS does not check the length it got: when the object shrank
  after the Stat, the body ends before its Content-Length (`LengthsHonest` states
  this exception; Azure and the filesystem answer 416).
- The total in a Content-Range is Stat's, the bytes may be a later version's
  (`AnswersWereTrue` asks only that each was true at some time).

## 6. Not modelled

- Character-level code: path cleaning, header and configuration parsing (the
  environment included), name patterns, encodings of rows and Secrets.
- `FilesystemPolicy.Check`: a comparison of cleaned and resolved paths with a list the
  operator sets.
- The client libraries of the cloud stores, their connection checks and set-up.
- STS credentials (one stateless call), and what the credential broker endpoint checks
  before it mints (pure functions of the request and of other services).
- The verification of signatures and the key cache behind it (go-oidc).
- A bus Secret that is deleted and recreated with other credentials once the connection
  is made, which the code leaves to a restart (lazy.go:51-54).
- The development mode in memory; the conformance suite, which was read for what it
  says of a backend; the web UI, the chart and CI.

Reads are left out of `Filesystem`: an open handle reads the file it opened, and the
refinement says that file is whole; `Reads` takes that as its starting point.

## 7. Plan

1. Done: the modules of section 2, and a proof of every invariant and action property
   that a passing run checks, and of the refinement.
2. More of the system: the credential broker's guards in front of the mint; the roles
   of every route in `Access`; Create's rollback with three administrators at once
   (service.go:131); `FlatStore` shown to implement `ObjectStore` object by object
   where no call fails and no one else writes.
3. More proofs: what of `Registry` holds with several administrators at once
   (`EditsAdvanceUpdatedAt` without one Update at a time does not; that the cache never
   holds a backend of a configuration that was never registered may); an abstract
   specification of the sweeper's promise that `SeaweedLease` implements.
