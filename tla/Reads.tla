------------------------------- MODULE Reads --------------------------------
(***************************************************************************)
(* GET, HEAD and DELETE of one object through the API (handleReadObject,   *)
(* handleStatObject and handleDeleteObject in internal/api/server.go) on a *)
(* backend of any of the four kinds.                                       *)
(*                                                                         *)
(* A ranged GET asks the backend twice, Stat for the size and ReadRange    *)
(* for the bytes, and the object may be replaced or removed in between.    *)
(* What a body contains is told by the version of the object it is from,   *)
(* the offset of its first byte and its length.  Paths are well-formed:    *)
(* CleanPath refuses the others before anything else happens.              *)
(***************************************************************************)
EXTENDS Access

CONSTANTS
  Slots,       \* requests
  Requests,    \* what they may ask: [token, ws, forwarded, route, range]
  Kinds,       \* the kinds of backend there are
  MaxSize,     \* bound on the size of an object
  MaxChanges,  \* bound on what other requests write and delete
  Null

\* A Range header: absent, malformed (not one range of bytes), "first-", "first-last",
\* "first-" followed by what is no number, or "-last".
Headers ==
  [form : {"absent", "malformed"}]
    \union [form : {"from", "junk"}, first : Nat]
    \union [form : {"between"}, first : Nat, last : Nat]
    \union [form : {"suffix"}, last : Nat]

ASSUME ReadsAssumption ==
  /\ Kinds \subseteq {"s3", "gcs", "azure", "filesystem"}
  /\ MaxSize \in Nat /\ MaxChanges \in Nat
  /\ Null \notin Requests

\* groupRE lets no other groups than these through.
ASSUME RequestAssumption ==
  \A q \in Requests :
    /\ q.route \in {"get", "head", "delete"}
    /\ q.range \in Headers
    /\ q.ws \in STRING /\ q.forwarded \in STRING
    /\ q.token # NoToken => q.token.groups \subseteq STRING \X Roles

VARIABLES
  kind,        \* the backend's kind
  registered,  \* whether the registry has the backend
  object,      \* the object at the path: [ver, size], or Null
  changes,     \* changes so far, which name the versions
  pc,          \* where each request is
  asked,       \* what it asks
  size,        \* the size its Stat found
  resp,        \* its response: Content-Length (declared), size in Content-Range
               \* (total), and the body: version, first byte, bytes sent, cut short
  during       \* history: what was at the path at some time while it ran

vars == <<kind, registered, object, changes, pc, asked, size, resp, during>>

Objects == [ver : 0..MaxChanges, size : 0..MaxSize] \union {Null}
PCs     == {"new", "open", "stat", "read", "range", "look", "delete", "stream", "done"}

Responses ==
  [status : {200, 204, 206, 400, 401, 403, 404, 416, 499, 502}, declared : 0..MaxSize,
   total : 0..MaxSize, ver : 0..MaxChanges, from : 0..MaxSize,
   sent : 0..MaxSize, cut : BOOLEAN]

ASSUME NullAssumption == Null \notin Responses

TypeOK ==
  /\ kind \in Kinds
  /\ registered \in BOOLEAN
  /\ object \in Objects
  /\ changes \in 0..MaxChanges
  /\ pc \in [Slots -> PCs]
  /\ asked \in [Slots -> Requests \union {Null}]
  /\ size \in [Slots -> 0..MaxSize]
  /\ resp \in [Slots -> Responses \union {Null}]
  /\ during \in [Slots -> SUBSET Objects]
  /\ \A r \in Slots : resp[r] # Null <=> pc[r] \in {"stream", "done"}

Init ==
  /\ kind \in Kinds /\ registered = TRUE
  /\ object \in {o \in Objects : o # Null => o.ver = 0}
  /\ changes = 0
  /\ pc = [r \in Slots |-> "new"]
  /\ asked = [r \in Slots |-> Null]
  /\ size = [r \in Slots |-> 0]
  /\ resp = [r \in Slots |-> Null]
  /\ during = [r \in Slots |-> {}]

-----------------------------------------------------------------------------
(* The Range header.                                                        *)

Whole      == [parsed |-> FALSE, unsatisfiable |-> FALSE, start |-> 0, end |-> 0]
Outside    == [parsed |-> TRUE, unsatisfiable |-> TRUE, start |-> 0, end |-> 0]
Part(a, b) == [parsed |-> TRUE, unsatisfiable |-> FALSE, start |-> a, end |-> b]

\* Mutant of parseRange: an end past the last byte is not clamped to it.
parseRangeUnclamped(h, n) ==
  IF h.form \in {"from", "between", "junk"}
  THEN IF h.first >= n THEN Outside
       ELSE IF h.form = "from" THEN Part(h.first, n - 1)
       ELSE IF h.form = "junk" \/ h.last < h.first THEN Whole
       ELSE Part(h.first, h.last)
  ELSE IF h.form = "suffix" /\ h.last > 0
  THEN IF n = 0 THEN Outside ELSE Part(IF h.last > n THEN 0 ELSE n - h.last, n - 1)
  ELSE Whole

\* An int64 in the code: a number that does not fit is "junk", or malformed.
parseRange(h, n) ==
  IF h.form \in {"from", "between", "junk"}
  THEN IF h.first >= n THEN Outside
       ELSE IF h.form = "from" THEN Part(h.first, n - 1)
       ELSE IF h.form = "junk" \/ h.last < h.first THEN Whole
       ELSE Part(h.first, IF h.last < n - 1 THEN h.last ELSE n - 1)
  ELSE IF h.form = "suffix" /\ h.last > 0
  THEN IF n = 0 THEN Outside ELSE Part(IF h.last > n THEN 0 ELSE n - h.last, n - 1)
  ELSE Whole

-----------------------------------------------------------------------------
(* ReadRange of each kind: how many bytes it returns of an object of size   *)
(* n, where 0 stands for ErrInvalidRange (no range is empty).               *)

Overlap(rg, n) ==
  IF rg.start >= n THEN 0 ELSE (IF rg.end < n THEN rg.end ELSE n - 1) - rg.start + 1

filesystemReadRange(rg, n) == IF rg.end >= n THEN 0 ELSE rg.end - rg.start + 1

\* Mutant of azureReadRange: the length of the answer is not looked at.
azureReadRangeUnchecked(rg, n) == Overlap(rg, n)

\* The service answers with the bytes there are; a different length is refused.
azureReadRange(rg, n) ==
  IF Overlap(rg, n) # rg.end - rg.start + 1 THEN 0 ELSE Overlap(rg, n)

\* The services refuse a start past the end, and cut an end past it.
s3ReadRange(rg, n)  == Overlap(rg, n)
gcsReadRange(rg, n) == Overlap(rg, n)

ReadRange(rg, n) ==
  IF kind = "filesystem" THEN filesystemReadRange(rg, n)
  ELSE IF kind = "azure" THEN azureReadRange(rg, n)
  ELSE IF kind = "s3" THEN s3ReadRange(rg, n)
  ELSE gcsReadRange(rg, n)

-----------------------------------------------------------------------------
(* The handlers, one step for each call of the backend.                     *)

Goto(r, at) == pc' = [pc EXCEPT ![r] = at]

Response(status, declared, total, ver, from, sent) ==
  [status |-> status, declared |-> declared, total |-> total, ver |-> ver,
   from |-> from, sent |-> sent, cut |-> FALSE]

\* What Stat, Read and ReadRange are about: the version there is when they are
\* called.  An open body stays that version's, whatever happens to the path.
Opened == object.ver

\* The response is a from here on; what a body has sent is set when it ends.
Reply(r, at, a) == resp' = [resp EXCEPT ![r] = a] /\ Goto(r, at)

\* A response without content of the object; total is that of "bytes */total".
Answer(r, status, total) == Reply(r, "done", Response(status, 0, total, 0, 0, 0))

\* One with content, still to be copied to the client.
Send(r, status, declared, total, from, sent) ==
  Reply(r, "stream", Response(status, declared, total, Opened, from, sent))

\* Middleware and Require, before any handler runs.
Begin(r, q) ==
  /\ pc[r] = "new"
  /\ asked' = [asked EXCEPT ![r] = q]
  /\ during' = [during EXCEPT ![r] = {IF registered THEN object ELSE Null}]
  /\ LET id == Middleware(q) IN
     IF id.status # 0 THEN Answer(r, id.status, 0)
     ELSE IF ~Require(q.route, id.role) THEN Answer(r, 403, 0)
     ELSE Goto(r, "open") /\ UNCHANGED resp
  /\ UNCHANGED <<kind, registered, object, changes, size>>

\* The backend's first call for a route.
FirstCall(q) ==
  IF q.route = "delete" THEN IF kind \in {"s3", "filesystem"} THEN "look" ELSE "delete"
  ELSE IF q.route = "get" /\ q.range.form = "absent" THEN "read" ELSE "stat"

\* openBackend.
Open(r) ==
  /\ pc[r] = "open" /\ registered
  /\ Goto(r, FirstCall(asked[r]))
  /\ UNCHANGED <<kind, registered, object, changes, asked, size, resp, during>>

\* "backend not found".
OpenError(r) ==
  /\ pc[r] = "open" /\ ~registered
  /\ Answer(r, 404, 0)
  /\ UNCHANGED <<kind, registered, object, changes, asked, size, during>>

\* Mutant of NotFound: no return after the error, so that DeleteObject goes on.
NotFoundGoesOn(r) ==
  /\ pc[r] \in {"stat", "read", "range", "look"} /\ object = Null
  /\ Reply(r, IF pc[r] = "look" THEN "delete" ELSE "done", Response(404, 0, 0, 0, 0, 0))
  /\ UNCHANGED <<kind, registered, object, changes, asked, size, during>>

\* The object is not there when a call of the backend looks for it.
NotFound(r) ==
  /\ pc[r] \in {"stat", "read", "range", "look"} /\ object = Null
  /\ Answer(r, 404, 0)
  /\ UNCHANGED <<kind, registered, object, changes, asked, size, during>>

\* The backend, or the registry that opens it, reports any other error; 499 is for a
\* client that went away.  A delete that took effect nonetheless is a Remove by
\* somebody else.
Fail(r) ==
  /\ pc[r] \in PCs \ {"new", "stream", "done"}
  /\ \E status \in IF pc[r] = "open" THEN {502} ELSE {499, 502} : Answer(r, status, 0)
  /\ UNCHANGED <<kind, registered, object, changes, asked, size, during>>

\* handleStatObject: the headers of a whole read.
HeadStat(r) ==
  /\ pc[r] = "stat" /\ object # Null /\ asked[r].route = "head"
  /\ Reply(r, "done", Response(200, object.size, object.size, Opened, 0, 0))
  /\ UNCHANGED <<kind, registered, object, changes, asked, size, during>>

\* handleReadObject with a Range header: what to do depends on the size.
RangeStat(r) ==
  /\ pc[r] = "stat" /\ object # Null /\ asked[r].route = "get"
  /\ size' = [size EXCEPT ![r] = object.size]
  /\ LET rg == parseRange(asked[r].range, object.size) IN
     IF rg.unsatisfiable THEN Answer(r, 416, object.size)
     ELSE Goto(r, IF rg.parsed THEN "range" ELSE "read") /\ UNCHANGED resp
  /\ UNCHANGED <<kind, registered, object, changes, asked, during>>

\* serveWholeObject.
Read(r) ==
  /\ pc[r] = "read" /\ object # Null
  /\ Send(r, 200, object.size, object.size, 0, object.size)
  /\ UNCHANGED <<kind, registered, object, changes, asked, size, during>>

\* serveObjectRange, with the range and the total that Stat's size gave.
ServeRange(r) ==
  /\ pc[r] = "range" /\ object # Null
  /\ LET rg == parseRange(asked[r].range, size[r])
         n  == ReadRange(rg, object.size)
     IN  IF n = 0 THEN Answer(r, 416, 0)
         ELSE Send(r, 206, rg.end - rg.start + 1, size[r], rg.start, n)
  /\ UNCHANGED <<kind, registered, object, changes, asked, size, during>>

\* The copy to the client ends, complete or not.
Stream(r) ==
  /\ pc[r] = "stream"
  /\ Goto(r, "done")
  /\ UNCHANGED <<kind, registered, object, changes, asked, size, resp, during>>

CutShort(a, n) ==
  [status |-> a.status, declared |-> a.declared, total |-> a.total, ver |-> a.ver,
   from |-> a.from, sent |-> n, cut |-> TRUE]

StreamError(r) ==
  /\ pc[r] = "stream"
  /\ \E n \in 0..(resp[r].sent - 1) : Reply(r, "done", CutShort(resp[r], n))
  /\ UNCHANGED <<kind, registered, object, changes, asked, size, during>>

Runs(r) == pc[r] \notin {"new", "done"}

\* Other requests replace or remove the object (one step each, see ObjectStore).
Becomes(o) ==
  /\ object' = o
  /\ during' = [r \in Slots |-> IF Runs(r) THEN during[r] \union {o} ELSE during[r]]

Replace(n) ==
  /\ changes < MaxChanges /\ changes' = changes + 1
  /\ Becomes([ver |-> changes + 1, size |-> n])
  /\ UNCHANGED <<kind, registered, pc, asked, size, resp>>

Remove ==
  /\ changes < MaxChanges /\ changes' = changes + 1
  /\ object # Null /\ Becomes(Null)
  /\ UNCHANGED <<kind, registered, pc, asked, size, resp>>

\* An owner removes the backend: nobody finds the object there any more, but a
\* request that has opened it goes on with what it opened.
Unregister ==
  /\ registered /\ registered' = FALSE
  /\ during' = [r \in Slots |-> IF Runs(r) THEN during[r] \union {Null} ELSE during[r]]
  /\ UNCHANGED <<kind, object, changes, pc, asked, size, resp>>

\* DeleteObject looks first where the removal does not report a missing object
\* (S3), or would also remove a directory (filesystem).
DeleteLook(r) ==
  /\ pc[r] = "look" /\ object # Null
  /\ Goto(r, "delete")
  /\ UNCHANGED <<kind, registered, object, changes, asked, size, resp, during>>

\* Mutant of Removed: every service reports success for a key that is not there.
RemovedAlways == TRUE

Removed == object # Null \/ kind = "s3"

\* The object is removed, or was already.
Delete(r) ==
  /\ pc[r] = "delete"
  /\ IF Removed THEN Becomes(Null) /\ Answer(r, 204, 0)
     ELSE Answer(r, 404, 0) /\ UNCHANGED <<object, during>>
  /\ UNCHANGED <<kind, registered, changes, asked, size>>

Next ==
  \/ \E r \in Slots :
       \/ \E q \in Requests : Begin(r, q)
       \/ Open(r) \/ OpenError(r) \/ NotFound(r) \/ Fail(r) \/ HeadStat(r) \/ RangeStat(r)
       \/ Read(r) \/ ServeRange(r) \/ Stream(r) \/ StreamError(r) \/ DeleteLook(r) \/ Delete(r)
  \/ \E n \in 0..MaxSize : Replace(n)
  \/ Remove \/ Unregister

Spec == Init /\ [][Next]_vars

-----------------------------------------------------------------------------
(* Properties.                                                              *)

Ended(r, statuses) == pc[r] = "done" /\ resp[r].status \in statuses
Seen(r)            == during[r] \ {Null}

\* A token that a trusted issuer signed and that itself grants a role for the route
\* in the workspace; the forwarded role, if there is one, is sufficient too.
Entitled(q) ==
  LET allowed == IF q.route = "delete" THEN {"owner", "editor"} ELSE Roles
  IN  /\ q.token # NoToken /\ q.token.signer \in Trusted /\ q.token.iss = q.token.signer
      /\ \E role \in allowed : <<q.ws, role>> \in q.token.groups
      /\ q.forwarded # "" => q.forwarded \in allowed
      /\ ~grantsService(q.token)

\* Whoever is told anything about an object, or removes it, is entitled to by the
\* token.  The grants service, whose token grants a role as well, gets nothing here
\* (Middleware).
ServedWithinToken ==
  \A r \in Slots : pc[r] # "new" /\ ~Ended(r, {400, 401, 403}) => Entitled(asked[r])

\* What a Range header asks for, byte by byte (RFC 9110, 14.1.2).
Asks(h, i, n) ==
  \/ h.form = "from" /\ h.first <= i
  \/ h.form = "between" /\ h.first <= i /\ i <= h.last
  \/ h.form = "suffix" /\ n - h.last <= i

IsRange(h) ==
  \/ h.form = "from"
  \/ h.form = "between" /\ h.first <= h.last
  \/ h.form = "suffix" /\ h.last > 0

\* What the Range header asks of an object of size n.
Wanted(h, n) == {i \in 0..(n - 1) : Asks(h, i, n)}

\* The answer a to that header, for an object of size n.
Exact(h, n, a) ==
  IF IsRange(h)
  THEN /\ a.total = n
       /\ IF Wanted(h, n) = {} THEN a.status = 416
          ELSE a.status = 206 /\ (~a.cut => Wanted(h, n) = a.from..(a.from + a.sent - 1))
  ELSE a.status # 206

RangeIsExact(r) ==
  \A o \in during[r] : during[r] = {o} => Exact(asked[r].range, o.size, resp[r])

\* While the object stays what it is, a ranged GET returns exactly the bytes that
\* the header asks for and the object has, 416 if there are none, and never a part
\* for a header that is not a range (parseRange, ReadRange and the headers that
\* serveObjectRange computes).
RangeAnswered ==
  \A r \in Slots :
    Ended(r, {200, 206, 416}) /\ asked[r].route = "get" => RangeIsExact(r)

LengthIsHonest(r) ==
  /\ resp[r].sent <= resp[r].declared
  /\ resp[r].sent < resp[r].declared =>
       \/ resp[r].cut
       \/ /\ kind \in {"s3", "gcs"} /\ resp[r].status = 206
          /\ \E o, p \in Seen(r) : p.size < o.size

\* A body is never longer than its Content-Length, and shorter only if the copy
\* failed, or if the object was replaced by a shorter one between Stat and
\* ReadRange on a kind whose ReadRange does not check the length (S3 and GCS).
\* Azure and the filesystem answer 416 then.
LengthsHonest ==
  \A r \in Slots : Ended(r, {200, 206}) /\ asked[r].route = "get" => LengthIsHonest(r)

WasTrue(r) ==
  /\ resp[r].status = 404 => Null \in during[r]
  /\ resp[r].status = 204 => Seen(r) # {}
  /\ resp[r].status = 200 => [ver |-> resp[r].ver, size |-> resp[r].total] \in Seen(r)
  /\ resp[r].status = 206 => /\ \E o \in Seen(r) : o.size = resp[r].total
                             /\ \E o \in Seen(r) : o.ver = resp[r].ver

\* Every answer was true at some time between the request's beginning and its end:
\* the object, or its backend, was missing for a 404, the object was there to be
\* removed for a 204, of that size for a HEAD or a Content-Range, and of that
\* version for a body, although several calls of the backend went into the answer.
AnswersWereTrue == \A r \in Slots : pc[r] = "done" => WasTrue(r)

=============================================================================
