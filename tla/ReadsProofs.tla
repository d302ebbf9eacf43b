----------------------------- MODULE ReadsProofs -----------------------------
(***************************************************************************)
(* Proofs about Reads, for any requests, any number of them at once, and   *)
(* objects of any size that change any number of times.                    *)
(*                                                                         *)
(* IInv says what a request knows at each of its steps that changes of the *)
(* object cannot take back (Watched, Resolved), and what its response says *)
(* from the moment its headers are sent (Told).                            *)
(***************************************************************************)
EXTENDS Reads, TLAPS

\* What is at the path is among what was there while a running request that has
\* opened the backend ran; once the backend is gone, nothing is, too.
Watched(r) ==
  Runs(r) =>
    /\ registered \/ pc[r] # "open" => object \in during[r]
    /\ ~registered => Null \in during[r]

\* A request that reads a part has seen an object of the size it goes by, one that
\* removes from S3 has seen an object.
Resolved(r) ==
  /\ pc[r] # "new" => asked[r] \in Requests
  /\ pc[r] \in {"read", "range"} => asked[r].route = "get"
  /\ pc[r] = "read" => ~IsRange(asked[r].range)
  /\ pc[r] = "range" =>
       /\ IsRange(asked[r].range)
       /\ ~parseRange(asked[r].range, size[r]).unsatisfiable
       /\ \E o \in Seen(r) : o.size = size[r]
  /\ pc[r] = "delete" /\ kind = "s3" => Seen(r) # {}

\* The properties of a response hold from the moment there is one.
Told(r) ==
  pc[r] \in {"stream", "done"} =>
    /\ WasTrue(r)
    /\ pc[r] = "stream" => resp[r].status \in {200, 206}
    /\ asked[r].route = "get" /\ resp[r].status \in {200, 206, 416} => RangeIsExact(r)
    /\ asked[r].route = "get" /\ resp[r].status \in {200, 206} => LengthIsHonest(r)

Admitted(r) == pc[r] # "new" /\ ~Ended(r, {400, 401, 403}) => Entitled(asked[r])

Good(r) == Watched(r) /\ Resolved(r) /\ Told(r) /\ Admitted(r)

IInv == TypeOK /\ \A r \in Slots : Good(r)

-----------------------------------------------------------------------------
(* The pure parts: ranges, and what Middleware lets through.                *)

\* parseRange, when it finds a part, finds one of at least one byte inside the
\* object (server.go, parseRange).
LEMMA PartInside ==
  ASSUME NEW h \in Headers, NEW n \in Nat,
         parseRange(h, n).parsed, ~parseRange(h, n).unsatisfiable
  PROVE  /\ parseRange(h, n).start \in Nat /\ parseRange(h, n).end \in Nat
         /\ parseRange(h, n).start <= parseRange(h, n).end /\ parseRange(h, n).end < n
BY DEF Headers, parseRange, Whole, Outside, Part

\* For an object of any size, parseRange turns a header that is a range into
\* exactly the bytes it asks for, and one that is not into no part (server.go,
\* parseRange).
THEOREM ParseRangeExact ==
  ASSUME NEW h \in Headers, NEW n \in Nat
  PROVE  LET rg == parseRange(h, n) IN
         IF IsRange(h)
         THEN rg.parsed /\ Wanted(h, n) = IF rg.unsatisfiable THEN {} ELSE rg.start..rg.end
         ELSE rg.unsatisfiable \/ ~rg.parsed
<1>1. CASE h.form \in {"absent", "malformed"}
  BY <1>1 DEF Headers, parseRange, Whole, Outside, Part, IsRange
<1>2. CASE h.form = "junk"
  BY <1>2 DEF Headers, parseRange, Whole, Outside, Part, IsRange
<1>3. CASE h.form = "from"
  <2>1. h.first \in Nat
    BY <1>3 DEF Headers
  <2>2. CASE h.first >= n
    BY <1>3, <2>1, <2>2 DEF parseRange, Whole, Outside, Part, IsRange, Wanted, Asks
  <2>3. CASE h.first < n
    BY <1>3, <2>1, <2>3 DEF parseRange, Whole, Outside, Part, IsRange, Wanted, Asks
  <2> QED BY <2>1, <2>2, <2>3
<1>4. CASE h.form = "between"
  <2>1. h.first \in Nat /\ h.last \in Nat
    BY <1>4 DEF Headers
  <2>2. CASE h.first >= n
    BY <1>4, <2>1, <2>2 DEF parseRange, Whole, Outside, Part, IsRange, Wanted, Asks
  <2>3. CASE h.first < n
    BY <1>4, <2>1, <2>3 DEF parseRange, Whole, Outside, Part, IsRange, Wanted, Asks
  <2> QED BY <2>1, <2>2, <2>3
<1>5. CASE h.form = "suffix"
  <2>1. h.last \in Nat
    BY <1>5 DEF Headers
  <2> QED BY <1>5, <2>1 DEF parseRange, Whole, Outside, Part, IsRange, Wanted, Asks
<1> QED BY <1>1, <1>2, <1>3, <1>4, <1>5 DEF Headers

\* What ReadRange returns of an object of size n: no more than what was asked for,
\* exactly that if the object has it, and less only on S3 and GCS (ReadRange of the
\* four backends).
LEMMA ReadRangeLength ==
  ASSUME kind \in Kinds, NEW n \in Nat, NEW rg, rg.start \in Nat, rg.end \in Nat,
         rg.start <= rg.end
  PROVE  /\ ReadRange(rg, n) \in 0..(rg.end - rg.start + 1)
         /\ ReadRange(rg, n) <= n
         /\ rg.end < n => ReadRange(rg, n) = rg.end - rg.start + 1
         /\ ReadRange(rg, n) \notin {0, rg.end - rg.start + 1} =>
              kind \in {"s3", "gcs"} /\ n <= rg.end
BY ReadsAssumption DEF ReadRange, filesystemReadRange, azureReadRange, s3ReadRange,
   gcsReadRange, Overlap

\* auth.go, rank.
LEMMA RankBounds == \A role : rank(role) \in 0..3
BY DEF rank

LEMMA StrongestExists ==
  ASSUME NEW held, held # {} PROVE \E r \in held : \A s \in held : rank(s) <= rank(r)
<1>1. CASE \E r \in held : rank(r) = 3
  BY <1>1, RankBounds
<1>2. CASE (\A r \in held : rank(r) # 3) /\ \E r \in held : rank(r) = 2
  BY <1>2, RankBounds
<1>3. CASE (\A r \in held : rank(r) \notin {2, 3}) /\ \E r \in held : rank(r) = 1
  BY <1>3, RankBounds
<1>4. CASE \A r \in held : rank(r) \notin {1, 2, 3}
  BY <1>4, RankBounds
<1> QED BY <1>1, <1>2, <1>3, <1>4

\* The strongest role a set of groups grants in a workspace is the role of one of
\* its groups there, unless there is none (auth.go, RoleInWorkspace).
LEMMA StrongestRole ==
  ASSUME NEW groups, groups \subseteq STRING \X Roles, NEW ws
  PROVE  \/ RoleInWorkspace(groups, ws) = ""
         \/ /\ <<ws, RoleInWorkspace(groups, ws)>> \in groups
            /\ RoleInWorkspace(groups, ws) \in Roles
<1> DEFINE held == {g[2] : g \in {h \in groups : h[1] = ws}} \union {""}
<1>1. \E r \in held : \A s \in held : rank(s) <= rank(r)
  <2>1. held # {}
    OBVIOUS
  <2> HIDE DEF held
  <2> QED BY <2>1, StrongestExists
<1>2. RoleInWorkspace(groups, ws) \in held
  BY <1>1 DEF RoleInWorkspace
<1>3. ASSUME NEW g \in groups, g[1] = ws
      PROVE  <<ws, g[2]>> \in groups /\ g[2] \in Roles
  <2>1. g \in STRING \X Roles
    OBVIOUS
  <2>2. g = <<g[1], g[2]>> /\ g[2] \in Roles
    BY <2>1
  <2> QED BY <1>3, <2>2
<1> QED BY <1>2, <1>3

\* A forwarded role that does not exceed the granted one is what is left, or is as
\* strong as what is left (auth.go, EffectiveRole).
LEMMA Narrowed ==
  ASSUME NEW forwarded \in Roles, NEW granted \in Roles, rank(forwarded) <= rank(granted),
         EffectiveRole(forwarded, granted) \in {"owner", "editor"}
  PROVE  forwarded \in {"owner", "editor"} /\ granted \in {"owner", "editor"}
<1>1. /\ rank("owner") = 3 /\ rank("editor") = 2 /\ rank("viewer") = 1
  BY DEF rank
<1>2. granted # "viewer"
  <2>1. SUFFICES ASSUME granted = "viewer" PROVE FALSE
    OBVIOUS
  <2>2. forwarded = "viewer"
    BY <1>1, <2>1 DEF Roles
  <2> QED BY <1>1, <2>1, <2>2 DEF EffectiveRole
<1>3. forwarded # "viewer"
  <2>1. SUFFICES ASSUME forwarded = "viewer" PROVE FALSE
    OBVIOUS
  <2>2. rank(granted) \in {2, 3}
    BY <1>1, <1>2 DEF Roles
  <2>3. EffectiveRole(forwarded, granted) = forwarded
    BY <1>1, <2>1, <2>2 DEF EffectiveRole
  <2> QED BY <2>1, <2>3
<1> QED BY <1>2, <1>3 DEF Roles

\* The statuses of Middleware's refusals (auth.go, Middleware).
LEMMA MiddlewareStatus ==
  ASSUME NEW q \in Requests, Middleware(q).status # 0
  PROVE  Middleware(q).status \in {400, 401, 403}
<1>1. /\ \A role : Identity(role).status = 0
      /\ \A s \in {StatusBadRequest, StatusUnauthorized, StatusForbidden} :
            Refusal(s).status \in {400, 401, 403}
  BY DEF Refusal, Identity, StatusBadRequest, StatusUnauthorized, StatusForbidden
<1> DEFINE granted == RoleInWorkspace(q.token.groups, q.ws)
<1>2. CASE q.token = NoToken \/ ~Verify(q.token) \/ q.ws = ""
  <2>1. CASE q.token = NoToken \/ ~Verify(q.token)
    <3>1. Middleware(q) = Refusal(StatusUnauthorized)
      BY <2>1, Zenon DEF Middleware
    <3> QED BY <1>1, <3>1
  <2>2. CASE q.token # NoToken /\ Verify(q.token) /\ q.ws = ""
    <3>1. Middleware(q) = Refusal(StatusBadRequest)
      BY <2>2, Zenon DEF Middleware
    <3> QED BY <1>1, <3>1
  <2> QED BY <1>2, <2>1, <2>2
<1>3. CASE q.token # NoToken /\ Verify(q.token) /\ q.ws # "" /\ grantsService(q.token)
  <2>1. Middleware(q) = Identity("grants-service") \/ Middleware(q) = Refusal(StatusForbidden)
    BY <1>3, Zenon DEF Middleware
  <2> QED BY <1>1, <2>1
<1>4. CASE q.token # NoToken /\ Verify(q.token) /\ q.ws # "" /\ ~grantsService(q.token)
  <2>1. \/ Middleware(q) = Identity(EffectiveRole(q.forwarded, granted))
        \/ Middleware(q) = Refusal(StatusForbidden)
    BY <1>4, Zenon DEF Middleware
  <2> QED BY <1>1, <2>1
<1> QED BY <1>2, <1>3, <1>4

\* What Middleware's outcomes say.
LEMMA OutcomeFields ==
  /\ Refusal(StatusBadRequest).status # 0
  /\ Refusal(StatusUnauthorized).status # 0
  /\ Refusal(StatusForbidden).status # 0
  /\ \A role : Identity(role).role = role
BY DEF Refusal, Identity, StatusBadRequest, StatusUnauthorized, StatusForbidden

\* An outcome of status 0 is no refusal.
LEMMA NotRefused ==
  ASSUME NEW id, NEW role, id.status = 0, id = Identity(role) \/ id = Refusal(StatusForbidden)
  PROVE  id.role = role
<1>1. Identity(role).role = role /\ Refusal(StatusForbidden).status # 0
  BY OutcomeFields, Zenon
<1>2. CASE id = Identity(role)
  BY <1>1, <1>2, Zenon
<1>3. CASE id = Refusal(StatusForbidden)
  BY <1>1, <1>3, Zenon
<1> QED BY <1>2, <1>3, Zenon

\* No route for objects takes the role Middleware gives the grants service.
LEMMA GrantsServiceRole ==
  ASSUME NEW route PROVE ~Require(route, "grants-service")
BY DEF Require, CanRead, CanWrite, Roles

\* The grants service reaches no object (auth.go, grantsService).
LEMMA GrantsServiceOnlyRevokes ==
  ASSUME NEW q, NEW id, id = Middleware(q), id.status = 0, Require(q.route, id.role),
         q.token # NoToken, Verify(q.token), q.ws # ""
  PROVE  ~grantsService(q.token)
<1>1. SUFFICES ASSUME grantsService(q.token) PROVE FALSE
  OBVIOUS
<1>2. id = Identity("grants-service") \/ id = Refusal(StatusForbidden)
  BY <1>1, Zenon DEF Middleware
<1>3. id.role = "grants-service"
  BY <1>2, NotRefused
<1> QED BY <1>3, GrantsServiceRole

\* Whoever gets past Middleware and Require holds a trusted issuer's token, with a
\* group for the route's roles, and is not the grants service (auth.go, Middleware,
\* and the routes of NewRouter).
THEOREM OnlyWithinToken ==
  ASSUME NEW q \in Requests, Middleware(q).status = 0, Require(q.route, Middleware(q).role)
  PROVE  Entitled(q)
<1> DEFINE granted == RoleInWorkspace(q.token.groups, q.ws)
<1> USE DEF Entitled
<1>1. q.token # NoToken /\ Verify(q.token) /\ q.ws # ""
  BY OutcomeFields, Zenon DEF Middleware
<1>2. ~grantsService(q.token)
  BY <1>1, GrantsServiceOnlyRevokes
<1>3. /\ granted # "" /\ ~(rank(q.forwarded) > rank(granted))
      /\ Middleware(q).role = EffectiveRole(q.forwarded, granted)
  BY OutcomeFields, <1>1, <1>2, Zenon DEF Middleware
<1>4. <<q.ws, granted>> \in q.token.groups /\ granted \in Roles
  BY <1>1, <1>3, RequestAssumption, StrongestRole
<1>5. EffectiveRole(q.forwarded, granted) \in IF q.route = "delete" THEN {"owner", "editor"} ELSE Roles
  BY <1>3 DEF Require, CanRead, CanWrite
<1> HIDE DEF granted
<1>6. CASE q.forwarded = ""
  BY <1>1, <1>2, <1>4, <1>5, <1>6 DEF EffectiveRole, Verify, byIssuer
<1>7. CASE q.forwarded # ""
  <2>1. q.forwarded \in Roles
    BY <1>5, <1>7 DEF EffectiveRole, rank, Roles
  <2>2. q.token.signer \in Trusted /\ q.token.iss = q.token.signer
    BY <1>1 DEF Verify, byIssuer
  <2>3. q.route = "delete" => granted \in {"owner", "editor"} /\ q.forwarded \in {"owner", "editor"}
    <3>1. rank(q.forwarded) <= rank(granted)
      <4>1. rank(q.forwarded) \in 0..3 /\ rank(granted) \in 0..3
        BY RankBounds
      <4>2. ~(rank(q.forwarded) > rank(granted))
        BY <1>3, Zenon
      <4>3. \A a, b \in 0..3 : ~(a > b) => a <= b
        OBVIOUS
      <4> QED BY <4>1, <4>2, <4>3, Zenon
    <3> QED BY <1>4, <1>5, <2>1, <3>1, Narrowed
  <2> QED BY <1>1, <1>2, <1>4, <2>1, <2>2, <2>3
<1> QED BY <1>6, <1>7

-----------------------------------------------------------------------------
(* The inductive step.                                                      *)

LEMMA ResponseType ==
  ASSUME NEW status \in {200, 204, 206, 400, 401, 403, 404, 416, 499, 502},
         NEW declared \in 0..MaxSize, NEW total \in 0..MaxSize, NEW ver \in 0..MaxChanges,
         NEW from \in 0..MaxSize, NEW sent \in 0..MaxSize
  PROVE  Response(status, declared, total, ver, from, sent) \in Responses
BY DEF Response, Responses

\* A request that does not move keeps what it has while what was seen grows.
LEMMA Frame ==
  ASSUME NEW s \in Slots, Good(s), kind' = kind, pc'[s] = pc[s], asked'[s] = asked[s],
         size'[s] = size[s], resp'[s] = resp[s], during[s] \subseteq during'[s],
         Runs(s) => Watched(s)', ~Runs(s) => during'[s] = during[s]
  PROVE  Good(s)'
<1>1. Watched(s)'
  BY DEF Watched, Runs
<1>2. Resolved(s)'
  BY DEF Good, Resolved, Seen
<1>3. ASSUME pc[s] \in {"stream", "done"} PROVE Told(s)'
  <2>1. WasTrue(s)'
    BY <1>3 DEF Good, Told, WasTrue, Seen
  <2>2. \A o : during'[s] = {o} => during[s] = {o}
    BY <1>3 DEF Good, Watched, Runs
  <2>3. asked[s].route = "get" /\ resp[s].status \in {200, 206, 416} => RangeIsExact(s)'
    BY <1>3, <2>2 DEF Good, Told, RangeIsExact
  <2>4. asked[s].route = "get" /\ resp[s].status \in {200, 206} => LengthIsHonest(s)'
    BY <1>3 DEF Good, Told, LengthIsHonest, Seen
  <2> QED BY <1>3, <2>1, <2>3, <2>4 DEF Good, Told
<1>4. Told(s)'
  BY <1>3 DEF Told
<1>5. Admitted(s)'
  BY DEF Good, Admitted, Ended
<1> QED BY <1>1, <1>2, <1>4, <1>5 DEF Good

\* So an action of one request only has to keep the types and what it has itself.
LEMMA OneMoves ==
  ASSUME IInv, NEW r \in Slots, UNCHANGED <<kind, registered, object>>, TypeOK', Good(r)',
         \A s \in Slots \ {r} : /\ pc'[s] = pc[s] /\ asked'[s] = asked[s] /\ size'[s] = size[s]
                                /\ resp'[s] = resp[s] /\ during'[s] = during[s]
  PROVE  IInv'
<1>1. ASSUME NEW s \in Slots \ {r} PROVE Good(s)'
  <2>1. Watched(s)'
    BY DEF IInv, Good, Watched, Runs
  <2> QED BY <2>1, Frame DEF IInv
<1> QED BY <1>1 DEF IInv

\* One request gets the response a, and is at another step; the others stay.
Moved(r, at, a) ==
  /\ pc' \in [Slots -> PCs] /\ resp' \in [Slots -> Responses \union {Null}]
  /\ pc'[r] = at /\ resp'[r] = a
  /\ \A s \in Slots : resp'[s] # Null <=> pc'[s] \in {"stream", "done"}

LEMMA ReplyMoves ==
  ASSUME IInv, NEW r \in Slots, NEW at \in {"stream", "done"}, NEW a \in Responses,
         Reply(r, at, a)
  PROVE  Moved(r, at, a)
<1> USE DEF Reply, Goto
<1>1. /\ pc' \in [Slots -> PCs] /\ resp' \in [Slots -> Responses \union {Null}]
      /\ pc'[r] = at /\ resp'[r] = a
  BY DEF IInv, TypeOK, PCs
<1>2. ASSUME NEW s \in Slots \ {r} PROVE resp'[s] # Null <=> pc'[s] \in {"stream", "done"}
  <2>1. resp'[s] = resp[s] /\ pc'[s] = pc[s]
    BY DEF IInv, TypeOK
  <2> QED BY <2>1 DEF IInv, TypeOK
<1> QED BY <1>1, <1>2, NullAssumption DEF Moved

\* What a step that answers leaves alone: nothing but the size Stat found may change.
Apart(r) ==
  /\ UNCHANGED <<kind, registered, object, changes, asked, during>>
  /\ size' \in [Slots -> 0..MaxSize] /\ \A s \in Slots \ {r} : size'[s] = size[s]

LEMMA SizeStays ==
  ASSUME IInv, NEW r \in Slots,
         UNCHANGED <<kind, registered, object, changes, asked, size, during>>
  PROVE  Apart(r)
BY DEF IInv, TypeOK, Apart

\* A request at any step but a body's, ready to be answered with a.
LEMMA Responds ==
  ASSUME IInv, NEW r \in Slots, Runs(r), NEW a \in Responses, NEW at \in {"stream", "done"},
         a.status \notin {400, 401, 403}, at = "stream" => pc[r] # "open" /\ a.status \in {200, 206},
         Reply(r, at, a),
         Apart(r),
         WasTrue(r)',
         asked[r].route = "get" /\ a.status \in {200, 206, 416} => RangeIsExact(r)',
         asked[r].route = "get" /\ a.status \in {200, 206} => LengthIsHonest(r)'
  PROVE  IInv'
<1>0. Moved(r, at, a)
  BY ReplyMoves
<1>1. TypeOK'
  BY <1>0 DEF Moved, Apart, IInv, TypeOK
<1> USE DEF Reply, Goto, Apart
<1>2. pc'[r] = at /\ resp'[r] = a /\ asked'[r] = asked[r]
  BY <1>0 DEF Moved
<1>3. Good(r)'
  <2>1. Watched(r)'
    BY <1>2 DEF IInv, Good, Watched, Runs
  <2>2. Resolved(r)'
    BY <1>2 DEF IInv, Good, Resolved, Runs
  <2>3. Told(r)'
    BY <1>2 DEF Told
  <2>4. Admitted(r)'
    BY <1>2 DEF IInv, Good, Admitted, Ended, Runs
  <2> QED BY <2>1, <2>2, <2>3, <2>4 DEF Good
<1> QED BY <1>1, <1>3, OneMoves DEF IInv, TypeOK

\* An answer without content of the object.
LEMMA Answers ==
  ASSUME IInv, NEW r \in Slots, Runs(r), NEW status \in {204, 404, 416, 499, 502},
         NEW total \in 0..MaxSize, Answer(r, status, total),
         Apart(r),
         status = 404 => Null \in during[r],
         status = 204 => Seen(r) # {},
         status = 416 => \A o \in during[r] : during[r] = {o} =>
           (IsRange(asked[r].range) => Wanted(asked[r].range, o.size) = {} /\ total = o.size)
  PROVE  IInv'
<1> DEFINE a == Response(status, 0, total, 0, 0, 0)
<1>1. a \in Responses /\ a.status = status /\ a.total = total
  BY ReadsAssumption, ResponseType DEF Response
<1> HIDE DEF a
<1>2. Reply(r, "done", a)
  BY DEF Answer, a
<1>3. resp'[r] = a /\ asked'[r] = asked[r]
  BY <1>2 DEF IInv, TypeOK, Reply, Apart
<1>4. WasTrue(r)'
  BY <1>1, <1>3 DEF WasTrue, Seen, Apart
<1>5. status = 416 => RangeIsExact(r)'
  BY <1>1, <1>3 DEF RangeIsExact, Exact, Apart
<1>6. a.status \notin {400, 401, 403} /\ a.status \notin {200, 206}
  BY <1>1
<1>7. /\ asked[r].route = "get" /\ a.status \in {200, 206, 416} => RangeIsExact(r)'
      /\ asked[r].route = "get" /\ a.status \in {200, 206} => LengthIsHonest(r)'
  BY <1>1, <1>5, <1>6
<1>8. "done" \in {"stream", "done"} /\ "done" # "stream"
  OBVIOUS
<1>9. a \in Responses
  BY <1>1
<1> QED BY <1>2, <1>4, <1>6, <1>7, <1>8, <1>9, Responds, SMTT(40)

LEMMA ObjectThere ==
  ASSUME IInv, NEW r \in Slots, pc[r] \notin {"new", "open", "done"}, object # Null
  PROVE  /\ object \in [ver : 0..MaxChanges, size : 0..MaxSize]
         /\ object \in Seen(r)
BY DEF IInv, TypeOK, Objects, Good, Watched, Runs, Seen

LEMMA FailKeeps ==
  ASSUME IInv, NEW r \in Slots, Fail(r) PROVE IInv'
<1>1. Runs(r)
  BY DEF Fail, Runs, PCs
<1>2. PICK status \in {499, 502} : Answer(r, status, 0)
  BY DEF Fail
<1>3. Apart(r)
  BY SizeStays DEF Fail
<1> QED BY <1>1, <1>2, <1>3, Answers, ReadsAssumption

LEMMA NotFoundKeeps ==
  ASSUME IInv, NEW r \in Slots, NotFound(r) \/ OpenError(r) PROVE IInv'
<1>1. Runs(r) /\ Answer(r, 404, 0)
  BY DEF NotFound, OpenError, Runs
<1>2. Null \in during[r]
  BY DEF IInv, Good, Watched, Runs, NotFound, OpenError
<1>3. Apart(r)
  BY SizeStays DEF NotFound, OpenError
<1> QED BY <1>1, <1>2, <1>3, Answers, ReadsAssumption

LEMMA OpenKeeps ==
  ASSUME IInv, NEW r \in Slots, Open(r) PROVE IInv'
<1> USE DEF Open, Goto
<1>1. asked[r] \in Requests /\ pc'[r] = FirstCall(asked[r])
  BY DEF IInv, TypeOK, Good, Resolved
<1>2. FirstCall(asked[r]) \in {"look", "delete", "stat", "read"}
  BY DEF FirstCall
<1>3. TypeOK'
  BY <1>2 DEF IInv, TypeOK, PCs
<1>4. Watched(r)'
  BY DEF IInv, Good, Watched, Runs
<1>5. Resolved(r)'
  BY <1>1, <1>2, ReadsAssumption DEF Resolved, FirstCall, IsRange
<1>6. Told(r)' /\ Admitted(r)'
  BY <1>1, <1>2 DEF IInv, Good, Told, Admitted, Ended
<1>7. Good(r)'
  BY <1>4, <1>5, <1>6 DEF Good
<1> QED BY <1>3, <1>7, OneMoves DEF IInv, TypeOK

LEMMA DeleteLookKeeps ==
  ASSUME IInv, NEW r \in Slots, DeleteLook(r) PROVE IInv'
<1> USE DEF DeleteLook, Goto
<1>1. TypeOK' /\ pc'[r] = "delete"
  BY DEF IInv, TypeOK, PCs
<1>2. Seen(r) # {}
  BY ObjectThere
<1>3. Good(r)'
  BY <1>1, <1>2 DEF IInv, Good, Watched, Runs, Resolved, Seen, Told, Admitted, Ended
<1> QED BY <1>1, <1>3, OneMoves DEF IInv, TypeOK

LEMMA StreamKeeps ==
  ASSUME IInv, NEW r \in Slots, Stream(r) PROVE IInv'
<1> USE DEF Stream, Goto
<1>1. TypeOK' /\ pc'[r] = "done"
  BY DEF IInv, TypeOK, PCs
<1>2. WasTrue(r)' = WasTrue(r) /\ RangeIsExact(r)' = RangeIsExact(r)
      /\ LengthIsHonest(r)' = LengthIsHonest(r)
  BY DEF WasTrue, RangeIsExact, LengthIsHonest, Seen
<1>3. Told(r)'
  BY <1>2 DEF IInv, Good, Told
<1>4. Good(r)'
  BY <1>1, <1>3 DEF IInv, Good, Watched, Runs, Resolved, Seen, Admitted, Ended
<1> QED BY <1>1, <1>4, OneMoves DEF IInv, TypeOK

\* What was sent before the copy failed is no more than was declared, and the
\* response is marked as cut short.
LEMMA StreamErrorKeeps ==
  ASSUME IInv, NEW r \in Slots, StreamError(r) PROVE IInv'
<1> USE DEF StreamError
<1>1. resp[r] \in Responses
  BY DEF IInv, TypeOK
<1>2. PICK n \in 0..(resp[r].sent - 1) : Reply(r, "done", CutShort(resp[r], n))
  OBVIOUS
<1> DEFINE a == CutShort(resp[r], n)
<1>3. resp[r].sent \in 0..MaxSize /\ n < resp[r].sent /\ n \in 0..MaxSize
  BY <1>1, ReadsAssumption DEF Responses
<1>a. a \in Responses
  BY <1>1, <1>3 DEF Responses, CutShort
<1>b. /\ a.status = resp[r].status /\ a.total = resp[r].total /\ a.ver = resp[r].ver
      /\ a.declared = resp[r].declared /\ a.sent = n /\ a.cut
  BY DEF CutShort
<1> HIDE DEF a
<1>4. Reply(r, "done", a)
  BY <1>2 DEF a
<1>5. resp'[r] = a
  BY <1>4 DEF Reply, IInv, TypeOK
<1>6. WasTrue(r)'
  BY <1>b, <1>5 DEF IInv, Good, Told, WasTrue, Seen
<1>7. asked[r].route = "get" /\ a.status \in {200, 206, 416} => RangeIsExact(r)'
  <2>1. SUFFICES ASSUME asked[r].route = "get", a.status \in {200, 206, 416},
                        NEW o \in during[r], during[r] = {o}
                 PROVE  Exact(asked[r].range, o.size, a)
    BY <1>5 DEF RangeIsExact
  <2>2. Exact(asked[r].range, o.size, resp[r])
    BY <1>b, <2>1 DEF IInv, Good, Told, RangeIsExact
  <2> QED BY <1>b, <2>2 DEF Exact
<1>8. asked[r].route = "get" /\ a.status \in {200, 206} => LengthIsHonest(r)'
  BY <1>1, <1>3, <1>b, <1>5 DEF IInv, Good, Told, LengthIsHonest, Responses
<1>9. a.status \in {200, 206} /\ a.status \notin {400, 401, 403}
  BY <1>b DEF IInv, Good, Told
<1> QED BY <1>a, <1>4, <1>6, <1>7, <1>8, <1>9, Responds, SizeStays DEF Runs

LEMMA HeadStatKeeps ==
  ASSUME IInv, NEW r \in Slots, HeadStat(r) PROVE IInv'
<1> USE DEF HeadStat
<1>1. object \in [ver : 0..MaxChanges, size : 0..MaxSize] /\ object \in Seen(r)
  BY ObjectThere
<1> DEFINE a == Response(200, object.size, object.size, Opened, 0, 0)
<1>2. a \in Responses
  BY <1>1, ReadsAssumption, ResponseType DEF Opened
<1>3. a.status = 200 /\ a.total = object.size /\ a.ver = object.ver
  BY DEF Response, Opened
<1>4. Reply(r, "done", a)
  OBVIOUS
<1> HIDE DEF a
<1>5. resp'[r] = a
  BY <1>4 DEF Reply, IInv, TypeOK
<1>6. WasTrue(r)'
  BY <1>1, <1>3, <1>5 DEF WasTrue, Seen
<1> QED BY <1>2, <1>3, <1>4, <1>6, Responds, SizeStays DEF Runs

LEMMA ReadKeeps ==
  ASSUME IInv, NEW r \in Slots, Read(r) PROVE IInv'
<1> USE DEF Read
<1>1. object \in [ver : 0..MaxChanges, size : 0..MaxSize] /\ object \in Seen(r)
  BY ObjectThere
<1> DEFINE a == Response(200, object.size, object.size, Opened, 0, object.size)
<1>2. a \in Responses
  BY <1>1, ReadsAssumption, ResponseType DEF Opened
<1>3. /\ a.status = 200 /\ a.total = object.size /\ a.ver = object.ver
      /\ a.declared = object.size /\ a.sent = object.size
  BY DEF Response, Opened
<1>4. Reply(r, "stream", a)
  BY DEF Send
<1>5. Apart(r)
  BY SizeStays
<1> HIDE DEF a
<1>6. resp'[r] = a /\ UNCHANGED <<asked, during>>
  BY <1>4 DEF Reply, IInv, TypeOK
<1>7. WasTrue(r)'
  BY <1>1, <1>3, <1>6 DEF WasTrue, Seen
<1>8. RangeIsExact(r)'
  <2>1. ~IsRange(asked[r].range)
    BY DEF IInv, Good, Resolved
  <2> QED BY <1>3, <1>6, <2>1 DEF RangeIsExact, Exact
<1>9. LengthIsHonest(r)'
  BY <1>1, <1>3, <1>6 DEF LengthIsHonest
<1>10. Runs(r) /\ pc[r] # "open" /\ a.status \in {200, 206} /\ a.status \notin {400, 401, 403}
  BY <1>3 DEF Runs
<1> HIDE DEF Read
<1> QED BY <1>2, <1>4, <1>5, <1>7, <1>8, <1>9, <1>10, Responds

\* While the object stays what it is, ReadRange returns what Stat's size promised;
\* if it became shorter in between, less or nothing.
LEMMA ServeRangeKeeps ==
  ASSUME IInv, NEW r \in Slots, ServeRange(r) PROVE IInv'
<1> DEFINE h  == asked[r].range
           rg == parseRange(h, size[r])
           n  == ReadRange(rg, object.size)
           w  == rg.end - rg.start + 1
           a  == Response(206, w, size[r], Opened, rg.start, n)
<1>1. /\ pc[r] = "range" /\ object # Null
      /\ IF n = 0 THEN Answer(r, 416, 0) ELSE Send(r, 206, w, size[r], rg.start, n)
      /\ UNCHANGED <<kind, registered, object, changes, asked, size, during>>
  BY DEF ServeRange
<1>2. object \in [ver : 0..MaxChanges, size : 0..MaxSize] /\ object \in Seen(r)
  BY <1>1, ObjectThere
<1>3. asked[r] \in Requests /\ h \in Headers /\ size[r] \in 0..MaxSize /\ kind \in Kinds
  BY <1>1, RequestAssumption DEF IInv, TypeOK, Good, Resolved
<1>4. IsRange(h) /\ ~rg.unsatisfiable /\ \E o \in Seen(r) : o.size = size[r]
  BY <1>1 DEF IInv, Good, Resolved
<1>5. rg.parsed /\ Wanted(h, size[r]) = rg.start..rg.end
  BY <1>3, <1>4, ParseRangeExact, ReadsAssumption
<1>6. rg.start \in Nat /\ rg.end \in Nat /\ rg.start <= rg.end /\ rg.end < size[r]
  BY <1>3, <1>4, <1>5, PartInside, ReadsAssumption
<1> HIDE DEF h, rg
<1>7. /\ n \in 0..w /\ n <= object.size
      /\ rg.end < object.size => n = w
      /\ n \notin {0, w} => kind \in {"s3", "gcs"} /\ object.size <= rg.end
  BY <1>2, <1>3, <1>6, ReadRangeLength, ReadsAssumption
<1>8. ASSUME NEW o \in during[r], during[r] = {o}
      PROVE  o.size = size[r] /\ object = o /\ n = w /\ w # 0
  <2>1. o.size = size[r] /\ object = o
    BY <1>2, <1>4, <1>8 DEF Seen
  <2> QED BY <1>6, <1>7, <2>1
<1>9. Runs(r) /\ Apart(r)
  BY <1>1, SizeStays DEF Runs
<1> HIDE DEF n, w
<1>10. CASE n = 0
  <2>1. \A o \in during[r] : during[r] # {o}
    BY <1>8, <1>10
  <2>2. Answer(r, 416, 0) /\ 0 \in 0..MaxSize
    BY <1>1, <1>10, ReadsAssumption
  <2>3. \A o \in during[r] : during[r] = {o} =>
          (IsRange(asked[r].range) => Wanted(asked[r].range, o.size) = {} /\ 0 = o.size)
    BY <2>1
  <2> QED BY <1>9, <2>2, <2>3, Answers
<1>11. CASE n # 0
  <2>1. /\ w \in 0..MaxSize /\ n \in 0..MaxSize /\ rg.start \in 0..MaxSize
        /\ Opened \in 0..MaxChanges
    BY <1>2, <1>3, <1>6, <1>7, ReadsAssumption DEF w, Opened
  <2>2. a \in Responses
    BY <1>3, <2>1, ResponseType
  <2>3. /\ a.status = 206 /\ a.total = size[r] /\ a.ver = object.ver /\ a.declared = w
        /\ a.from = rg.start /\ a.sent = n
    BY DEF Response, Opened
  <2>4. Reply(r, "stream", a)
    BY <1>1, <1>11 DEF Send
  <2> HIDE DEF a
  <2>5. resp'[r] = a /\ UNCHANGED <<kind, asked, during>>
    BY <1>1, <2>4 DEF Reply, IInv, TypeOK
  <2>6. WasTrue(r)'
    BY <1>2, <1>4, <2>3, <2>5 DEF WasTrue, Seen
  <2>7. RangeIsExact(r)'
    <3>1. SUFFICES ASSUME NEW o \in during[r], during[r] = {o} PROVE Exact(h, o.size, a)
      BY <2>5 DEF RangeIsExact, h
    <3>2. o.size = size[r] /\ n = w
      BY <1>8, <3>1
    <3>3. rg.start + w - 1 = rg.end /\ rg.start..rg.end # {}
      BY <1>6 DEF w
    <3>4. Wanted(h, o.size) = rg.start..(rg.start + w - 1) /\ Wanted(h, o.size) # {}
      BY <1>5, <3>2, <3>3
    <3> QED BY <1>4, <2>3, <3>2, <3>4 DEF Exact
  <2>8. LengthIsHonest(r)'
    <3>1. n <= w
      BY <1>7, <2>1
    <3>2. n # w => \E o, p \in Seen(r) : p.size < o.size
      BY <1>2, <1>3, <1>4, <1>6, <1>7, <1>11
    <3>3. n < w => kind \in {"s3", "gcs"} /\ \E o, p \in Seen(r) : p.size < o.size
      BY <1>7, <1>11, <2>1, <3>2
    <3>4. Seen(r)' = Seen(r)
      BY <2>5 DEF Seen
    <3> QED BY <2>3, <2>5, <3>1, <3>3, <3>4 DEF LengthIsHonest
  <2>9. pc[r] # "open" /\ a.status \in {200, 206} /\ a.status \notin {400, 401, 403}
    BY <1>1, <2>3
  <2> QED BY <1>9, <2>2, <2>4, <2>6, <2>7, <2>8, <2>9, Responds
<1> QED BY <1>10, <1>11

LEMMA RangeStatKeeps ==
  ASSUME IInv, NEW r \in Slots, RangeStat(r) PROVE IInv'
<1> DEFINE h  == asked[r].range
           n  == object.size
           rg == parseRange(h, n)
<1>1. /\ pc[r] = "stat" /\ object # Null /\ asked[r].route = "get"
      /\ size' = [size EXCEPT ![r] = n]
      /\ IF rg.unsatisfiable THEN Answer(r, 416, n)
         ELSE Goto(r, IF rg.parsed THEN "range" ELSE "read") /\ UNCHANGED resp
      /\ UNCHANGED <<kind, registered, object, changes, asked, during>>
  BY DEF RangeStat
<1>2. object \in [ver : 0..MaxChanges, size : 0..MaxSize] /\ object \in Seen(r)
  BY <1>1, ObjectThere
<1>3. n \in 0..MaxSize /\ asked[r] \in Requests /\ h \in Headers
  BY <1>1, <1>2, RequestAssumption DEF IInv, Good, Resolved
<1> HIDE DEF h, n
<1>4. IF IsRange(h)
      THEN rg.parsed /\ Wanted(h, n) = IF rg.unsatisfiable THEN {} ELSE rg.start..rg.end
      ELSE rg.unsatisfiable \/ ~rg.parsed
  BY <1>3, ParseRangeExact, ReadsAssumption
<1>5. size'[r] = n /\ size' \in [Slots -> 0..MaxSize] /\ Apart(r)
  BY <1>1, <1>3 DEF IInv, TypeOK, Apart
<1>6. rg.unsatisfiable /\ IsRange(h) => Wanted(h, n) = {}
  BY <1>4
<1>7. CASE rg.unsatisfiable
  <2>1. \A o \in during[r] : during[r] = {o} =>
          (IsRange(asked[r].range) => Wanted(asked[r].range, o.size) = {} /\ n = o.size)
    BY <1>2, <1>6, <1>7 DEF Seen, h, n
  <2>2. Runs(r) /\ Answer(r, 416, n)
    BY <1>1, <1>7 DEF Runs
  <2> QED BY <1>3, <1>5, <2>1, <2>2, Answers, SMTT(30)
<1>8. CASE ~rg.unsatisfiable
  <2> DEFINE at == IF rg.parsed THEN "range" ELSE "read"
  <2>1. at \in {"range", "read"} /\ Goto(r, at) /\ UNCHANGED resp
    BY <1>1, <1>8
  <2>2. at = "read" => ~IsRange(h)
    BY <1>4
  <2>3. at = "range" => IsRange(h)
    BY <1>4, <1>8
  <2> HIDE DEF at, rg
  <2>4. TypeOK' /\ pc'[r] = at
    BY <1>1, <1>5, <2>1 DEF IInv, TypeOK, PCs, Goto
  <2>5. Watched(r)'
    BY <1>1, <2>1, <2>4 DEF IInv, Good, Watched, Runs
  <2>6. Resolved(r)'
    BY <1>1, <1>2, <1>3, <1>5, <1>8, <2>1, <2>2, <2>3, <2>4 DEF Resolved, Seen, h, rg, n
  <2>7. Told(r)' /\ Admitted(r)'
    BY <1>1, <2>1, <2>4 DEF IInv, Good, Told, Admitted, Ended
  <2>8. Good(r)'
    BY <2>5, <2>6, <2>7 DEF Good
  <2> QED BY <1>1, <1>5, <2>1, <2>4, <2>8, OneMoves DEF IInv, TypeOK, Goto
<1> QED BY <1>7, <1>8

\* A request that gets past Middleware and Require is entitled to the route.
LEMMA BeginKeeps ==
  ASSUME IInv, NEW r \in Slots, NEW q \in Requests, Begin(r, q) PROVE IInv'
<1> DEFINE now == IF registered THEN object ELSE Null
<1>1. /\ pc[r] = "new" /\ asked' = [asked EXCEPT ![r] = q]
      /\ during' = [during EXCEPT ![r] = {now}]
      /\ UNCHANGED <<kind, registered, object, changes, size>>
  BY DEF Begin
<1>2. \/ \E status \in {400, 401, 403} : Answer(r, status, 0)
      \/ Entitled(q) /\ Goto(r, "open") /\ UNCHANGED resp
  <2>1. CASE Middleware(q).status # 0
    <3>1. Answer(r, Middleware(q).status, 0)
      BY <2>1 DEF Begin
    <3>2. Middleware(q).status \in {400, 401, 403}
      BY <2>1, MiddlewareStatus
    <3> QED BY <3>1, <3>2
  <2>2. CASE Middleware(q).status = 0 /\ ~Require(q.route, Middleware(q).role)
    BY <2>2 DEF Begin
  <2>3. CASE Middleware(q).status = 0 /\ Require(q.route, Middleware(q).role)
    BY <2>3, OnlyWithinToken DEF Begin
  <2> QED BY <2>1, <2>2, <2>3
<1>3. now \in Objects
  BY DEF IInv, TypeOK, Objects
<1>4. asked'[r] = q /\ during'[r] = {now}
  BY <1>1 DEF IInv, TypeOK
<1>5. asked' \in [Slots -> Requests \union {Null}] /\ during' \in [Slots -> SUBSET Objects]
  BY <1>1, <1>3 DEF IInv, TypeOK
<1> HIDE DEF now
<1>6. CASE \E status \in {400, 401, 403} : Answer(r, status, 0)
  <2>1. PICK status \in {400, 401, 403} : Answer(r, status, 0)
    BY <1>6
  <2> DEFINE a == Response(status, 0, 0, 0, 0, 0)
  <2>2. a \in Responses /\ a.status = status
    BY ReadsAssumption, ResponseType DEF Response
  <2>3. Reply(r, "done", a)
    BY <2>1 DEF Answer
  <2> HIDE DEF a
  <2>4. Moved(r, "done", a)
    BY <2>2, <2>3, ReplyMoves
  <2>5. TypeOK'
    BY <1>1, <1>5, <2>4 DEF Moved, IInv, TypeOK
  <2>6. Good(r)'
    BY <1>4, <2>2, <2>4 DEF Moved, Good, Watched, Runs, Resolved, Told, WasTrue, Admitted, Ended
  <2> QED BY <1>1, <2>3, <2>5, <2>6, OneMoves DEF IInv, TypeOK, Reply, Goto
<1>7. CASE Entitled(q) /\ Goto(r, "open") /\ UNCHANGED resp
  <2>1. TypeOK' /\ pc'[r] = "open"
    BY <1>1, <1>5, <1>7 DEF IInv, TypeOK, PCs, Goto
  <2>2. Watched(r)'
    BY <1>1, <1>4, <2>1 DEF Watched, Runs, now
  <2>3. Resolved(r)' /\ Told(r)' /\ Admitted(r)'
    BY <1>4, <1>7, <2>1 DEF Resolved, Told, Admitted
  <2> QED BY <1>1, <1>7, <2>1, <2>2, <2>3, OneMoves DEF Good, IInv, TypeOK, Goto
<1> QED BY <1>2, <1>6, <1>7

-----------------------------------------------------------------------------
(* What others do to the object: everybody's view of it grows.              *)

\* Nobody moves: what was seen grows by what is at the path now.
LEMMA OthersKeep ==
  ASSUME IInv, TypeOK', UNCHANGED <<kind, pc, asked, size, resp>>,
         \A r \in Slots : ~Runs(r) => during'[r] = during[r],
         \A r \in Slots : Runs(r) => during[r] \subseteq during'[r],
         \A r \in Slots : Runs(r) => Watched(r)'
  PROVE  IInv'
<1>1. ASSUME NEW r \in Slots PROVE Good(r)'
  BY Frame DEF IInv
<1> QED BY <1>1 DEF IInv

LEMMA BecomesWatched ==
  ASSUME IInv, NEW o \in Objects, Becomes(o), UNCHANGED <<registered, pc>>
  PROVE  /\ object' \in Objects /\ during' \in [Slots -> SUBSET Objects]
         /\ \A r \in Slots : ~Runs(r) => during'[r] = during[r]
         /\ \A r \in Slots : Runs(r) => during'[r] = during[r] \union {o}
         /\ \A r \in Slots : Runs(r) => Watched(r)'
<1> USE DEF Becomes
<1>1. object' \in Objects /\ during' \in [Slots -> SUBSET Objects]
  BY DEF IInv, TypeOK
<1>2. ASSUME NEW r \in Slots
      PROVE  IF Runs(r) THEN during'[r] = during[r] \union {o} ELSE during'[r] = during[r]
  OBVIOUS
<1>3. ASSUME NEW r \in Slots, Runs(r) PROVE Watched(r)'
  BY <1>2, <1>3 DEF IInv, Good, Watched, Runs
<1> QED BY <1>1, <1>2, <1>3

LEMMA ReplaceKeeps ==
  ASSUME IInv, NEW n \in 0..MaxSize, Replace(n) PROVE IInv'
<1> DEFINE o == [ver |-> changes + 1, size |-> n]
<1>1. /\ changes < MaxChanges /\ changes' = changes + 1 /\ Becomes(o)
      /\ UNCHANGED <<kind, registered, pc, asked, size, resp>>
  BY DEF Replace
<1>2. o \in Objects /\ changes' \in 0..MaxChanges
  BY <1>1, ReadsAssumption DEF IInv, TypeOK, Objects
<1> HIDE DEF o
<1>3. TypeOK'
  BY <1>1, <1>2, BecomesWatched DEF IInv, TypeOK
<1> QED BY <1>1, <1>2, <1>3, BecomesWatched, OthersKeep

LEMMA RemoveKeeps ==
  ASSUME IInv, Remove PROVE IInv'
<1>1. /\ changes < MaxChanges /\ changes' = changes + 1 /\ Becomes(Null)
      /\ UNCHANGED <<kind, registered, pc, asked, size, resp>>
  BY DEF Remove
<1>2. Null \in Objects /\ changes' \in 0..MaxChanges
  BY <1>1, ReadsAssumption DEF IInv, TypeOK, Objects
<1>3. TypeOK'
  BY <1>1, <1>2, BecomesWatched DEF IInv, TypeOK
<1> QED BY <1>1, <1>2, <1>3, BecomesWatched, OthersKeep

LEMMA UnregisterKeeps ==
  ASSUME IInv, Unregister PROVE IInv'
<1> USE DEF Unregister
<1>1. ASSUME NEW r \in Slots
      PROVE  IF Runs(r) THEN during'[r] = during[r] \union {Null} ELSE during'[r] = during[r]
  OBVIOUS
<1>2. TypeOK'
  BY DEF IInv, TypeOK, Objects
<1>3. ASSUME NEW r \in Slots, Runs(r) PROVE Watched(r)'
  BY <1>1, <1>3 DEF IInv, Good, Watched, Runs
<1> QED BY <1>1, <1>2, <1>3, OthersKeep

\* A delete is an answer to its own request and a change to all others.
LEMMA DeleteKeeps ==
  ASSUME IInv, NEW r \in Slots, Delete(r) PROVE IInv'
<1>1. /\ pc[r] = "delete" /\ Runs(r)
      /\ IF Removed THEN Becomes(Null) /\ Answer(r, 204, 0)
         ELSE Answer(r, 404, 0) /\ UNCHANGED <<object, during>>
      /\ UNCHANGED <<kind, registered, changes, asked, size>>
  BY DEF Delete, Runs
<1>2. CASE ~Removed
  <2>1. Null \in during[r]
    BY <1>1, <1>2 DEF Removed, IInv, Good, Watched
  <2>2. Apart(r)
    BY <1>1, <1>2, SizeStays
  <2> QED BY <1>1, <1>2, <2>1, <2>2, Answers, ReadsAssumption
<1>3. CASE Removed
  <2> DEFINE a == Response(204, 0, 0, 0, 0, 0)
  <2>1. a \in Responses /\ a.status = 204
    BY ReadsAssumption, ResponseType DEF Response
  <2>2. Reply(r, "done", a) /\ Becomes(Null) /\ Null \in Objects
    BY <1>1, <1>3 DEF Answer, Objects
  <2> HIDE DEF a
  <2>3. Moved(r, "done", a)
    BY <2>1, <2>2, ReplyMoves
  <2>4. ASSUME NEW s \in Slots
        PROVE  IF Runs(s) THEN during'[s] = during[s] \union {Null} ELSE during'[s] = during[s]
    BY <2>2 DEF Becomes
  <2>5. object' = Null /\ during' \in [Slots -> SUBSET Objects]
    BY <2>2 DEF Becomes, IInv, TypeOK
  <2>6. TypeOK'
    BY <1>1, <2>2, <2>3, <2>5 DEF Moved, IInv, TypeOK
  <2>7. Seen(r) # {}
    <3>1. object # Null => object \in Seen(r)
      BY <1>1, ObjectThere
    <3>2. object = Null => Seen(r) # {}
      BY <1>1, <1>3 DEF Removed, IInv, Good, Resolved
    <3> QED BY <3>1, <3>2
  <2>8. Good(r)'
    <3>1. /\ pc'[r] = "done" /\ resp'[r] = a /\ asked'[r] = asked[r]
          /\ during'[r] = during[r] \union {Null}
      BY <1>1, <2>3, <2>4 DEF Moved
    <3>2. Told(r)'
      BY <2>1, <2>7, <3>1 DEF Told, WasTrue, Seen
    <3>3. Admitted(r)'
      BY <1>1, <3>1 DEF IInv, Good, Admitted, Ended
    <3>4. Watched(r)' /\ Resolved(r)'
      BY <1>1, <3>1 DEF IInv, Good, Watched, Runs, Resolved
    <3> QED BY <3>2, <3>3, <3>4 DEF Good
  <2>9. ASSUME NEW s \in Slots \ {r} PROVE Good(s)'
    <3>1. /\ pc'[s] = pc[s] /\ asked'[s] = asked[s] /\ size'[s] = size[s] /\ resp'[s] = resp[s]
          /\ kind' = kind
      BY <1>1, <2>2 DEF Reply, Goto, IInv, TypeOK
    <3>2. Runs(s) => Watched(s)'
      BY <1>1, <2>4, <2>5, <3>1 DEF IInv, Good, Watched, Runs
    <3> QED BY <2>4, <3>1, <3>2, Frame DEF IInv
  <2> QED BY <2>6, <2>8, <2>9 DEF IInv
<1> QED BY <1>2, <1>3

-----------------------------------------------------------------------------
(* The theorems.                                                            *)

LEMMA InitIInv == Init => IInv
<1> SUFFICES ASSUME Init PROVE IInv
  OBVIOUS
<1> USE DEF Init
<1>1. TypeOK
  BY ReadsAssumption DEF TypeOK, Objects, PCs
<1>2. ASSUME NEW r \in Slots PROVE Good(r)
  BY DEF Good, Watched, Runs, Resolved, Told, Admitted
<1> QED BY <1>1, <1>2 DEF IInv

LEMMA NextKeeps == IInv /\ [Next]_vars => IInv'
<1> SUFFICES ASSUME IInv, [Next]_vars PROVE IInv'
  OBVIOUS
<1>1. CASE UNCHANGED vars
  <2>1. TypeOK'
    BY <1>1 DEF vars, IInv, TypeOK
  <2>2. ASSUME NEW r \in Slots PROVE Good(r)'
    <3>1. Runs(r) => Watched(r)'
      BY <1>1 DEF vars, IInv, Good, Watched, Runs
    <3> QED BY <1>1, <3>1, Frame DEF vars, IInv
  <2> QED BY <2>1, <2>2 DEF IInv
<1>2. ASSUME NEW r \in Slots, NEW q \in Requests, Begin(r, q) PROVE IInv'
  BY <1>2, BeginKeeps
<1>3. ASSUME NEW r \in Slots,
             \/ Open(r) \/ OpenError(r) \/ NotFound(r) \/ Fail(r) \/ HeadStat(r) \/ RangeStat(r)
             \/ Read(r) \/ ServeRange(r) \/ Stream(r) \/ StreamError(r) \/ DeleteLook(r) \/ Delete(r)
      PROVE  IInv'
  BY <1>3, OpenKeeps, NotFoundKeeps, FailKeeps, HeadStatKeeps, RangeStatKeeps, ReadKeeps,
     ServeRangeKeeps, StreamKeeps, StreamErrorKeeps, DeleteLookKeeps, DeleteKeeps
<1>4. ASSUME NEW n \in 0..MaxSize, Replace(n) PROVE IInv'
  BY <1>4, ReplaceKeeps
<1>5. CASE Remove \/ Unregister
  BY <1>5, RemoveKeeps, UnregisterKeeps
<1> QED BY <1>1, <1>2, <1>3, <1>4, <1>5 DEF Next

\* IInv is an invariant of the requests and of the changes around them.
THEOREM ReadsInvariant == Spec => []IInv
BY InitIInv, NextKeeps, PTL DEF Spec

\* Types, and that there is a response exactly from the moment headers are sent.
THEOREM ReadsTypeOK == Spec => []TypeOK
<1>1. IInv => TypeOK
  BY DEF IInv
<1> QED BY <1>1, ReadsInvariant, PTL

\* Whoever is served is entitled to by a trusted issuer's token (auth.go, Middleware).
THEOREM WithinToken == Spec => []ServedWithinToken
<1>1. IInv => ServedWithinToken
  BY DEF IInv, Good, Admitted, ServedWithinToken
<1> QED BY <1>1, ReadsInvariant, PTL

\* A ranged GET of an object that stays what it is returns exactly what the header
\* asks for (server.go, handleReadObject, parseRange and serveObjectRange, with the
\* ReadRange of each backend).
THEOREM RangesExact == Spec => []RangeAnswered
<1>1. IInv => RangeAnswered
  BY DEF IInv, Good, Told, Ended, RangeAnswered
<1> QED BY <1>1, ReadsInvariant, PTL

\* A body is no longer than its Content-Length, and shorter only for the stated
\* reasons (server.go, serveObjectRange, with the ReadRange of each backend).
THEOREM LengthsTrue == Spec => []LengthsHonest
<1>1. IInv => LengthsHonest
  BY DEF IInv, Good, Told, Ended, LengthsHonest
<1> QED BY <1>1, ReadsInvariant, PTL

\* Every answer was true at some time while its request ran (server.go, the three
\* handlers of single objects).
THEOREM AnswersTrue == Spec => []AnswersWereTrue
<1>1. IInv => AnswersWereTrue
  BY DEF IInv, Good, Told, AnswersWereTrue
<1> QED BY <1>1, ReadsInvariant, PTL

=============================================================================
