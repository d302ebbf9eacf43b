------------------------------- MODULE Access -------------------------------
(***************************************************************************)
(* Who may do what (internal/auth/auth.go and the routes of NewRouter in   *)
(* internal/api/server.go): from the bearer token and the two headers that *)
(* the gateway forwards to an identity, and from there to a route.  All of *)
(* it is a function of one request.                                        *)
(*                                                                         *)
(* A token names its issuer (iss) and was signed with some issuer's key    *)
(* (signer); aud says that it is meant for this deployment, has not yet    *)
(* expired and names a subject.  A subject is a pair: the grants service   *)
(* of a workspace, <<"grants", ws>>, or anybody else.  A group is          *)
(* <<workspace, role>>.                                                    *)
(***************************************************************************)
EXTENDS Naturals, FiniteSets

CONSTANTS
  Trusted,    \* the issuers in Verifier.byIssuer
  NoToken     \* a request without a bearer token

Roles == {"owner", "editor", "viewer"}

rank(role) ==
  IF role = "owner" THEN 3 ELSE IF role = "editor" THEN 2
  ELSE IF role = "viewer" THEN 1 ELSE 0

byIssuer(iss) == iss \in Trusted

\* Verify: the issuer named only selects the key set that is tried.
Verify(token) == byIssuer(token.iss) /\ token.signer = token.iss /\ token.aud

grantsService(token) == token.module = "streamlit" /\ token.sub[1] = "grants"

\* The strongest role that the groups grant in a workspace, "" if none.
RoleInWorkspace(groups, ws) ==
  LET held == {g[2] : g \in {h \in groups : h[1] = ws}} \union {""}
  IN  CHOOSE r \in held : \A s \in held : rank(s) <= rank(r)

\* Mutant of EffectiveRole: the forwarded role is only looked at when missing.
EffectiveRoleUnnarrowed(forwarded, granted) == granted

\* The forwarded role may narrow what the token grants; one that is not
\* recognised leaves nothing.
EffectiveRole(forwarded, granted) ==
  IF forwarded = "" THEN granted
  ELSE IF rank(forwarded) = 0 THEN ""
  ELSE IF rank(forwarded) < rank(granted) THEN forwarded ELSE granted

\* net/http's names.
StatusBadRequest   == 400
StatusUnauthorized == 401
StatusForbidden    == 403

\* Middleware: the role a request runs with, or the status it is refused with.
Refusal(status) == [status |-> status, role |-> ""]
Identity(role)  == [status |-> 0, role |-> role]

Middleware(q) ==
  IF q.token = NoToken THEN Refusal(StatusUnauthorized)
  ELSE IF ~Verify(q.token) THEN Refusal(StatusUnauthorized)
  ELSE IF q.ws = "" THEN Refusal(StatusBadRequest)
  ELSE IF grantsService(q.token)
  THEN IF q.ws = q.token.sub[2] THEN Identity("grants-service") ELSE Refusal(StatusForbidden)
  ELSE LET granted == RoleInWorkspace(q.token.groups, q.ws) IN
       IF granted = "" \/ rank(q.forwarded) > rank(granted)
       THEN Refusal(StatusForbidden) ELSE Identity(EffectiveRole(q.forwarded, granted))

CanRead(role)  == role \in Roles
CanWrite(role) == role \in {"owner", "editor"}

\* Require, as NewRouter applies it to the routes for single objects.
Require(route, role) == IF route = "delete" THEN CanWrite(role) ELSE CanRead(role)

=============================================================================
