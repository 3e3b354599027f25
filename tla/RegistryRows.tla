---------------------------- MODULE RegistryRows ----------------------------
(***************************************************************************)
(* What the handlers of the registry share (apps/web): the rows of the     *)
(* database (prisma/schema.prisma), the bundles in the blob store, and the *)
(* requests.  A handler is an async function: the handlers of several      *)
(* requests interleave at every await, and any of them can be cut off      *)
(* there, by a call that throws or by the end of its process.              *)
(*                                                                         *)
(* One call of the database client is one step.  PostgreSQL runs at its    *)
(* default isolation, read committed: a $transaction over an array is one  *)
(* step, and in an interactive one each read is a step and the writes      *)
(* become visible together.                                                *)
(***************************************************************************)
EXTENDS Naturals, Sequences, FiniteSets

CONSTANTS
    Requests,   \* requests the registry handles
    Workloads,  \* the jobs those requests may ask for, functions on Requests
    None,       \* no such row, no such value
    Users,
    Handles,
    Slugs,
    Versions,   \* versions in their order, 1 .. n
    Sessions,   \* device logins the CLI has started
    Codes,      \* recovery codes
    Account0, Alias0, Role0, Token0, Link0, Recovery0  \* the rows the requests find

Exts  == Handles \X Slugs
Roles == {"owner", "admin", "contributor", "reader"}

\* A request creates at most one token, link, invitation or set of recovery
\* codes: its id is the request's.
TokenIds == (DOMAIN Token0) \cup Requests
LinkIds  == (DOMAIN Link0) \cup Requests

InviteRows == [org: Handles, member: Users, role: Roles,
               state: {"pending", "revoked", "accepted"}]
TokenRows  == [user: Users, scope: SUBSET Exts, expires: {"later", "soon", "past"},
               session: Sessions \cup {None}, proof: Codes \cup Requests \cup {"totp", None},
               fresh: BOOLEAN]
LinkRows   == [user: Users, kind: {"reset", "verify"}, used: BOOLEAN]

ASSUME VersionsAssumption == Versions \subseteq Nat \ {0}
ASSUME NoneAssumption ==
    /\ None \notin Users \cup Handles \cup Roles \cup {"org"} \cup Sessions \cup Codes
                   \cup Requests \cup {"totp"}
    /\ None \notin InviteRows \cup TokenRows \cup LinkRows
    /\ \A S \in SUBSET (Codes \cup Requests) : S # None
    /\ "org" \notin Users
    /\ "totp" \notin Codes \cup Requests
ASSUME RowsAssumption ==
    /\ Account0 \in [Users -> Handles \cup {None}]
    /\ Alias0 \in [Handles -> Users \cup {"org", None}]
    /\ Role0 \in [Handles -> [Users -> Roles \cup {None}]]
    /\ \A h \in Handles :
          /\ Alias0[h] = "org" => \E u \in Users : Role0[h][u] = "owner"
          /\ \A u \in Users : Role0[h][u] # None => Alias0[h] = "org" /\ Account0[u] # None
    /\ \A t \in DOMAIN Token0 :
          /\ Token0[t] \in TokenRows /\ Account0[Token0[t].user] # None
          /\ Token0[t].session = None /\ Token0[t].proof = None
    /\ \A l \in DOMAIN Link0 :
          /\ Link0[l] \in LinkRows
          /\ \A m \in (DOMAIN Link0) \ {l} :
                (Link0[l].kind = "reset" /\ Link0[m].kind = "reset"
                   /\ Link0[l].user = Link0[m].user) => Link0[l].used \/ Link0[m].used
    /\ Recovery0 \in [Users -> (SUBSET Codes) \cup {None}]
    /\ \A u, v \in Users : (u # v /\ Recovery0[u] # None /\ Recovery0[v] # None)
                              => Recovery0[u] \cap Recovery0[v] = {}
    /\ ((DOMAIN Token0) \cup (DOMAIN Link0) \cup Codes) \cap Requests = {}
    /\ \A w \in Workloads : DOMAIN w = Requests

VARIABLES
    job,        \* what each request asks for
    at,         \* where its handler is, or how it ended
    read,       \* what it has read and still uses
    overlapped, \* some handler took a step while another was under way
    account,    \* User.handle
    orgs,       \* Organization.handle
    alias,      \* NamespaceHandle: the user, "org", or None
    role,       \* Membership.role, by organisation and user
    invites,    \* OrgInvite, by the request that created it
    extension,  \* Extension: the latestVersion, None when there is no row
    versions,   \* Version
    keys,       \* PublisherKey in the order of registeredAt
    blobs,      \* bundles in the blob store
    tokens,     \* ApiToken
    sessions,   \* DeviceAuth
    links,      \* EmailVerificationToken and PasswordResetToken
    recovery    \* User.totpSecret and recoveryCodesHash: None when not enrolled

requestState == <<job, at, read, overlapped>>
nameRows     == <<account, orgs, alias, role, invites>>
packageRows  == <<extension, versions, keys, blobs>>
accountRows  == <<tokens, sessions, links, recovery>>
vars == <<requestState, nameRows, packageRows, accountRows>>

\* latestVersion of an extension whose row exists and that has no version yet.
NoVersion == 0

Init ==
    /\ job \in Workloads
    /\ at = [r \in Requests |-> "start"]
    /\ read = [r \in Requests |-> None]
    /\ overlapped = FALSE
    /\ account = Account0
    /\ orgs = {h \in Handles : Alias0[h] = "org"}
    /\ alias = Alias0
    /\ role = Role0
    /\ invites = [r \in Requests |-> None]
    /\ extension = [e \in Exts |-> None]
    /\ versions = {}
    /\ keys = <<>>
    /\ blobs = {}
    /\ tokens = [t \in TokenIds |-> IF t \in DOMAIN Token0 THEN Token0[t] ELSE None]
    /\ sessions = [s \in Sessions |-> [user |-> None, denied |-> FALSE,
                                       consumed |-> FALSE, expired |-> FALSE]]
    /\ links = [l \in LinkIds |-> IF l \in DOMAIN Link0 THEN Link0[l] ELSE None]
    /\ recovery = Recovery0

-----------------------------------------------------------------------------
(* Handlers.                                                                *)

\* "refused" answers with an error the handler chose, "failed" with a 500.
Ended == {"ok", "refused", "failed", "cut"}
UnderWay(r) == at[r] \notin Ended \cup {"start"}

\* The handler of r goes from one await to the next, or ends.
Go(r, here, next) ==
    /\ at[r] = here
    /\ at' = [at EXCEPT ![r] = next]
    /\ overlapped' = (overlapped \/ \E q \in Requests \ {r} : UnderWay(q))
    /\ UNCHANGED job

\* A step that keeps what it has read for a later one, and one that does not.
Keeping(r, x) == read' = [read EXCEPT ![r] = x]
Plain == UNCHANGED read

\* What is left of a handler is the audit entry and the response.
Answer(r) ==
    /\ job[r].kind # "publish"
    /\ Go(r, "answer", "ok")
    /\ Plain
    /\ UNCHANGED <<nameRows, packageRows, accountRows>>

CutOff(r) ==
    /\ UnderWay(r)
    /\ at' = [at EXCEPT ![r] = "cut"]
    /\ UNCHANGED <<job, read, overlapped, nameRows, packageRows, accountRows>>

Finished == (\A r \in Requests : at[r] \in Ended) /\ UNCHANGED vars
=============================================================================
