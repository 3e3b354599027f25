------------------------------ MODULE Registry ------------------------------
(***************************************************************************)
(* The registry: requests of every kind at once, each cut off anywhere.    *)
(* Nothing is locked between two calls of the database client, so what     *)
(* holds while handlers overlap holds by the constraints of the schema and *)
(* the order of the writes; the other invariants are those of handlers     *)
(* that run one at a time, and say so.                                     *)
(***************************************************************************)
EXTENDS Publishing, Namespaces

Next ==
    \/ \E r \in Requests : \/ NameStep(r) \/ AccountStep(r) \/ PublishStep(r)
                           \/ Answer(r) \/ CutOff(r)
    \/ Later
    \/ Finished

Spec == Init /\ [][Next]_vars

-----------------------------------------------------------------------------
(* Properties.                                                              *)

Steps == {"start", "create", "taken", "count", "delete", "member", "owners", "write",
          "supersede", "join", "candidate", "decide", "reread", "mint", "swap", "codes", "persist",
          "spend", "stamp", "wipe", "consume", "user", "alias", "key", "register",
          "owner", "aliasOwner", "upsert", "dup", "blob", "put", "insert", "latest",
          "answer"} \cup Ended

\* The rows of every table keep their types and their references: members,
\* invitations and aliases name users, and roles are held in organisations only.
TypeOK ==
    /\ job \in Workloads
    /\ at \in [Requests -> Steps]
    /\ overlapped \in BOOLEAN
    /\ account \in [Users -> Handles \cup {None}]
    /\ orgs \subseteq Handles
    /\ alias \in [Handles -> Users \cup {"org", None}]
    /\ role \in [Handles -> [Users -> Roles \cup {None}]]
    /\ \A h \in Handles : \A u \in Users :
           role[h][u] # None => h \in orgs /\ account[u] # None
    /\ invites \in [Requests -> InviteRows \cup {None}]
    /\ \A r \in Requests : invites[r] # None => invites[r].org \in orgs
    /\ extension \in [Exts -> Versions \cup {NoVersion, None}]
    /\ \A x \in versions : x.ext \in Exts /\ x.version \in Versions
    /\ tokens \in [TokenIds -> TokenRows \cup {None}]
    /\ \A t \in TokenIds : tokens[t] # None => account[tokens[t].user] # None
    /\ sessions \in [Sessions -> [user: Users \cup {None}, denied: BOOLEAN,
                                  consumed: BOOLEAN, expired: BOOLEAN]]
    /\ links \in [LinkIds -> LinkRows \cup {None}]
    /\ recovery \in [Users -> (SUBSET (Codes \cup Requests)) \cup {None}]

Published(r) == at[r] = "ok" /\ job[r].kind = "publish"

\* However publishes of one version race, at most one is answered with success,
\* and what it published stays as it is: nobody who installs the version later
\* gets the bundle or the key of another publish.
PublishedOnce ==
    \A r \in Requests : Published(r) =>
        /\ {x \in versions : x.ext = job[r].ext /\ x.version = job[r].version} = {Row(r)}
        /\ \A q \in Requests \ {r} : Published(q) =>
               <<job[q].ext, job[q].version>> # <<job[r].ext, job[r].version>>

Registered(h, k) == \E i \in DOMAIN keys : keys[i].handle = h /\ keys[i].key = k

\* A version the registry lists can be installed, though publishVersion has no
\* transaction, is cut off anywhere and overlaps with others: its bundle is
\* stored, its key is among the publisher's, its extension has a row; and a
\* latest version exists.
VersionsInstallable ==
    /\ \A x \in versions : /\ x.bundle \in blobs
                           /\ Registered(x.ext[1], x.key)
                           /\ extension[x.ext] # None
    /\ \A e \in Exts : extension[e] \in {None, NoVersion} \/ Exists(e, extension[e])

\* One publish after the other, in any order of versions: the latest version is
\* the highest one, a back-port does not become the latest, and a publish that
\* was refused or failed changes nothing.  A publish that is cut off between its
\* last two writes leaves the old one.
LatestIsHighest ==
    (~overlapped /\ \A r \in Requests : at[r] \in {"start"} \cup (Ended \ {"cut"})) =>
        \A x \in versions : extension[x.ext] >= x.version

Won(r, h) == at[r] = "ok" /\ job[r].kind \in {"claim", "createOrg"} /\ job[r].handle = h
Released(h) == \E r \in Requests : at[r] = "ok" /\ job[r].kind = "release"
                                /\ job[r].handle = h

\* Of the claims and new organisations that race for a handle one wins, unless a
\* release comes between them.
ClaimedOnce ==
    \A h \in Handles : \A r, q \in Requests :
        Won(r, h) /\ Won(q, h) /\ r # q => Released(h)

HasOwner(h) == \/ alias[h] # None \/ h \in orgs
               \/ \E u \in Users : account[u] = h

\* One handler at a time, however each is cut off: an organisation keeps an
\* owner, whoever leaves, is removed or steps down, and a handle that extensions
\* are published under keeps the user or the organisation it resolves to.
NamespacesKeepOwners ==
    ~overlapped =>
        /\ \A h \in orgs : Owners(h) # {}
        /\ \A h \in Handles : InUse(h) => HasOwner(h)

\* One handler at a time, however each is cut off: a device login gives one
\* token, a recovery code proves one token, a link is followed once, and of the
\* reset links of a user only the last one sent can still be used.
OneShot ==
    ~overlapped =>
        /\ \A s, t \in TokenIds :
               (s # t /\ tokens[s] # None /\ tokens[t] # None) =>
                  /\ tokens[s].session # None => tokens[s].session # tokens[t].session
                  /\ tokens[s].proof \notin {None, "totp"} => tokens[s].proof # tokens[t].proof
        /\ \A r, q \in Requests :
               (r # q /\ job[r].kind = "follow" /\ job[q].kind = "follow"
                  /\ at[r] = "ok" /\ at[q] = "ok") => job[r].link # job[q].link
        /\ \A l, m \in LinkIds :
               (l # m /\ links[l] # None /\ links[m] # None) =>
                   \/ links[l].used \/ links[m].used
                   \/ <<links[l].user, links[l].kind>> # <<links[m].user, links[m].kind>>
                   \/ links[l].kind # "reset"
=============================================================================
