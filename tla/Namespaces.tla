----------------------------- MODULE Namespaces -----------------------------
(***************************************************************************)
(* Who owns a handle, and who belongs to an organisation: sign-up, users   *)
(* who come by single sign-on, claims and releases of aliases              *)
(* (lib/namespaces.ts), organisations, members and invitations             *)
(* (lib/orgs.ts).  Users and organisations are never deleted; the audit    *)
(* entry after the last write of a handler is left out.                    *)
(***************************************************************************)
EXTENDS RegistryRows

CONSTANT MaxNamespaces      \* handles a user may own on the Free plan

\* Those who create an organisation are signed in, and single sign-on is for
\* one that exists.
NameKinds == {"signUp", "sso", "claim", "release", "createOrg", "remove", "changeRole", "invite",
              "revokeInvite"}
ASSUME NamesAssumption ==
    \A w \in Workloads : \A r \in Requests :
        LET j == w[r]
        IN  /\ j.kind \in NameKinds => j.user \in Users /\ j.handle \in Handles
            /\ j.kind = "sso" => /\ j.candidates \in Seq(Handles) /\ Len(j.candidates) > 1
                                 /\ Alias0[j.handle] = "org"
            /\ j.kind = "createOrg" => Account0[j.user] # None
            /\ j.kind \in {"remove", "changeRole", "invite"} => j.member \in Users
            /\ j.kind \in {"changeRole", "invite"} => j.role \in Roles
            /\ j.kind \in {"revokeInvite", "redeem"} => j.invite \in Requests
            /\ j.kind = "redeem" => j.user \in Users

Named(r, kind) == job[r].kind = kind /\ UNCHANGED <<packageRows, accountRows>>

\* The three queries of one Promise.all; syntax and reserved brands pass.
Taken(h) == alias[h] # None \/ h \in orgs \/ \E u \in Users : account[u] = h

-----------------------------------------------------------------------------
(* Sign-up looks at the users only.                                         *)

SignUpCheck(r) ==
    LET u == job[r].user
        free == account[u] = None /\ \A v \in Users : account[v] # job[r].handle
    IN  /\ Named(r, "signUp")
        /\ Go(r, "start", IF free THEN "create" ELSE "refused")
        /\ Plain
        /\ UNCHANGED nameRows

\* user.create; a second row with the handle or the address throws.
SignUpCreate(r) ==
    LET u == job[r].user
        unique == account[u] = None /\ \A v \in Users : account[v] # job[r].handle
    IN  /\ Named(r, "signUp")
        /\ Go(r, "create", IF unique THEN "ok" ELSE "failed")
        /\ account' = IF unique THEN [account EXCEPT ![u] = job[r].handle] ELSE account
        /\ Plain
        /\ UNCHANGED <<orgs, alias, role, invites>>

\* findOrProvisionSsoUser (lib/sso-provision.ts), for the address of a user.
SsoLookup(r) ==
    /\ Named(r, "sso")
    /\ Go(r, "start", IF account[job[r].user] # None THEN "join" ELSE "candidate")
    /\ Keeping(r, 1)
    /\ UNCHANGED nameRows

\* The first candidate without a NamespaceHandle row, one query each; the last
\* one, which has a random suffix, is taken without a look.
SsoCandidate(r) ==
    LET n == read[r]
        free == alias[job[r].candidates[n]] = None
        last == n + 1 = Len(job[r].candidates)
    IN  /\ Named(r, "sso")
        /\ Go(r, "candidate", IF free \/ last THEN "create" ELSE "candidate")
        /\ Keeping(r, IF free THEN n ELSE n + 1)
        /\ UNCHANGED nameRows

SsoCreate(r) ==
    LET h == job[r].candidates[read[r]]
        unique == account[job[r].user] = None /\ \A v \in Users : account[v] # h
    IN  /\ Named(r, "sso")
        /\ Go(r, "create", IF unique THEN "write" ELSE "failed")
        /\ account' = IF unique THEN [account EXCEPT ![job[r].user] = h] ELSE account
        /\ Plain
        /\ UNCHANGED <<orgs, alias, role, invites>>

SsoNamespace(r) ==
    LET h == job[r].candidates[read[r]]
    IN  /\ Named(r, "sso")
        /\ Go(r, "write", IF alias[h] = None THEN "join" ELSE "failed")
        /\ alias' = IF alias[h] = None THEN [alias EXCEPT ![h] = job[r].user] ELSE alias
        /\ Plain
        /\ UNCHANGED <<account, orgs, role, invites>>

SsoJoin(r) ==
    LET h == job[r].handle
        u == job[r].user
    IN  /\ Named(r, "sso")
        /\ Go(r, "join", "ok")
        /\ role' = IF role[h][u] = None THEN [role EXCEPT ![h][u] = "contributor"] ELSE role
        /\ Plain
        /\ UNCHANGED <<account, orgs, alias, invites>>

-----------------------------------------------------------------------------
(* Aliases.                                                                 *)

Owned(u) == Cardinality({h \in Handles : alias[h] = u \/ account[u] = h})

ClaimCount(r) ==
    /\ Named(r, "claim")
    /\ Go(r, "start", IF Owned(job[r].user) >= MaxNamespaces THEN "refused" ELSE "taken")
    /\ Plain
    /\ UNCHANGED nameRows

ClaimCheck(r) ==
    /\ Named(r, "claim")
    /\ Go(r, "taken", IF Taken(job[r].handle) THEN "refused" ELSE "create")
    /\ Plain
    /\ UNCHANGED nameRows

ClaimCreate(r) ==
    LET h == job[r].handle
    IN  /\ Named(r, "claim")
        /\ Go(r, "create", IF alias[h] = None THEN "ok" ELSE "refused")
        /\ alias' = IF alias[h] = None THEN [alias EXCEPT ![h] = job[r].user] ELSE alias
        /\ Plain
        /\ UNCHANGED <<account, orgs, role, invites>>

\* The row must be an alias of the caller, and no extension may use it.
ReleaseCheck(r) ==
    LET mine == account[job[r].user] # job[r].handle /\ alias[job[r].handle] = job[r].user
    IN  /\ Named(r, "release")
        /\ Go(r, "start", IF mine THEN "count" ELSE "refused")
        /\ Plain
        /\ UNCHANGED nameRows

InUse(h) == \E e \in Exts : e[1] = h /\ extension[e] # None

ReleaseCount(r) ==
    /\ Named(r, "release")
    /\ Go(r, "count", IF InUse(job[r].handle) THEN "refused" ELSE "delete")
    /\ Plain
    /\ UNCHANGED nameRows

\* Deletes by handle, whoever owns the row by now; throws when there is none.
ReleaseDelete(r) ==
    LET h == job[r].handle
    IN  /\ Named(r, "release")
        /\ Go(r, "delete", IF alias[h] # None THEN "ok" ELSE "failed")
        /\ alias' = [alias EXCEPT ![h] = None]
        /\ Plain
        /\ UNCHANGED <<account, orgs, role, invites>>

-----------------------------------------------------------------------------
(* Organisations: a handle is the id of its organisation.                   *)

OrgCheck(r) ==
    /\ Named(r, "createOrg")
    /\ Go(r, "start", IF Taken(job[r].handle) THEN "refused" ELSE "create")
    /\ Plain
    /\ UNCHANGED nameRows

OrgCreateInParts(r) ==
    LET h == job[r].handle
        unique == h \notin orgs /\ alias[h] = None
    IN  /\ Named(r, "createOrg")
        /\ Go(r, "create", IF unique THEN "ok" ELSE "refused")
        /\ role' = [role EXCEPT ![h][job[r].user] = "owner"]
        /\ IF unique
             THEN orgs' = orgs \cup {h} /\ alias' = [alias EXCEPT ![h] = "org"]
             ELSE UNCHANGED <<orgs, alias>>
        /\ Plain
        /\ UNCHANGED <<account, invites>>
OrgCreateNameless(r) ==
    LET h == job[r].handle
        unique == h \notin orgs
    IN  /\ Named(r, "createOrg")
        /\ Go(r, "create", IF unique THEN "ok" ELSE "refused")
        /\ IF unique
             THEN /\ orgs' = orgs \cup {h}
                  /\ role' = [role EXCEPT ![h][job[r].user] = "owner"]
             ELSE UNCHANGED <<orgs, role>>
        /\ Plain
        /\ UNCHANGED <<account, alias, invites>>
\* One transaction: organization, owner and namespace rows, or none of them.
OrgCreate(r) ==
    LET h == job[r].handle
        unique == h \notin orgs /\ alias[h] = None
    IN  /\ Named(r, "createOrg")
        /\ Go(r, "create", IF unique THEN "ok" ELSE "refused")
        /\ IF unique
             THEN /\ orgs' = orgs \cup {h}
                  /\ alias' = [alias EXCEPT ![h] = "org"]
                  /\ role' = [role EXCEPT ![h][job[r].user] = "owner"]
             ELSE UNCHANGED <<orgs, alias, role>>
        /\ Plain
        /\ UNCHANGED <<account, invites>>

Owners(h) == {u \in Users : role[h][u] = "owner"}

\* loadOrgContext: the caller administers the organisation.
Administers(u, h) == h \in orgs /\ role[h][u] \in {"owner", "admin"}

\* Which role the request leaves the member with: None for a removal.
NewRole(r) == IF job[r].kind = "remove" THEN None ELSE job[r].role
MemberJob(r) == job[r].kind \in {"remove", "changeRole"}
             /\ UNCHANGED <<packageRows, accountRows>>

MemberAuthorize(r) ==
    LET h == job[r].handle
        allowed == /\ Administers(job[r].user, h)
                   /\ NewRole(r) = "owner" => role[h][job[r].user] = "owner"
    IN  /\ MemberJob(r)
        /\ Go(r, "start", IF allowed THEN "member" ELSE "refused")
        /\ Plain
        /\ UNCHANGED nameRows

\* What the handler does next with a member whose role it has read.
NextForMember(was, now) ==
    IF was = None THEN "refused"
    ELSE CASE was = "owner" /\ now # "owner" -> "owners"
           [] was = now                     -> "ok"
           [] OTHER                         -> "write"

MemberRead(r) ==
    /\ MemberJob(r)
    /\ Go(r, "member", NextForMember(role[job[r].handle][job[r].member], NewRole(r)))
    /\ Plain
    /\ UNCHANGED nameRows

MemberOwnersUnchecked(r) ==
    /\ MemberJob(r)
    /\ Go(r, "owners", "write")
    /\ Plain
    /\ UNCHANGED nameRows
\* wouldOrphanOrg counts the owners that would be left.
MemberOwners(r) ==
    /\ MemberJob(r)
    /\ Go(r, "owners", IF Owners(job[r].handle) \subseteq {job[r].member}
                         THEN "refused" ELSE "write")
    /\ Plain
    /\ UNCHANGED nameRows

\* delete or update throws when the membership is gone by now.
MemberWrite(r) ==
    LET h == job[r].handle
        m == job[r].member
    IN  /\ MemberJob(r)
        /\ Go(r, "write", IF role[h][m] # None THEN "ok" ELSE "failed")
        /\ role' = IF role[h][m] # None THEN [role EXCEPT ![h][m] = NewRole(r)] ELSE role
        /\ Plain
        /\ UNCHANGED <<account, orgs, alias, invites>>

-----------------------------------------------------------------------------
(* Invitations.                                                             *)

\* Nobody is invited as an owner.
InviteAuthorize(r) ==
    LET allowed == Administers(job[r].user, job[r].handle) /\ job[r].role # "owner"
    IN  /\ Named(r, "invite")
        /\ Go(r, "start", IF allowed THEN "member" ELSE "refused")
        /\ Plain
        /\ UNCHANGED nameRows

InviteMember(r) ==
    /\ Named(r, "invite")
    /\ Go(r, "member", IF role[job[r].handle][job[r].member] = None
                         THEN "supersede" ELSE "refused")
    /\ Plain
    /\ UNCHANGED nameRows

Pending(q, h, m) == /\ invites[q] # None
                    /\ invites[q].org = h /\ invites[q].member = m
                    /\ invites[q].state = "pending"

\* updateMany: a prior pending invitation of the same address is revoked.
InviteSupersede(r) ==
    /\ Named(r, "invite")
    /\ Go(r, "supersede", "create")
    /\ invites' = [q \in Requests |-> IF Pending(q, job[r].handle, job[r].member)
                                        THEN [invites[q] EXCEPT !.state = "revoked"]
                                        ELSE invites[q]]
    /\ Plain
    /\ UNCHANGED <<account, orgs, alias, role>>

InviteCreate(r) ==
    /\ Named(r, "invite")
    /\ Go(r, "create", "ok")
    /\ invites' = [invites EXCEPT ![r] = [org |-> job[r].handle, member |-> job[r].member,
                                          role |-> job[r].role, state |-> "pending"]]
    /\ Plain
    /\ UNCHANGED <<account, orgs, alias, role>>

InviteRevokeAuthorize(r) ==
    /\ Named(r, "revokeInvite")
    /\ Go(r, "start", IF Administers(job[r].user, job[r].handle) THEN "write" ELSE "refused")
    /\ Plain
    /\ UNCHANGED nameRows

\* updateMany with the organisation and the state in its condition: atomic.
InviteRevoke(r) ==
    LET i == job[r].invite
        pending == /\ invites[i] # None
                   /\ invites[i].org = job[r].handle /\ invites[i].state = "pending"
    IN  /\ Named(r, "revokeInvite")
        /\ Go(r, "write", IF pending THEN "ok" ELSE "refused")
        /\ invites' = IF pending THEN [invites EXCEPT ![i].state = "revoked"] ELSE invites
        /\ Plain
        /\ UNCHANGED <<account, orgs, alias, role>>

\* The invitation is for the address of the caller; the rows read after it, of
\* the user and the organisation, do not change.
RedeemCheck(r) ==
    LET i == job[r].invite
    IN  /\ Named(r, "redeem")
        /\ Go(r, "start", IF /\ account[job[r].user] # None
                             /\ invites[i] # None
                             /\ invites[i].state = "pending"
                             /\ invites[i].member = job[r].user
                            THEN "join" ELSE "refused")
        /\ Plain
        /\ UNCHANGED nameRows

\* One transaction: an existing member keeps the role, and the invitation is
\* accepted whatever has become of it.
RedeemJoin(r) ==
    LET i == job[r].invite
        h == invites[i].org
        u == job[r].user
    IN  /\ Named(r, "redeem")
        /\ Go(r, "join", "ok")
        /\ role' = IF role[h][u] = None
                     THEN [role EXCEPT ![h][u] = invites[i].role] ELSE role
        /\ invites' = [invites EXCEPT ![i].state = "accepted"]
        /\ Plain
        /\ UNCHANGED <<account, orgs, alias>>

NameStep(r) ==
    \/ SignUpCheck(r) \/ SignUpCreate(r)
    \/ SsoLookup(r) \/ SsoCandidate(r) \/ SsoCreate(r) \/ SsoNamespace(r) \/ SsoJoin(r)
    \/ ClaimCount(r) \/ ClaimCheck(r) \/ ClaimCreate(r)
    \/ ReleaseCheck(r) \/ ReleaseCount(r) \/ ReleaseDelete(r)
    \/ OrgCheck(r) \/ OrgCreate(r)
    \/ MemberAuthorize(r) \/ MemberRead(r) \/ MemberOwners(r) \/ MemberWrite(r)
    \/ InviteAuthorize(r) \/ InviteMember(r) \/ InviteSupersede(r) \/ InviteCreate(r)
    \/ InviteRevokeAuthorize(r) \/ InviteRevoke(r) \/ RedeemCheck(r) \/ RedeemJoin(r)
=============================================================================
