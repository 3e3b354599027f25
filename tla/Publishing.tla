----------------------------- MODULE Publishing -----------------------------
(***************************************************************************)
(* Publishing a version (POST .../versions, lib/publish.ts) and reserving  *)
(* an extension in the dashboard (app/new/actions.ts).  publishVersion     *)
(* reads and writes six tables and the blob store, one call at a time and  *)
(* without a transaction.                                                  *)
(*                                                                         *)
(* A job names its token, the package its path names and the one its       *)
(* manifest names, the version, the bundle, the key that signed it, and    *)
(* whether the request is valid in itself.                                 *)
(***************************************************************************)
EXTENDS Accounts

ASSUME PublishAssumption ==
    /\ None \notin Versions \cup {NoVersion}
    /\ \A w \in Workloads : \A r \in Requests :
          /\ w[r].kind = "publish" => /\ w[r].ext \in Exts /\ w[r].version \in Versions
                                      /\ w[r].token \in TokenIds
          /\ w[r].kind = "reserve" => w[r].user \in Users

Publish(r) == job[r].kind = "publish"
Publisher(r) == job[r].ext[1]
OnlyReads == UNCHANGED <<nameRows, packageRows, accountRows>>

-----------------------------------------------------------------------------
(* Who publishes.                                                           *)

PublishToken(r) ==
    LET t == job[r].token
    IN  /\ Publish(r)
        /\ Go(r, "start", IF Valid(t) THEN "user" ELSE "refused")
        /\ Keeping(r, tokens[t])
        /\ OnlyReads

\* tokenSatisfies2faGate: a user who has enrolled needs a recent proof.
TwoFactorGate(t) == recovery[t.user] # None => t.fresh

\* canPublish: a scope covers the package the path names.
InScope(r, t) == job[r].path \in t.scope

\* Sizes, bundle policy, WIT pin, permissions, digest, manifest and signature
\* are what they must be: all of it can be told from the request.
Acceptable(r) == job[r].valid

\* The user row is read after the token row.  A user may publish under the
\* handle of the account ...
PublishGate(r) ==
    LET t == read[r]
        admitted == TwoFactorGate(t) /\ InScope(r, t) /\ Acceptable(r)
    IN  /\ Publish(r)
        /\ Go(r, "user", CASE ~admitted                                       -> "refused"
                           [] admitted /\ account[t.user] = Publisher(r)      -> "key"
                           [] admitted /\ account[t.user] # Publisher(r)      -> "alias")
        /\ Keeping(r, t.user)
        /\ OnlyReads

\* ... or under an alias of the user ...
PublishAlias(r) ==
    /\ Publish(r)
    /\ Go(r, "alias", IF alias[Publisher(r)] = read[r] THEN "key" ELSE "member")
    /\ Plain
    /\ OnlyReads

\* ... or for an organisation the user contributes to.
PublishMember(r) ==
    LET h == Publisher(r)
    IN  /\ Publish(r)
        /\ Go(r, "member", IF /\ h \in orgs
                              /\ role[h][read[r]] \in {"owner", "admin", "contributor"}
                             THEN "key" ELSE "refused")
        /\ Plain
        /\ OnlyReads

-----------------------------------------------------------------------------
(* The publisher's key: the one registered first.                           *)

Bound(h) == {i \in DOMAIN keys : keys[i].handle = h}
FirstKey(h, k) == \E i \in Bound(h) : keys[i].key = k /\ \A j \in Bound(h) : i <= j

PublishKey(r) ==
    LET next == CASE Bound(Publisher(r)) = {}            -> "register"
                  [] FirstKey(Publisher(r), job[r].key)  -> "owner"
                  [] OTHER                               -> "refused"
    IN  /\ Publish(r)
        /\ Go(r, "key", next)
        /\ Keeping(r, None)
        /\ OnlyReads

\* keyId is unique in the table: create throws when any handle has the key.
PublishRegister(r) ==
    LET known == \E i \in DOMAIN keys : keys[i].key = job[r].key
        row   == [handle |-> Publisher(r), key |-> job[r].key]
    IN  /\ Publish(r)
        /\ Go(r, "register", IF known THEN "failed" ELSE "owner")
        /\ keys' = IF known THEN keys ELSE Append(keys, row)
        /\ Plain
        /\ UNCHANGED <<extension, versions, blobs, nameRows, accountRows>>

-----------------------------------------------------------------------------
(* The extension and the version.                                           *)

\* resolvePublisherOwner: users and organisations, then the aliases.
PublishOwner(r) ==
    LET h == Publisher(r)
        named == h \in orgs \/ \E u \in Users : account[u] = h
    IN  /\ Publish(r)
        /\ Go(r, "owner", IF named THEN "upsert" ELSE "aliasOwner")
        /\ Plain
        /\ OnlyReads

PublishAliasOwner(r) ==
    /\ Publish(r)
    /\ Go(r, "aliasOwner", IF alias[Publisher(r)] # None THEN "upsert" ELSE "refused")
    /\ Plain
    /\ OnlyReads

\* The row that upsert returns is used again for the latest version.
PublishUpsert(r) ==
    LET e == job[r].ext
        row == IF extension[e] = None THEN NoVersion ELSE extension[e]
    IN  /\ Publish(r)
        /\ Go(r, "upsert", "dup")
        /\ Keeping(r, row)
        /\ extension' = [extension EXCEPT ![e] = row]
        /\ UNCHANGED <<versions, keys, blobs, nameRows, accountRows>>

Exists(e, v) == \E x \in versions : x.ext = e /\ x.version = v

PublishDup(r) ==
    /\ Publish(r)
    /\ Go(r, "dup", IF Exists(job[r].ext, job[r].version) THEN "refused" ELSE "blob")
    /\ Plain
    /\ OnlyReads

PublishHasBundle(r) ==
    /\ Publish(r)
    /\ Go(r, "blob", IF job[r].bundle \in blobs THEN "insert" ELSE "put")
    /\ Plain
    /\ OnlyReads

PublishPutLater(r) ==
    /\ Publish(r)
    /\ Go(r, "put", "insert")
    /\ Plain
    /\ OnlyReads
PublishPut(r) ==
    /\ Publish(r)
    /\ Go(r, "put", "insert")
    /\ blobs' = blobs \cup {job[r].bundle}
    /\ Plain
    /\ UNCHANGED <<extension, versions, keys, nameRows, accountRows>>

Row(r) == [ext |-> job[r].ext, version |-> job[r].version,
           bundle |-> job[r].bundle, key |-> job[r].key]

PublishReplace(r) ==
    /\ Publish(r)
    /\ Go(r, "insert", "latest")
    /\ versions' = {x \in versions : <<x.ext, x.version>> # <<job[r].ext, job[r].version>>}
                   \cup {Row(r)}
    /\ Plain
    /\ UNCHANGED <<extension, keys, blobs, nameRows, accountRows>>
\* The version is unique within its extension: a second create throws.
PublishInsert(r) ==
    LET taken == Exists(job[r].ext, job[r].version)
    IN  /\ Publish(r)
        /\ Go(r, "insert", IF taken THEN "failed" ELSE "latest")
        /\ versions' = IF taken THEN versions ELSE versions \cup {Row(r)}
        /\ Plain
        /\ UNCHANGED <<extension, keys, blobs, nameRows, accountRows>>

NewVersion(a, b) == b
Higher(a, b) == IF a >= b THEN a ELSE b

\* extension.update, with the higher of this version and the one read before.
PublishLatest(r) ==
    /\ Publish(r)
    /\ Go(r, "latest", "answer")
    /\ extension' = [extension EXCEPT ![job[r].ext] = Higher(read[r], job[r].version)]
    /\ Keeping(r, None)
    /\ UNCHANGED <<versions, keys, blobs, nameRows, accountRows>>

\* The route compares the path with the manifest when all is published.
PublishAnswer(r) ==
    /\ Publish(r)
    /\ Go(r, "answer", IF job[r].path = job[r].ext THEN "ok" ELSE "refused")
    /\ Plain
    /\ OnlyReads

-----------------------------------------------------------------------------
(* createExtension, for a signed-in user.                                   *)

Reserved(r) == <<account[job[r].user], job[r].slug>>

ReserveCheck(r) ==
    /\ job[r].kind = "reserve"
    /\ Go(r, "start", IF extension[Reserved(r)] # None THEN "refused" ELSE "create")
    /\ Plain
    /\ OnlyReads

ReserveCreate(r) ==
    LET e == Reserved(r)
        free == extension[e] = None
    IN  /\ job[r].kind = "reserve"
        /\ Go(r, "create", IF free THEN "ok" ELSE "failed")
        /\ extension' = IF free THEN [extension EXCEPT ![e] = NoVersion] ELSE extension
        /\ Plain
        /\ UNCHANGED <<versions, keys, blobs, nameRows, accountRows>>

PublishStep(r) ==
    \/ PublishToken(r) \/ PublishGate(r) \/ PublishAlias(r) \/ PublishMember(r)
    \/ PublishKey(r) \/ PublishRegister(r) \/ PublishOwner(r) \/ PublishAliasOwner(r)
    \/ PublishUpsert(r) \/ PublishDup(r) \/ PublishHasBundle(r) \/ PublishPut(r)
    \/ PublishInsert(r) \/ PublishLatest(r) \/ PublishAnswer(r)
    \/ ReserveCheck(r) \/ ReserveCreate(r)
=============================================================================
