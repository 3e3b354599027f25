--------------------------- MODULE RegistryProofs ---------------------------
(***************************************************************************)
(* The registry's invariants, for any number of requests of every kind at  *)
(* once, each cut off anywhere.                                            *)
(*                                                                         *)
(* VersionsInstallable and PublishedOnce: publishVersion has no            *)
(* transaction, so neither is inductive: that a version has its key, its   *)
(* row and its bundle follows from what earlier steps of the same handler  *)
(* left behind, and from no handler taking any of it away (PublishInv).    *)
(*                                                                         *)
(* TypeOK: what a handler has read and writes later is still there         *)
(* (NameReads, AccountReads), as accounts, organisations, sessions and     *)
(* links never go away (RowsInv).                                          *)
(*                                                                         *)
(* ClaimedOnce, NamespacesKeepOwners, LatestIsHighest, OneShot: each       *)
(* handler's last look at the rows, up to its write, as long as handlers   *)
(* do not overlap (OwnerReads, RowRead, LinkReads, CodeReads).  SerialInv  *)
(* says that no two are under way then, so the look of one is all there is *)
(* to preserve.                                                            *)
(***************************************************************************)
EXTENDS Registry, TLAPS

Shape ==
    /\ job \in Workloads
    /\ DOMAIN at = Requests /\ DOMAIN read = Requests
    /\ DOMAIN extension = Exts
    /\ \E S : keys \in Seq(S)
    /\ \A x \in versions : x.version \in Versions

RowsFor(r) == {x \in versions : x.ext = job[r].ext /\ x.version = job[r].version}
Inserted(r) == Publish(r) /\ at[r] \in {"latest", "answer", "ok"}

\* What the steps a publish has taken have left behind.
Keyed(r) ==
    at[r] \in {"owner", "aliasOwner", "upsert", "dup", "blob", "put", "insert"} =>
        Registered(Publisher(r), job[r].key)
Rowed(r) ==
    at[r] \in {"dup", "blob", "put", "insert", "latest"} =>
        /\ extension[job[r].ext] # None
        /\ read[r] = NoVersion \/ Exists(job[r].ext, read[r])
Stored(r) == at[r] = "insert" => job[r].bundle \in blobs
Listed(r) == at[r] \in {"latest", "answer", "ok"} => RowsFor(r) = {Row(r)}

RequestInv(r) == Publish(r) => Keyed(r) /\ Rowed(r) /\ Stored(r) /\ Listed(r)

OneInserts ==
    \A r, q \in Requests :
        Inserted(r) /\ Inserted(q) /\ r # q =>
            <<job[q].ext, job[q].version>> # <<job[r].ext, job[r].version>>

PublishInv == /\ Shape
              /\ VersionsInstallable
              /\ \A r \in Requests : RequestInv(r)
              /\ OneInserts

LEMMA InitPublish == Init => PublishInv
BY RowsAssumption
   DEF Init, PublishInv, Shape, VersionsInstallable, RequestInv, Keyed, Rowed, Stored,
       Listed, OneInserts, Inserted

-----------------------------------------------------------------------------
(* What a step leaves as it was.                                            *)

\* No row that a publish relies on goes away.
Grows ==
    /\ job' = job
    /\ versions \subseteq versions' /\ blobs \subseteq blobs'
    /\ \A h, k : Registered(h, k) => Registered(h, k)'
    /\ \A e \in Exts : extension[e] # None => extension'[e] # None

\* What is published stays published, and as it was.
Settled(q) == Inserted(q) => RowsFor(q)' = RowsFor(q)

LEMMA OthersKeep ==
    ASSUME Shape, Grows, NEW q \in Requests, RequestInv(q), Settled(q),
           at'[q] = at[q] /\ read'[q] = read[q]
    PROVE  RequestInv(q)'
<1> SUFFICES ASSUME Publish(q) PROVE (Keyed(q) /\ Rowed(q) /\ Stored(q) /\ Listed(q))'
  BY DEF RequestInv, Publish, Grows
<1>1. job[q].ext \in Exts
  BY PublishAssumption DEF Shape, Publish
<1>2. Keyed(q)' /\ Stored(q)'
  BY DEF RequestInv, Keyed, Stored, Grows, Publisher
<1>3. Rowed(q)'
  BY <1>1 DEF RequestInv, Rowed, Grows, Exists
<1>4. Listed(q)'
  BY DEF RequestInv, Listed, Grows, Settled, Inserted, Row
<1> QED
  BY <1>2, <1>3, <1>4

\* Steps of r that write no package row.
Reads(r) ==
    /\ UNCHANGED <<job, versions, blobs, keys, extension>>
    /\ DOMAIN at' = Requests /\ DOMAIN read' = Requests
    /\ \A q \in Requests \ {r} : at'[q] = at[q] /\ read'[q] = read[q]

LEMMA ReadsKeep ==
    ASSUME PublishInv, NEW r \in Requests, Reads(r), RequestInv(r)',
           Inserted(r)' => Inserted(r)
    PROVE  PublishInv'
<1>1. Grows
  BY DEF Reads, Grows, Registered
<1>2. \A q \in Requests : RowsFor(q)' = RowsFor(q)
  BY DEF Reads, RowsFor
<1>3. Shape'
  BY DEF PublishInv, Shape, Reads
<1>4. VersionsInstallable'
  BY DEF PublishInv, VersionsInstallable, Reads, Registered, Exists
<1>5. \A q \in Requests : RequestInv(q)'
  BY <1>1, <1>2, OthersKeep DEF PublishInv, Reads, Settled
<1>6. \A q \in Requests : Inserted(q)' => Inserted(q)
  BY DEF Reads, Inserted, Publish
<1>7. OneInserts'
  BY <1>6 DEF PublishInv, OneInserts, Reads
<1> QED
  BY <1>3, <1>4, <1>5, <1>7 DEF PublishInv

-----------------------------------------------------------------------------
(* Requests of the other kinds.                                             *)

LEMMA SignUpsRead ==
    ASSUME Shape, NEW r \in Requests,
           \/ SignUpCheck(r) \/ SignUpCreate(r) \/ SsoLookup(r) \/ SsoCandidate(r)
           \/ SsoCreate(r) \/ SsoNamespace(r) \/ SsoJoin(r)
    PROVE  Reads(r) /\ ~Publish(r)
BY DEF Shape, Reads, Publish, Go, Keeping, Plain, Named, packageRows, SignUpCheck,
       SignUpCreate, SsoLookup, SsoCandidate, SsoCreate, SsoNamespace, SsoJoin

LEMMA AliasesRead ==
    ASSUME Shape, NEW r \in Requests,
           \/ ClaimCount(r) \/ ClaimCheck(r) \/ ClaimCreate(r)
           \/ ReleaseCheck(r) \/ ReleaseCount(r) \/ ReleaseDelete(r)
           \/ OrgCheck(r) \/ OrgCreate(r)
    PROVE  Reads(r) /\ ~Publish(r)
BY DEF Shape, Reads, Publish, Go, Keeping, Plain, Named, packageRows, ClaimCount,
       ClaimCheck, ClaimCreate, ReleaseCheck, ReleaseCount, ReleaseDelete, OrgCheck, OrgCreate

LEMMA MembersRead ==
    ASSUME Shape, NEW r \in Requests,
           \/ MemberAuthorize(r) \/ MemberRead(r) \/ MemberOwners(r) \/ MemberWrite(r)
           \/ InviteAuthorize(r) \/ InviteMember(r) \/ InviteSupersede(r) \/ InviteCreate(r)
           \/ InviteRevokeAuthorize(r) \/ InviteRevoke(r) \/ RedeemCheck(r) \/ RedeemJoin(r)
    PROVE  Reads(r) /\ ~Publish(r)
BY DEF Shape, Reads, Publish, Go, Keeping, Plain, Named, MemberJob, packageRows,
       MemberAuthorize, MemberRead, MemberOwners, MemberWrite, InviteAuthorize,
       InviteMember, InviteSupersede, InviteCreate, InviteRevokeAuthorize, InviteRevoke,
       RedeemCheck, RedeemJoin

LEMMA LoginsRead ==
    ASSUME Shape, NEW r \in Requests,
           \/ LoadPending(r) \/ Approve(r) \/ Deny(r)
           \/ PollCheck(r) \/ PollReread(r) \/ PollMint(r)
           \/ Login(r) \/ MintCount(r) \/ CreateToken(r)
           \/ RotateRead(r) \/ RotateSwap(r) \/ Revoke(r) \/ LogoutCheck(r) \/ LogoutDelete(r)
    PROVE  Reads(r) /\ ~Publish(r)
BY DEF Shape, Reads, Publish, Go, Keeping, Plain, Account, packageRows, LoadPending,
       Approve, Deny, PollCheck, PollReread, PollMint, Login, MintCount, CreateToken,
       RotateRead, RotateSwap, Revoke, LogoutCheck, LogoutDelete

LEMMA ProofsRead ==
    ASSUME Shape, NEW r \in Requests,
           \/ Authenticate2fa(r) \/ Enroll(r) \/ ProofRead(r) \/ ProofSpend(r)
           \/ ProofStamp(r) \/ Disable2fa(r)
           \/ ResetInvalidate(r) \/ LinkCreate(r) \/ LinkRead(r) \/ LinkConsume(r)
    PROVE  Reads(r) /\ ~Publish(r)
BY DEF Shape, Reads, Publish, Go, Keeping, Plain, Account, ProofJob, packageRows,
       Authenticate2fa, Enroll, ProofRead, ProofSpend, ProofStamp, Disable2fa,
       ResetInvalidate, LinkCreate, LinkRead, LinkConsume

LEMMA OtherRequests ==
    ASSUME PublishInv, NEW r \in Requests, NameStep(r) \/ AccountStep(r) \/ Answer(r)
    PROVE  PublishInv'
<1>1. Shape
  BY DEF PublishInv
<1>2. CASE NameStep(r)
  BY <1>1, <1>2, SignUpsRead, AliasesRead, MembersRead, ReadsKeep
  DEF NameStep, RequestInv, Inserted, Publish, Reads
<1>3. CASE AccountStep(r)
  BY <1>1, <1>3, LoginsRead, ProofsRead, ReadsKeep
  DEF AccountStep, RequestInv, Inserted, Publish, Reads
<1>4. CASE Answer(r)
  <2>1. Reads(r) /\ ~Publish(r)
    BY <1>1, <1>4 DEF Shape, Answer, Reads, Publish, Go, Plain, packageRows
  <2> QED
    BY <2>1, ReadsKeep DEF RequestInv, Inserted, Publish, Reads
<1> QED
  BY <1>2, <1>3, <1>4

-----------------------------------------------------------------------------
(* Publishing: steps that only read, and the three that write a row which   *)
(* nothing depends on yet.                                                  *)

LEMMA PublisherSteps ==
    ASSUME PublishInv, NEW r \in Requests,
           PublishToken(r) \/ PublishGate(r) \/ PublishAlias(r) \/ PublishMember(r)
    PROVE  PublishInv'
<1>1. Shape
  BY DEF PublishInv
<1>2. Reads(r)
  BY <1>1
  DEF Shape, Reads, Go, Plain, Keeping, OnlyReads, packageRows, PublishToken, PublishGate,
      PublishAlias, PublishMember
<1>3. Publish(r) /\ job' = job /\ at'[r] \in {"user", "key", "alias", "member", "refused"}
  BY <1>1
  DEF Shape, Go, PublishToken, PublishGate, PublishAlias, PublishMember
<1>4. RequestInv(r)' /\ ~Inserted(r)'
  BY <1>3 DEF RequestInv, Keyed, Rowed, Stored, Listed, Inserted
<1> QED
  BY <1>2, <1>4, ReadsKeep

LEMMA KeyStep ==
    ASSUME PublishInv, NEW r \in Requests, PublishKey(r)
    PROVE  PublishInv'
<1>1. Shape
  BY DEF PublishInv
<1>2. Reads(r)
  BY <1>1 DEF Shape, Reads, Go, Keeping, OnlyReads, packageRows, PublishKey
<1>3. /\ Publish(r) /\ job' = job /\ keys' = keys
      /\ at'[r] \in {"register", "owner", "refused"}
      /\ at'[r] = "owner" => FirstKey(Publisher(r), job[r].key)
  BY <1>1 DEF Shape, Go, OnlyReads, packageRows, PublishKey
<1>4. at'[r] = "owner" => Registered(Publisher(r), job[r].key)
  BY <1>3 DEF FirstKey, Bound, Registered
<1>5. RequestInv(r)' /\ ~Inserted(r)'
  BY <1>3, <1>4
  DEF RequestInv, Keyed, Rowed, Stored, Listed, Inserted, Registered, Publisher
<1> QED
  BY <1>2, <1>5, ReadsKeep

LEMMA OwnerSteps ==
    ASSUME PublishInv, NEW r \in Requests, PublishOwner(r) \/ PublishAliasOwner(r)
    PROVE  PublishInv'
<1>1. Shape /\ RequestInv(r)
  BY DEF PublishInv
<1>2. Reads(r)
  BY <1>1 DEF Shape, Reads, Go, Plain, OnlyReads, packageRows, PublishOwner, PublishAliasOwner
<1>3. /\ Publish(r) /\ job' = job /\ keys' = keys
      /\ at[r] \in {"owner", "aliasOwner"}
      /\ at'[r] \in {"aliasOwner", "upsert", "refused"}
  BY <1>1 DEF Shape, Go, OnlyReads, packageRows, PublishOwner, PublishAliasOwner
<1>4. RequestInv(r)' /\ ~Inserted(r)'
  BY <1>1, <1>3
  DEF RequestInv, Keyed, Rowed, Stored, Listed, Inserted, Registered, Publisher, Publish
<1> QED
  BY <1>2, <1>4, ReadsKeep

LEMMA LookingSteps ==
    ASSUME PublishInv, NEW r \in Requests, PublishDup(r) \/ PublishHasBundle(r)
    PROVE  PublishInv'
<1>1. Shape /\ RequestInv(r)
  BY DEF PublishInv
<1>2. Reads(r)
  BY <1>1 DEF Shape, Reads, Go, Plain, OnlyReads, packageRows, PublishDup, PublishHasBundle
<1>3. /\ Publish(r) /\ at[r] \in {"dup", "blob"}
      /\ UNCHANGED <<job, keys, versions, blobs, extension, read>>
      /\ at'[r] \in {"blob", "put", "insert", "refused"}
      /\ at'[r] = "insert" => job[r].bundle \in blobs
  BY <1>1 DEF Shape, Go, Plain, OnlyReads, packageRows, PublishDup, PublishHasBundle
<1>4. RequestInv(r)' /\ ~Inserted(r)'
  BY <1>1, <1>3
  DEF RequestInv, Keyed, Rowed, Stored, Listed, Inserted, Registered, Publisher, Publish,
      Exists
<1> QED
  BY <1>2, <1>4, ReadsKeep

LEMMA LastSteps ==
    ASSUME PublishInv, NEW r \in Requests, PublishAnswer(r) \/ ReserveCheck(r) \/ CutOff(r)
    PROVE  PublishInv'
<1>1. Shape /\ RequestInv(r)
  BY DEF PublishInv
<1>2. Reads(r)
  BY <1>1
  DEF Shape, Reads, Go, Plain, OnlyReads, packageRows, PublishAnswer, ReserveCheck, CutOff
<1>3. /\ UNCHANGED <<job, versions>>
      /\ Publish(r) => at'[r] \in {"ok", "refused", "cut"}
      /\ Publish(r) /\ at'[r] = "ok" => at[r] = "answer"
  BY <1>1
  DEF Shape, Go, OnlyReads, packageRows, Publish, PublishAnswer, ReserveCheck, CutOff
<1>4. RequestInv(r)' /\ (Inserted(r)' => Inserted(r))
  BY <1>1, <1>3
  DEF RequestInv, Keyed, Rowed, Stored, Listed, Inserted, Publish, RowsFor, Row
<1> QED
  BY <1>2, <1>4, ReadsKeep

-----------------------------------------------------------------------------
(* Publishing: steps that write.                                            *)

\* A step of r that writes package rows: what is left to show for each.
LEMMA WritesKeep ==
    ASSUME PublishInv, NEW r \in Requests, Grows, Shape', VersionsInstallable',
           RequestInv(r)',
           \A q \in Requests \ {r} : at'[q] = at[q] /\ read'[q] = read[q] /\ Settled(q),
           \/ Inserted(r)' => Inserted(r)
           \/ ~Exists(job[r].ext, job[r].version)
    PROVE  PublishInv'
<1>1. \A q \in Requests : RequestInv(q)'
  BY OthersKeep DEF PublishInv
<1>2. \A q \in Requests \ {r} : Inserted(q)' => Inserted(q)
  BY DEF Grows, Inserted, Publish
<1>3. \A q \in Requests : Inserted(q) => Exists(job[q].ext, job[q].version)
  BY DEF PublishInv, RequestInv, Listed, Inserted, RowsFor, Exists
<1>4. OneInserts'
  BY <1>2, <1>3 DEF PublishInv, OneInserts, Grows, Exists
<1> QED
  BY <1>1, <1>4 DEF PublishInv

LEMMA RegisterStep ==
    ASSUME PublishInv, NEW r \in Requests, PublishRegister(r)
    PROVE  PublishInv'
<1> DEFINE row == [handle |-> Publisher(r), key |-> job[r].key]
           known == \E i \in DOMAIN keys : keys[i].key = job[r].key
<1>1. Shape
  BY DEF PublishInv
<1>2. /\ Publish(r) /\ at'[r] \in {"failed", "owner"}
      /\ UNCHANGED <<job, versions, blobs, extension, read>>
      /\ keys' = IF known THEN keys ELSE Append(keys, row)
      /\ at'[r] = "owner" => ~known
      /\ DOMAIN at' = Requests /\ \A q \in Requests \ {r} : at'[q] = at[q]
  BY <1>1 DEF Shape, Go, Plain, PublishRegister
<1>3. PICK S : keys \in Seq(S)
  BY <1>1 DEF Shape
<1>4. /\ Append(keys, row) \in Seq(S \cup {row})
      /\ \A i \in DOMAIN keys : i \in DOMAIN Append(keys, row) /\ Append(keys, row)[i] = keys[i]
      /\ Len(keys) + 1 \in DOMAIN Append(keys, row)
      /\ Append(keys, row)[Len(keys) + 1] = row
  BY <1>3
<1>5. Shape'
  BY <1>1, <1>2, <1>4 DEF Shape
<1>6. \A h, k : Registered(h, k) => Registered(h, k)'
  BY <1>2, <1>4 DEF Registered
<1>7. at'[r] = "owner" => Registered(Publisher(r), job[r].key)'
  BY <1>2, <1>4 DEF Registered, Publisher
<1>8. Grows
  BY <1>2, <1>6 DEF Grows
<1>9. VersionsInstallable'
  BY <1>2, <1>6 DEF PublishInv, VersionsInstallable, Exists
<1>10. RequestInv(r)' /\ ~Inserted(r)'
  BY <1>2, <1>7 DEF RequestInv, Keyed, Rowed, Stored, Listed, Inserted, Publisher
<1>11. \A q \in Requests : Settled(q)
  BY <1>2 DEF Settled, RowsFor
<1> QED
  BY <1>2, <1>5, <1>8, <1>9, <1>10, <1>11, WritesKeep

\* Writes of an Extension row.
LEMMA RowStep ==
    ASSUME PublishInv, NEW r \in Requests, NEW e, NEW v \in Versions \cup {NoVersion},
           UNCHANGED <<job, versions, blobs, keys>>,
           extension' = [extension EXCEPT ![e] = v],
           v = NoVersion \/ Exists(e, v),
           DOMAIN at' = Requests, DOMAIN read' = Requests,
           \A q \in Requests \ {r} : at'[q] = at[q] /\ read'[q] = read[q],
           RequestInv(r)', Inserted(r)' => Inserted(r)
    PROVE  PublishInv'
<1>1. Shape' /\ Grows
  BY PublishAssumption DEF PublishInv, Shape, Grows, Registered
<1>2. VersionsInstallable'
  BY PublishAssumption DEF PublishInv, Shape, VersionsInstallable, Registered, Exists
<1>3. \A q \in Requests : Settled(q)
  BY DEF Settled, RowsFor
<1> QED
  BY <1>1, <1>2, <1>3, WritesKeep

LEMMA UpsertStep ==
    ASSUME PublishInv, NEW r \in Requests, PublishUpsert(r)
    PROVE  PublishInv'
<1> DEFINE e == job[r].ext
           v == IF extension[e] = None THEN NoVersion ELSE extension[e]
<1>1. Shape /\ RequestInv(r) /\ VersionsInstallable
  BY DEF PublishInv
<1>2. /\ Publish(r) /\ at[r] = "upsert" /\ at'[r] = "dup" /\ read'[r] = v
      /\ UNCHANGED <<job, versions, blobs, keys>>
      /\ extension' = [extension EXCEPT ![e] = v]
      /\ DOMAIN at' = Requests /\ DOMAIN read' = Requests
      /\ \A q \in Requests \ {r} : at'[q] = at[q] /\ read'[q] = read[q]
  BY <1>1 DEF Shape, Go, Keeping, PublishUpsert
<1>3. e \in Exts
  BY <1>1, <1>2, PublishAssumption DEF Shape, Publish
<1>4. v \in Versions \cup {NoVersion} /\ (v = NoVersion \/ Exists(e, v))
  BY <1>1, <1>3 DEF Shape, VersionsInstallable, Exists
<1>5. v # None /\ extension'[e] = v
  BY <1>1, <1>2, <1>3, <1>4, PublishAssumption DEF Shape
<1>6. RequestInv(r)' /\ ~Inserted(r)'
  BY <1>1, <1>2, <1>4, <1>5
  DEF RequestInv, Keyed, Rowed, Stored, Listed, Inserted, Publisher, Publish, Exists, Registered
<1> QED
  BY <1>2, <1>4, <1>6, RowStep

LEMMA LatestStep ==
    ASSUME PublishInv, NEW r \in Requests, PublishLatest(r)
    PROVE  PublishInv'
<1> DEFINE e == job[r].ext
           v == Higher(read[r], job[r].version)
<1>1. Shape /\ RequestInv(r)
  BY DEF PublishInv
<1>2. /\ Publish(r) /\ at[r] = "latest" /\ at'[r] = "answer"
      /\ UNCHANGED <<job, versions, blobs, keys>>
      /\ extension' = [extension EXCEPT ![e] = v]
      /\ DOMAIN at' = Requests /\ DOMAIN read' = Requests
      /\ \A q \in Requests \ {r} : at'[q] = at[q] /\ read'[q] = read[q]
  BY <1>1 DEF Shape, Go, Keeping, PublishLatest
<1>3. RowsFor(r) = {Row(r)} /\ Inserted(r)
  BY <1>1, <1>2 DEF RequestInv, Listed, Inserted
<1>4. Exists(e, job[r].version) /\ (read[r] = NoVersion \/ Exists(e, read[r]))
  BY <1>1, <1>2, <1>3 DEF RequestInv, Rowed, RowsFor, Exists
<1>5. v \in {read[r], job[r].version}
  BY DEF Higher
<1>6. v \in Versions \cup {NoVersion} /\ (v = NoVersion \/ Exists(e, v))
  BY <1>1, <1>4, <1>5 DEF Shape, Exists
<1>7. RequestInv(r)'
  BY <1>2, <1>3 DEF RequestInv, Keyed, Rowed, Stored, Listed, RowsFor, Row
<1> QED
  BY <1>2, <1>3, <1>6, <1>7, RowStep

LEMMA ReserveStep ==
    ASSUME PublishInv, NEW r \in Requests, ReserveCreate(r)
    PROVE  PublishInv'
<1> DEFINE e == Reserved(r)
<1>1. Shape
  BY DEF PublishInv
<1>2. /\ ~Publish(r) /\ at'[r] \in {"ok", "failed"}
      /\ UNCHANGED <<job, versions, blobs, keys, read>>
      /\ \/ extension' = extension
         \/ extension' = [extension EXCEPT ![e] = NoVersion]
      /\ DOMAIN at' = Requests
      /\ \A q \in Requests \ {r} : at'[q] = at[q]
  BY <1>1 DEF Shape, Go, Plain, ReserveCreate, Publish
<1>3. RequestInv(r)' /\ ~Inserted(r)'
  BY <1>2 DEF RequestInv, Inserted, Publish
<1>4. CASE extension' = extension
  BY <1>1, <1>2, <1>3, <1>4, ReadsKeep DEF Reads, Shape
<1>5. CASE extension' = [extension EXCEPT ![e] = NoVersion]
  BY <1>1, <1>2, <1>3, <1>5, RowStep DEF Shape
<1> QED
  BY <1>2, <1>4, <1>5

LEMMA PutStep ==
    ASSUME PublishInv, NEW r \in Requests, PublishPut(r)
    PROVE  PublishInv'
<1>1. Shape /\ RequestInv(r)
  BY DEF PublishInv
<1>2. /\ Publish(r) /\ at[r] = "put" /\ at'[r] = "insert"
      /\ UNCHANGED <<job, versions, extension, keys, read>>
      /\ blobs' = blobs \cup {job[r].bundle}
      /\ DOMAIN at' = Requests /\ \A q \in Requests \ {r} : at'[q] = at[q]
  BY <1>1 DEF Shape, Go, Plain, PublishPut
<1>3. Grows /\ Shape'
  BY <1>1, <1>2 DEF Grows, Shape, Registered
<1>4. VersionsInstallable'
  BY <1>2 DEF PublishInv, VersionsInstallable, Exists, Registered
<1>5. RequestInv(r)' /\ ~Inserted(r)'
  BY <1>1, <1>2
  DEF RequestInv, Keyed, Rowed, Stored, Listed, Inserted, Publisher, Publish, Exists, Registered
<1>6. \A q \in Requests : Settled(q)
  BY <1>2 DEF Settled, RowsFor
<1> QED
  BY <1>2, <1>3, <1>4, <1>5, <1>6, WritesKeep

\* The one step that lists a version: what it relies on is there, and no other
\* publish has listed the same one.
LEMMA InsertStep ==
    ASSUME PublishInv, NEW r \in Requests, PublishInsert(r)
    PROVE  PublishInv'
<1> DEFINE taken == Exists(job[r].ext, job[r].version)
<1>1. Shape /\ RequestInv(r)
  BY DEF PublishInv
<1>2. /\ Publish(r) /\ at[r] = "insert"
      /\ at'[r] = IF taken THEN "failed" ELSE "latest"
      /\ UNCHANGED <<job, blobs, extension, keys, read>>
      /\ versions' = IF taken THEN versions ELSE versions \cup {Row(r)}
      /\ DOMAIN at' = Requests /\ \A q \in Requests \ {r} : at'[q] = at[q]
  BY <1>1 DEF Shape, Go, Plain, PublishInsert
<1>3. job[r].ext \in Exts /\ job[r].version \in Versions
  BY <1>1, <1>2, PublishAssumption DEF Shape, Publish
<1>4. Grows /\ Shape'
  BY <1>1, <1>2, <1>3 DEF Grows, Shape, Registered, Row
<1>5. /\ job[r].bundle \in blobs /\ Registered(Publisher(r), job[r].key)
      /\ extension[job[r].ext] # None
  BY <1>1, <1>2 DEF RequestInv, Keyed, Rowed, Stored
<1>6. VersionsInstallable'
  <2>1. \A x \in versions' : /\ x.bundle \in blobs'
                             /\ Registered(x.ext[1], x.key)'
                             /\ extension'[x.ext] # None
    BY <1>2, <1>5 DEF PublishInv, VersionsInstallable, Registered, Row, Publisher
  <2>2. \A e \in Exts : extension'[e] \in {None, NoVersion} \/ Exists(e, extension[e])'
    BY <1>2 DEF PublishInv, VersionsInstallable, Exists
  <2> QED
    BY <2>1, <2>2 DEF VersionsInstallable
<1>7. RequestInv(r)'
  <2>1. CASE taken
    BY <1>2, <2>1 DEF RequestInv, Keyed, Rowed, Stored, Listed
  <2>2. CASE ~taken
    <3>1. RowsFor(r)' = {Row(r)} /\ Row(r)' = Row(r)
      BY <1>2, <2>2 DEF RowsFor, Row, Exists
    <3>2. Rowed(r)'
      BY <1>1, <1>2, <2>2 DEF RequestInv, Rowed, Exists
    <3> QED
      BY <1>2, <2>2, <3>1, <3>2 DEF RequestInv, Keyed, Stored, Listed
  <2> QED
    BY <2>1, <2>2
<1>8. \A q \in Requests \ {r} : Settled(q)
  <2> SUFFICES ASSUME NEW q \in Requests \ {r}, Inserted(q), ~taken
               PROVE  RowsFor(q)' = RowsFor(q)
    BY <1>2 DEF Settled, RowsFor
  <2>1. <<job[q].ext, job[q].version>> # <<job[r].ext, job[r].version>>
    BY DEF PublishInv, RequestInv, Listed, Inserted, RowsFor, Exists
  <2> QED
    BY <1>2, <2>1 DEF RowsFor, Row
<1>9. (Inserted(r)' => Inserted(r)) \/ ~taken
  BY <1>2 DEF Inserted
<1> QED
  BY <1>2, <1>4, <1>6, <1>7, <1>8, <1>9, WritesKeep

-----------------------------------------------------------------------------
(* Theorems.                                                                *)

LEMMA NextPublish == PublishInv /\ [Next]_vars => PublishInv'
<1> SUFFICES ASSUME PublishInv, [Next]_vars PROVE PublishInv'
  OBVIOUS
<1>1. ASSUME UNCHANGED <<job, at, read, packageRows>> PROVE PublishInv'
  BY <1>1
  DEF packageRows, PublishInv, Shape, VersionsInstallable, Registered, Exists, RequestInv,
      Publish, Keyed, Rowed, Stored, Listed, Publisher, RowsFor, Row, OneInserts, Inserted
<1>2. ASSUME NEW r \in Requests, PublishStep(r) PROVE PublishInv'
  BY <1>2, PublisherSteps, KeyStep, RegisterStep, OwnerSteps, UpsertStep, LookingSteps,
     PutStep, InsertStep, LatestStep, LastSteps, ReserveStep DEF PublishStep
<1>3. CASE Later \/ Finished \/ UNCHANGED vars
  BY <1>1, <1>3 DEF Later, Finished, vars, requestState
<1> QED
  BY <1>2, <1>3, OtherRequests, LastSteps DEF Next

LEMMA PublishHolds == Spec => []PublishInv
BY InitPublish, NextPublish, PTL DEF Spec

\* Every listed version has its bundle, its key and its extension, and a latest
\* version exists, however publishes overlap and wherever they are cut off
\* (publishVersion, steps 8 to 13, without a transaction).
THEOREM VersionsInstallableHolds == Spec => []VersionsInstallable
<1>1. PublishInv => VersionsInstallable
  BY DEF PublishInv
<1> QED
  BY <1>1, PublishHolds, PTL

\* Of the publishes of one version at most one succeeds, and what it has
\* published is never replaced (publishVersion, steps 10 and 12).
THEOREM PublishedOnceHolds == Spec => []PublishedOnce
<1>1. PublishInv => PublishedOnce
  BY DEF PublishInv, RequestInv, Listed, OneInserts, Inserted, Publish, RowsFor, Published,
         PublishedOnce
<1> QED
  BY <1>1, PublishHolds, PTL

-----------------------------------------------------------------------------
(* Names: the types of their rows.                                          *)

\* Accounts and organisations that were there are still there.
Kept == /\ \A h \in Handles : Alias0[h] = "org" => h \in orgs
        /\ \A u \in Users : Account0[u] # None => account[u] # None

NameTypes ==
    /\ account \in [Users -> Handles \cup {None}]
    /\ orgs \subseteq Handles
    /\ alias \in [Handles -> Users \cup {"org", None}]
    /\ role \in [Handles -> [Users -> Roles \cup {None}]]
    /\ \A h \in Handles : \A u \in Users :
           role[h][u] # None => h \in orgs /\ account[u] # None
    /\ invites \in [Requests -> InviteRows \cup {None}]
    /\ \A r \in Requests : invites[r] # None => invites[r].org \in orgs

\* What a handler has read, and the guards it has passed that stay true.
NameReads(r) ==
    /\ job[r].kind = "sso" =>
          /\ at[r] = "candidate" => read[r] \in 1 .. (Len(job[r].candidates) - 1)
          /\ at[r] \in {"create", "write"} => read[r] \in 1 .. Len(job[r].candidates)
          /\ at[r] \in {"write", "join"} => account[job[r].user] # None
    /\ job[r].kind = "invite" =>
          (at[r] \in {"member", "supersede", "create"} => job[r].handle \in orgs)
    /\ job[r].kind = "redeem" =>
          (at[r] = "join" => invites[job[r].invite] # None /\ account[job[r].user] # None)

Handlers == /\ job \in Workloads /\ at \in [Requests -> Steps] /\ overlapped \in BOOLEAN
            /\ DOMAIN read = Requests

NamesInv == Handlers /\ NameTypes /\ Kept /\ \A r \in Requests : NameReads(r)

\* A step of r, seen from the handlers of the other requests, and the one that is
\* not the first to overlap.
Moves(r) ==
    /\ job' = job
    /\ at[r] \notin Ended /\ at' \in [Requests -> Steps] /\ DOMAIN read' = Requests
    /\ overlapped' \in BOOLEAN
    /\ \A q \in Requests \ {r} : at'[q] = at[q] /\ read'[q] = read[q]
Alone(r) == ~overlapped' => ~overlapped /\ \A q \in Requests \ {r} : ~UnderWay(q)

LEMMA GoStep ==
    ASSUME Handlers, NEW r \in Requests, NEW here \in Steps \ Ended, NEW next \in Steps,
           Go(r, here, next), read' = read \/ \E x : Keeping(r, x)
    PROVE  Moves(r) /\ Alone(r) /\ at[r] = here /\ at'[r] = next /\ Handlers'
<1>1. /\ job' = job /\ at[r] = here /\ at' = [at EXCEPT ![r] = next]
      /\ overlapped' = (overlapped \/ \E q \in Requests \ {r} : UnderWay(q))
  BY DEF Go
<1>2. /\ overlapped' \in BOOLEAN
      /\ (~overlapped' => ~overlapped /\ \A q \in Requests \ {r} : ~UnderWay(q))
  BY <1>1, Zenon DEF Handlers
<1>3. DOMAIN read' = Requests /\ \A q \in Requests \ {r} : read'[q] = read[q]
  BY DEF Handlers, Keeping
<1>4. at' \in [Requests -> Steps] /\ at'[r] = next /\ \A q \in Requests \ {r} : at'[q] = at[q]
  BY <1>1 DEF Handlers
<1> QED
  BY <1>1, <1>2, <1>3, <1>4 DEF Moves, Alone, Handlers

\* No account, organisation or invitation goes away.
NamesGrow ==
    /\ orgs \subseteq orgs'
    /\ \A u \in Users : account[u] # None => account'[u] # None
    /\ \A q \in Requests : invites[q] # None => invites'[q] # None

LEMMA JobOf ==
    ASSUME Handlers, NEW r \in Requests
    PROVE  LET j == job[r] IN
           /\ j.kind \in NameKinds => j.user \in Users /\ j.handle \in Handles
           /\ j.kind = "sso" => /\ j.candidates \in Seq(Handles) /\ Len(j.candidates) > 1
                                /\ Alias0[j.handle] = "org"
           /\ j.kind = "createOrg" => Account0[j.user] # None
           /\ j.kind \in {"remove", "changeRole", "invite"} => j.member \in Users
           /\ j.kind \in {"changeRole", "invite"} => j.role \in Roles
           /\ j.kind \in {"revokeInvite", "redeem"} => j.invite \in Requests
           /\ j.kind = "redeem" => j.user \in Users
BY NamesAssumption DEF Handlers

LEMMA NamesKeep ==
    ASSUME NamesInv, NEW r \in Requests, Moves(r), NameTypes', NamesGrow, NameReads(r)'
    PROVE  NamesInv'
<1>1. Handlers'
  BY DEF NamesInv, Handlers, Moves
<1>2. Kept'
  BY DEF NamesInv, Kept, NamesGrow
<1>3. ASSUME NEW q \in Requests \ {r} PROVE NameReads(q)'
  <2>1. NameReads(q) /\ job' = job /\ at'[q] = at[q] /\ read'[q] = read[q]
    BY DEF NamesInv, Moves
  <2>2. job[q].kind = "sso" => job[q].user \in Users
    BY JobOf DEF NamesInv, NameKinds
  <2>3. job[q].kind = "redeem" => job[q].user \in Users /\ job[q].invite \in Requests
    BY JobOf DEF NamesInv
  <2> QED
    BY <2>1, <2>2, <2>3 DEF NameReads, NamesGrow
<1> QED
  BY <1>1, <1>2, <1>3 DEF NamesInv

LEMMA NamesGo ==
    ASSUME Handlers, NEW r \in Requests, NameStep(r)
    PROVE  Moves(r) /\ Alone(r)
<1>1. CASE \/ SignUpCheck(r) \/ SignUpCreate(r) \/ SsoLookup(r) \/ SsoCandidate(r)
           \/ SsoCreate(r) \/ SsoNamespace(r) \/ SsoJoin(r)
  BY <1>1, GoStep DEF SignUpCheck, SignUpCreate, SsoLookup, SsoCandidate,
       SsoCreate, SsoNamespace, SsoJoin, Plain, Steps, Ended
<1>2. CASE \/ ClaimCount(r) \/ ClaimCheck(r) \/ ClaimCreate(r)
           \/ ReleaseCheck(r) \/ ReleaseCount(r) \/ ReleaseDelete(r)
           \/ OrgCheck(r) \/ OrgCreate(r)
  BY <1>2, GoStep DEF ClaimCount, ClaimCheck, ClaimCreate,
       ReleaseCheck, ReleaseCount, ReleaseDelete, OrgCheck, OrgCreate, Plain, Steps, Ended
<1>3. CASE MemberAuthorize(r) \/ MemberRead(r) \/ MemberOwners(r) \/ MemberWrite(r)
  BY <1>3, GoStep DEF MemberAuthorize, MemberRead, MemberOwners, MemberWrite, NextForMember,
       Plain, Steps, Ended
<1>4. CASE \/ InviteAuthorize(r) \/ InviteMember(r) \/ InviteSupersede(r) \/ InviteCreate(r)
           \/ InviteRevokeAuthorize(r) \/ InviteRevoke(r) \/ RedeemCheck(r) \/ RedeemJoin(r)
  BY <1>4, GoStep DEF InviteAuthorize, InviteMember, InviteSupersede, InviteCreate,
       InviteRevokeAuthorize, InviteRevoke, RedeemCheck, RedeemJoin, Plain, Steps, Ended
<1> QED
  BY <1>1, <1>2, <1>3, <1>4 DEF NameStep

\* The steps that write no row.
NameLook(r) ==
    \/ SignUpCheck(r) \/ SsoLookup(r) \/ SsoCandidate(r) \/ ClaimCount(r) \/ ClaimCheck(r)
    \/ ReleaseCheck(r) \/ ReleaseCount(r) \/ OrgCheck(r) \/ MemberAuthorize(r) \/ MemberRead(r)
    \/ MemberOwners(r) \/ InviteAuthorize(r) \/ InviteMember(r) \/ InviteRevokeAuthorize(r)
    \/ RedeemCheck(r)

LEMMA LookKeeps ==
    ASSUME NEW r \in Requests, NameLook(r)
    PROVE  UNCHANGED nameRows
BY DEF NameLook, SignUpCheck, SsoLookup, SsoCandidate, ClaimCount, ClaimCheck, ReleaseCheck,
       ReleaseCount, OrgCheck, MemberAuthorize, MemberRead, MemberOwners, InviteAuthorize,
       InviteMember, InviteRevokeAuthorize, RedeemCheck

LEMMA LookReads ==
    ASSUME NamesInv, NEW r \in Requests, NameLook(r)
    PROVE  NameReads(r)'
<1>1. /\ account' = account /\ orgs' = orgs /\ invites' = invites
      /\ Handlers /\ NameReads(r)
  BY LookKeeps DEF nameRows, NamesInv
<1>2. CASE \/ SignUpCheck(r) \/ ClaimCount(r) \/ ClaimCheck(r) \/ ReleaseCheck(r)
           \/ ReleaseCount(r) \/ OrgCheck(r) \/ MemberAuthorize(r) \/ MemberRead(r)
           \/ MemberOwners(r) \/ InviteRevokeAuthorize(r)
  <2>1. job' = job /\ job[r].kind \notin {"sso", "invite", "redeem"}
    BY <1>2 DEF SignUpCheck, ClaimCount, ClaimCheck, ReleaseCheck, ReleaseCount, OrgCheck,
                MemberAuthorize, MemberRead, MemberOwners, InviteRevokeAuthorize, Go, Named,
                MemberJob
  <2> QED
    BY <2>1 DEF NameReads
<1>3. CASE SsoLookup(r)
  <2>1. /\ job' = job /\ job[r].kind = "sso" /\ read'[r] = 1
        /\ at'[r] = IF account[job[r].user] # None THEN "join" ELSE "candidate"
    BY <1>1, <1>3 DEF SsoLookup, Go, Keeping, Named, Handlers
  <2>2. Len(job[r].candidates) \in Nat /\ Len(job[r].candidates) > 1
    BY <1>1, <2>1, JobOf
  <2> QED
    BY <1>1, <2>1, <2>2 DEF NameReads
<1>4. CASE SsoCandidate(r)
  <2>1. /\ job' = job /\ job[r].kind = "sso" /\ at[r] = "candidate"
        /\ at'[r] \in {"create", "candidate"} /\ read'[r] \in {read[r], read[r] + 1}
        /\ at'[r] = "candidate" => /\ read'[r] = read[r] + 1
                                   /\ read[r] + 1 # Len(job[r].candidates)
    BY <1>1, <1>4 DEF SsoCandidate, Go, Keeping, Named, Handlers
  <2>2. Len(job[r].candidates) \in Nat /\ read[r] \in 1 .. (Len(job[r].candidates) - 1)
    BY <1>1, <2>1, JobOf DEF NameReads
  <2>3. /\ at'[r] = "candidate" => read'[r] \in 1 .. (Len(job[r].candidates) - 1)
        /\ at'[r] = "create" => read'[r] \in 1 .. Len(job[r].candidates)
    BY <2>1, <2>2
  <2> QED
    BY <2>1, <2>3 DEF NameReads
<1>5. CASE InviteAuthorize(r)
  <2>1. /\ job' = job /\ job[r].kind = "invite"
        /\ at'[r] = "member" => job[r].handle \in orgs
        /\ at'[r] \in {"member", "refused"}
    BY <1>1, <1>5 DEF InviteAuthorize, Administers, Go, Named, Handlers
  <2> QED
    BY <1>1, <2>1 DEF NameReads
<1>6. CASE InviteMember(r)
  <2>1. job' = job /\ job[r].kind = "invite" /\ at[r] = "member"
    BY <1>6 DEF InviteMember, Go, Named
  <2> QED
    BY <1>1, <2>1 DEF NameReads
<1>7. CASE RedeemCheck(r)
  <2>1. /\ job' = job /\ job[r].kind = "redeem"
        /\ at'[r] = "join" => invites[job[r].invite] # None /\ account[job[r].user] # None
    BY <1>1, <1>7 DEF RedeemCheck, Go, Named, Handlers
  <2> QED
    BY <1>1, <2>1 DEF NameReads
<1> QED
  BY <1>2, <1>3, <1>4, <1>5, <1>6, <1>7 DEF NameLook

\* What the steps that write do to the rows.
NewAccount(u, h) ==
    /\ u \in Users /\ h \in Handles /\ account[u] = None
    /\ account' = [account EXCEPT ![u] = h]
    /\ UNCHANGED <<orgs, alias, role, invites>>
NewAlias(h, u) ==
    /\ h \in Handles /\ u \in Users /\ alias[h] = None
    /\ alias' = [alias EXCEPT ![h] = u]
    /\ UNCHANGED <<account, orgs, role, invites>>
NoAlias(h) ==
    /\ h \in Handles
    /\ alias' = [alias EXCEPT ![h] = None]
    /\ UNCHANGED <<account, orgs, role, invites>>
NewOrg(h, u) ==
    /\ h \in Handles \ orgs /\ u \in Users /\ alias[h] = None /\ Account0[u] # None
    /\ orgs' = orgs \cup {h} /\ alias' = [alias EXCEPT ![h] = "org"]
    /\ role' = [role EXCEPT ![h][u] = "owner"]
    /\ UNCHANGED <<account, invites>>
NewMember(h, u, x) ==
    /\ h \in Handles /\ u \in Users /\ x \in Roles \cup {None}
    /\ role' = [role EXCEPT ![h][u] = x]
    /\ UNCHANGED <<account, orgs, alias>>

NewInvites ==
    /\ invites' \in [Requests -> InviteRows \cup {None}]
    /\ \A q \in Requests : /\ invites[q] # None => invites'[q] # None
                           /\ invites'[q] # None => invites'[q].org \in orgs
    /\ UNCHANGED <<account, orgs, alias>>

LEMMA AccountTyped ==
    ASSUME NameTypes, NEW u, NEW h, NewAccount(u, h)
    PROVE  NameTypes' /\ NamesGrow /\ account'[u] # None
<1>1. h # None
  BY NoneAssumption DEF NewAccount
<1> QED
  BY <1>1 DEF NewAccount, NameTypes, NamesGrow

LEMMA AliasTyped ==
    ASSUME NameTypes, NEW h, (\E u : NewAlias(h, u)) \/ NoAlias(h)
    PROVE  NameTypes' /\ NamesGrow
BY DEF NewAlias, NoAlias, NameTypes, NamesGrow

\* Whose role a step may write.
LEMMA RoleWritten ==
    ASSUME NameTypes, NEW h \in Handles, NEW u \in Users, NEW x \in Roles \cup {None},
           role' = [role EXCEPT ![h][u] = x]
    PROVE  /\ role' \in [Handles -> [Users -> Roles \cup {None}]]
           /\ role'[h][u] = x
           /\ \A g \in Handles, v \in Users : g # h \/ v # u => role'[g][v] = role[g][v]
<1>1. role' = [role EXCEPT ![h] = [role[h] EXCEPT ![u] = x]]
  OBVIOUS
<1>2. [role[h] EXCEPT ![u] = x] \in [Users -> Roles \cup {None}]
  BY DEF NameTypes
<1>3. role'[h] = [role[h] EXCEPT ![u] = x] /\ \A g \in Handles : g # h => role'[g] = role[g]
  BY <1>1 DEF NameTypes
<1> QED
  BY <1>1, <1>2, <1>3 DEF NameTypes

LEMMA OrgTyped ==
    ASSUME NameTypes, Kept, NEW u, NEW h, NewOrg(h, u)
    PROVE  NameTypes' /\ NamesGrow
<1>1. "owner" \in Roles /\ account[u] # None
  BY DEF Roles, Kept, NewOrg
<1>2. /\ role' \in [Handles -> [Users -> Roles \cup {None}]]
      /\ \A g \in Handles, v \in Users : g # h \/ v # u => role'[g][v] = role[g][v]
  <2>1. h \in Handles /\ u \in Users /\ role' = [role EXCEPT ![h][u] = "owner"]
    BY DEF NewOrg
  <2> QED
    BY <1>1, <2>1, RoleWritten
<1>3. alias' \in [Handles -> Users \cup {"org", None}]
  BY DEF NewOrg, NameTypes
<1> QED
  BY <1>1, <1>2, <1>3 DEF NewOrg, NameTypes, NamesGrow

LEMMA MemberTyped ==
    ASSUME NameTypes, NEW h, NEW u, NEW x, NewMember(h, u, x), invites' = invites,
           h \in orgs /\ account[u] # None
    PROVE  NameTypes' /\ NamesGrow
<1>1. /\ role' \in [Handles -> [Users -> Roles \cup {None}]]
      /\ \A g \in Handles, v \in Users : g # h \/ v # u => role'[g][v] = role[g][v]
  <2>1. h \in Handles /\ u \in Users /\ x \in Roles \cup {None}
        /\ role' = [role EXCEPT ![h][u] = x]
    BY DEF NewMember
  <2> QED
    BY <2>1, RoleWritten
<1> QED
  BY <1>1 DEF NewMember, NameTypes, NamesGrow

LEMMA InvitesTyped ==
    ASSUME NameTypes, NewInvites, role' = role
    PROVE  NameTypes' /\ NamesGrow
BY DEF NewInvites, NameTypes, NamesGrow

LEMMA SignUpWrites ==
    ASSUME NamesInv, NEW r \in Requests, SignUpCreate(r)
    PROVE  /\ UNCHANGED nameRows \/ NewAccount(job[r].user, job[r].handle)
           /\ NameReads(r)'
<1>1. /\ job' = job /\ job[r].kind = "signUp"
  BY DEF SignUpCreate, Go, Named
<1>2. job[r].user \in Users /\ job[r].handle \in Handles
  BY <1>1, JobOf DEF NamesInv, NameKinds
<1> QED
  BY <1>1, <1>2 DEF SignUpCreate, NewAccount, NameReads, nameRows

LEMMA SsoWrites ==
    ASSUME NamesInv, NEW r \in Requests, SsoCreate(r) \/ SsoNamespace(r)
    PROVE  /\ \/ UNCHANGED nameRows
              \/ \E h : NewAccount(job[r].user, h) \/ NewAlias(h, job[r].user)
           /\ NameReads(r)'
<1> DEFINE h == job[r].candidates[read[r]]
<1>1. /\ job' = job /\ job[r].kind = "sso" /\ at[r] \in {"create", "write"}
      /\ read' = read
  BY DEF SsoCreate, SsoNamespace, Go, Named, Plain
<1>2. /\ job[r].user \in Users /\ job[r].candidates \in Seq(Handles)
      /\ read[r] \in 1 .. Len(job[r].candidates)
  BY <1>1, JobOf DEF NamesInv, NameKinds, NameReads
<1>3. h \in Handles
  BY <1>2
<1>4. CASE SsoCreate(r)
  <2>1. \/ UNCHANGED nameRows /\ at'[r] = "failed"
        \/ NewAccount(job[r].user, h) /\ at'[r] = "write"
    BY <1>2, <1>3, <1>4 DEF SsoCreate, NewAccount, Go, NamesInv, Handlers, nameRows
  <2>2. at'[r] = "write" => account'[job[r].user] # None
    BY <2>1, AccountTyped DEF NamesInv
  <2> QED
    BY <1>1, <1>2, <2>1, <2>2 DEF NameReads
<1>5. CASE SsoNamespace(r)
  <2>1. \/ UNCHANGED nameRows
        \/ NewAlias(h, job[r].user)
    BY <1>2, <1>3, <1>5 DEF SsoNamespace, NewAlias, nameRows
  <2>2. at'[r] \in {"join", "failed"} /\ account' = account /\ at[r] = "write"
    BY <1>5 DEF SsoNamespace, Go, NamesInv, Handlers
  <2>3. NameReads(r)'
    BY <1>1, <1>2, <2>2 DEF NameReads, NamesInv
  <2> QED
    BY <2>1, <2>3
<1> QED
  BY <1>4, <1>5

LEMMA JoinWrites ==
    ASSUME NamesInv, NEW r \in Requests, SsoJoin(r)
    PROVE  /\ \/ UNCHANGED nameRows
              \/ /\ NewMember(job[r].handle, job[r].user, "contributor")
                 /\ role[job[r].handle][job[r].user] = None
                 /\ invites' = invites
           /\ job[r].handle \in orgs /\ account[job[r].user] # None
           /\ NameReads(r)'
<1>1. /\ job' = job /\ job[r].kind = "sso" /\ at[r] = "join" /\ at'[r] = "ok"
  BY DEF SsoJoin, Go, Named, NamesInv, Handlers
<1>2. /\ job[r].user \in Users /\ job[r].handle \in Handles /\ job[r].handle \in orgs
      /\ account[job[r].user] # None
  BY <1>1, JobOf DEF NamesInv, NameKinds, Kept, NameReads
<1> QED
  BY <1>1, <1>2 DEF SsoJoin, NewMember, NameReads, nameRows, Roles

LEMMA AliasWrites ==
    ASSUME NamesInv, NEW r \in Requests, ClaimCreate(r) \/ ReleaseDelete(r)
    PROVE  /\ UNCHANGED nameRows \/ (\E u : NewAlias(job[r].handle, u)) \/ NoAlias(job[r].handle)
           /\ NameReads(r)'
<1>1. /\ job' = job /\ job[r].kind \in {"claim", "release"}
  BY DEF ClaimCreate, ReleaseDelete, Go, Named
<1>2. job[r].user \in Users /\ job[r].handle \in Handles
  BY <1>1, JobOf DEF NamesInv, NameKinds
<1>3. UNCHANGED nameRows \/ NewAlias(job[r].handle, job[r].user) \/ NoAlias(job[r].handle)
  BY <1>2 DEF ClaimCreate, ReleaseDelete, NewAlias, NoAlias, nameRows
<1> QED
  BY <1>1, <1>3 DEF NameReads

LEMMA OrgWrites ==
    ASSUME NamesInv, NEW r \in Requests, OrgCreate(r)
    PROVE  /\ UNCHANGED nameRows \/ NewOrg(job[r].handle, job[r].user)
           /\ NameReads(r)'
<1>1. /\ job' = job /\ job[r].kind = "createOrg"
  BY DEF OrgCreate, Go, Named
<1>2. job[r].user \in Users /\ job[r].handle \in Handles /\ Account0[job[r].user] # None
  BY <1>1, JobOf DEF NamesInv, NameKinds
<1>3. UNCHANGED nameRows \/ NewOrg(job[r].handle, job[r].user)
  BY <1>2 DEF OrgCreate, NewOrg, nameRows
<1> QED
  BY <1>1, <1>3 DEF NameReads

LEMMA MemberWrites ==
    ASSUME NamesInv, NEW r \in Requests, MemberWrite(r)
    PROVE  /\ \/ UNCHANGED nameRows
              \/ /\ NewMember(job[r].handle, job[r].member, NewRole(r))
                 /\ role[job[r].handle][job[r].member] # None
                 /\ invites' = invites
           /\ NameReads(r)'
<1>1. /\ job' = job /\ job[r].kind \in {"remove", "changeRole"}
  BY DEF MemberWrite, Go, MemberJob
<1>2. job[r].member \in Users /\ job[r].handle \in Handles /\ NewRole(r) \in Roles \cup {None}
  BY <1>1, JobOf DEF NamesInv, NameKinds, NewRole
<1>3. \/ UNCHANGED nameRows
      \/ /\ NewMember(job[r].handle, job[r].member, NewRole(r))
         /\ role[job[r].handle][job[r].member] # None
         /\ invites' = invites
  BY <1>2 DEF MemberWrite, NewMember, nameRows
<1> QED
  BY <1>1, <1>3 DEF NameReads

\* An invitation whose state is written is the same one.
LEMMA InviteState ==
    ASSUME NEW i \in InviteRows, NEW x \in {"pending", "revoked", "accepted"}
    PROVE  /\ [i EXCEPT !.state = x] \in InviteRows
           /\ [i EXCEPT !.state = x].org = i.org
BY DEF InviteRows

LEMMA InviteWritten ==
    ASSUME NameTypes, NEW i \in Requests, invites[i] # None,
           NEW x \in {"pending", "revoked", "accepted"},
           invites' = [invites EXCEPT ![i].state = x], UNCHANGED <<account, orgs, alias>>
    PROVE  NewInvites
<1> DEFINE y == [invites[i] EXCEPT !.state = x]
<1>1. invites[i] \in InviteRows
  BY DEF NameTypes
<1>2. y \in InviteRows /\ y.org = invites[i].org
  BY <1>1, InviteState
<1>3. y # None
  BY <1>2, NoneAssumption
<1>4. invites' = [invites EXCEPT ![i] = y]
  OBVIOUS
<1> HIDE DEF y
<1>5. invites' \in [Requests -> InviteRows \cup {None}]
  BY <1>2, <1>4 DEF NameTypes
<1>6. \A q \in Requests : invites'[q] = IF q = i THEN y ELSE invites[q]
  BY <1>4 DEF NameTypes
<1> QED
  BY <1>2, <1>3, <1>5, <1>6 DEF NewInvites, NameTypes

LEMMA InviteWrites ==
    ASSUME NamesInv, NEW r \in Requests,
           InviteSupersede(r) \/ InviteCreate(r) \/ InviteRevoke(r)
    PROVE  /\ UNCHANGED nameRows \/ (NewInvites /\ role' = role)
           /\ NameReads(r)'
<1>1. /\ NameTypes /\ Handlers
  BY DEF NamesInv
<1>2. CASE InviteSupersede(r)
  <2>1. /\ job' = job /\ job[r].kind = "invite" /\ at[r] = "supersede" /\ at'[r] = "create"
        /\ UNCHANGED <<account, orgs, alias, role>>
        /\ invites' = [q \in Requests |-> IF Pending(q, job[r].handle, job[r].member)
                                        THEN [invites[q] EXCEPT !.state = "revoked"]
                                        ELSE invites[q]]
    BY <1>1, <1>2 DEF InviteSupersede, Go, Named, Handlers
  <2>2. ASSUME NEW q \in Requests, invites[q] # None
        PROVE  LET y == [invites[q] EXCEPT !.state = "revoked"] IN
               y \in InviteRows /\ y.org = invites[q].org /\ y # None
    <3>1. invites[q] \in InviteRows
      BY <1>1, <2>2 DEF NameTypes
    <3> QED
      BY <3>1, InviteState, NoneAssumption
  <2>3. ASSUME NEW q \in Requests
        PROVE  /\ invites'[q] \in InviteRows \cup {None}
               /\ invites[q] # None => invites'[q] # None
               /\ invites'[q] # None => invites'[q].org \in orgs
    <3>1. invites[q] \in InviteRows \cup {None} /\ (invites[q] # None => invites[q].org \in orgs)
      BY <1>1 DEF NameTypes
    <3>2. CASE Pending(q, job[r].handle, job[r].member)
      BY <2>1, <2>2, <3>1, <3>2 DEF Pending
    <3>3. CASE ~Pending(q, job[r].handle, job[r].member)
      BY <2>1, <3>1, <3>3
    <3> QED
      BY <3>2, <3>3
  <2>4. invites' \in [Requests -> InviteRows \cup {None}]
    BY <2>1, <2>3
  <2>5. NewInvites
    BY <2>1, <2>3, <2>4 DEF NewInvites
  <2>6. NameReads(r)'
    BY <2>1 DEF NameReads, NamesInv
  <2> QED
    BY <2>1, <2>5, <2>6
<1>3. CASE InviteCreate(r)
  <2> DEFINE i == [org |-> job[r].handle, member |-> job[r].member, role |-> job[r].role,
                   state |-> "pending"]
  <2>1. /\ job' = job /\ job[r].kind = "invite" /\ at[r] = "create" /\ at'[r] = "ok"
        /\ UNCHANGED <<account, orgs, alias, role>> /\ invites' = [invites EXCEPT ![r] = i]
    BY <1>1, <1>3 DEF InviteCreate, Go, Named, Handlers
  <2>2. /\ job[r].handle \in Handles /\ job[r].member \in Users /\ job[r].role \in Roles
        /\ job[r].handle \in orgs
    BY <1>1, <2>1, JobOf DEF NameKinds, NamesInv, NameReads
  <2>3. i \in InviteRows /\ i.org \in orgs
    BY <2>2 DEF InviteRows
  <2>4. i # None
    BY <2>3, NoneAssumption
  <2> HIDE DEF i
  <2>5. NewInvites
    BY <1>1, <2>1, <2>3, <2>4 DEF NewInvites, NameTypes
  <2> QED
    BY <2>1, <2>5 DEF NameReads
<1>4. CASE InviteRevoke(r)
  <2>1. job' = job /\ job[r].kind = "revokeInvite"
    BY <1>4 DEF InviteRevoke, Go, Named
  <2>2. job[r].invite \in Requests
    BY <1>1, <2>1, JobOf
  <2>3. /\ UNCHANGED <<account, orgs, alias, role>>
        /\ \/ invites' = invites
           \/ invites[job[r].invite] # None
              /\ invites' = [invites EXCEPT ![job[r].invite].state = "revoked"]
    BY <1>4 DEF InviteRevoke
  <2>4. UNCHANGED nameRows \/ NewInvites
    BY <1>1, <2>2, <2>3, InviteWritten DEF nameRows
  <2> QED
    BY <2>1, <2>3, <2>4 DEF NameReads
<1> QED
  BY <1>2, <1>3, <1>4

\* An invitation is accepted, and there is a new member unless there was one.
LEMMA RedeemWrites ==
    ASSUME NamesInv, NEW r \in Requests, RedeemJoin(r)
    PROVE  \E h \in orgs :
              /\ \/ role' = role
                 \/ /\ \E x \in Roles : NewMember(h, job[r].user, x)
                    /\ role[h][job[r].user] = None
              /\ account[job[r].user] # None /\ h \in Handles /\ job[r].user \in Users
              /\ NewInvites
              /\ NameReads(r)'
<1> DEFINE i == job[r].invite
           h == invites[i].org
<1>1. /\ job' = job /\ job[r].kind = "redeem" /\ at[r] = "join" /\ at'[r] = "ok"
      /\ UNCHANGED <<account, orgs, alias>>
      /\ role' = IF role[h][job[r].user] = None
                   THEN [role EXCEPT ![h][job[r].user] = invites[i].role] ELSE role
      /\ invites' = [invites EXCEPT ![i].state = "accepted"]
  BY DEF RedeemJoin, Go, Named, NamesInv, Handlers
<1>2. /\ i \in Requests /\ job[r].user \in Users /\ invites[i] # None
      /\ account[job[r].user] # None
  BY <1>1, JobOf DEF NamesInv, NameReads
<1>3. /\ invites[i] \in InviteRows /\ h \in orgs /\ h \in Handles
  BY <1>2 DEF NamesInv, NameTypes
<1>4. invites[i].role \in Roles
  BY <1>3 DEF InviteRows
<1>5. NewInvites
  BY <1>1, <1>2, InviteWritten DEF NamesInv
<1>6. \/ role' = role
      \/ NewMember(h, job[r].user, invites[i].role) /\ role[h][job[r].user] = None
  BY <1>1, <1>2, <1>3, <1>4 DEF NewMember
<1>7. NameReads(r)'
  BY <1>1 DEF NameReads
<1> QED
  BY <1>2, <1>3, <1>4, <1>5, <1>6, <1>7

LEMMA RedeemTyped ==
    ASSUME NameTypes, NEW h \in orgs, h \in Handles, NEW u \in Users, account[u] # None,
           \/ role' = role
           \/ \E x \in Roles : NewMember(h, u, x),
           NewInvites
    PROVE  NameTypes' /\ NamesGrow
<1>1. /\ role' \in [Handles -> [Users -> Roles \cup {None}]]
      /\ \A g \in Handles, v \in Users : g # h \/ v # u => role'[g][v] = role[g][v]
  <2>1. CASE role' = role
    BY <2>1 DEF NameTypes
  <2>2. ASSUME NEW x \in Roles, NewMember(h, u, x)
        PROVE  <1>1!1 /\ <1>1!2
    BY <2>2, RoleWritten DEF NewMember
  <2> QED
    BY <2>1, <2>2
<1> QED
  BY <1>1 DEF NameTypes, NewInvites, NamesGrow

LEMMA NamesStep ==
    ASSUME NamesInv, NEW r \in Requests, NameStep(r)
    PROVE  NamesInv' /\ NamesGrow
<1>1. Moves(r)
  BY NamesGo DEF NamesInv
<1>2. NameTypes /\ Kept
  BY DEF NamesInv
<1>3. UNCHANGED nameRows => NameTypes' /\ NamesGrow
  BY <1>2 DEF nameRows, NameTypes, NamesGrow
<1>4. CASE NameLook(r)
  BY <1>1, <1>3, <1>4, LookKeeps, LookReads, NamesKeep
<1>5. CASE SignUpCreate(r)
  BY <1>1, <1>2, <1>3, <1>5, SignUpWrites, AccountTyped, NamesKeep
<1>6. CASE SsoCreate(r) \/ SsoNamespace(r)
  <2>1. NameTypes' /\ NamesGrow
    BY <1>2, <1>3, <1>6, SsoWrites, AccountTyped, AliasTyped
  <2> QED
    BY <1>1, <1>6, <2>1, SsoWrites, NamesKeep
<1>7. CASE SsoJoin(r)
  BY <1>1, <1>2, <1>3, <1>7, JoinWrites, MemberTyped, NamesKeep
<1>8. CASE ClaimCreate(r) \/ ReleaseDelete(r)
  BY <1>1, <1>2, <1>3, <1>8, AliasWrites, AliasTyped, NamesKeep
<1>9. CASE OrgCreate(r)
  BY <1>1, <1>2, <1>3, <1>9, OrgWrites, OrgTyped, NamesKeep
<1>10. CASE MemberWrite(r)
  <2>1. \/ UNCHANGED nameRows
        \/ /\ NewMember(job[r].handle, job[r].member, NewRole(r)) /\ invites' = invites
           /\ job[r].handle \in orgs /\ account[job[r].member] # None
    BY <1>2, <1>10, MemberWrites DEF NameTypes, NewMember
  <2> QED
    BY <1>1, <1>2, <1>3, <1>10, <2>1, MemberWrites, MemberTyped, NamesKeep
<1>11. CASE InviteSupersede(r) \/ InviteCreate(r) \/ InviteRevoke(r)
  BY <1>1, <1>2, <1>3, <1>11, InviteWrites, InvitesTyped, NamesKeep
<1>12. CASE RedeemJoin(r)
  <2>1. NameTypes' /\ NamesGrow /\ NameReads(r)'
    BY <1>2, <1>12, RedeemWrites, RedeemTyped
  <2> QED
    BY <1>1, <2>1, NamesKeep
<1> QED
  BY <1>4, <1>5, <1>6, <1>7, <1>8, <1>9, <1>10, <1>11, <1>12 DEF NameStep, NameLook

-----------------------------------------------------------------------------
(* Accounts: the types of their rows.                                       *)

SessionRows == [user: Users \cup {None}, denied: BOOLEAN, consumed: BOOLEAN, expired: BOOLEAN]

AccountTypes ==
    /\ tokens \in [TokenIds -> TokenRows \cup {None}]
    /\ \A t \in TokenIds : tokens[t] # None => account[tokens[t].user] # None
    /\ sessions \in [Sessions -> SessionRows]
    /\ \A s \in Sessions : sessions[s].user # None => account[sessions[s].user] # None
    /\ links \in [LinkIds -> LinkRows \cup {None}]
    /\ recovery \in [Users -> (SUBSET (Codes \cup Requests)) \cup {None}]

Proving(r) == job[r].kind \in {"proof", "disable2fa"}

AccountReads(r) ==
    /\ job[r].kind = "poll" =>
          /\ at[r] = "reread" => sessions[job[r].session].user # None
          /\ at[r] = "mint" => read[r] \in Users /\ account[read[r]] # None
    /\ job[r].kind = "rotate" =>
          (at[r] = "swap" => read[r] \in TokenRows /\ account[read[r].user] # None)
    /\ job[r].kind = "enroll" => (at[r] = "persist" => read[r] \in Users)
    /\ Proving(r) =>
          /\ at[r] = "codes" => read[r] \in Users
          /\ at[r] \in {"spend", "stamp", "wipe"} => read[r].user \in Users
          /\ at[r] = "spend" => read[r].codes \in SUBSET (Codes \cup Requests)
    /\ job[r].kind = "follow" => (at[r] = "consume" => links[job[r].link] # None)

AccountsInv == NamesInv /\ AccountTypes /\ \A r \in Requests : AccountReads(r)

AccountsGrow ==
    /\ \A u \in Users : account[u] # None => account'[u] # None
    /\ \A s \in Sessions : sessions[s].user # None => sessions'[s].user # None
    /\ \A l \in LinkIds : links[l] # None => links'[l] # None

LEMMA AccountJobOf ==
    ASSUME Handlers, NEW r \in Requests
    PROVE  LET j == job[r] IN
            /\ j.kind \in {"approve", "login", "createToken", "sendReset", "sendVerify"}
                  => j.user \in Users /\ Account0[j.user] # None
            /\ j.kind \in {"approve", "deny", "poll"} => j.session \in Sessions
            /\ j.kind \in {"rotate", "revoke", "logout", "enroll", "proof", "disable2fa"}
                  => j.token \in TokenIds
            /\ j.kind = "rotate" => j.scope \subseteq Exts
            /\ j.kind \in {"proof", "disable2fa"} => j.code \in Codes \cup Requests \cup {"totp"}
            /\ j.kind = "follow" => j.link \in LinkIds
BY AccountsAssumption DEF Handlers

LEMMA AccountsKeep ==
    ASSUME AccountsInv, NEW r \in Requests, Moves(r), AccountsGrow, AccountTypes',
           AccountReads(r)', NamesInv'
    PROVE  AccountsInv'
<1>1. ASSUME NEW q \in Requests \ {r} PROVE AccountReads(q)'
  <2>1. AccountReads(q) /\ job' = job /\ at'[q] = at[q] /\ read'[q] = read[q]
    BY DEF AccountsInv, Moves
  <2>2. /\ job[q].kind = "poll" => job[q].session \in Sessions
        /\ job[q].kind = "follow" => job[q].link \in LinkIds
    BY AccountJobOf DEF AccountsInv, NamesInv
  <2>3. \A x \in TokenRows : x.user \in Users
    BY DEF TokenRows
  <2> QED
    BY <2>1, <2>2, <2>3 DEF AccountReads, AccountsGrow, Proving
<1> QED
  BY <1>1 DEF AccountsInv

\* What NameStep leaves alone, and AccountStep.
LEMMA NamesLeaveAccounts ==
    ASSUME NEW r \in Requests, NameStep(r)
    PROVE  UNCHANGED <<packageRows, accountRows>>
BY DEF NameStep, Named, MemberJob, SignUpCheck, SignUpCreate, SsoLookup, SsoCandidate, SsoCreate,
       SsoNamespace, SsoJoin, ClaimCount, ClaimCheck, ClaimCreate, ReleaseCheck, ReleaseCount,
       ReleaseDelete, OrgCheck, OrgCreate, MemberAuthorize, MemberRead, MemberOwners, MemberWrite,
       InviteAuthorize, InviteMember, InviteSupersede, InviteCreate, InviteRevokeAuthorize,
       InviteRevoke, RedeemCheck, RedeemJoin

LEMMA AccountsLeaveNames ==
    ASSUME NEW r \in Requests, AccountStep(r)
    PROVE  UNCHANGED <<nameRows, packageRows>>
BY DEF AccountStep, Account, ProofJob, LoadPending, Approve, Deny, PollCheck, PollReread, PollMint,
       Login, MintCount, CreateToken, RotateRead, RotateSwap, Revoke, LogoutCheck, LogoutDelete,
       Authenticate2fa, Enroll, ProofRead, ProofSpend, ProofStamp, Disable2fa, ResetInvalidate,
       LinkCreate, LinkRead, LinkConsume

\* Which kinds of requests take the steps of each.
AccountKinds == {"approve", "deny", "poll", "login", "createToken", "rotate", "revoke", "logout",
                 "proof", "disable2fa", "enroll", "sendReset", "sendVerify", "follow"}

LEMMA NamesKind ==
    ASSUME NEW r \in Requests, NameStep(r)
    PROVE  job[r].kind \in NameKinds \cup {"redeem"}
BY DEF NameKinds, NameStep, Named, MemberJob, SignUpCheck, SignUpCreate, SsoLookup, SsoCandidate,
       SsoCreate, SsoNamespace, SsoJoin, ClaimCount, ClaimCheck, ClaimCreate, ReleaseCheck,
       ReleaseCount, ReleaseDelete, OrgCheck, OrgCreate, MemberAuthorize, MemberRead,
       MemberOwners, MemberWrite, InviteAuthorize, InviteMember, InviteSupersede, InviteCreate,
       InviteRevokeAuthorize, InviteRevoke, RedeemCheck, RedeemJoin

LEMMA AccountsKind ==
    ASSUME NEW r \in Requests, AccountStep(r)
    PROVE  job[r].kind \in AccountKinds
BY DEF AccountKinds, AccountStep, Account, ProofJob, LoadPending, Approve, Deny, PollCheck,
       PollReread, PollMint, Login, MintCount, CreateToken, RotateRead, RotateSwap, Revoke,
       LogoutCheck, LogoutDelete, Authenticate2fa, Enroll, ProofRead, ProofSpend, ProofStamp,
       Disable2fa, ResetInvalidate, LinkCreate, LinkRead, LinkConsume

LEMMA AccountsGo ==
    ASSUME Handlers, NEW r \in Requests, AccountStep(r)
    PROVE  Moves(r) /\ Alone(r)
<1>1. CASE \/ LoadPending(r) \/ Approve(r) \/ Deny(r) \/ PollCheck(r) \/ PollReread(r)
           \/ PollMint(r)
  BY <1>1, GoStep DEF LoadPending, Approve, Deny, PollCheck, PollReread, PollMint, Plain, Steps,
                      Ended
<1>2. CASE Login(r) \/ MintCount(r) \/ CreateToken(r) \/ Revoke(r)
  BY <1>2, GoStep DEF Login, MintCount, CreateToken, Revoke, Plain, Steps, Ended
<1>3. CASE RotateRead(r) \/ RotateSwap(r)
  BY <1>3, GoStep DEF RotateRead, RotateSwap, Plain, Steps, Ended
<1>4. CASE LogoutCheck(r) \/ LogoutDelete(r)
  BY <1>4, GoStep DEF LogoutCheck, LogoutDelete, Plain, Steps, Ended
<1>5. CASE Authenticate2fa(r) \/ Enroll(r) \/ ProofRead(r)
  BY <1>5, GoStep DEF Authenticate2fa, Enroll, ProofRead, Plain, Steps, Ended
<1>6. CASE ProofSpend(r) \/ ProofStamp(r) \/ Disable2fa(r)
  BY <1>6, GoStep DEF ProofSpend, ProofStamp, Disable2fa, Plain, Steps, Ended
<1>7. CASE ResetInvalidate(r) \/ LinkCreate(r) \/ LinkRead(r) \/ LinkConsume(r)
  BY <1>7, GoStep DEF ResetInvalidate, LinkCreate, LinkRead, LinkConsume, Plain, Steps, Ended
<1> QED
  BY <1>1, <1>2, <1>3, <1>4, <1>5, <1>6, <1>7 DEF AccountStep

\* What the steps that write do to the rows.
NewToken(t, x) ==
    /\ t \in TokenIds /\ x \in TokenRows /\ account[x.user] # None
    /\ tokens' = [tokens EXCEPT ![t] = x]
    /\ UNCHANGED <<sessions, links, recovery>>
NoToken(t) ==
    /\ t \in TokenIds
    /\ tokens' = [tokens EXCEPT ![t] = None]
    /\ UNCHANGED <<sessions, links, recovery>>
NewSession(s, x) ==
    /\ s \in Sessions /\ x \in SessionRows
    /\ sessions[s].user # None => x.user # None
    /\ x.user # None => account[x.user] # None
    /\ sessions' = [sessions EXCEPT ![s] = x]
NewLink(l, x) ==
    /\ l \in LinkIds /\ x \in LinkRows
    /\ links' = [links EXCEPT ![l] = x]
    /\ UNCHANGED <<tokens, sessions, recovery>>
NewCodes(u, x) ==
    /\ u \in Users /\ x \in (SUBSET (Codes \cup Requests)) \cup {None}
    /\ recovery' = [recovery EXCEPT ![u] = x]
    /\ UNCHANGED <<tokens, sessions, links>>

LEMMA RowsTyped ==
    ASSUME AccountTypes, UNCHANGED account, NEW u, NEW x,
           NewToken(u, x) \/ NoToken(u) \/ NewCodes(u, x)
    PROVE  AccountTypes' /\ AccountsGrow
BY DEF AccountTypes, AccountsGrow, NewToken, NoToken, NewCodes

LEMMA SessionTyped ==
    ASSUME AccountTypes, UNCHANGED account, NEW s, NEW x, NewSession(s, x),
           UNCHANGED <<tokens, links, recovery>>
    PROVE  AccountTypes' /\ AccountsGrow
BY DEF AccountTypes, AccountsGrow, NewSession

LEMMA LinkTyped ==
    ASSUME AccountTypes, UNCHANGED account, NEW l, NEW x, NewLink(l, x)
    PROVE  AccountTypes' /\ AccountsGrow
<1>1. x # None
  BY NoneAssumption DEF NewLink
<1> QED
  BY <1>1 DEF AccountTypes, AccountsGrow, NewLink

LEMMA TokenIdsOf == Requests \subseteq TokenIds /\ Requests \subseteq LinkIds
BY DEF TokenIds, LinkIds

\* A row a request creates.
LEMMA NewTokenTyped ==
    ASSUME NEW u \in Users, NEW scope \in SUBSET Exts
    PROVE  TokenOf(u, scope) \in TokenRows /\ TokenOf(u, scope).user = u
BY DEF TokenOf, TokenRows

LEMMA NamespaceTyped ==
    ASSUME NameTypes, NEW u \in Users, account[u] # None
    PROVE  Namespace(u) \in SUBSET Exts
<1>1. account[u] \in Handles
  BY DEF NameTypes
<1> QED
  BY <1>1 DEF Namespace, Exts

LEMMA LoginWrites ==
    ASSUME AccountsInv, NEW r \in Requests,
           LoadPending(r) \/ Approve(r) \/ Deny(r) \/ PollCheck(r) \/ PollReread(r)
    PROVE  /\ \/ UNCHANGED accountRows
              \/ UNCHANGED <<tokens, links, recovery>> /\ \E s, x : NewSession(s, x)
           /\ AccountReads(r)'
<1> DEFINE s == job[r].session
<1>1. /\ job' = job /\ job[r].kind \in {"approve", "deny", "poll"}
      /\ Handlers /\ AccountTypes /\ AccountReads(r) /\ account' = account
  BY DEF LoadPending, Approve, Deny, PollCheck, PollReread, Go, Account, AccountsInv, NamesInv,
         nameRows
<1>2. s \in Sessions /\ sessions[s] \in SessionRows
  BY <1>1, AccountJobOf DEF AccountTypes
<1>3. CASE LoadPending(r)
  <2>1. job[r].kind # "poll" /\ UNCHANGED accountRows
    BY <1>3 DEF LoadPending, Account
  <2> QED
    BY <1>1, <2>1 DEF AccountReads, Proving
<1>4. CASE Approve(r)
  <2> DEFINE x == [sessions[s] EXCEPT !.user = job[r].user]
  <2>1. job[r].kind = "approve" /\ sessions' = [sessions EXCEPT ![s] = x]
        /\ UNCHANGED <<tokens, links, recovery>>
    BY <1>4 DEF Approve, Account
  <2>2. job[r].user \in Users /\ account[job[r].user] # None
    BY <1>1, <2>1, AccountJobOf DEF AccountsInv, NamesInv, Kept
  <2>3. x \in SessionRows /\ x.user = job[r].user /\ x.user # None
    BY <1>2, <2>2, NoneAssumption DEF SessionRows
  <2>4. NewSession(s, x)
    BY <1>2, <2>1, <2>2, <2>3 DEF NewSession
  <2> QED
    BY <1>1, <2>1, <2>4 DEF AccountReads, Proving
<1>5. CASE Deny(r)
  <2> DEFINE x == [sessions[s] EXCEPT !.denied = TRUE]
  <2>1. job[r].kind = "deny" /\ sessions' = [sessions EXCEPT ![s] = x]
        /\ UNCHANGED <<tokens, links, recovery>>
    BY <1>5 DEF Deny, Account
  <2>3. x \in SessionRows /\ x.user = sessions[s].user
    BY <1>2 DEF SessionRows
  <2>4. NewSession(s, x)
    BY <1>1, <1>2, <2>1, <2>3 DEF NewSession, AccountTypes
  <2> QED
    BY <1>1, <2>1, <2>4 DEF AccountReads, Proving
<1>6. CASE PollCheck(r)
  <2>1. /\ job[r].kind = "poll" /\ UNCHANGED accountRows
        /\ at'[r] = "reread" => sessions[s].user # None
        /\ at'[r] \in {"reread", "refused"}
    BY <1>1, <1>6 DEF PollCheck, Account, Go, Handlers
  <2> QED
    BY <1>1, <2>1 DEF AccountReads, Proving, accountRows
<1>7. CASE PollReread(r)
  <2>1. /\ job[r].kind = "poll" /\ UNCHANGED accountRows
        /\ at[r] = "reread" /\ at'[r] \in {"mint", "refused"}
        /\ read'[r] = sessions[s].user
    BY <1>1, <1>7 DEF PollReread, Account, Go, Handlers, Keeping
  <2>2. sessions[s].user # None /\ sessions[s].user \in Users \cup {None}
    BY <1>1, <1>2, <2>1 DEF AccountReads, SessionRows
  <2>3. account[sessions[s].user] # None
    BY <1>1, <1>2, <2>2 DEF AccountTypes
  <2> QED
    BY <1>1, <2>1, <2>2, <2>3 DEF AccountReads, Proving
<1> QED
  BY <1>3, <1>4, <1>5, <1>6, <1>7

LEMMA MintWrites ==
    ASSUME AccountsInv, NEW r \in Requests, PollMint(r)
    PROVE  AccountTypes' /\ AccountsGrow /\ AccountReads(r)'
<1> DEFINE s == job[r].session
           x == [TokenOf(read[r], Namespace(read[r])) EXCEPT !.session = s]
           y == [sessions[s] EXCEPT !.consumed = TRUE]
<1>1. /\ job' = job /\ job[r].kind = "poll" /\ at[r] = "mint" /\ at'[r] = "answer"
      /\ Handlers /\ AccountTypes /\ AccountReads(r) /\ account' = account /\ NameTypes
      /\ tokens' = [tokens EXCEPT ![r] = x] /\ sessions' = [sessions EXCEPT ![s] = y]
      /\ UNCHANGED <<links, recovery>>
  BY DEF PollMint, Go, Account, AccountsInv, NamesInv, nameRows, Handlers
<1>2. s \in Sessions /\ sessions[s] \in SessionRows /\ read[r] \in Users /\ account[read[r]] # None
  BY <1>1, AccountJobOf DEF AccountTypes, AccountReads
<1>3. TokenOf(read[r], Namespace(read[r])) \in TokenRows
      /\ TokenOf(read[r], Namespace(read[r])).user = read[r]
  BY <1>1, <1>2, NamespaceTyped, NewTokenTyped
<1>4. x \in TokenRows /\ x.user = read[r]
  BY <1>2, <1>3 DEF TokenRows
<1>5. y \in SessionRows /\ y.user = sessions[s].user
  BY <1>2 DEF SessionRows
<1> HIDE DEF x, y
<1>6. tokens' \in [TokenIds -> TokenRows \cup {None}]
      /\ \A t \in TokenIds : tokens'[t] # None => account'[tokens'[t].user] # None
  BY <1>1, <1>2, <1>4, TokenIdsOf DEF AccountTypes
<1>7. sessions' \in [Sessions -> SessionRows]
      /\ \A q \in Sessions : sessions'[q].user = sessions[q].user
  BY <1>1, <1>2, <1>5 DEF AccountTypes
<1> QED
  BY <1>1, <1>6, <1>7 DEF AccountTypes, AccountsGrow, AccountReads, Proving

LEMMA TokenWrites ==
    ASSUME AccountsInv, NEW r \in Requests,
           Login(r) \/ MintCount(r) \/ CreateToken(r) \/ Revoke(r) \/ LogoutCheck(r)
           \/ LogoutDelete(r)
    PROVE  /\ UNCHANGED accountRows \/ \E t : NoToken(t) \/ \E x : NewToken(t, x)
           /\ AccountReads(r)'
<1>1. /\ job' = job /\ job[r].kind \in {"login", "createToken", "revoke", "logout"}
      /\ Handlers /\ AccountTypes /\ NameTypes /\ account' = account
  BY DEF Login, MintCount, CreateToken, Revoke, LogoutCheck, LogoutDelete, Go, Account, AccountsInv,
         NamesInv, nameRows
<1>2. AccountReads(r)'
  BY <1>1 DEF AccountReads, Proving
<1>3. CASE Login(r) \/ MintCount(r) \/ LogoutCheck(r)
  BY <1>2, <1>3 DEF Login, MintCount, LogoutCheck
<1>4. CASE CreateToken(r)
  <2> DEFINE u == job[r].user
  <2>1. u \in Users /\ account[u] # None
    BY <1>1, <1>4, AccountJobOf DEF CreateToken, Account, AccountsInv, NamesInv, Kept
  <2>2. TokenOf(u, Namespace(u)) \in TokenRows /\ TokenOf(u, Namespace(u)).user = u
    BY <1>1, <2>1, NamespaceTyped, NewTokenTyped
  <2>3. NewToken(r, TokenOf(u, Namespace(u)))
    BY <1>4, <2>1, <2>2, TokenIdsOf DEF CreateToken, NewToken
  <2> QED
    BY <1>2, <2>3
<1>5. CASE Revoke(r) \/ LogoutDelete(r)
  <2>1. job[r].token \in TokenIds
    BY <1>1, <1>5, AccountJobOf DEF Revoke, LogoutDelete, Account
  <2>2. UNCHANGED accountRows \/ NoToken(job[r].token)
    BY <1>5, <2>1 DEF Revoke, LogoutDelete, NoToken, accountRows
  <2> QED
    BY <1>2, <2>2
<1> QED
  BY <1>3, <1>4, <1>5

LEMMA RotateWrites ==
    ASSUME AccountsInv, NEW r \in Requests, RotateRead(r) \/ RotateSwap(r)
    PROVE  AccountTypes' /\ AccountsGrow /\ AccountReads(r)'
<1> DEFINE t == job[r].token
<1>1. /\ job' = job /\ job[r].kind = "rotate"
      /\ Handlers /\ AccountTypes /\ AccountReads(r) /\ account' = account
      /\ UNCHANGED <<sessions, links, recovery>>
  BY DEF RotateRead, RotateSwap, Go, Account, AccountsInv, NamesInv, nameRows, accountRows
<1>2. t \in TokenIds /\ tokens[t] \in TokenRows \cup {None} /\ job[r].scope \in SUBSET Exts
  BY <1>1, AccountJobOf DEF AccountTypes
<1>3. CASE RotateRead(r)
  <2>1. /\ tokens' = tokens /\ read'[r] = tokens[t]
        /\ at'[r] = "swap" => tokens[t] # None
    BY <1>1, <1>3 DEF RotateRead, Go, Keeping, Handlers, Valid, accountRows
  <2>2. AccountTypes' /\ AccountsGrow
    BY <1>1, <2>1 DEF AccountTypes, AccountsGrow
  <2>3. at'[r] = "swap" => read'[r] \in TokenRows /\ account'[read'[r].user] # None
    BY <1>1, <1>2, <2>1 DEF AccountTypes
  <2> QED
    BY <1>1, <2>2, <2>3 DEF AccountReads, Proving
<1>4. CASE RotateSwap(r)
  <2>1. /\ at[r] = "swap" /\ at'[r] # "swap"
        /\ tokens' = IF tokens[t] # None
                       THEN [tokens EXCEPT ![r] = TokenOf(read[r].user, job[r].scope),
                                           ![t].expires = "soon"]
                       ELSE tokens
    BY <1>1, <1>4 DEF RotateSwap, Go, Handlers
  <2>2. read[r] \in TokenRows /\ account[read[r].user] # None
    BY <1>1, <2>1 DEF AccountReads
  <2>3. read[r].user \in Users
    BY <2>2 DEF TokenRows
  <2>4. AccountTypes' /\ AccountsGrow
    <3>1. CASE tokens[t] = None
      BY <1>1, <2>1, <3>1 DEF AccountTypes, AccountsGrow
    <3>2. CASE tokens[t] # None
      <4> DEFINE x == TokenOf(read[r].user, job[r].scope)
                 mid == [tokens EXCEPT ![r] = x]
                 y == [mid[t] EXCEPT !.expires = "soon"]
      <4>1. x \in TokenRows /\ x.user = read[r].user
        BY <1>2, <2>3, NewTokenTyped
      <4>2. tokens' = [mid EXCEPT ![t] = y]
        BY <2>1, <3>2
      <4> HIDE DEF x
      <4>3. /\ mid \in [TokenIds -> TokenRows \cup {None}] /\ mid[t] \in TokenRows
            /\ \A q \in TokenIds : mid[q] # None => account[mid[q].user] # None
        BY <1>1, <1>2, <2>2, <3>2, <4>1, TokenIdsOf DEF AccountTypes
      <4>4. y \in TokenRows /\ y.user = mid[t].user
        BY <4>3 DEF TokenRows
      <4>5. mid[t] # None
        BY <4>3, NoneAssumption
      <4> HIDE DEF mid, y
      <4>6. tokens' \in [TokenIds -> TokenRows \cup {None}]
            /\ \A q \in TokenIds : tokens'[q] # None => account'[tokens'[q].user] # None
        BY <1>1, <1>2, <4>2, <4>3, <4>4, <4>5
      <4> QED
        BY <1>1, <4>6 DEF AccountTypes, AccountsGrow
    <3> QED
      BY <3>1, <3>2
  <2> QED
    BY <1>1, <2>1, <2>4 DEF AccountReads, Proving
<1> QED
  BY <1>3, <1>4

LEMMA ProofWrites ==
    ASSUME AccountsInv, NEW r \in Requests,
           \/ Authenticate2fa(r) \/ Enroll(r) \/ ProofRead(r) \/ ProofSpend(r)
           \/ ProofStamp(r) \/ Disable2fa(r)
    PROVE  /\ UNCHANGED accountRows \/ \E t, x : NewToken(t, x) \/ NewCodes(t, x)
           /\ AccountReads(r)'
<1>1. /\ job' = job /\ job[r].kind \in {"proof", "disable2fa", "enroll"}
      /\ Handlers /\ AccountTypes /\ AccountReads(r) /\ account' = account
  BY DEF Authenticate2fa, Enroll, ProofRead, ProofSpend, ProofStamp, Disable2fa, Go, Account, ProofJob,
         AccountsInv, NamesInv, nameRows
<1>2. job[r].token \in TokenIds /\ tokens[job[r].token] \in TokenRows \cup {None}
  BY <1>1, AccountJobOf DEF AccountTypes
<1>3. CASE Authenticate2fa(r)
  <2>1. /\ UNCHANGED accountRows /\ at'[r] \in {"refused", "persist", "codes"}
        /\ at'[r] # "refused" => read'[r] = tokens[job[r].token].user
                                 /\ tokens[job[r].token] # None
    BY <1>1, <1>3 DEF Authenticate2fa, Go, Keeping, Handlers, Valid
  <2>2. at'[r] # "refused" => read'[r] \in Users
    BY <1>2, <2>1 DEF TokenRows
  <2>3. AccountReads(r)'
    BY <1>1, <2>1, <2>2 DEF AccountReads, Proving
  <2> QED
    BY <2>1, <2>3
<1>4. CASE Enroll(r)
  <2>1. /\ job[r].kind = "enroll" /\ at[r] = "persist" /\ at'[r] = "ok"
        /\ recovery' = [recovery EXCEPT ![read[r]] = {r}] /\ UNCHANGED <<tokens, sessions, links>>
    BY <1>1, <1>4 DEF Enroll, Go, Account, Handlers
  <2>2. read[r] \in Users
    BY <1>1, <2>1 DEF AccountReads
  <2>3. NewCodes(read[r], {r})
    BY <2>1, <2>2 DEF NewCodes
  <2> QED
    BY <1>1, <2>1, <2>3 DEF AccountReads, Proving
<1>5. CASE ProofRead(r)
  <2>1. /\ UNCHANGED accountRows /\ Proving(r) /\ at[r] = "codes"
        /\ at'[r] \in {"stamp", "spend", "refused"}
        /\ read'[r] = [user |-> read[r], codes |-> recovery[read[r]]]
        /\ at'[r] = "spend" => recovery[read[r]] # None
    BY <1>1, <1>5 DEF ProofRead, Go, Keeping, Handlers, ProofJob, Account, Proving
  <2>2. read[r] \in Users
    BY <1>1, <2>1 DEF AccountReads
  <2>3. recovery[read[r]] \in (SUBSET (Codes \cup Requests)) \cup {None}
    BY <1>1, <2>2 DEF AccountTypes
  <2>4. read'[r].user = read[r] /\ read'[r].codes = recovery[read[r]]
    BY <2>1
  <2> QED
    BY <1>1, <2>1, <2>2, <2>3, <2>4 DEF AccountReads, Proving
<1>6. CASE ProofSpend(r)
  <2>1. /\ Proving(r) /\ at[r] = "spend" /\ at'[r] = "stamp" /\ read' = read
        /\ recovery' = [recovery EXCEPT ![read[r].user] = read[r].codes \ {job[r].code}]
        /\ UNCHANGED <<tokens, sessions, links>>
    BY <1>1, <1>6 DEF ProofSpend, Go, Handlers, ProofJob, Account, Proving, Plain
  <2>2. read[r].user \in Users /\ read[r].codes \in SUBSET (Codes \cup Requests)
    BY <1>1, <2>1 DEF AccountReads
  <2>3. NewCodes(read[r].user, read[r].codes \ {job[r].code})
    BY <2>1, <2>2 DEF NewCodes
  <2> QED
    BY <1>1, <2>1, <2>2, <2>3 DEF AccountReads, Proving
<1>7. CASE ProofStamp(r)
  <2> DEFINE t == job[r].token
             x == [tokens[t] EXCEPT !.proof = job[r].code, !.fresh = TRUE]
  <2>1. /\ Proving(r) /\ at[r] = "stamp" /\ at'[r] \in {"failed", "ok", "wipe"} /\ read' = read
        /\ \/ UNCHANGED accountRows
           \/ /\ tokens[t] # None /\ tokens' = [tokens EXCEPT ![t] = x]
              /\ UNCHANGED <<sessions, links, recovery>>
    BY <1>1, <1>7 DEF ProofStamp, Go, Handlers, ProofJob, Account, Proving, Plain, accountRows
  <2>2. job[r].code \in Codes \cup Requests \cup {"totp", None}
    BY <1>1, <2>1, AccountJobOf DEF Proving
  <2>3. ASSUME tokens[t] # None PROVE x \in TokenRows /\ x.user = tokens[t].user
    <3>1. tokens[t] \in TokenRows
      BY <1>2, <2>3
    <3> QED
      BY <2>2, <3>1 DEF TokenRows
  <2> HIDE DEF x
  <2>4. UNCHANGED accountRows \/ NewToken(t, x)
    BY <1>1, <1>2, <2>1, <2>3 DEF NewToken, AccountTypes
  <2>5. AccountReads(r)'
    BY <1>1, <2>1 DEF AccountReads, Proving
  <2> QED
    BY <2>4, <2>5
<1>8. CASE Disable2fa(r)
  <2>1. /\ Proving(r) /\ at[r] = "wipe" /\ at'[r] = "ok"
        /\ recovery' = [recovery EXCEPT ![read[r].user] = None]
        /\ UNCHANGED <<tokens, sessions, links>>
    BY <1>1, <1>8 DEF Disable2fa, Go, Handlers, Account, Proving
  <2>2. read[r].user \in Users
    BY <1>1, <2>1 DEF AccountReads
  <2>3. NewCodes(read[r].user, None)
    BY <2>1, <2>2 DEF NewCodes
  <2> QED
    BY <1>1, <2>1, <2>3 DEF AccountReads, Proving
<1> QED
  BY <1>3, <1>4, <1>5, <1>6, <1>7, <1>8

\* Links whose rows a step marks.
Marked(l) == [links[l] EXCEPT !.used = TRUE]

LEMMA MarkedTyped ==
    ASSUME AccountTypes, NEW l \in LinkIds, links[l] # None
    PROVE  /\ Marked(l) \in LinkRows /\ Marked(l) # None /\ Marked(l).used
           /\ Marked(l).user = links[l].user /\ Marked(l).kind = links[l].kind
<1>1. links[l] \in LinkRows
  BY DEF AccountTypes
<1>2. /\ Marked(l) \in LinkRows /\ Marked(l).used
      /\ Marked(l).user = links[l].user /\ Marked(l).kind = links[l].kind
  BY <1>1 DEF Marked, LinkRows
<1> QED
  BY <1>2, NoneAssumption

LEMMA LinkWrites ==
    ASSUME AccountsInv, NEW r \in Requests,
           ResetInvalidate(r) \/ LinkCreate(r) \/ LinkRead(r) \/ LinkConsume(r)
    PROVE  AccountTypes' /\ AccountsGrow /\ AccountReads(r)'
<1>1. /\ job' = job /\ job[r].kind \in {"sendReset", "sendVerify", "follow"}
      /\ Handlers /\ AccountTypes /\ AccountReads(r) /\ account' = account
      /\ UNCHANGED <<tokens, sessions, recovery>>
  BY DEF ResetInvalidate, LinkCreate, LinkRead, LinkConsume, Go, Account, AccountsInv, NamesInv,
         nameRows, accountRows
<1>2. CASE ResetInvalidate(r)
  <2>1. /\ job[r].kind = "sendReset"
        /\ links' = [l \in LinkIds |->
              IF links[l] # None /\ links[l].user = job[r].user /\ links[l].kind = "reset"
                THEN Marked(l) ELSE links[l]]
    BY <1>2 DEF ResetInvalidate, Account, Marked
  <2>2. \A l \in LinkIds : /\ links'[l] \in LinkRows \cup {None}
                           /\ links[l] # None => links'[l] # None
    BY <1>1, <2>1, MarkedTyped DEF AccountTypes
  <2>3. links' \in [LinkIds -> LinkRows \cup {None}]
    BY <2>1, <2>2
  <2> QED
    BY <1>1, <2>1, <2>2, <2>3 DEF AccountTypes, AccountsGrow, AccountReads, Proving
<1>3. CASE LinkCreate(r)
  <2> DEFINE x == [user |-> job[r].user, used |-> FALSE,
                   kind |-> IF job[r].kind = "sendReset" THEN "reset" ELSE "verify"]
  <2>1. /\ job[r].kind \in {"sendReset", "sendVerify"} /\ links' = [links EXCEPT ![r] = x]
    BY <1>3 DEF LinkCreate, Account
  <2>2. job[r].user \in Users
    BY <1>1, <2>1, AccountJobOf
  <2>3. NewLink(r, x)
    BY <1>1, <2>1, <2>2, TokenIdsOf DEF NewLink, LinkRows
  <2>4. AccountTypes' /\ AccountsGrow
    BY <1>1, <2>3, LinkTyped
  <2> QED
    BY <1>1, <2>1, <2>4 DEF AccountReads, Proving
<1>4. CASE LinkRead(r)
  <2>1. /\ UNCHANGED accountRows /\ at'[r] \in {"consume", "refused"}
        /\ at'[r] = "consume" => links[job[r].link] # None
    BY <1>1, <1>4 DEF LinkRead, Go, Handlers
  <2> QED
    BY <1>1, <2>1 DEF AccountTypes, AccountsGrow, AccountReads, Proving, accountRows
<1>5. CASE LinkConsume(r)
  <2>1. /\ job[r].kind = "follow" /\ at[r] = "consume" /\ at'[r] = "ok"
        /\ links' = [links EXCEPT ![job[r].link] = Marked(job[r].link)]
    BY <1>1, <1>5 DEF LinkConsume, Account, Marked, Go, Handlers
  <2>2. job[r].link \in LinkIds /\ links[job[r].link] # None
    BY <1>1, <2>1, AccountJobOf DEF AccountReads
  <2>3. NewLink(job[r].link, Marked(job[r].link))
    BY <1>1, <2>1, <2>2, MarkedTyped DEF NewLink
  <2>4. AccountTypes' /\ AccountsGrow
    BY <1>1, <2>3, LinkTyped
  <2> QED
    BY <1>1, <2>1, <2>4 DEF AccountReads, Proving
<1> QED
  BY <1>2, <1>3, <1>4, <1>5

LEMMA LaterTyped ==
    ASSUME AccountTypes, Later
    PROVE  AccountTypes' /\ AccountsGrow
<1>1. /\ UNCHANGED <<account, links, recovery>>
      /\ \/ \E s \in Sessions : /\ sessions' = [sessions EXCEPT ![s].expired = TRUE]
                                /\ UNCHANGED tokens
         \/ \E t \in TokenIds : /\ tokens[t] # None
                                /\ \/ tokens' = [tokens EXCEPT ![t].expires = "past"]
                                   \/ tokens' = [tokens EXCEPT ![t].fresh = FALSE]
                                /\ UNCHANGED sessions
  BY DEF Later, nameRows
<1>2. ASSUME NEW s \in Sessions, sessions' = [sessions EXCEPT ![s].expired = TRUE],
             UNCHANGED tokens
      PROVE  AccountTypes' /\ AccountsGrow
  <2> DEFINE x == [sessions[s] EXCEPT !.expired = TRUE]
  <2>1. sessions[s] \in SessionRows
    BY DEF AccountTypes
  <2>2. x \in SessionRows /\ x.user = sessions[s].user /\ sessions' = [sessions EXCEPT ![s] = x]
    BY <1>2, <2>1 DEF SessionRows
  <2>3. NewSession(s, x)
    BY <2>2 DEF NewSession, AccountTypes
  <2> QED
    BY <1>1, <1>2, <2>3, SessionTyped
<1>3. ASSUME NEW t \in TokenIds, tokens[t] # None, UNCHANGED sessions,
             \/ tokens' = [tokens EXCEPT ![t].expires = "past"]
             \/ tokens' = [tokens EXCEPT ![t].fresh = FALSE]
      PROVE  AccountTypes' /\ AccountsGrow
  <2>1. tokens[t] \in TokenRows
    BY <1>3 DEF AccountTypes
  <2>2. \E x \in TokenRows : x.user = tokens[t].user /\ tokens' = [tokens EXCEPT ![t] = x]
    <3>1. /\ [tokens[t] EXCEPT !.expires = "past"] \in TokenRows
          /\ [tokens[t] EXCEPT !.expires = "past"].user = tokens[t].user
          /\ [tokens[t] EXCEPT !.fresh = FALSE] \in TokenRows
          /\ [tokens[t] EXCEPT !.fresh = FALSE].user = tokens[t].user
      BY <2>1 DEF TokenRows
    <3> QED
      BY <1>3, <3>1
  <2>3. \E x : NewToken(t, x)
    BY <1>1, <1>3, <2>2 DEF NewToken, AccountTypes
  <2> QED
    BY <1>1, <2>3, RowsTyped
<1> QED
  BY <1>1, <1>2, <1>3

LEMMA AccountsStep ==
    ASSUME AccountsInv, NEW r \in Requests, AccountStep(r)
    PROVE  AccountsInv'
<1>1. Moves(r) /\ UNCHANGED nameRows /\ AccountTypes
  BY AccountsGo, AccountsLeaveNames DEF AccountsInv, NamesInv
<1>2. NamesInv'
  <2>1. NameTypes' /\ NamesGrow
    BY <1>1 DEF AccountsInv, NamesInv, NameTypes, NamesGrow, nameRows
  <2>2. job[r].kind \notin {"sso", "invite", "redeem"} /\ job' = job
    BY <1>1, AccountsKind DEF AccountKinds, Moves
  <2>3. NameReads(r)'
    BY <2>2 DEF NameReads
  <2> QED
    BY <1>1, <2>1, <2>3, NamesKeep DEF AccountsInv
<1>3. account' = account
  BY <1>1 DEF nameRows
<1>4. UNCHANGED accountRows => AccountTypes' /\ AccountsGrow
  BY <1>1, <1>3 DEF AccountTypes, AccountsGrow, accountRows
<1>5. AccountTypes' /\ AccountsGrow /\ AccountReads(r)'
  <2>1. CASE LoadPending(r) \/ Approve(r) \/ Deny(r) \/ PollCheck(r) \/ PollReread(r)
    BY <1>1, <1>3, <1>4, <2>1, LoginWrites, SessionTyped
  <2>2. CASE PollMint(r)
    BY <2>2, MintWrites
  <2>3. CASE \/ Login(r) \/ MintCount(r) \/ CreateToken(r) \/ Revoke(r) \/ LogoutCheck(r)
             \/ LogoutDelete(r)
    BY <1>1, <1>3, <1>4, <2>3, TokenWrites, RowsTyped
  <2>4. CASE RotateRead(r) \/ RotateSwap(r)
    BY <2>4, RotateWrites
  <2>5. CASE \/ Authenticate2fa(r) \/ Enroll(r) \/ ProofRead(r) \/ ProofSpend(r)
             \/ ProofStamp(r) \/ Disable2fa(r)
    BY <1>1, <1>3, <1>4, <2>5, ProofWrites, RowsTyped
  <2>6. CASE ResetInvalidate(r) \/ LinkCreate(r) \/ LinkRead(r) \/ LinkConsume(r)
    BY <2>6, LinkWrites
  <2> QED
    BY <2>1, <2>2, <2>3, <2>4, <2>5, <2>6 DEF AccountStep
<1> QED
  BY <1>1, <1>2, <1>5, AccountsKeep

LEMMA AccountsNameStep ==
    ASSUME AccountsInv, NEW r \in Requests, NameStep(r)
    PROVE  AccountsInv'
<1>1. Moves(r) /\ UNCHANGED accountRows /\ NamesInv'
  BY NamesGo, NamesLeaveAccounts, NamesStep DEF AccountsInv, NamesInv
<1>2. job[r].kind \notin AccountKinds /\ job' = job
  BY <1>1, NamesKind DEF AccountKinds, NameKinds, Moves
<1>3. AccountReads(r)'
  BY <1>2 DEF AccountReads, AccountKinds, Proving
<1>4. \A u \in Users : account[u] # None => account'[u] # None
  BY NamesStep DEF AccountsInv, NamesGrow
<1>5. AccountTypes' /\ AccountsGrow
  <2>1. \A x \in TokenRows \cup SessionRows : x.user # None => x.user \in Users
    BY DEF TokenRows, SessionRows
  <2>2. AccountTypes /\ \A t \in TokenIds : tokens[t] # None => tokens[t].user \in Users
    BY NoneAssumption DEF AccountsInv, AccountTypes, TokenRows
  <2> QED
    BY <1>1, <1>4, <2>1, <2>2 DEF AccountTypes, AccountsGrow, accountRows
<1> QED
  BY <1>1, <1>3, <1>5, AccountsKeep

-----------------------------------------------------------------------------
(* Packages, and all the rows.                                              *)

PackageTypes ==
    /\ extension \in [Exts -> Versions \cup {NoVersion, None}]
    /\ \A x \in versions : x.ext \in Exts /\ x.version \in Versions

RowsInv == PublishInv /\ AccountsInv /\ PackageTypes

LEMMA PublishGo ==
    ASSUME Handlers, NEW r \in Requests, PublishStep(r)
    PROVE  /\ Moves(r) /\ Alone(r)
           /\ UNCHANGED <<nameRows, accountRows>> /\ job[r].kind \in {"publish", "reserve"}
<1>1. CASE PublishToken(r) \/ PublishGate(r) \/ PublishAlias(r) \/ PublishMember(r)
  BY <1>1, GoStep DEF PublishToken, PublishGate, PublishAlias, PublishMember, Plain, Steps, Ended,
                      OnlyReads, Publish
<1>2. CASE PublishKey(r) \/ PublishRegister(r) \/ PublishOwner(r) \/ PublishAliasOwner(r)
  BY <1>2, GoStep DEF PublishKey, PublishRegister, PublishOwner, PublishAliasOwner, Plain, Steps,
                      Ended, OnlyReads, Publish
<1>3. CASE PublishUpsert(r) \/ PublishDup(r) \/ PublishHasBundle(r) \/ PublishPut(r)
  BY <1>3, GoStep DEF PublishUpsert, PublishDup, PublishHasBundle, PublishPut, Plain, Steps,
                      Ended, OnlyReads, Publish
<1>4. CASE PublishInsert(r) \/ PublishLatest(r) \/ PublishAnswer(r)
  BY <1>4, GoStep DEF PublishInsert, PublishLatest, PublishAnswer, Plain, Steps,
                      Ended, OnlyReads, Publish
<1>5. CASE ReserveCheck(r) \/ ReserveCreate(r)
  BY <1>5, GoStep DEF ReserveCheck, ReserveCreate, Plain, Steps, Ended, OnlyReads
<1> QED
  BY <1>1, <1>2, <1>3, <1>4, <1>5 DEF PublishStep

\* A step that leaves the rows of names and accounts alone.
LEMMA RowsStay ==
    ASSUME AccountsInv, NEW r \in Requests, Moves(r), UNCHANGED <<nameRows, accountRows>>,
           \/ job[r].kind \notin {"sso", "invite", "redeem"} \cup AccountKinds
           \/ at'[r] \in Ended
    PROVE  AccountsInv'
<1>1. NameTypes' /\ NamesGrow
  BY DEF AccountsInv, NamesInv, NameTypes, NamesGrow, nameRows
<1>2. AccountTypes' /\ AccountsGrow
  BY DEF AccountsInv, AccountTypes, AccountsGrow, nameRows, accountRows
<1>3. NameReads(r)' /\ AccountReads(r)'
  BY DEF NameReads, AccountReads, Proving, AccountKinds, Ended, Moves
<1>4. NamesInv'
  BY <1>1, <1>3, NamesKeep DEF AccountsInv
<1> QED
  BY <1>2, <1>3, <1>4, AccountsKeep

LEMMA PackageWrites ==
    ASSUME RowsInv, NEW r \in Requests, PublishStep(r)
    PROVE  PackageTypes'
<1>1. PackageTypes /\ Shape /\ RequestInv(r)
  BY DEF RowsInv, PublishInv
<1>2. Publish(r) => job[r].ext \in Exts /\ job[r].version \in Versions
  BY <1>1, PublishAssumption DEF Shape, Publish
<1>3. CASE \/ PublishToken(r) \/ PublishGate(r) \/ PublishAlias(r) \/ PublishMember(r)
           \/ PublishKey(r) \/ PublishRegister(r) \/ PublishOwner(r) \/ PublishAliasOwner(r)
           \/ PublishDup(r) \/ PublishHasBundle(r) \/ PublishPut(r) \/ PublishAnswer(r)
           \/ ReserveCheck(r)
  <2>1. UNCHANGED <<extension, versions>>
    BY <1>3 DEF PublishToken, PublishGate, PublishAlias, PublishMember, PublishKey,
                PublishRegister, PublishOwner, PublishAliasOwner, PublishDup, PublishHasBundle,
                PublishPut, PublishAnswer, ReserveCheck, OnlyReads, packageRows
  <2> QED
    BY <1>1, <2>1 DEF PackageTypes
<1>4. CASE PublishUpsert(r)
  <2>1. /\ Publish(r) /\ versions' = versions
        /\ extension' = [extension EXCEPT ![job[r].ext] =
               IF extension[job[r].ext] = None THEN NoVersion ELSE extension[job[r].ext]]
    BY <1>4 DEF PublishUpsert
  <2> QED
    BY <1>1, <1>2, <2>1 DEF PackageTypes
<1>5. CASE PublishInsert(r)
  <2>1. /\ Publish(r) /\ extension' = extension
        /\ versions' = versions \/ versions' = versions \cup {Row(r)}
    BY <1>5 DEF PublishInsert
  <2> QED
    BY <1>1, <1>2, <2>1 DEF PackageTypes, Row
<1>6. CASE PublishLatest(r)
  <2>1. /\ Publish(r) /\ versions' = versions /\ at[r] = "latest"
        /\ extension' = [extension EXCEPT ![job[r].ext] = Higher(read[r], job[r].version)]
    BY <1>6 DEF PublishLatest, Go
  <2>2. read[r] = NoVersion \/ read[r] \in Versions
    BY <1>1, <2>1 DEF RequestInv, Rowed, Exists, PackageTypes
  <2>3. Higher(read[r], job[r].version) \in Versions \cup {NoVersion}
    BY <1>2, <2>1, <2>2 DEF Higher
  <2> QED
    BY <1>1, <1>2, <2>1, <2>3 DEF PackageTypes
<1>7. CASE ReserveCreate(r)
  <2>1. /\ versions' = versions
        /\ \/ extension' = extension
           \/ extension' = [extension EXCEPT ![Reserved(r)] = NoVersion]
    BY <1>7 DEF ReserveCreate
  <2> QED
    BY <1>1, <2>1 DEF PackageTypes
<1> QED
  BY <1>3, <1>4, <1>5, <1>6, <1>7 DEF PublishStep

LEMMA InitRows == Init => RowsInv
<1> SUFFICES ASSUME Init PROVE RowsInv
  OBVIOUS
<1>1. Handlers
  BY DEF Init, Handlers, Steps
<1>2. NameTypes /\ Kept
  BY RowsAssumption DEF Init, NameTypes, Kept
<1>3. AccountTypes
  <2>1. tokens \in [TokenIds -> TokenRows \cup {None}]
        /\ \A t \in TokenIds : tokens[t] # None => account[tokens[t].user] # None
    BY RowsAssumption DEF Init, TokenIds
  <2>2. sessions \in [Sessions -> SessionRows] /\ \A s \in Sessions : sessions[s].user = None
    BY DEF Init, SessionRows
  <2>3. links \in [LinkIds -> LinkRows \cup {None}]
    BY RowsAssumption DEF Init, LinkIds
  <2>4. recovery \in [Users -> (SUBSET (Codes \cup Requests)) \cup {None}]
    <3>1. (SUBSET Codes) \cup {None} \subseteq (SUBSET (Codes \cup Requests)) \cup {None}
      OBVIOUS
    <3> QED
      BY <3>1, RowsAssumption DEF Init
  <2> QED
    BY <2>1, <2>2, <2>3, <2>4 DEF AccountTypes
<1>4. \A r \in Requests : NameReads(r) /\ AccountReads(r)
  BY DEF Init, NameReads, AccountReads, Proving
<1>5. PackageTypes
  BY DEF Init, PackageTypes
<1> QED
  BY <1>1, <1>2, <1>3, <1>4, <1>5, InitPublish DEF RowsInv, AccountsInv, NamesInv

LEMMA CutMoves ==
    ASSUME Handlers, NEW r \in Requests, CutOff(r)
    PROVE  /\ Moves(r) /\ at'[r] = "cut" /\ overlapped' = overlapped
           /\ UNCHANGED <<nameRows, packageRows, accountRows>>
BY DEF CutOff, Moves, Handlers, UnderWay, Ended, Steps

LEMMA AnswerMoves ==
    ASSUME Handlers, NEW r \in Requests, Answer(r)
    PROVE  /\ Moves(r) /\ Alone(r) /\ at[r] = "answer" /\ at'[r] = "ok"
           /\ UNCHANGED <<nameRows, packageRows, accountRows>> /\ job[r].kind # "publish"
BY GoStep DEF Answer, Plain, Steps, Ended

LEMMA StepRows == RowsInv /\ [Next]_vars => RowsInv'
<1> SUFFICES ASSUME RowsInv, [Next]_vars PROVE RowsInv'
  OBVIOUS
<1>1. PublishInv' /\ AccountsInv /\ Handlers
  BY NextPublish DEF RowsInv, AccountsInv, NamesInv
<1>2. UNCHANGED packageRows => PackageTypes'
  BY DEF RowsInv, PackageTypes, packageRows
<1>3. ASSUME NEW r \in Requests, NameStep(r) \/ AccountStep(r) PROVE RowsInv'
  BY <1>1, <1>2, <1>3, AccountsNameStep, AccountsStep, NamesLeaveAccounts, AccountsLeaveNames
     DEF RowsInv
<1>4. ASSUME NEW r \in Requests, PublishStep(r) PROVE RowsInv'
  <2>1. Moves(r) /\ UNCHANGED <<nameRows, accountRows>> /\ job[r].kind \in {"publish", "reserve"}
    BY <1>1, <1>4, PublishGo
  <2>2. AccountsInv'
    BY <1>1, <2>1, RowsStay DEF AccountKinds
  <2> QED
    BY <1>1, <1>4, <2>2, PackageWrites DEF RowsInv
<1>5. ASSUME NEW r \in Requests, Answer(r) \/ CutOff(r) PROVE RowsInv'
  <2>1. Moves(r) /\ UNCHANGED <<nameRows, packageRows, accountRows>> /\ at'[r] \in Ended
    BY <1>1, <1>5, AnswerMoves, CutMoves DEF Ended
  <2> QED
    BY <1>1, <1>2, <2>1, RowsStay DEF RowsInv
<1>6. CASE Later
  <2>1. UNCHANGED <<requestState, nameRows, packageRows>>
    BY <1>6 DEF Later
  <2>2. AccountTypes' /\ AccountsGrow
    BY <1>1, <1>6, LaterTyped DEF AccountsInv
  <2>3. NamesInv'
    BY <1>1, <2>1 DEF AccountsInv, NamesInv, Handlers, NameTypes, Kept, NameReads, requestState,
                      nameRows
  <2>4. ASSUME NEW r \in Requests PROVE AccountReads(r)'
    <3>1. AccountReads(r) /\ UNCHANGED <<job, at, read, account>>
      BY <1>1, <2>1 DEF AccountsInv, requestState, nameRows
    <3>2. /\ job[r].kind = "poll" => job[r].session \in Sessions
          /\ job[r].kind = "follow" => job[r].link \in LinkIds
      BY <1>1, AccountJobOf
    <3> QED
      BY <2>2, <3>1, <3>2 DEF AccountReads, AccountsGrow, Proving
  <2> QED
    BY <1>1, <1>2, <2>1, <2>2, <2>3, <2>4 DEF RowsInv, AccountsInv
<1>7. CASE UNCHANGED vars
  BY <1>1, <1>2, <1>7
     DEF vars, RowsInv, AccountsInv, NamesInv, Handlers, NameTypes, Kept, NameReads, requestState,
         nameRows, AccountTypes, AccountReads, Proving, accountRows
<1> QED
  BY <1>3, <1>4, <1>5, <1>6, <1>7 DEF Next, Finished

LEMMA RowsHold == Spec => []RowsInv
BY InitRows, StepRows, PTL DEF Spec

\* The rows of every table keep their types and their references.
THEOREM RegistryTypeCorrect == Spec => []TypeOK
<1>1. RowsInv => TypeOK
  BY DEF RowsInv, AccountsInv, NamesInv, Handlers, NameTypes, AccountTypes, SessionRows,
         PackageTypes, TypeOK
<1> QED
  BY <1>1, RowsHold, PTL

-----------------------------------------------------------------------------
(* Steps, and handlers that do not overlap.                                 *)

StepOf(r) == NameStep(r) \/ AccountStep(r) \/ PublishStep(r) \/ Answer(r) \/ CutOff(r)

SerialInv ==
    ~overlapped => \A q, r \in Requests : q # r => ~(UnderWay(q) /\ UnderWay(r))

LEMMA StepShape ==
    ASSUME RowsInv, SerialInv, NEW r \in Requests, StepOf(r)
    PROVE  Moves(r) /\ Alone(r)
<1>1. Handlers
  BY DEF RowsInv, AccountsInv, NamesInv
<1>2. CASE CutOff(r)
  <2>1. Moves(r) /\ overlapped' = overlapped /\ UnderWay(r)
    BY <1>1, <1>2, CutMoves DEF CutOff
  <2> QED
    BY <2>1 DEF SerialInv, Alone
<1> QED
  BY <1>1, <1>2, NamesGo, AccountsGo, PublishGo, AnswerMoves DEF StepOf

LEMMA NextShape ==
    ASSUME [Next]_vars
    PROVE  \/ \E r \in Requests : StepOf(r)
           \/ Later
           \/ UNCHANGED vars
BY DEF Next, Finished, StepOf

\* What time and stuttering leave as it was.
LEMMA LaterStays ==
    ASSUME Later \/ UNCHANGED vars
    PROVE  UNCHANGED <<requestState, nameRows, packageRows, links, recovery>>
BY DEF Later, vars, accountRows

LEMMA StepSerial == RowsInv /\ SerialInv /\ [Next]_vars => SerialInv'
<1> SUFFICES ASSUME RowsInv, SerialInv, [Next]_vars PROVE SerialInv'
  OBVIOUS
<1>1. ASSUME NEW r \in Requests, StepOf(r) PROVE SerialInv'
  <2>1. Moves(r) /\ Alone(r)
    BY <1>1, StepShape
  <2>2. ~overlapped' => \A q \in Requests \ {r} : ~UnderWay(q) /\ at'[q] = at[q]
    BY <2>1 DEF Moves, Alone
  <2> QED
    BY <2>2 DEF SerialInv, UnderWay
<1>2. CASE Later \/ UNCHANGED vars
  BY <1>2, LaterStays DEF requestState, SerialInv, UnderWay
<1> QED
  BY <1>1, <1>2, NextShape

-----------------------------------------------------------------------------
(* Claims.                                                                  *)

ClaimKind(r) == job[r].kind \in {"claim", "createOrg"}

ClaimInv ==
    /\ \A r \in Requests : ClaimKind(r) => at[r] # "answer"
    /\ \A h \in Handles, r \in Requests : Won(r, h) => alias[h] # None \/ Released(h)
    /\ ClaimedOnce

\* A step of r by which no handle becomes free without a release.
LEMMA ClaimsStay ==
    ASSUME ClaimInv, NEW r \in Requests, Moves(r),
           \A h \in Handles : alias[h] # None => alias'[h] # None \/ Released(h)',
           ClaimKind(r) => at'[r] \notin {"answer", "ok"}
    PROVE  ClaimInv'
<1>1. \A q \in Requests, h \in Handles : Won(q, h)' => Won(q, h) /\ q # r
  BY DEF Won, ClaimKind, Moves
<1>2. \A h \in Handles : Released(h) => Released(h)'
  BY DEF Released, Moves, Ended
<1>3. \A q \in Requests : ClaimKind(q)' => at'[q] # "answer"
  BY DEF ClaimInv, ClaimKind, Moves
<1>4. \A h \in Handles, q \in Requests : Won(q, h)' => alias'[h] # None \/ Released(h)'
  BY <1>1, <1>2 DEF ClaimInv
<1>5. ClaimedOnce'
  BY <1>1, <1>2 DEF ClaimInv, ClaimedOnce
<1> QED
  BY <1>3, <1>4, <1>5 DEF ClaimInv

\* A step that wins a handle finds it free.
LEMMA ClaimWins ==
    ASSUME ClaimInv, NEW r \in Requests, Moves(r), at'[r] = "ok",
           NEW g \in Handles, job[r].handle = g, alias[g] = None,
           alias'[g] # None, \A h \in Handles \ {g} : alias'[h] = alias[h]
    PROVE  ClaimInv'
<1>1. \A q \in Requests \ {r} : \A h \in Handles : Won(q, h)' <=> Won(q, h)
  BY DEF Won, Moves
<1>2. \A h \in Handles : Released(h) => Released(h)'
  BY DEF Released, Moves, Ended
<1>3. \A q \in Requests : ClaimKind(q)' => at'[q] # "answer"
  BY DEF ClaimInv, ClaimKind, Moves
<1>4. \A h \in Handles : Won(r, h)' => h = g
  BY DEF Won, Moves
<1>5. \A q \in Requests \ {r} : Won(q, g) => Released(g)
  BY DEF ClaimInv
<1>6. \A h \in Handles, q \in Requests : Won(q, h)' => alias'[h] # None \/ Released(h)'
  BY <1>1, <1>2, <1>4 DEF ClaimInv
<1>7. ClaimedOnce'
  BY <1>1, <1>2, <1>4, <1>5 DEF ClaimInv, ClaimedOnce
<1> QED
  BY <1>3, <1>6, <1>7 DEF ClaimInv

LEMMA StepClaims ==
    ASSUME RowsInv, SerialInv, ClaimInv, NEW r \in Requests, StepOf(r)
    PROVE  ClaimInv'
<1>1. /\ Moves(r) /\ NamesInv /\ NameTypes /\ Handlers
  BY StepShape DEF RowsInv, AccountsInv, NamesInv
<1>2. CASE ClaimCreate(r)
  <2>1. /\ job[r].kind = "claim" /\ at[r] = "create"
        /\ \/ alias[job[r].handle] # None /\ at'[r] = "refused" /\ alias' = alias
           \/ /\ alias[job[r].handle] = None /\ at'[r] = "ok"
              /\ alias' = [alias EXCEPT ![job[r].handle] = job[r].user]
    BY <1>1, <1>2 DEF ClaimCreate, Named, Go, Handlers
  <2>2. job[r].handle \in Handles /\ job[r].user \in Users /\ job[r].user # None
    BY <1>1, <2>1, JobOf, NoneAssumption DEF NameKinds
  <2>3. CASE alias[job[r].handle] # None
    BY <1>1, <2>1, <2>3, ClaimsStay
  <2>4. CASE alias[job[r].handle] = None
    <3>1. alias'[job[r].handle] # None
          /\ \A h \in Handles \ {job[r].handle} : alias'[h] = alias[h]
      BY <1>1, <2>1, <2>2, <2>4 DEF NameTypes
    <3> QED
      BY <1>1, <2>1, <2>2, <2>4, <3>1, ClaimWins
  <2> QED
    BY <2>3, <2>4
<1>3. CASE OrgCreate(r)
  <2>1. /\ job[r].kind = "createOrg" /\ at[r] = "create"
        /\ \/ at'[r] = "refused" /\ alias' = alias
           \/ /\ alias[job[r].handle] = None /\ at'[r] = "ok"
              /\ alias' = [alias EXCEPT ![job[r].handle] = "org"]
    BY <1>1, <1>3 DEF OrgCreate, Named, Go, Handlers
  <2>2. job[r].handle \in Handles /\ None # "org"
    BY <1>1, <2>1, JobOf, NoneAssumption DEF NameKinds
  <2>3. CASE at'[r] = "refused" /\ alias' = alias
    BY <1>1, <2>1, <2>3, ClaimsStay
  <2>4. CASE at'[r] # "refused"
    <3>1. alias'[job[r].handle] # None
          /\ \A h \in Handles \ {job[r].handle} : alias'[h] = alias[h]
      BY <1>1, <2>1, <2>2, <2>4 DEF NameTypes
    <3> QED
      BY <1>1, <2>1, <2>2, <2>4, <3>1, ClaimWins
  <2> QED
    BY <2>1, <2>3, <2>4
<1>4. CASE ReleaseDelete(r)
  <2>1. /\ job[r].kind = "release"
        /\ at'[r] = IF alias[job[r].handle] # None THEN "ok" ELSE "failed"
        /\ alias' = [alias EXCEPT ![job[r].handle] = None]
    BY <1>1, <1>4 DEF ReleaseDelete, Named, Go, Handlers
  <2>2. \A h \in Handles : alias[h] # None => alias'[h] # None \/ Released(h)'
    <3> SUFFICES ASSUME NEW h \in Handles, alias[h] # None, alias'[h] = None
                 PROVE  Released(h)'
      OBVIOUS
    <3>1. h = job[r].handle
      BY <1>1, <2>1 DEF NameTypes
    <3> QED
      BY <1>1, <2>1, <3>1 DEF Released, Moves
  <2> QED
    BY <1>1, <2>1, <2>2, ClaimsStay DEF ClaimKind
<1>5. CASE SsoNamespace(r)
  <2>1. \/ alias' = alias
        \/ \E h : NewAlias(h, job[r].user)
    BY <1>1, <1>5, SsoWrites DEF nameRows, NewAccount
  <2>2. job[r].kind = "sso"
    BY <1>5 DEF SsoNamespace, Named
  <2>3. \A h \in Handles : alias[h] # None => alias'[h] # None
    BY <1>1, <2>1 DEF NewAlias, NameTypes
  <2> QED
    BY <1>1, <2>2, <2>3, ClaimsStay DEF ClaimKind
<1>6. CASE /\ StepOf(r)
           /\ ~ClaimCreate(r) /\ ~OrgCreate(r) /\ ~ReleaseDelete(r) /\ ~SsoNamespace(r)
  <2>1. alias' = alias
    <3>1. CASE NameStep(r)
      BY <1>6, <3>1, LookKeeps
         DEF NameStep, NameLook, SignUpCreate, SsoCreate, SsoJoin, MemberWrite, InviteSupersede,
             InviteCreate, InviteRevoke, RedeemJoin, nameRows
    <3> QED
      BY <1>1, <1>6, <3>1, AccountsLeaveNames, PublishGo, AnswerMoves, CutMoves
         DEF StepOf, nameRows
  <2>2. ClaimKind(r) => at'[r] \notin {"answer", "ok"}
    <3>1. CASE NameStep(r)
      <4>1. ClaimKind(r) => ClaimCount(r) \/ ClaimCheck(r) \/ OrgCheck(r)
        BY <1>6, <3>1
           DEF NameStep, ClaimKind, Named, MemberJob, SignUpCheck, SignUpCreate, SsoLookup,
               SsoCandidate, SsoCreate, SsoNamespace, SsoJoin, ReleaseCheck, ReleaseCount,
               ReleaseDelete, MemberAuthorize, MemberRead, MemberOwners, MemberWrite,
               InviteAuthorize, InviteMember, InviteSupersede, InviteCreate,
               InviteRevokeAuthorize, InviteRevoke, RedeemCheck, RedeemJoin
      <4> QED
        BY <1>1, <4>1 DEF ClaimCount, ClaimCheck, OrgCheck, Go, Handlers
    <3>2. CASE AccountStep(r) \/ PublishStep(r)
      BY <1>1, <3>2, AccountsKind, PublishGo DEF AccountKinds, ClaimKind
    <3>3. CASE Answer(r)
      BY <1>1, <3>3, AnswerMoves DEF ClaimInv
    <3>4. CASE CutOff(r)
      BY <1>1, <3>4, CutMoves
    <3> QED
      BY <1>6, <3>1, <3>2, <3>3, <3>4 DEF StepOf
  <2> QED
    BY <1>1, <2>1, <2>2, ClaimsStay
<1> QED
  BY <1>2, <1>3, <1>4, <1>5, <1>6

LEMMA ClaimStutter == ClaimInv /\ UNCHANGED <<requestState, nameRows>> => ClaimInv'
BY DEF requestState, nameRows, ClaimInv, ClaimKind, Won, Released, ClaimedOnce

-----------------------------------------------------------------------------
(* Owners.                                                                  *)

\* What a handler that nobody overlaps knows when it writes.
OwnerReads(r) ==
    /\ job[r].kind \in {"remove", "changeRole"} =>
          (at[r] = "write" => \/ NewRole(r) = "owner"
                              \/ \E u \in Owners(job[r].handle) : u # job[r].member
                              \/ role[job[r].handle][job[r].member] # "owner")
    /\ job[r].kind = "release" => (at[r] = "delete" => ~InUse(job[r].handle))
    /\ job[r].kind = "publish" => (at[r] = "upsert" => HasOwner(Publisher(r)))

OwnersInv ==
    ~overlapped => /\ \A h \in orgs : Owners(h) # {}
                   /\ \A h \in Handles : InUse(h) => HasOwner(h)
                   /\ \A r \in Requests : OwnerReads(r)

LEMMA InitOwners == Init => OwnersInv
BY RowsAssumption DEF Init, OwnersInv, Owners, InUse, OwnerReads

\* A step of a handler that runs alone: what is left to show.
LEMMA OwnersAlone ==
    ASSUME NEW r \in Requests, Moves(r), Alone(r),
           ~overlapped' => /\ \A h \in orgs' : Owners(h)' # {}
                           /\ \A h \in Handles : InUse(h)' => HasOwner(h)'
                           /\ OwnerReads(r)'
    PROVE  OwnersInv'
<1>1. ASSUME ~overlapped', NEW q \in Requests \ {r} PROVE OwnerReads(q)'
  <2>1. ~UnderWay(q) /\ at'[q] = at[q] /\ job' = job
    BY <1>1 DEF Moves, Alone
  <2> QED
    BY <2>1 DEF OwnerReads, UnderWay, Ended
<1> QED
  BY <1>1 DEF OwnersInv

\* Steps by which no owner, no extension and no name comes or goes.
LEMMA OwnersStay ==
    ASSUME OwnersInv, NEW r \in Requests, Moves(r), Alone(r),
           UNCHANGED <<nameRows, extension>>, ~overlapped' => OwnerReads(r)'
    PROVE  OwnersInv'
<1>1. ~overlapped' => ~overlapped
  BY DEF Alone
<1>2. /\ orgs' = orgs /\ \A h : Owners(h)' = Owners(h)
      /\ \A h \in Handles : InUse(h)' = InUse(h) /\ HasOwner(h)' = HasOwner(h)
  BY DEF nameRows, Owners, InUse, HasOwner
<1> QED
  BY <1>1, <1>2, OwnersAlone DEF OwnersInv

\* Names: what each write does to owners, and to who has a name.
NamesGained ==
    /\ orgs \subseteq orgs'
    /\ \A h \in Handles : HasOwner(h) => HasOwner(h)'

LEMMA AccountGained ==
    ASSUME NameTypes, NEW u, NEW h, NewAccount(u, h)
    PROVE  NamesGained /\ orgs' = orgs /\ role' = role
<1>1. None \notin Handles
  BY NoneAssumption
<1> QED
  BY <1>1 DEF NewAccount, NameTypes, NamesGained, HasOwner

LEMMA AliasGained ==
    ASSUME NameTypes, NEW h, NEW u, NewAlias(h, u)
    PROVE  NamesGained /\ orgs' = orgs /\ role' = role
<1>1. None \notin Users
  BY NoneAssumption
<1> QED
  BY <1>1 DEF NewAlias, NameTypes, NamesGained, HasOwner

LEMMA OrgGained ==
    ASSUME NameTypes, NEW h, NEW u, NewOrg(h, u)
    PROVE  /\ NamesGained /\ orgs' = orgs \cup {h} /\ u \in Owners(h)'
           /\ \A g \in orgs : Owners(g)' = Owners(g)
<1>1. /\ role'[h][u] = "owner"
      /\ \A g \in Handles, v \in Users : g # h \/ v # u => role'[g][v] = role[g][v]
  <2>1. h \in Handles /\ u \in Users /\ role' = [role EXCEPT ![h][u] = "owner"]
        /\ "owner" \in Roles
    BY DEF NewOrg, Roles
  <2> QED
    BY <2>1, RoleWritten
<1>2. NamesGained
  BY NoneAssumption DEF NewOrg, NameTypes, NamesGained, HasOwner
<1> QED
  BY <1>1, <1>2 DEF NewOrg, NameTypes, Owners

LEMMA MemberGained ==
    ASSUME NameTypes, NEW h, NEW u, NEW x, NewMember(h, u, x),
           \/ role[h][u] # "owner"
           \/ x = "owner"
           \/ \E v \in Owners(h) : v # u
    PROVE  /\ NamesGained /\ orgs' = orgs
           /\ \A g \in orgs : Owners(g) # {} => Owners(g)' # {}
<1>1. /\ h \in Handles /\ u \in Users
      /\ role'[h][u] = x
      /\ \A g \in Handles, v \in Users : g # h \/ v # u => role'[g][v] = role[g][v]
  <2>1. /\ h \in Handles /\ u \in Users /\ x \in Roles \cup {None}
        /\ role' = [role EXCEPT ![h][u] = x]
    BY DEF NewMember
  <2>2. /\ role'[h][u] = x
        /\ \A g \in Handles, v \in Users : g # h \/ v # u => role'[g][v] = role[g][v]
    BY <2>1, RoleWritten
  <2> QED
    BY <2>1, <2>2
<1>2. NamesGained /\ orgs' = orgs /\ orgs \subseteq Handles
  BY DEF NewMember, NamesGained, HasOwner, NameTypes
<1>3. ASSUME NEW g \in orgs, NEW v \in Owners(g) PROVE Owners(g)' # {}
  <2>1. CASE g # h \/ v # u
    BY <1>1, <1>2, <1>3, <2>1 DEF Owners
  <2>2. CASE g = h /\ v = u
    BY <1>1, <1>2, <1>3, <2>2 DEF Owners
  <2> QED
    BY <2>1, <2>2
<1> QED
  BY <1>2, <1>3

LEMMA OwnersGained ==
    ASSUME OwnersInv, NEW r \in Requests, Moves(r), Alone(r), extension' = extension,
           ~overlapped => /\ NamesGained
                          /\ \A h \in orgs' : (h \notin orgs \/ Owners(h) # {})
                                                 => Owners(h)' # {},
           OwnerReads(r)'
    PROVE  OwnersInv'
<1>1. ~overlapped' => ~overlapped
  BY DEF Alone
<1>2. \A h \in Handles : InUse(h)' = InUse(h)
  BY DEF InUse
<1> QED
  BY <1>1, <1>2, OwnersAlone DEF OwnersInv, NamesGained

LEMMA LookOwners ==
    ASSUME RowsInv, NEW r \in Requests, NameLook(r)
    PROVE  OwnerReads(r)'
<1>1. /\ Handlers /\ UNCHANGED <<nameRows, extension>>
  <2>1. NameStep(r)
    BY DEF NameLook, NameStep
  <2> QED
    BY <2>1, LookKeeps, NamesLeaveAccounts DEF RowsInv, AccountsInv, NamesInv, packageRows
<1>2. CASE MemberAuthorize(r) \/ MemberRead(r) \/ MemberOwners(r)
  <2>1. /\ job' = job /\ job[r].kind \in {"remove", "changeRole"}
        /\ at'[r] = "write" =>
              \/ NewRole(r) = "owner"
              \/ ~(Owners(job[r].handle) \subseteq {job[r].member})
              \/ role[job[r].handle][job[r].member] # "owner"
    BY <1>1, <1>2 DEF MemberAuthorize, MemberRead, MemberOwners, NextForMember, MemberJob, Go,
                      Handlers
  <2> QED
    BY <1>1, <2>1 DEF OwnerReads, nameRows, Owners, NewRole
<1>3. CASE ReleaseCheck(r) \/ ReleaseCount(r)
  <2>1. /\ job' = job /\ job[r].kind = "release"
        /\ at'[r] = "delete" => ~InUse(job[r].handle)
    BY <1>1, <1>3 DEF ReleaseCheck, ReleaseCount, Named, Go, Handlers
  <2> QED
    BY <1>1, <2>1 DEF OwnerReads, InUse
<1>4. CASE \/ SignUpCheck(r) \/ SsoLookup(r) \/ SsoCandidate(r) \/ ClaimCount(r) \/ ClaimCheck(r)
           \/ OrgCheck(r) \/ InviteAuthorize(r) \/ InviteMember(r) \/ InviteRevokeAuthorize(r)
           \/ RedeemCheck(r)
  <2>1. job' = job /\ job[r].kind \notin {"remove", "changeRole", "release", "publish"}
    BY <1>4 DEF SignUpCheck, SsoLookup, SsoCandidate, ClaimCount, ClaimCheck, OrgCheck,
                InviteAuthorize, InviteMember, InviteRevokeAuthorize, RedeemCheck, Named, Go
  <2> QED
    BY <2>1 DEF OwnerReads
<1> QED
  BY <1>2, <1>3, <1>4 DEF NameLook

\* A handler that has ended, and one of another kind, know nothing.
LEMMA NothingRead ==
    ASSUME NEW r \in Requests, job' = job,
           \/ job[r].kind \notin {"remove", "changeRole", "release", "publish"}
           \/ at'[r] \notin {"write", "delete", "upsert"}
    PROVE  OwnerReads(r)'
BY DEF OwnerReads

LEMMA NameOwners ==
    ASSUME RowsInv, SerialInv, OwnersInv, NEW r \in Requests, NameStep(r)
    PROVE  OwnersInv'
<1>1. /\ Moves(r) /\ Alone(r) /\ NamesInv /\ NameTypes /\ Handlers /\ job' = job
      /\ extension' = extension
  BY StepShape, NamesLeaveAccounts
     DEF StepOf, RowsInv, AccountsInv, NamesInv, Moves, packageRows
<1>2. UNCHANGED nameRows /\ OwnerReads(r)' => OwnersInv'
  BY <1>1, OwnersStay
<1>3. CASE NameLook(r)
  BY <1>2, <1>3, LookKeeps, LookOwners
<1>4. CASE SignUpCreate(r) \/ SsoCreate(r) \/ SsoNamespace(r)
  <2>1. OwnerReads(r)'
    BY <1>1, <1>4, NothingRead DEF SignUpCreate, SsoCreate, SsoNamespace, Named
  <2>2. UNCHANGED nameRows \/ (NamesGained /\ orgs' = orgs /\ role' = role)
    BY <1>1, <1>4, SignUpWrites, SsoWrites, AccountGained, AliasGained
  <2>3. orgs' = orgs /\ role' = role => \A h \in orgs' : Owners(h)' = Owners(h)
    BY DEF Owners
  <2> QED
    BY <1>1, <1>2, <2>1, <2>2, <2>3, OwnersGained DEF OwnersInv
<1>5. CASE ClaimCreate(r)
  <2>1. OwnerReads(r)'
    BY <1>1, <1>5, NothingRead DEF ClaimCreate, Named
  <2>2. UNCHANGED nameRows \/ NewAlias(job[r].handle, job[r].user)
    <3>1. job[r].handle \in Handles /\ job[r].user \in Users
      BY <1>1, <1>5, JobOf DEF ClaimCreate, Named, NameKinds
    <3> QED
      BY <1>5, <3>1 DEF ClaimCreate, NewAlias, nameRows
  <2>3. orgs' = orgs /\ role' = role => \A h \in orgs' : Owners(h)' = Owners(h)
    BY DEF Owners
  <2> QED
    BY <1>1, <1>2, <2>1, <2>2, <2>3, AliasGained, OwnersGained DEF OwnersInv
<1>6. CASE ReleaseDelete(r)
  <2>1. /\ job[r].kind = "release" /\ at[r] = "delete" /\ at'[r] \in {"ok", "failed"}
        /\ UNCHANGED <<account, orgs, role>>
        /\ alias' = [alias EXCEPT ![job[r].handle] = None]
    BY <1>1, <1>6 DEF ReleaseDelete, Named, Go, Handlers
  <2>2. ASSUME ~overlapped' PROVE \A h \in Handles : InUse(h)' => HasOwner(h)'
    <3> SUFFICES ASSUME NEW h \in Handles, InUse(h)' PROVE HasOwner(h)'
      OBVIOUS
    <3>1. ~overlapped /\ InUse(h) /\ HasOwner(h) /\ ~InUse(job[r].handle)
      BY <1>1, <2>1, <2>2 DEF OwnersInv, OwnerReads, Alone, InUse
    <3>2. alias'[h] = alias[h]
      BY <1>1, <2>1, <3>1 DEF NameTypes
    <3> QED
      BY <2>1, <3>1, <3>2 DEF HasOwner
  <2>3. \A h \in orgs' : Owners(h)' = Owners(h)
    BY <2>1 DEF Owners
  <2>4. OwnerReads(r)'
    BY <1>1, <2>1, NothingRead
  <2> QED
    BY <1>1, <2>1, <2>2, <2>3, <2>4, OwnersAlone DEF OwnersInv, Alone
<1>7. CASE SsoJoin(r)
  <2>1. OwnerReads(r)'
    BY <1>1, <1>7, NothingRead DEF SsoJoin, Named
  <2>2. \/ UNCHANGED nameRows
        \/ NewMember(job[r].handle, job[r].user, "contributor")
           /\ role[job[r].handle][job[r].user] # "owner"
    BY <1>1, <1>7, JoinWrites, NoneAssumption DEF Roles
  <2> QED
    BY <1>1, <1>2, <2>1, <2>2, MemberGained, OwnersGained
<1>8. CASE OrgCreate(r)
  <2>1. OwnerReads(r)'
    BY <1>1, <1>8, NothingRead DEF OrgCreate, Named
  <2>2. UNCHANGED nameRows \/ NewOrg(job[r].handle, job[r].user)
    BY <1>1, <1>8, OrgWrites
  <2> QED
    BY <1>1, <1>2, <2>1, <2>2, OrgGained, OwnersGained DEF OwnersInv
<1>9. CASE MemberWrite(r)
  <2>1. /\ job[r].kind \in {"remove", "changeRole"} /\ at[r] = "write" /\ at'[r] \in {"ok", "failed"}
    BY <1>1, <1>9 DEF MemberWrite, MemberJob, Go, Handlers
  <2>2. OwnerReads(r)'
    BY <1>1, <2>1, NothingRead
  <2>3. \/ UNCHANGED nameRows
        \/ NewMember(job[r].handle, job[r].member, NewRole(r))
    BY <1>1, <1>9, MemberWrites
  <2>4. ~overlapped => \/ NewRole(r) = "owner"
                       \/ \E u \in Owners(job[r].handle) : u # job[r].member
                       \/ role[job[r].handle][job[r].member] # "owner"
    BY <2>1 DEF OwnersInv, OwnerReads
  <2>5. NewMember(job[r].handle, job[r].member, NewRole(r)) /\ ~overlapped
           => /\ NamesGained /\ orgs' = orgs
              /\ \A g \in orgs : Owners(g) # {} => Owners(g)' # {}
    BY <1>1, <2>4, MemberGained
  <2>6. NewMember(job[r].handle, job[r].member, NewRole(r)) => OwnersInv'
    BY <1>1, <2>2, <2>5, OwnersGained
  <2> QED
    BY <1>2, <2>2, <2>3, <2>6
<1>10. CASE InviteSupersede(r) \/ InviteCreate(r) \/ InviteRevoke(r)
  <2>1. OwnerReads(r)'
    BY <1>1, <1>10, NothingRead DEF InviteSupersede, InviteCreate, InviteRevoke, Named
  <2>2. UNCHANGED <<account, orgs, alias, role>>
    BY <1>10 DEF InviteSupersede, InviteCreate, InviteRevoke
  <2>3. NamesGained /\ \A h \in orgs' : Owners(h)' = Owners(h)
    BY <2>2 DEF NamesGained, HasOwner, Owners
  <2> QED
    BY <1>1, <2>1, <2>2, <2>3, OwnersGained
<1>11. CASE RedeemJoin(r)
  <2>1. OwnerReads(r)'
    BY <1>1, <1>11, NothingRead DEF RedeemJoin, Named
  <2>2. PICK h \in orgs :
              /\ \/ role' = role
                 \/ /\ \E x \in Roles : NewMember(h, job[r].user, x)
                    /\ role[h][job[r].user] = None
              /\ NewInvites
    BY <1>1, <1>11, RedeemWrites
  <2>3. CASE role' = role
    <3>1. NamesGained /\ orgs' = orgs /\ \A g \in orgs' : Owners(g)' = Owners(g)
      BY <2>2, <2>3 DEF NewInvites, NamesGained, HasOwner, Owners
    <3> QED
      BY <1>1, <2>1, <3>1, OwnersGained
  <2>4. CASE role' # role
    <3>1. PICK x \in Roles : NewMember(h, job[r].user, x) /\ role[h][job[r].user] # "owner"
      BY <2>2, <2>4, NoneAssumption DEF Roles
    <3> QED
      BY <1>1, <2>1, <3>1, MemberGained, OwnersGained
  <2> QED
    BY <2>3, <2>4
<1> QED
  BY <1>3, <1>4, <1>5, <1>6, <1>7, <1>8, <1>9, <1>10, <1>11 DEF NameStep, NameLook

LEMMA PublishOwners ==
    ASSUME RowsInv, SerialInv, OwnersInv, NEW r \in Requests, PublishStep(r)
    PROVE  OwnersInv'
<1>1. /\ Moves(r) /\ Alone(r) /\ NameTypes /\ Handlers /\ job' = job /\ UNCHANGED nameRows
      /\ PackageTypes /\ Shape /\ RequestInv(r)
  BY StepShape, PublishGo
     DEF StepOf, RowsInv, AccountsInv, NamesInv, Moves, PublishInv
<1>2. \A h : Owners(h)' = Owners(h) /\ HasOwner(h)' = HasOwner(h)
  BY <1>1 DEF nameRows, Owners, HasOwner
<1>3. Publish(r) => job[r].ext \in Exts /\ Publisher(r) \in Handles
  BY <1>1, PublishAssumption DEF Shape, Publish, Exts, Publisher
<1>4. CASE \/ PublishToken(r) \/ PublishGate(r) \/ PublishAlias(r) \/ PublishMember(r)
           \/ PublishKey(r) \/ PublishRegister(r) \/ PublishDup(r) \/ PublishHasBundle(r)
           \/ PublishPut(r) \/ PublishAnswer(r) \/ PublishInsert(r) \/ ReserveCheck(r)
  <2>1. extension' = extension
    BY <1>4 DEF PublishToken, PublishGate, PublishAlias, PublishMember, PublishKey,
                PublishRegister, PublishDup, PublishHasBundle, PublishPut, PublishAnswer,
                PublishInsert, ReserveCheck, OnlyReads, packageRows
  <2>2. OwnerReads(r)'
    <3>1. at'[r] # "upsert" /\ job[r].kind \in {"publish", "reserve"}
      BY <1>1, <1>4 DEF PublishToken, PublishGate, PublishAlias, PublishMember, PublishKey,
                PublishRegister, PublishDup, PublishHasBundle, PublishPut, PublishAnswer,
                PublishInsert, ReserveCheck, Publish, Go, Handlers
    <3> QED
      BY <1>1, <3>1 DEF OwnerReads
  <2> QED
    BY <1>1, <2>1, <2>2, OwnersStay
<1>5. CASE PublishOwner(r) \/ PublishAliasOwner(r)
  <2>1. /\ extension' = extension /\ Publish(r)
        /\ at'[r] = "upsert" => HasOwner(Publisher(r))
    BY <1>1, <1>5 DEF PublishOwner, PublishAliasOwner, OnlyReads, packageRows, Go, Handlers, HasOwner
  <2>2. OwnerReads(r)'
    BY <1>1, <1>2, <2>1 DEF OwnerReads, Publisher, Publish
  <2> QED
    BY <1>1, <2>1, <2>2, OwnersStay
<1>6. CASE PublishUpsert(r) \/ PublishLatest(r)
  <2>1. /\ Publish(r) /\ at'[r] \in {"dup", "answer"}
        /\ at[r] = "upsert" \/ (at[r] = "latest" /\ extension[job[r].ext] # None)
        /\ \A e \in Exts : e # job[r].ext => extension'[e] = extension[e]
    BY <1>1, <1>6 DEF PublishUpsert, PublishLatest, Go, Handlers, RequestInv, Rowed, PackageTypes
  <2>2. ASSUME ~overlapped' PROVE \A h \in Handles : InUse(h)' => HasOwner(h)'
    <3> SUFFICES ASSUME NEW h \in Handles, InUse(h)' PROVE HasOwner(h)
      BY <1>2
    <3>1. PICK e \in Exts : e[1] = h /\ extension'[e] # None
      BY DEF InUse
    <3>2. CASE extension[e] # None
      BY <1>1, <2>2, <3>1, <3>2 DEF OwnersInv, InUse, Alone
    <3>3. CASE extension[e] = None
      <4>1. e = job[r].ext /\ at[r] = "upsert"
        BY <2>1, <3>1, <3>3
      <4> QED
        BY <1>1, <2>1, <2>2, <3>1, <4>1 DEF OwnersInv, OwnerReads, Alone, Publisher, Publish
    <3> QED
      BY <3>2, <3>3
  <2>3. OwnerReads(r)'
    BY <1>1, <2>1, NothingRead
  <2> QED
    BY <1>1, <1>2, <2>2, <2>3, OwnersAlone DEF OwnersInv, Alone, nameRows
<1>7. CASE ReserveCreate(r)
  <2>1. /\ job[r].kind = "reserve"
        /\ \/ extension' = extension
           \/ extension' = [extension EXCEPT ![Reserved(r)] = NoVersion]
    BY <1>7 DEF ReserveCreate
  <2>2. OwnerReads(r)'
    BY <1>1, <2>1, NothingRead
  <2>3. job[r].user \in Users
    BY <1>1, <2>1, PublishAssumption DEF Handlers
  <2>4. ASSUME ~overlapped' PROVE \A h \in Handles : InUse(h)' => HasOwner(h)'
    <3> SUFFICES ASSUME NEW h \in Handles, InUse(h)' PROVE HasOwner(h)
      BY <1>2
    <3>1. PICK e \in Exts : e[1] = h /\ extension'[e] # None
      BY DEF InUse
    <3>2. CASE extension[e] # None
      BY <1>1, <2>4, <3>1, <3>2 DEF OwnersInv, InUse, Alone
    <3>3. CASE extension[e] = None
      <4>1. e = Reserved(r)
        BY <1>1, <2>1, <3>1, <3>3 DEF PackageTypes
      <4>2. account[job[r].user] = h
        BY <3>1, <4>1 DEF Reserved
      <4> QED
        BY <2>3, <4>2 DEF HasOwner
    <3> QED
      BY <3>2, <3>3
  <2> QED
    BY <1>1, <1>2, <2>2, <2>4, OwnersAlone DEF OwnersInv, Alone, nameRows
<1> QED
  BY <1>4, <1>5, <1>6, <1>7 DEF PublishStep

LEMMA StepOwners ==
    ASSUME RowsInv, SerialInv, OwnersInv, NEW r \in Requests, StepOf(r)
    PROVE  OwnersInv'
<1>1. /\ Moves(r) /\ Alone(r) /\ Handlers /\ job' = job
  BY StepShape DEF RowsInv, AccountsInv, NamesInv, Moves
<1>2. CASE AccountStep(r)
  <2>1. job[r].kind \notin {"remove", "changeRole", "release", "publish"}
    BY <1>2, AccountsKind DEF AccountKinds
  <2> QED
    BY <1>1, <1>2, <2>1, NothingRead, AccountsLeaveNames, OwnersStay DEF packageRows
<1>3. CASE Answer(r) \/ CutOff(r)
  <2>1. UNCHANGED <<nameRows, packageRows>> /\ at'[r] \in {"ok", "cut"}
    BY <1>1, <1>3, AnswerMoves, CutMoves
  <2> QED
    BY <1>1, <2>1, NothingRead, OwnersStay DEF packageRows
<1> QED
  BY <1>2, <1>3, NameOwners, PublishOwners DEF StepOf

LEMMA OwnersStutter == OwnersInv /\ UNCHANGED <<requestState, nameRows, packageRows>> => OwnersInv'
BY DEF requestState, nameRows, packageRows, OwnersInv, OwnerReads, Owners, InUse, HasOwner,
       NewRole, Publisher

-----------------------------------------------------------------------------
(* The latest version.                                                      *)

Quiet == ~overlapped /\ \A r \in Requests : at[r] # "cut"

\* A version the extension's row has not caught up with is that of a handler which
\* is about to write the row.
UpToDate(x) ==
    \/ extension[x.ext] >= x.version
    \/ \E r \in Requests : Publish(r) /\ at[r] = "latest" /\ x = Row(r)
\* The row a publish has read is still what it has read.
RowRead(r) ==
    (Publish(r) /\ at[r] \in {"dup", "blob", "put", "insert", "latest"}) =>
        read[r] = extension[job[r].ext]

LatestInv ==
    Quiet => (\A x \in versions : UpToDate(x)) /\ \A r \in Requests : RowRead(r)

LEMMA LatestAlone ==
    ASSUME LatestInv, NEW r \in Requests, Moves(r), Alone(r),
           (Quiet /\ ~overlapped') => (\A x \in versions' : UpToDate(x)') /\ RowRead(r)'
    PROVE  LatestInv'
<1> SUFFICES ASSUME Quiet'
             PROVE  (\A x \in versions' : UpToDate(x)') /\ \A q \in Requests : RowRead(q)'
  BY DEF LatestInv
<1>1. Quiet /\ ~overlapped' /\ \A q \in Requests \ {r} : ~UnderWay(q)
  BY DEF Quiet, Moves, Alone, Ended
<1>2. ASSUME NEW q \in Requests \ {r} PROVE RowRead(q)'
  BY <1>1 DEF RowRead, Moves, UnderWay, Ended
<1> QED
  BY <1>1, <1>2

\* Steps that write neither the versions nor a row that has some.
LEMMA LatestStay ==
    ASSUME RowsInv, LatestInv, NEW r \in Requests, Moves(r), Alone(r), versions' = versions,
           \A e \in Exts : extension[e] # None => extension'[e] = extension[e],
           at[r] # "latest", Quiet => RowRead(r)'
    PROVE  LatestInv'
<1>1. ASSUME NEW x \in versions, Quiet PROVE UpToDate(x)'
  <2>1. x.ext \in Exts /\ extension[x.ext] # None /\ UpToDate(x)
    BY <1>1 DEF RowsInv, PackageTypes, PublishInv, VersionsInstallable, LatestInv
  <2>2. extension'[x.ext] = extension[x.ext]
    BY <2>1
  <2>3. ASSUME NEW q \in Requests, Publish(q) /\ at[q] = "latest" /\ x = Row(q)
        PROVE  (Publish(q) /\ at[q] = "latest" /\ x = Row(q))'
    BY <2>3 DEF Moves, Publish, Row
  <2> QED
    BY <2>1, <2>2, <2>3 DEF UpToDate
<1> QED
  BY <1>1, LatestAlone

LEMMA PublishLatestStep ==
    ASSUME RowsInv, SerialInv, LatestInv, NEW r \in Requests, PublishStep(r)
    PROVE  LatestInv'
<1>1. /\ Moves(r) /\ Alone(r) /\ Handlers /\ job' = job
      /\ PackageTypes /\ Shape /\ RequestInv(r) /\ VersionsInstallable
  BY StepShape DEF StepOf, RowsInv, AccountsInv, NamesInv, Moves, PublishInv
<1>2. Publish(r) => job[r].ext \in Exts /\ job[r].version \in Versions
  BY <1>1, PublishAssumption DEF Shape, Publish
<1>3. CASE \/ PublishToken(r) \/ PublishGate(r) \/ PublishAlias(r) \/ PublishMember(r)
           \/ PublishKey(r) \/ PublishRegister(r) \/ PublishOwner(r) \/ PublishAliasOwner(r)
           \/ PublishAnswer(r) \/ ReserveCheck(r)
  <2>1. UNCHANGED <<extension, versions>> /\ at[r] # "latest"
        /\ at'[r] \notin {"dup", "blob", "put", "insert", "latest"}
    BY <1>1, <1>3 DEF PublishToken, PublishGate, PublishAlias, PublishMember, PublishKey,
                PublishRegister, PublishOwner, PublishAliasOwner, PublishAnswer, ReserveCheck,
                OnlyReads, packageRows, Go, Handlers
  <2> QED
    BY <1>1, <2>1, LatestStay DEF RowRead
<1>4. CASE PublishDup(r) \/ PublishHasBundle(r) \/ PublishPut(r)
  <2>1. /\ UNCHANGED <<extension, versions, job, read>> /\ Publish(r)
        /\ at[r] \in {"dup", "blob", "put"}
    BY <1>4 DEF PublishDup, PublishHasBundle, PublishPut, OnlyReads, packageRows, Go, Plain
  <2>2. Quiet => RowRead(r)'
    BY <2>1 DEF LatestInv, RowRead, Publish
  <2> QED
    BY <1>1, <2>1, <2>2, LatestStay
<1>5. CASE PublishUpsert(r)
  <2> DEFINE e == job[r].ext
             row == IF extension[e] = None THEN NoVersion ELSE extension[e]
  <2>1. /\ Publish(r) /\ at[r] = "upsert" /\ versions' = versions
        /\ extension' = [extension EXCEPT ![e] = row] /\ read' = [read EXCEPT ![r] = row]
    BY <1>5 DEF PublishUpsert, Go, Keeping
  <2>2. RowRead(r)'
    BY <1>1, <1>2, <2>1 DEF RowRead, PackageTypes, Handlers
  <2>3. \A f \in Exts : extension[f] # None => extension'[f] = extension[f]
    BY <1>1, <1>2, <2>1 DEF PackageTypes
  <2> QED
    BY <1>1, <2>1, <2>2, <2>3, LatestStay
<1>6. CASE PublishInsert(r)
  <2>1. /\ Publish(r) /\ at[r] = "insert" /\ UNCHANGED <<extension, read>>
        /\ \/ versions' = versions /\ at'[r] = "failed"
           \/ versions' = versions \cup {Row(r)} /\ at'[r] = "latest"
    BY <1>1, <1>6 DEF PublishInsert, Go, Plain, Handlers
  <2>2. Quiet => RowRead(r)'
    BY <1>1, <2>1 DEF LatestInv, RowRead, Publish
  <2>3. ASSUME NEW x \in versions', Quiet PROVE UpToDate(x)'
    <3>1. CASE x \in versions
      <4>1. UpToDate(x)
        BY <2>3, <3>1 DEF LatestInv
      <4>2. ASSUME NEW q \in Requests, Publish(q) /\ at[q] = "latest" /\ x = Row(q)
            PROVE  (Publish(q) /\ at[q] = "latest" /\ x = Row(q))'
        BY <1>1, <2>1, <4>2 DEF Moves, Publish, Row
      <4> QED
        BY <2>1, <4>1, <4>2 DEF UpToDate
    <3>2. CASE x \notin versions
      <4>1. x = Row(r) /\ at'[r] = "latest"
        BY <2>1, <2>3, <3>2
      <4>2. (Publish(r) /\ x = Row(r))'
        BY <1>1, <2>1, <4>1 DEF Publish, Row
      <4> QED
        BY <4>1, <4>2 DEF UpToDate
    <3> QED
      BY <3>1, <3>2
  <2> QED
    BY <1>1, <2>2, <2>3, LatestAlone
<1>7. CASE PublishLatest(r)
  <2> DEFINE e == job[r].ext
  <2>1. /\ Publish(r) /\ at[r] = "latest" /\ at'[r] = "answer" /\ versions' = versions
        /\ extension' = [extension EXCEPT ![e] = Higher(read[r], job[r].version)]
    BY <1>1, <1>7 DEF PublishLatest, Go, Handlers
  <2>2. /\ e \in Exts /\ job[r].version \in Nat /\ read[r] \in Nat
        /\ Quiet => read[r] = extension[e]
    <3>1. read[r] = NoVersion \/ read[r] \in Versions
      BY <1>1, <2>1 DEF RequestInv, Rowed, Exists, PackageTypes
    <3>2. Quiet => read[r] = extension[e]
      BY <2>1 DEF LatestInv, RowRead
    <3>3. /\ read[r] \in Nat /\ job[r].version \in Nat /\ e \in Exts
      <4>1. \A v \in Versions : v \in Nat
        BY VersionsAssumption
      <4>2. NoVersion \in Nat
        BY DEF NoVersion
      <4> QED
        BY <1>2, <2>1, <3>1, <4>1, <4>2
    <3> QED
      BY <3>2, <3>3
  <2>3. Quiet => extension'[e] >= extension[e] /\ extension'[e] >= job[r].version
                 /\ extension'[e] \in Nat /\ extension[e] \in Nat
    BY <1>1, <2>1, <2>2 DEF PackageTypes, Higher
  <2>4. ASSUME NEW x \in versions, Quiet, ~overlapped' PROVE UpToDate(x)'
    <3>1. x.ext \in Exts /\ x.version \in Nat /\ UpToDate(x)
      BY <1>1, <2>4, VersionsAssumption DEF PackageTypes, LatestInv
    <3>2. ASSUME NEW q \in Requests, Publish(q) /\ at[q] = "latest" /\ x = Row(q)
          PROVE  x.ext = e /\ x.version = job[r].version
      <4>1. q = r
        BY <1>1, <2>4, <3>2 DEF Alone, UnderWay, Ended
      <4> QED
        BY <3>2, <4>1 DEF Row
    <3>3. extension'[x.ext] >= x.version
      <4>1. CASE x.ext = e
        BY <2>3, <2>4, <3>1, <3>2, <4>1 DEF UpToDate
      <4>2. CASE x.ext # e
        BY <1>1, <2>1, <3>1, <3>2, <4>2 DEF UpToDate, PackageTypes
      <4> QED
        BY <4>1, <4>2
    <3> QED
      BY <3>3 DEF UpToDate
  <2>5. RowRead(r)'
    BY <2>1 DEF RowRead
  <2> QED
    BY <1>1, <2>1, <2>4, <2>5, LatestAlone
<1>8. CASE ReserveCreate(r)
  <2>1. /\ job[r].kind = "reserve" /\ versions' = versions /\ at[r] = "create"
        /\ \/ extension' = extension
           \/ /\ extension[Reserved(r)] = None
              /\ extension' = [extension EXCEPT ![Reserved(r)] = NoVersion]
    BY <1>8 DEF ReserveCreate, Go
  <2>2. \A f \in Exts : extension[f] # None => extension'[f] = extension[f]
    BY <1>1, <2>1 DEF PackageTypes
  <2>3. RowRead(r)'
    BY <1>1, <2>1 DEF RowRead, Publish
  <2> QED
    BY <1>1, <2>1, <2>2, <2>3, LatestStay
<1> QED
  BY <1>3, <1>4, <1>5, <1>6, <1>7, <1>8 DEF PublishStep

LEMMA StepLatest ==
    ASSUME RowsInv, SerialInv, LatestInv, NEW r \in Requests, StepOf(r)
    PROVE  LatestInv'
<1>1. /\ Moves(r) /\ Alone(r) /\ Handlers /\ job' = job
  BY StepShape DEF RowsInv, AccountsInv, NamesInv, Moves
<1>2. CASE NameStep(r) \/ AccountStep(r)
  <2>1. UNCHANGED packageRows /\ ~Publish(r) /\ job[r].kind # "publish"
    BY <1>2, NamesKind, AccountsKind, NamesLeaveAccounts, AccountsLeaveNames
       DEF NameKinds, AccountKinds, Publish
  <2>2. UNCHANGED <<versions, extension>> /\ RowRead(r)' /\ ~Publish(r)'
    BY <1>1, <2>1 DEF packageRows, RowRead, Publish
  <2>3. ASSUME NEW x \in versions, Quiet PROVE UpToDate(x)'
    <3>1. UpToDate(x)
      BY <2>3 DEF LatestInv
    <3>2. ASSUME NEW q \in Requests, Publish(q) /\ at[q] = "latest" /\ x = Row(q)
          PROVE  (Publish(q) /\ at[q] = "latest" /\ x = Row(q))'
      BY <1>1, <2>1, <3>2 DEF Moves, Publish, Row
    <3> QED
      BY <2>2, <3>1, <3>2 DEF UpToDate
  <2> QED
    BY <1>1, <2>2, <2>3, LatestAlone
<1>3. CASE Answer(r)
  <2>1. UNCHANGED <<versions, extension>> /\ at[r] = "answer" /\ at'[r] = "ok"
    BY <1>1, <1>3, AnswerMoves DEF packageRows
  <2> QED
    BY <1>1, <2>1, LatestStay DEF RowRead
<1>4. CASE CutOff(r)
  BY <1>1, <1>4, CutMoves DEF LatestInv, Quiet
<1> QED
  BY <1>2, <1>3, <1>4, PublishLatestStep DEF StepOf

LEMMA LatestStutter == LatestInv /\ UNCHANGED <<requestState, packageRows>> => LatestInv'
BY DEF requestState, packageRows, LatestInv, Quiet, UpToDate, RowRead, Publish, Row

LEMMA LatestImplied == LatestInv => LatestIsHighest
<1> SUFFICES ASSUME LatestInv, ~overlapped,
                    \A r \in Requests : at[r] \in {"start"} \cup (Ended \ {"cut"})
             PROVE  \A x \in versions : extension[x.ext] >= x.version
  BY DEF LatestIsHighest
<1>1. Quiet /\ \A r \in Requests : at[r] # "latest"
  BY DEF Quiet, Ended
<1> QED
  BY <1>1 DEF LatestInv, UpToDate

-----------------------------------------------------------------------------
(* Links.                                                                   *)

Follows(r) == job[r].kind = "follow"
UsedUp(l) == links[l] # None /\ links[l].used
ResetOf(l, u) == links[l] # None /\ links[l].user = u /\ links[l].kind = "reset"

\* What a handler that nobody overlaps knows when it writes.
LinkReads(r) ==
    /\ Follows(r) /\ at[r] = "consume" => ~links[job[r].link].used
    /\ job[r].kind = "sendReset" /\ at[r] = "create"
          => \A l \in LinkIds : ResetOf(l, job[r].user) => UsedUp(l)

FollowedOnce ==
    \A r, q \in Requests : (r # q /\ Follows(r) /\ Follows(q) /\ at[r] = "ok" /\ at[q] = "ok")
                               => job[r].link # job[q].link
OneReset ==
    \A u \in Users : \A l, m \in LinkIds :
        (l # m /\ ResetOf(l, u) /\ ResetOf(m, u)) => UsedUp(l) \/ UsedUp(m)

LinksInv ==
    /\ \A l \in Requests : links[l] # None => at[l] = "ok"
    /\ \A r \in Requests : Follows(r) => /\ at[r] # "answer"
                                         /\ at[r] = "ok" => UsedUp(job[r].link)
    /\ ~overlapped => (\A r \in Requests : LinkReads(r)) /\ FollowedOnce /\ OneReset

LEMMA InitLinks == Init => LinksInv
<1> SUFFICES ASSUME Init PROVE LinksInv
  OBVIOUS
<1>1. \A l \in Requests : links[l] = None
  BY RowsAssumption DEF Init, LinkIds
<1>2. OneReset
  BY RowsAssumption, NoneAssumption DEF Init, OneReset, ResetOf, UsedUp
<1> QED
  BY <1>1, <1>2 DEF Init, LinksInv, LinkReads, FollowedOnce

\* A step of a handler: what is left to show.
LEMMA LinksAlone ==
    ASSUME RowsInv, LinksInv, NEW r \in Requests, Moves(r), Alone(r),
           \A l \in LinkIds : UsedUp(l) => UsedUp(l)',
           \A l \in Requests : links'[l] # None => links[l] # None \/ (l = r /\ at'[r] = "ok"),
           Follows(r) => /\ at'[r] # "answer"
                         /\ at'[r] = "ok" => UsedUp(job[r].link)'
                                             /\ (~overlapped => ~UsedUp(job[r].link)),
           (~overlapped /\ ~overlapped') => LinkReads(r)' /\ OneReset'
    PROVE  LinksInv'
<1>1. Handlers /\ job' = job /\ \A q \in Requests : Follows(q)' = Follows(q)
  BY DEF RowsInv, AccountsInv, NamesInv, Moves, Follows
<1>2. \A l \in Requests : links'[l] # None => at'[l] = "ok"
  BY DEF LinksInv, Moves, Ended
<1>3. \A q \in Requests : Follows(q) => job[q].link \in LinkIds
  BY <1>1, AccountJobOf DEF Follows
<1>4. \A q \in Requests : Follows(q) => /\ at'[q] # "answer"
                                        /\ at'[q] = "ok" => UsedUp(job[q].link)'
  BY <1>3 DEF LinksInv, Moves
<1>5. ASSUME ~overlapped', NEW q \in Requests PROVE LinkReads(q)'
  <2>1. CASE q = r
    BY <1>5, <2>1 DEF Alone
  <2>2. CASE q # r
    BY <1>1, <1>5, <2>2 DEF Alone, Moves, UnderWay, Ended, LinkReads
  <2> QED
    BY <2>1, <2>2
<1>6. ASSUME ~overlapped' PROVE FollowedOnce'
  <2> SUFFICES ASSUME NEW p \in Requests, NEW q \in Requests, p # q,
                      Follows(p), Follows(q), at'[p] = "ok", at'[q] = "ok",
                      job[p].link = job[q].link
               PROVE  FALSE
    BY <1>1 DEF FollowedOnce
  <2>1. ~overlapped /\ FollowedOnce
    BY <1>6 DEF Alone, LinksInv
  <2>2. CASE p # r /\ q # r
    BY <2>1, <2>2 DEF Moves, FollowedOnce
  <2>3. CASE p = r
    BY <2>1, <2>3 DEF LinksInv, Moves
  <2>4. CASE q = r
    BY <2>1, <2>4 DEF LinksInv, Moves
  <2> QED
    BY <2>2, <2>3, <2>4
<1> QED
  BY <1>1, <1>2, <1>4, <1>5, <1>6 DEF LinksInv, Alone

\* Steps that write no link.
LEMMA LinksStay ==
    ASSUME RowsInv, LinksInv, NEW r \in Requests, Moves(r), Alone(r), links' = links,
           Follows(r) => at'[r] \notin {"answer", "ok"},
           (~overlapped /\ ~overlapped') => LinkReads(r)'
    PROVE  LinksInv'
<1>1. /\ \A l : UsedUp(l)' = UsedUp(l)
      /\ \A l, u : ResetOf(l, u)' = ResetOf(l, u)
  BY DEF UsedUp, ResetOf
<1>2. ~overlapped => OneReset'
  BY <1>1 DEF OneReset, LinksInv
<1> QED
  BY <1>1, <1>2, LinksAlone

LEMMA LinkSteps ==
    ASSUME RowsInv, SerialInv, LinksInv, NEW r \in Requests,
           ResetInvalidate(r) \/ LinkCreate(r) \/ LinkRead(r) \/ LinkConsume(r)
    PROVE  LinksInv'
<1>1. /\ Moves(r) /\ Alone(r) /\ Handlers /\ AccountTypes /\ job' = job /\ AccountReads(r)
  BY StepShape DEF StepOf, AccountStep, RowsInv, AccountsInv, NamesInv, Moves
<1>2. links \in [LinkIds -> LinkRows \cup {None}] /\ Requests \subseteq LinkIds
  BY <1>1, TokenIdsOf DEF AccountTypes
<1>3. CASE ResetInvalidate(r)
  <2>1. /\ job[r].kind = "sendReset" /\ at'[r] = "create"
        /\ links' = [l \in LinkIds |->
              IF links[l] # None /\ links[l].user = job[r].user /\ links[l].kind = "reset"
                THEN [links[l] EXCEPT !.used = TRUE] ELSE links[l]]
    BY <1>1, <1>3 DEF ResetInvalidate, Account, Go, Handlers
  <2>2. ASSUME NEW l \in LinkIds
        PROVE  /\ links[l] = None => links'[l] = None
               /\ links[l] # None => /\ links'[l] # None
                                     /\ links'[l].user = links[l].user
                                     /\ links'[l].kind = links[l].kind
                                     /\ links[l].used => links'[l].used
               /\ ResetOf(l, job[r].user) => links'[l].used
    <3>1. CASE ResetOf(l, job[r].user)
      <4>1. links[l] \in LinkRows /\ links'[l] = [links[l] EXCEPT !.used = TRUE]
        BY <1>2, <2>1, <3>1 DEF ResetOf
      <4>2. [links[l] EXCEPT !.used = TRUE] \in LinkRows
        BY <4>1 DEF LinkRows
      <4>3. links'[l] # None
        BY <4>1, <4>2, NoneAssumption
      <4> QED
        BY <3>1, <4>1, <4>3 DEF LinkRows, ResetOf
    <3>2. CASE ~ResetOf(l, job[r].user)
      BY <2>1, <3>2 DEF ResetOf
    <3> QED
      BY <3>1, <3>2
  <2>3. \A l \in LinkIds : UsedUp(l) => UsedUp(l)'
    BY <2>2 DEF UsedUp
  <2>4. \A l \in LinkIds, u \in Users : ResetOf(l, u)' <=> ResetOf(l, u)
    BY <2>2 DEF ResetOf
  <2>5. ~overlapped => OneReset'
    BY <2>3, <2>4 DEF OneReset, LinksInv
  <2>6. job[r].user \in Users
    BY <1>1, <2>1, AccountJobOf
  <2>7. LinkReads(r)'
    BY <1>1, <2>1, <2>2, <2>4, <2>6 DEF LinkReads, Follows, ResetOf, UsedUp
  <2> QED
    BY <1>1, <1>2, <2>1, <2>2, <2>3, <2>5, <2>7, LinksAlone DEF Follows
<1>4. CASE LinkCreate(r)
  <2> DEFINE x == [user |-> job[r].user, used |-> FALSE,
                   kind |-> IF job[r].kind = "sendReset" THEN "reset" ELSE "verify"]
  <2>1. /\ job[r].kind \in {"sendReset", "sendVerify"} /\ at'[r] = "ok"
        /\ job[r].kind = "sendReset" => at[r] = "create"
        /\ links' = [links EXCEPT ![r] = x] /\ links[r] = None
    BY <1>1, <1>4 DEF LinkCreate, Account, Go, Handlers, LinksInv, Moves, Ended
  <2>2. links'[r] = x /\ \A l \in LinkIds \ {r} : links'[l] = links[l]
    BY <1>2, <2>1
  <2>3. \A l \in LinkIds : UsedUp(l) => UsedUp(l)'
    BY <2>1, <2>2 DEF UsedUp
  <2>4. ASSUME ~overlapped PROVE OneReset'
    <3> SUFFICES ASSUME NEW u \in Users, NEW l \in LinkIds, NEW m \in LinkIds, l # m,
                        ResetOf(l, u)', ResetOf(m, u)'
                 PROVE  UsedUp(l)' \/ UsedUp(m)'
      BY DEF OneReset
    <3>1. CASE l # r /\ m # r
      BY <2>2, <2>4, <3>1 DEF LinksInv, OneReset, ResetOf, UsedUp
    <3>2. \A n \in LinkIds \ {r} : (ResetOf(r, u)' /\ ResetOf(n, u)') => UsedUp(n)'
      <4> SUFFICES ASSUME NEW n \in LinkIds \ {r}, ResetOf(r, u)', ResetOf(n, u)'
                   PROVE  UsedUp(n)'
        OBVIOUS
      <4>1. u = job[r].user /\ job[r].kind = "sendReset" /\ ResetOf(n, u)
        BY <2>1, <2>2 DEF ResetOf
      <4>2. UsedUp(n)
        BY <2>1, <2>4, <4>1 DEF LinksInv, LinkReads
      <4> QED
        BY <2>3, <4>2
    <3> QED
      BY <3>1, <3>2
  <2>5. LinkReads(r)'
    BY <1>1, <2>1 DEF LinkReads, Follows
  <2> QED
    BY <1>1, <1>2, <2>1, <2>2, <2>3, <2>4, <2>5, LinksAlone DEF Follows
<1>5. CASE LinkRead(r)
  <2>1. /\ Follows(r) /\ UNCHANGED links /\ at'[r] \in {"consume", "refused"}
        /\ at'[r] = "consume" => ~links[job[r].link].used
    BY <1>1, <1>5 DEF LinkRead, Account, Go, Handlers, Follows, accountRows
  <2>2. LinkReads(r)'
    BY <1>1, <2>1 DEF LinkReads, Follows
  <2> QED
    BY <1>1, <2>1, <2>2, LinksStay
<1>6. CASE LinkConsume(r)
  <2> DEFINE g == job[r].link
  <2>1. /\ Follows(r) /\ at[r] = "consume" /\ at'[r] = "ok"
        /\ links' = [links EXCEPT ![g].used = TRUE]
    BY <1>1, <1>6 DEF LinkConsume, Account, Go, Handlers, Follows
  <2>2. g \in LinkIds /\ links[g] \in LinkRows
    BY <1>1, <1>2, <2>1, AccountJobOf DEF Follows, AccountReads
  <2>3. links' = [links EXCEPT ![g] = Marked(g)]
    BY <2>1 DEF Marked
  <2>4. Marked(g) \in LinkRows /\ Marked(g).used /\ Marked(g).user = links[g].user
        /\ Marked(g).kind = links[g].kind
    BY <2>2 DEF Marked, LinkRows
  <2>5. links'[g] = Marked(g) /\ links'[g] # None /\ links[g] # None
        /\ \A l \in LinkIds \ {g} : links'[l] = links[l]
    BY <1>2, <2>2, <2>3, <2>4, NoneAssumption
  <2>6. /\ \A l \in LinkIds : UsedUp(l) => UsedUp(l)'
        /\ UsedUp(g)'
        /\ \A l \in LinkIds, u \in Users : ResetOf(l, u)' <=> ResetOf(l, u)
    <3>1. UsedUp(g)' /\ \A u : ResetOf(g, u)' <=> ResetOf(g, u)
      BY <1>1, <2>4, <2>5 DEF UsedUp, ResetOf
    <3>2. ASSUME NEW l \in LinkIds \ {g}
          PROVE  (UsedUp(l)' <=> UsedUp(l)) /\ \A u : ResetOf(l, u)' <=> ResetOf(l, u)
      BY <2>5 DEF UsedUp, ResetOf
    <3> QED
      BY <1>1, <2>2, <3>1, <3>2
  <2>7. ~overlapped => OneReset' /\ ~UsedUp(g)
    BY <2>1, <2>6 DEF OneReset, LinksInv, LinkReads, UsedUp
  <2>8. LinkReads(r)'
    BY <1>1, <2>1 DEF LinkReads, Follows
  <2> QED
    BY <1>1, <1>2, <2>1, <2>5, <2>6, <2>7, <2>8, LinksAlone
<1> QED
  BY <1>3, <1>4, <1>5, <1>6

\* Steps of the other handlers.
LEMMA OtherLinks ==
    ASSUME RowsInv, LinksInv, NEW r \in Requests, Moves(r), Alone(r), links' = links,
           job[r].kind \notin {"follow", "sendReset"}
    PROVE  LinksInv'
<1>1. ~Follows(r) /\ LinkReads(r)'
  BY DEF Follows, LinkReads, Moves
<1> QED
  BY <1>1, LinksStay

LEMMA StepLinks ==
    ASSUME RowsInv, SerialInv, LinksInv, NEW r \in Requests, StepOf(r)
    PROVE  LinksInv'
<1>1. /\ Moves(r) /\ Alone(r) /\ Handlers /\ job' = job
  BY StepShape DEF RowsInv, AccountsInv, NamesInv, Moves
<1>2. CASE NameStep(r) \/ PublishStep(r)
  <2>1. links' = links /\ job[r].kind \notin {"follow", "sendReset"}
    BY <1>1, <1>2, NamesKind, NamesLeaveAccounts, PublishGo DEF NameKinds, accountRows
  <2> QED
    BY <1>1, <2>1, OtherLinks
<1>3. CASE AccountStep(r)
  <2>1. CASE ResetInvalidate(r) \/ LinkCreate(r) \/ LinkRead(r) \/ LinkConsume(r)
    BY <2>1, LinkSteps
  <2>2. CASE ~(ResetInvalidate(r) \/ LinkCreate(r) \/ LinkRead(r) \/ LinkConsume(r))
    <3>1. links' = links /\ job[r].kind \notin {"follow", "sendReset"}
      BY <1>3, <2>2 DEF AccountStep, Account, ProofJob, LoadPending, Approve, Deny, PollCheck,
           PollReread, PollMint, Login, MintCount, CreateToken, RotateRead, RotateSwap, Revoke,
           LogoutCheck, LogoutDelete, Authenticate2fa, Enroll, ProofRead, ProofSpend, ProofStamp,
           Disable2fa, accountRows
    <3> QED
      BY <1>1, <3>1, OtherLinks
  <2> QED
    BY <2>1, <2>2
<1>4. CASE Answer(r) \/ CutOff(r)
  <2>1. links' = links /\ at'[r] \in {"ok", "cut"} /\ (at'[r] = "ok" => at[r] = "answer")
    BY <1>1, <1>4, AnswerMoves, CutMoves DEF accountRows
  <2>2. Follows(r) => at'[r] \notin {"answer", "ok"}
    BY <2>1 DEF LinksInv
  <2>3. LinkReads(r)'
    BY <1>1, <2>1 DEF LinkReads, Follows
  <2> QED
    BY <1>1, <2>1, <2>2, <2>3, LinksStay
<1> QED
  BY <1>2, <1>3, <1>4 DEF StepOf

LEMMA LinksStutter == LinksInv /\ UNCHANGED <<requestState, links>> => LinksInv'
BY DEF requestState, LinksInv, LinkReads, Follows, UsedUp, ResetOf, FollowedOnce, OneReset

-----------------------------------------------------------------------------
(* Device logins.                                                           *)

From(t, s) == tokens[t] # None /\ tokens[t].session = s

LoginsInv ==
    /\ \A t \in TokenIds, s \in Sessions : From(t, s) => sessions[s].consumed
    /\ ~overlapped =>
          /\ \A s \in Sessions : \A t, q \in TokenIds :
                 From(t, s) /\ From(q, s) => t = q
          /\ \A r \in Requests : job[r].kind = "poll" /\ at[r] = "mint"
                 => ~sessions[job[r].session].consumed

LEMMA InitLogins == Init => LoginsInv
<1> SUFFICES ASSUME Init PROVE LoginsInv
  OBVIOUS
<1>1. \A t \in TokenIds, s \in Sessions : ~From(t, s)
  BY RowsAssumption, NoneAssumption DEF Init, From, TokenIds
<1> QED
  BY <1>1 DEF Init, LoginsInv

\* A step by which no token takes another session or another proof.
OldToken(t) ==
    tokens'[t] # None =>
        \/ tokens'[t].session = None /\ tokens'[t].proof = None
        \/ /\ tokens[t] # None
           /\ tokens'[t].session = tokens[t].session /\ tokens'[t].proof = tokens[t].proof
OldTokens == \A t \in TokenIds : OldToken(t)

\* The token of a login step, and every other one.
LEMMA LoginsStay ==
    ASSUME LoginsInv, NEW r \in Requests, Moves(r), Alone(r),
           \A t \in TokenIds, s \in Sessions : From(t, s)' => From(t, s),
           \A s \in Sessions : sessions'[s].consumed = sessions[s].consumed,
           job[r].kind = "poll" /\ at'[r] = "mint" => ~sessions[job[r].session].consumed,
           job[r].kind = "poll" => job[r].session \in Sessions
    PROVE  LoginsInv'
<1>1. ASSUME ~overlapped', NEW q \in Requests, job'[q].kind = "poll" /\ at'[q] = "mint"
      PROVE  ~sessions'[job'[q].session].consumed
  <2>1. q = r /\ job' = job
    BY <1>1 DEF Alone, Moves, UnderWay, Ended
  <2> QED
    BY <1>1, <2>1
<1>2. ~overlapped' => ~overlapped
  BY DEF Alone
<1> QED
  BY <1>1, <1>2 DEF LoginsInv

LEMMA MintLogin ==
    ASSUME RowsInv, SerialInv, LoginsInv, NEW r \in Requests, PollMint(r)
    PROVE  LoginsInv'
<1> DEFINE g == job[r].session
           x == [TokenOf(read[r], Namespace(read[r])) EXCEPT !.session = g]
<1>1. /\ Moves(r) /\ Alone(r) /\ Handlers /\ AccountTypes /\ job' = job
  BY StepShape DEF StepOf, AccountStep, RowsInv, AccountsInv, NamesInv, Moves
<1>2. /\ job[r].kind = "poll" /\ at[r] = "mint" /\ at'[r] = "answer"
      /\ tokens' = [tokens EXCEPT ![r] = x]
      /\ sessions' = [sessions EXCEPT ![g].consumed = TRUE]
  BY <1>1 DEF PollMint, Go, Account, Handlers
<1>3. g \in Sessions /\ r \in TokenIds /\ x.session = g
  BY <1>1, <1>2, AccountJobOf, TokenIdsOf DEF TokenOf
<1> HIDE DEF x
<1>4. /\ \A t \in TokenIds \ {r} : tokens'[t] = tokens[t]
      /\ tokens'[r] = x
      /\ sessions'[g].consumed
      /\ \A s \in Sessions \ {g} : sessions'[s] = sessions[s]
  BY <1>1, <1>2, <1>3 DEF AccountTypes, SessionRows
<1>5. \A t \in TokenIds, s \in Sessions : From(t, s)' => From(t, s) \/ (t = r /\ s = g)
  BY <1>3, <1>4 DEF From
<1>6. ~overlapped => \A t \in TokenIds : ~From(t, g)
  BY <1>2, <1>3 DEF LoginsInv
<1>7. \A q \in Requests : ~overlapped' => ~(job'[q].kind = "poll" /\ at'[q] = "mint")
  BY <1>1, <1>2 DEF Alone, Moves, UnderWay, Ended
<1>8. \A t \in TokenIds, s \in Sessions : From(t, s)' => sessions'[s].consumed
  BY <1>4, <1>5 DEF LoginsInv
<1>9. ~overlapped' => \A s \in Sessions : \A t, q \in TokenIds : From(t, s)' /\ From(q, s)' => t = q
  BY <1>1, <1>5, <1>6 DEF LoginsInv, Alone
<1> QED
  BY <1>7, <1>8, <1>9 DEF LoginsInv

LEMMA OldWrite ==
    ASSUME AccountTypes, NEW t \in TokenIds, NEW x, tokens' = [tokens EXCEPT ![t] = x],
           \/ x = None
           \/ x.session = None /\ x.proof = None
           \/ tokens[t] # None /\ x.session = tokens[t].session /\ x.proof = tokens[t].proof
    PROVE  OldTokens
<1>1. tokens'[t] = x /\ \A s \in TokenIds \ {t} : tokens'[s] = tokens[s]
  BY DEF AccountTypes
<1> QED
  BY <1>1 DEF OldTokens, OldToken

LEMMA OldStay == UNCHANGED tokens => OldTokens
BY DEF OldTokens, OldToken

LEMMA OldRotate ==
    ASSUME AccountTypes, Handlers, NEW r \in Requests, RotateSwap(r)
    PROVE  OldTokens
<1> DEFINE t == job[r].token
           x == TokenOf(read[r].user, job[r].scope)
           mid == [tokens EXCEPT ![r] = x]
<1>1. /\ t \in TokenIds /\ r \in TokenIds /\ x.session = None /\ x.proof = None
      /\ DOMAIN tokens = TokenIds
  BY AccountJobOf, TokenIdsOf DEF RotateSwap, Account, TokenOf, AccountTypes
<1>2. CASE tokens[t] = None
  BY <1>2, OldStay DEF RotateSwap
<1>3. CASE tokens[t] # None
  <2>1. tokens' = [tokens EXCEPT ![r] = x, ![t].expires = "soon"]
    BY <1>3 DEF RotateSwap
  <2> HIDE DEF x
  <2>2. /\ mid[r] = x /\ \A s \in TokenIds \ {r} : mid[s] = tokens[s]
        /\ DOMAIN mid = TokenIds
    BY <1>1
  <2>3. tokens' = [mid EXCEPT ![t] = [mid[t] EXCEPT !.expires = "soon"]]
    BY <2>1
  <2> HIDE DEF mid
  <2>4. /\ tokens'[t] = [mid[t] EXCEPT !.expires = "soon"]
        /\ \A s \in TokenIds \ {t} : tokens'[s] = mid[s]
    BY <1>1, <2>2, <2>3
  <2>5. tokens'[t].session = mid[t].session /\ tokens'[t].proof = mid[t].proof
    BY <2>4
  <2>6. ASSUME NEW s \in TokenIds PROVE OldToken(s)
    <3>1. mid[s] = x \/ (s # r /\ mid[s] = tokens[s])
      BY <2>2
    <3>2. CASE s = t
      BY <1>1, <1>3, <2>5, <3>1, <3>2 DEF OldToken
    <3>3. CASE s # t
      BY <1>1, <2>4, <3>1, <3>3 DEF OldToken
    <3> QED
      BY <3>2, <3>3
  <2> QED
    BY <2>6 DEF OldTokens
<1> QED
  BY <1>2, <1>3

\* All steps of accounts but two.
LEMMA OldSteps ==
    ASSUME AccountsInv, NEW r \in Requests, AccountStep(r), ~PollMint(r), ~ProofStamp(r)
    PROVE  OldTokens /\ \A s \in Sessions : sessions'[s].consumed = sessions[s].consumed
<1>1. Handlers /\ AccountTypes
  BY DEF AccountsInv, NamesInv
<1>2. UNCHANGED sessions => \A s \in Sessions : sessions'[s].consumed = sessions[s].consumed
  OBVIOUS
<1>3. CASE Approve(r) \/ Deny(r)
  <2>1. job[r].session \in Sessions /\ UNCHANGED tokens
    BY <1>1, <1>3, AccountJobOf DEF Approve, Deny, Account
  <2>2. \/ sessions' = [sessions EXCEPT ![job[r].session].user = job[r].user]
        \/ sessions' = [sessions EXCEPT ![job[r].session].denied = TRUE]
    BY <1>3 DEF Approve, Deny
  <2>3. \A s \in Sessions : sessions'[s].consumed = sessions[s].consumed
    <3>1. sessions \in [Sessions -> SessionRows]
      BY <1>1 DEF AccountTypes
    <3> QED
      BY <2>1, <2>2, <3>1 DEF SessionRows
  <2> QED
    BY <2>1, <2>3, OldStay
<1>4. CASE CreateToken(r)
  <2> DEFINE x == TokenOf(job[r].user, Namespace(job[r].user))
  <2>1. tokens' = [tokens EXCEPT ![r] = x] /\ UNCHANGED sessions
    BY <1>4 DEF CreateToken
  <2>2. x.session = None /\ x.proof = None
    BY DEF TokenOf
  <2> QED
    BY <1>1, <1>2, <2>1, <2>2, OldWrite, TokenIdsOf
<1>5. CASE RotateSwap(r)
  BY <1>1, <1>2, <1>5, OldRotate DEF RotateSwap
<1>6. CASE Revoke(r) \/ LogoutDelete(r)
  <2>1. job[r].token \in TokenIds
    BY <1>1, <1>6, AccountJobOf DEF Revoke, LogoutDelete, Account
  <2>2. /\ tokens' = [tokens EXCEPT ![job[r].token] = None] \/ UNCHANGED tokens
        /\ UNCHANGED sessions
    BY <1>6 DEF Revoke, LogoutDelete
  <2> QED
    BY <1>1, <1>2, <2>1, <2>2, OldWrite, OldStay
<1>7. CASE ~(Approve(r) \/ Deny(r) \/ CreateToken(r) \/ RotateSwap(r) \/ Revoke(r) \/ LogoutDelete(r))
  <2>1. UNCHANGED <<tokens, sessions>>
    BY <1>7 DEF AccountStep, LoadPending, PollCheck, PollReread, Login, MintCount, RotateRead,
         LogoutCheck, Authenticate2fa, Enroll, ProofRead, ProofSpend, Disable2fa,
         ResetInvalidate, LinkCreate, LinkRead, LinkConsume, accountRows
  <2> QED
    BY <1>2, <2>1, OldStay
<1> QED
  BY <1>3, <1>4, <1>5, <1>6, <1>7

LEMMA OldLater ==
    ASSUME AccountTypes, Later
    PROVE  OldTokens /\ \A s \in Sessions : sessions'[s].consumed = sessions[s].consumed
<1>1. CASE UNCHANGED tokens
  <2>1. \/ UNCHANGED sessions
        \/ \E s \in Sessions : sessions' = [sessions EXCEPT ![s].expired = TRUE]
    BY <1>1 DEF Later
  <2>2. sessions \in [Sessions -> SessionRows]
    BY DEF AccountTypes
  <2> QED
    BY <1>1, <2>1, <2>2, OldStay DEF SessionRows
<1>2. CASE ~UNCHANGED tokens
  <2>1. PICK t \in TokenIds :
              /\ tokens[t] # None /\ UNCHANGED sessions
              /\ \/ tokens' = [tokens EXCEPT ![t].expires = "past"]
                 \/ tokens' = [tokens EXCEPT ![t].fresh = FALSE]
    BY <1>2 DEF Later
  <2>2. tokens[t] \in TokenRows
    BY <2>1 DEF AccountTypes
  <2>3. \E x : /\ tokens' = [tokens EXCEPT ![t] = x]
               /\ x.session = tokens[t].session /\ x.proof = tokens[t].proof
    <3>1. \A y \in {[tokens[t] EXCEPT !.expires = "past"], [tokens[t] EXCEPT !.fresh = FALSE]} :
             y.session = tokens[t].session /\ y.proof = tokens[t].proof
      BY <2>2 DEF TokenRows
    <3> QED
      BY <2>1, <3>1
  <2> QED
    BY <2>1, <2>3, OldWrite
<1> QED
  BY <1>1, <1>2

\* A token of a session was its token before.
LEMMA FromBefore ==
    ASSUME OldTokens
    PROVE  \A t \in TokenIds, s \in Sessions : From(t, s)' => From(t, s)
<1>1. None \notin Sessions
  BY NoneAssumption
<1> QED
  BY <1>1 DEF OldTokens, OldToken, From

LEMMA StampOld ==
    ASSUME AccountTypes, Handlers, NEW r \in Requests, ProofStamp(r)
    PROVE  LET t == job[r].token IN
           /\ t \in TokenIds /\ UNCHANGED <<sessions, links, recovery>>
           /\ \/ tokens' = tokens /\ at'[r] = "failed"
              \/ /\ tokens[t] # None /\ tokens'[t] # None
                 /\ tokens'[t].session = tokens[t].session /\ tokens'[t].proof = job[r].code
                 /\ \A s \in TokenIds \ {t} : tokens'[s] = tokens[s]
<1> DEFINE t == job[r].token
           x == [tokens[t] EXCEPT !.proof = job[r].code, !.fresh = TRUE]
<1>1. /\ t \in TokenIds /\ UNCHANGED <<sessions, links, recovery>>
      /\ job[r].code \in Codes \cup Requests \cup {"totp"}
  BY AccountJobOf DEF ProofStamp, ProofJob, Account
<1>2. CASE tokens[t] = None
  BY <1>1, <1>2 DEF ProofStamp, Go, Handlers
<1>3. CASE tokens[t] # None
  <2>1. tokens[t] \in TokenRows
    BY <1>1, <1>3 DEF AccountTypes
  <2>2. tokens' = [tokens EXCEPT ![t] = x]
    BY <1>3 DEF ProofStamp
  <2>3. x \in TokenRows /\ x.session = tokens[t].session /\ x.proof = job[r].code
    BY <1>1, <2>1 DEF TokenRows
  <2>4. x # None
    BY <2>3, NoneAssumption
  <2> HIDE DEF x
  <2>5. tokens'[t] = x /\ \A s \in TokenIds \ {t} : tokens'[s] = tokens[s]
    BY <1>1, <2>2 DEF AccountTypes
  <2> QED
    BY <1>1, <1>3, <2>3, <2>4, <2>5
<1> QED
  BY <1>2, <1>3

LEMMA StepLogins ==
    ASSUME RowsInv, SerialInv, LoginsInv, NEW r \in Requests, StepOf(r)
    PROVE  LoginsInv'
<1>1. /\ Moves(r) /\ Alone(r) /\ Handlers /\ AccountTypes /\ AccountsInv
  BY StepShape DEF RowsInv, AccountsInv, NamesInv
<1>2. job[r].kind = "poll" => job[r].session \in Sessions
  BY <1>1, AccountJobOf
<1>3. CASE PollMint(r)
  BY <1>3, MintLogin
<1>4. CASE PollReread(r)
  <2>1. at'[r] = "mint" => ~sessions[job[r].session].consumed
    BY <1>1, <1>4 DEF PollReread, Go, Handlers
  <2>2. UNCHANGED <<tokens, sessions>>
    BY <1>4 DEF PollReread, accountRows
  <2> QED
    BY <1>1, <1>2, <2>1, <2>2, LoginsStay DEF From
<1>5. CASE StepOf(r) /\ ~PollMint(r) /\ ~PollReread(r)
  <2>1. /\ \A t \in TokenIds, s \in Sessions : From(t, s)' => From(t, s)
        /\ \A s \in Sessions : sessions'[s].consumed = sessions[s].consumed
    <3>1. CASE AccountStep(r) /\ ~ProofStamp(r)
      BY <1>1, <1>5, <3>1, OldSteps, FromBefore
    <3>2. CASE ProofStamp(r)
      BY <1>1, <3>2, StampOld DEF From
    <3>3. CASE ~AccountStep(r)
      <4>1. UNCHANGED <<tokens, sessions>>
        BY <1>1, <1>5, <3>3, NamesLeaveAccounts, PublishGo, AnswerMoves, CutMoves
           DEF StepOf, accountRows
      <4> QED
        BY <4>1 DEF From
    <3> QED
      BY <3>1, <3>2, <3>3
  <2>2. ~(job[r].kind = "poll" /\ at'[r] = "mint")
    <3>1. CASE AccountStep(r)
      <4>1. job[r].kind = "poll" => PollCheck(r)
        BY <1>5, <3>1 DEF AccountStep, Account, ProofJob, LoadPending, Approve, Deny, Login,
             MintCount, CreateToken, RotateRead, RotateSwap, Revoke, LogoutCheck, LogoutDelete,
             Authenticate2fa, Enroll, ProofRead, ProofSpend, ProofStamp, Disable2fa,
             ResetInvalidate, LinkCreate, LinkRead, LinkConsume
      <4> QED
        BY <1>1, <4>1 DEF PollCheck, Go, Handlers
    <3>2. CASE NameStep(r) \/ PublishStep(r)
      BY <1>1, <3>2, NamesKind, PublishGo DEF NameKinds
    <3>3. CASE Answer(r) \/ CutOff(r)
      BY <1>1, <3>3, AnswerMoves, CutMoves
    <3> QED
      BY <1>5, <3>1, <3>2, <3>3 DEF StepOf
  <2> QED
    BY <1>1, <1>2, <2>1, <2>2, LoginsStay
<1> QED
  BY <1>3, <1>4, <1>5

LEMMA LaterLogins ==
    ASSUME RowsInv, LoginsInv, Later \/ UNCHANGED vars
    PROVE  LoginsInv'
<1>1. UNCHANGED requestState
  BY LaterStays
<1>2. /\ \A t \in TokenIds, s \in Sessions : From(t, s)' => From(t, s)
      /\ \A s \in Sessions : sessions'[s].consumed = sessions[s].consumed
  <2>1. CASE Later
    BY <2>1, OldLater, FromBefore DEF RowsInv, AccountsInv
  <2>2. CASE UNCHANGED vars
    BY <2>2 DEF vars, accountRows, From
  <2> QED
    BY <2>1, <2>2
<1>3. \A r \in Requests : job[r].kind = "poll" => job[r].session \in Sessions
  BY AccountJobOf DEF RowsInv, AccountsInv, NamesInv
<1> QED
  BY <1>1, <1>2, <1>3 DEF LoginsInv, requestState

-----------------------------------------------------------------------------
(* Recovery codes.                                                          *)

RecoveryCodes == Codes \cup Requests
Proof(t, c) == tokens[t] # None /\ tokens[t].proof = c
Unspent(u, c) == recovery[u] # None /\ c \in recovery[u]

\* A code is one user's until it has proved one token, and the codes of an enrolment
\* are known when that has ended.
CodesSound ==
    \A c \in RecoveryCodes :
        /\ \A t \in TokenIds, u \in Users : ~(Proof(t, c) /\ Unspent(u, c))
        /\ \A s, t \in TokenIds : Proof(s, c) /\ Proof(t, c) => s = t
        /\ \A u, v \in Users : Unspent(u, c) /\ Unspent(v, c) => u = v
        /\ c \in Requests /\ at[c] # "ok" => /\ \A t \in TokenIds : ~Proof(t, c)
                                             /\ \A u \in Users : ~Unspent(u, c)
Free(c) == /\ \A t \in TokenIds : ~Proof(t, c)
           /\ \A u \in Users : ~Unspent(u, c)
           /\ c \in RecoveryCodes
           /\ c \in Requests => at[c] = "ok"

\* What a handler that nobody overlaps knows when it writes.
CodeReads(r) ==
    Proving(r) =>
        /\ at[r] = "spend" => /\ Unspent(read[r].user, job[r].code)
                              /\ read[r].codes = recovery[read[r].user]
        /\ at[r] = "stamp" /\ job[r].code # "totp" => Free(job[r].code)

CodesInv == ~overlapped => CodesSound /\ \A r \in Requests : CodeReads(r)

LEMMA InitCodes == Init => CodesInv
<1> SUFFICES ASSUME Init PROVE CodesInv
  OBVIOUS
<1>1. \A t \in TokenIds, c \in RecoveryCodes : ~Proof(t, c)
  BY RowsAssumption, NoneAssumption DEF Init, Proof, TokenIds, RecoveryCodes
<1>2. \A u \in Users : \A c : Unspent(u, c) => c \in Codes /\ c \notin Requests
  BY RowsAssumption DEF Init, Unspent
<1>3. \A u, v \in Users : \A c : Unspent(u, c) /\ Unspent(v, c) => u = v
  BY RowsAssumption DEF Init, Unspent
<1>4. CodesSound
  BY <1>1, <1>2, <1>3 DEF CodesSound
<1> QED
  BY <1>4 DEF Init, CodesInv, CodeReads

LEMMA CodesAlone ==
    ASSUME CodesInv, NEW r \in Requests, Moves(r), Alone(r),
           (CodesSound /\ CodeReads(r)) => CodesSound' /\ CodeReads(r)'
    PROVE  CodesInv'
<1>1. ASSUME ~overlapped', NEW q \in Requests \ {r} PROVE CodeReads(q)'
  <2>1. at'[q] = at[q] /\ ~UnderWay(q)
    BY <1>1 DEF Moves, Alone
  <2> QED
    BY <2>1 DEF CodeReads, UnderWay, Ended
<1> QED
  BY <1>1 DEF CodesInv, Alone

\* Steps by which no code proves another token or gets another user.
LEMMA CodesFewer ==
    ASSUME CodesSound, OldTokens,
           \A u \in Users : \A c : Unspent(u, c)' => Unspent(u, c),
           \A c \in Requests : at[c] = "ok" => at'[c] = "ok"
    PROVE  /\ CodesSound'
           /\ \A c : Free(c) => Free(c)'
<1>1. \A t \in TokenIds, c \in RecoveryCodes : Proof(t, c)' => Proof(t, c)
  BY NoneAssumption DEF OldTokens, OldToken, Proof, RecoveryCodes
<1> QED
  BY <1>1 DEF CodesSound, Free

LEMMA MovesEnd ==
    ASSUME NEW r \in Requests, Moves(r)
    PROVE  \A c \in Requests : at[c] = "ok" => at'[c] = "ok"
BY DEF Moves, Ended

LEMMA EnrollCodes ==
    ASSUME RowsInv, CodesInv, NEW r \in Requests, Moves(r), Alone(r), Enroll(r)
    PROVE  CodesInv'
<1>1. /\ job[r].kind = "enroll" /\ at[r] = "persist" /\ at'[r] = "ok" /\ UNCHANGED tokens
      /\ read[r] \in Users /\ recovery' = [recovery EXCEPT ![read[r]] = {r}]
      /\ AccountTypes /\ job' = job
  BY DEF Enroll, Account, Go, RowsInv, AccountsInv, NamesInv, Handlers, AccountReads
<1>2. /\ \A t \in TokenIds : \A c : Proof(t, c)' = Proof(t, c)
      /\ \A u \in Users : \A c : Unspent(u, c)' => Unspent(u, c) \/ (u = read[r] /\ c = r)
  BY <1>1 DEF Proof, Unspent, AccountTypes
<1>3. CodesSound => /\ \A t \in TokenIds : ~Proof(t, r)
                    /\ \A u \in Users : ~Unspent(u, r)
  BY <1>1 DEF CodesSound, RecoveryCodes
<1>4. \A c \in Requests : at'[c] # "ok" => at[c] # "ok" /\ c # r
  BY <1>1 DEF Moves
<1>5. CodesSound => CodesSound'
  BY <1>2, <1>3, <1>4 DEF CodesSound
<1>6. CodeReads(r)'
  BY <1>1 DEF CodeReads, Proving
<1> QED
  BY <1>5, <1>6, CodesAlone

LEMMA SpendCodes ==
    ASSUME RowsInv, CodesInv, NEW r \in Requests, Moves(r), Alone(r), ProofSpend(r)
    PROVE  CodesInv'
<1> DEFINE u == read[r].user
           d == job[r].code
<1>1. /\ Proving(r) /\ at[r] = "spend" /\ at'[r] = "stamp" /\ UNCHANGED <<tokens, job, read>>
      /\ u \in Users /\ recovery' = [recovery EXCEPT ![u] = read[r].codes \ {d}]
      /\ AccountTypes /\ d \in Codes \cup Requests \cup {"totp"}
  <2>1. Handlers /\ AccountTypes /\ AccountReads(r)
    BY DEF RowsInv, AccountsInv, NamesInv
  <2> QED
    BY <2>1, AccountJobOf DEF ProofSpend, ProofJob, Account, Go, Handlers, AccountReads, Proving, Plain
<1> SUFFICES ASSUME CodesSound, CodeReads(r) PROVE CodesSound' /\ CodeReads(r)'
  BY CodesAlone
<1>2. Unspent(u, d) /\ read[r].codes = recovery[u] /\ d \in RecoveryCodes
  <2>1. Unspent(u, d) /\ read[r].codes = recovery[u]
    BY <1>1 DEF CodeReads
  <2>2. recovery[u] \in SUBSET (Codes \cup Requests)
    BY <1>1, <2>1 DEF Unspent, AccountTypes
  <2> QED
    BY <2>1, <2>2 DEF Unspent, RecoveryCodes
<1>3. /\ recovery'[u] = recovery[u] \ {d}
      /\ \A v \in Users \ {u} : recovery'[v] = recovery[v]
  BY <1>1, <1>2 DEF AccountTypes
<1>4. \A v \in Users : \A c : Unspent(v, c)' => Unspent(v, c)
  <2>1. ASSUME NEW v \in Users, NEW c, Unspent(v, c)' PROVE Unspent(v, c)
    <3>1. CASE v = u
      BY <1>2, <1>3, <2>1, <3>1 DEF Unspent
    <3>2. CASE v # u
      BY <1>3, <2>1, <3>2 DEF Unspent
    <3> QED
      BY <3>1, <3>2
  <2> QED
    BY <2>1
<1>5. CodesSound'
  BY <1>1, <1>4, OldStay, MovesEnd, CodesFewer
<1>6. Free(d)'
  <2>1. \A t \in TokenIds : ~Proof(t, d)'
    BY <1>1, <1>2 DEF CodesSound, Proof
  <2>2. ASSUME NEW v \in Users, Unspent(v, d)' PROVE FALSE
    <3>1. v = u
      BY <1>1, <1>2, <1>4, <2>2 DEF CodesSound
    <3> QED
      BY <1>1, <1>3, <2>2, <3>1 DEF Unspent
  <2>3. d \in Requests => at'[d] = "ok"
    BY <1>1, <1>2, MovesEnd DEF CodesSound
  <2>4. d' = d
    BY <1>1
  <2> QED
    BY <1>2, <2>1, <2>2, <2>3, <2>4 DEF Free, RecoveryCodes
<1> QED
  BY <1>1, <1>5, <1>6 DEF CodeReads

LEMMA StampCodes ==
    ASSUME RowsInv, CodesInv, NEW r \in Requests, Moves(r), Alone(r), ProofStamp(r)
    PROVE  CodesInv'
<1> DEFINE t == job[r].token
           d == job[r].code
<1>1. /\ Proving(r) /\ at[r] = "stamp" /\ at'[r] \notin {"spend", "stamp"} /\ job' = job
      /\ AccountTypes /\ Handlers /\ d \in Codes \cup Requests \cup {"totp"}
  <2>1. Handlers /\ AccountTypes
    BY DEF RowsInv, AccountsInv, NamesInv
  <2> QED
    BY <2>1, AccountJobOf DEF ProofStamp, ProofJob, Account, Go, Handlers, Proving
<1> SUFFICES ASSUME CodesSound, CodeReads(r) PROVE CodesSound' /\ CodeReads(r)'
  BY CodesAlone
<1>2. CodeReads(r)'
  BY <1>1 DEF CodeReads
<1>3. /\ \A u, c : Unspent(u, c)' = Unspent(u, c)
      /\ t \in TokenIds
      /\ \/ UNCHANGED tokens
         \/ /\ tokens'[t].proof = d
            /\ \A s \in TokenIds \ {t} : tokens'[s] = tokens[s]
  BY <1>1, StampOld DEF Unspent
<1>4. d # "totp" => d \in RecoveryCodes /\ Free(d)
  BY <1>1 DEF CodeReads, RecoveryCodes
<1>5. \A s \in TokenIds, c \in RecoveryCodes :
          Proof(s, c)' => Proof(s, c) \/ (s = t /\ c = d)
  BY <1>1, <1>3 DEF Proof
<1>6. "totp" \notin RecoveryCodes
  BY NoneAssumption DEF RecoveryCodes
<1>7. CodesSound'
  BY <1>3, <1>4, <1>5, <1>6, MovesEnd DEF CodesSound, Free
<1> QED
  BY <1>2, <1>7

LEMMA OtherCodes ==
    ASSUME RowsInv, CodesInv, NEW r \in Requests, Moves(r), Alone(r), OldTokens,
           \A u \in Users : \A c : Unspent(u, c)' => Unspent(u, c), CodeReads(r)'
    PROVE  CodesInv'
BY MovesEnd, CodesFewer, CodesAlone

LEMMA ReadCodes ==
    ASSUME RowsInv, CodesInv, NEW r \in Requests, Moves(r), Alone(r), ProofRead(r)
    PROVE  CodesInv'
<1>1. /\ job' = job /\ UNCHANGED accountRows
      /\ read'[r] = [user |-> read[r], codes |-> recovery[read[r]]]
      /\ at'[r] = "spend" => Unspent(read[r], job[r].code)
      /\ at'[r] = "stamp" => job[r].code = "totp"
  <2>1. /\ job' = job /\ UNCHANGED accountRows
        /\ at'[r] = CASE recovery[read[r]] # None /\ job[r].code = "totp" -> "stamp"
                      [] recovery[read[r]] # None /\ job[r].code \in recovery[read[r]] \ {"totp"}
                                                                          -> "spend"
                      [] OTHER                                            -> "refused"
        /\ read'[r] = [user |-> read[r], codes |-> recovery[read[r]]]
    BY DEF ProofRead, ProofJob, Account, Go, Keeping, RowsInv, AccountsInv, NamesInv, Handlers
  <2> QED
    BY <2>1 DEF Unspent
<1>2. UNCHANGED <<tokens, recovery>>
  BY <1>1 DEF accountRows
<1>3. CodeReads(r)'
  BY <1>1, <1>2 DEF CodeReads, Unspent
<1> QED
  BY <1>2, <1>3, OldStay, OtherCodes DEF Unspent

LEMMA StepCodes ==
    ASSUME RowsInv, SerialInv, CodesInv, NEW r \in Requests, StepOf(r)
    PROVE  CodesInv'
<1>1. /\ Moves(r) /\ Alone(r) /\ Handlers /\ AccountTypes /\ AccountsInv /\ job' = job
  BY StepShape DEF RowsInv, AccountsInv, NamesInv, Moves
<1>2. CASE Enroll(r)
  BY <1>1, <1>2, EnrollCodes
<1>3. CASE ProofRead(r)
  BY <1>1, <1>3, ReadCodes
<1>4. CASE ProofSpend(r)
  BY <1>1, <1>4, SpendCodes
<1>5. CASE ProofStamp(r)
  BY <1>1, <1>5, StampCodes
<1>6. CASE Disable2fa(r)
  <2>1. /\ at'[r] = "ok" /\ UNCHANGED tokens
        /\ recovery' = [recovery EXCEPT ![read[r].user] = None]
    BY <1>1, <1>6 DEF Disable2fa, Go, Handlers
  <2>2. \A u \in Users : \A c : Unspent(u, c)' => Unspent(u, c)
    BY <1>1, <2>1 DEF Unspent, AccountTypes
  <2> QED
    BY <1>1, <2>1, <2>2, OldStay, OtherCodes DEF CodeReads
<1>7. CASE PollMint(r)
  <2> DEFINE x == [TokenOf(read[r], Namespace(read[r])) EXCEPT !.session = job[r].session]
  <2>1. /\ job[r].kind = "poll" /\ tokens' = [tokens EXCEPT ![r] = x] /\ UNCHANGED recovery
    BY <1>7 DEF PollMint, Account
  <2>2. x.proof = None
    BY DEF TokenOf
  <2> HIDE DEF x
  <2>3. /\ tokens'[r] = x /\ \A s \in TokenIds \ {r} : tokens'[s] = tokens[s]
    BY <1>1, <2>1, TokenIdsOf DEF AccountTypes
  <2>4. \A t \in TokenIds, c \in RecoveryCodes : Proof(t, c)' => Proof(t, c)
    BY <2>2, <2>3, NoneAssumption DEF Proof, RecoveryCodes
  <2>5. CodesSound => CodesSound'
    BY <1>1, <2>1, <2>4, MovesEnd DEF CodesSound, Unspent
  <2>6. CodeReads(r)'
    BY <1>1, <2>1 DEF CodeReads, Proving
  <2> QED
    BY <1>1, <2>5, <2>6, CodesAlone
<1>8. CASE /\ AccountStep(r)
           /\ ~Enroll(r) /\ ~ProofRead(r) /\ ~ProofSpend(r) /\ ~ProofStamp(r) /\ ~Disable2fa(r)
           /\ ~PollMint(r)
  <2>1. recovery' = recovery /\ (Proving(r) => Authenticate2fa(r))
    BY <1>8 DEF AccountStep, Account, ProofJob, Proving, LoadPending, Approve, Deny, PollCheck,
         PollReread, Login, MintCount, CreateToken, RotateRead, RotateSwap, Revoke, LogoutCheck,
         LogoutDelete, Authenticate2fa, ResetInvalidate, LinkCreate, LinkRead, LinkConsume,
         accountRows
  <2>2. Authenticate2fa(r) => at'[r] \in {"refused", "persist", "codes"}
    BY <1>1 DEF Authenticate2fa, Go, Handlers
  <2>3. CodeReads(r)'
    BY <1>1, <2>1, <2>2 DEF CodeReads, Proving
  <2> QED
    BY <1>1, <1>8, <2>1, <2>3, OldSteps, OtherCodes DEF Unspent
<1>9. CASE NameStep(r) \/ PublishStep(r) \/ Answer(r) \/ CutOff(r)
  <2>1. UNCHANGED accountRows /\ (Proving(r) => at'[r] \in {"ok", "cut"})
    BY <1>1, <1>9, NamesKind, NamesLeaveAccounts, PublishGo, AnswerMoves, CutMoves
       DEF NameKinds, Proving
  <2>2. UNCHANGED <<tokens, recovery>> /\ CodeReads(r)'
    BY <1>1, <2>1 DEF CodeReads, Proving, accountRows
  <2> QED
    BY <1>1, <2>2, OldStay, OtherCodes DEF Unspent
<1> QED
  BY <1>2, <1>3, <1>4, <1>5, <1>6, <1>7, <1>8, <1>9 DEF StepOf

LEMMA LaterCodes ==
    ASSUME RowsInv, CodesInv, Later \/ UNCHANGED vars
    PROVE  CodesInv'
<1>1. UNCHANGED <<requestState, recovery>>
  BY LaterStays
<1>2. OldTokens
  <2>1. CASE Later
    BY <2>1, OldLater DEF RowsInv, AccountsInv
  <2>2. CASE UNCHANGED vars
    BY <2>2, OldStay DEF vars, accountRows
  <2> QED
    BY <2>1, <2>2
<1>3. \A u, c : Unspent(u, c)' = Unspent(u, c)
  BY <1>1 DEF Unspent
<1>4. CodesSound => CodesSound' /\ \A c : Free(c) => Free(c)'
  BY <1>1, <1>2, <1>3, CodesFewer DEF requestState
<1>5. CodesSound => \A r \in Requests : CodeReads(r) => CodeReads(r)'
  BY <1>1, <1>3, <1>4 DEF CodeReads, Proving, requestState
<1> QED
  BY <1>1, <1>4, <1>5 DEF CodesInv, requestState

-----------------------------------------------------------------------------
(* All of it together.                                                      *)

OneShotInv == LoginsInv /\ CodesInv /\ LinksInv

LEMMA OneShotImplied == RowsInv /\ OneShotInv => OneShot
<1> SUFFICES ASSUME RowsInv, OneShotInv, ~overlapped PROVE OneShot
  BY DEF OneShot
<1>1. AccountTypes
  BY DEF RowsInv, AccountsInv
<1>2. ASSUME NEW s \in TokenIds, NEW t \in TokenIds, s # t, tokens[s] # None, tokens[t] # None
      PROVE  /\ tokens[s].session # None => tokens[s].session # tokens[t].session
             /\ tokens[s].proof \notin {None, "totp"} => tokens[s].proof # tokens[t].proof
  <2>1. tokens[s] \in TokenRows
    BY <1>1, <1>2 DEF AccountTypes
  <2>2. tokens[s].session \in Sessions \cup {None}
        /\ tokens[s].proof \in RecoveryCodes \cup {"totp", None}
    BY <2>1 DEF TokenRows, RecoveryCodes
  <2> QED
    BY <1>2, <2>2 DEF OneShotInv, LoginsInv, From, CodesInv, CodesSound, Proof
<1>3. ASSUME NEW r \in Requests, NEW q \in Requests, r # q, Follows(r), Follows(q),
             at[r] = "ok", at[q] = "ok"
      PROVE  job[r].link # job[q].link
  BY <1>3 DEF OneShotInv, LinksInv, FollowedOnce
<1>4. ASSUME NEW l \in LinkIds, NEW m \in LinkIds, l # m, links[l] # None, links[m] # None,
             ~links[l].used, ~links[m].used,
             <<links[l].user, links[l].kind>> = <<links[m].user, links[m].kind>>,
             links[l].kind = "reset"
      PROVE  FALSE
  <2>1. links[l].user \in Users
    BY <1>1, <1>4 DEF AccountTypes, LinkRows
  <2>2. ResetOf(l, links[l].user) /\ ResetOf(m, links[l].user) /\ ~UsedUp(l) /\ ~UsedUp(m)
    BY <1>4 DEF ResetOf, UsedUp
  <2> QED
    BY <1>4, <2>1, <2>2 DEF OneShotInv, LinksInv, OneReset
<1> QED
  BY <1>2, <1>3, <1>4 DEF OneShot, Follows

RegistryInv == RowsInv /\ SerialInv /\ ClaimInv /\ OwnersInv /\ LatestInv /\ OneShotInv

LEMMA InitRegistry == Init => RegistryInv
<1> SUFFICES ASSUME Init PROVE RegistryInv
  OBVIOUS
<1>1. SerialInv
  BY DEF Init, SerialInv, UnderWay
<1>2. ClaimInv
  BY DEF Init, ClaimInv, ClaimedOnce, Won
<1>3. LatestInv
  BY DEF Init, LatestInv, RowRead
<1> QED
  BY <1>1, <1>2, <1>3, InitRows, InitOwners, InitLogins, InitCodes, InitLinks
     DEF RegistryInv, OneShotInv

LEMMA NextRegistry == RegistryInv /\ [Next]_vars => RegistryInv'
<1> SUFFICES ASSUME RegistryInv, [Next]_vars PROVE RegistryInv'
  OBVIOUS
<1>1. RowsInv' /\ SerialInv'
  BY StepRows, StepSerial DEF RegistryInv
<1>2. ASSUME NEW r \in Requests, StepOf(r)
      PROVE  ClaimInv' /\ OwnersInv' /\ LatestInv' /\ OneShotInv'
  BY <1>2, StepClaims, StepOwners, StepLatest, StepLogins, StepCodes, StepLinks
     DEF RegistryInv, OneShotInv
<1>3. CASE Later \/ UNCHANGED vars
  <2>1. UNCHANGED <<requestState, nameRows, packageRows, links, recovery>>
    BY <1>3, LaterStays
  <2>2. ClaimInv' /\ OwnersInv' /\ LatestInv' /\ LinksInv'
    BY <2>1, ClaimStutter, OwnersStutter, LatestStutter, LinksStutter DEF RegistryInv, OneShotInv
  <2>3. LoginsInv' /\ CodesInv'
    BY <1>3, LaterLogins, LaterCodes DEF RegistryInv, OneShotInv
  <2> QED
    BY <1>1, <2>2, <2>3 DEF RegistryInv, OneShotInv
<1>4. (\E r \in Requests : StepOf(r)) \/ Later \/ UNCHANGED vars
  BY NextShape
<1> QED
  BY <1>1, <1>2, <1>3, <1>4 DEF RegistryInv

LEMMA RegistryHolds == Spec => []RegistryInv
BY InitRegistry, NextRegistry, PTL DEF Spec

\* Whatever interleaving and wherever handlers are cut off, two requests that
\* claim or create one handle are not both answered with success, unless a
\* release of the handle was.
THEOREM ClaimedOnceHolds == Spec => []ClaimedOnce
<1>1. RegistryInv => ClaimedOnce
  BY DEF RegistryInv, ClaimInv
<1> QED
  BY <1>1, RegistryHolds, PTL

\* Of handlers that do not overlap, none leaves an organisation without an owner
\* or a handle in use with nobody behind it: that is also what each knows of its
\* rows between the look and the write.
THEOREM NamespacesKeepOwnersHolds == Spec => []NamespacesKeepOwners
<1>1. RegistryInv => NamespacesKeepOwners
  BY DEF RegistryInv, OwnersInv, NamespacesKeepOwners
<1> QED
  BY <1>1, RegistryHolds, PTL

\* Of publishes that do not overlap and are not cut off, the extension's row
\* keeps the highest version: publishVersion writes the higher of its own and the
\* row it read four steps earlier.
THEOREM LatestIsHighestHolds == Spec => []LatestIsHighest
<1>1. RegistryInv => LatestIsHighest
  BY LatestImplied DEF RegistryInv
<1> QED
  BY <1>1, RegistryHolds, PTL

\* Of handlers that do not overlap, a device login gives one token, a recovery
\* code proves one token, a link is followed once, and one reset link of a user
\* is good.
THEOREM OneShotHolds == Spec => []OneShot
<1>1. RegistryInv => OneShot
  BY OneShotImplied DEF RegistryInv
<1> QED
  BY <1>1, RegistryHolds, PTL
=============================================================================
