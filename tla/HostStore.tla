------------------------------ MODULE HostStore ------------------------------
(***************************************************************************)
(* The store a host keeps extensions in (packages/host-core): the index of *)
(* installed extensions, the keys pinned for publishers, the permissions   *)
(* users have granted, and one directory per extension and version.  Each  *)
(* of the three files is read, changed in memory and written back, with    *)
(* awaits in between, and nothing locks the directory: a host may run      *)
(* several operations at once, and several hosts may share the directory.  *)
(*                                                                         *)
(* A file is rewritten in two steps: it is truncated, and then it has its  *)
(* new contents.  In between it does not parse, and a reader takes that    *)
(* for an empty file.  An operation may be cut off at any step: a file     *)
(* operation fails, a name in the bundle is refused, or the host dies.     *)
(* There is no state in memory that outlives an operation, so the death of *)
(* a host is the end of each of its operations.                            *)
(*                                                                         *)
(* Operations are numbered as they begin.  Bounds: MaxOps operations, at   *)
(* most MaxActive of them at once, NumFiles files in a bundle.             *)
(***************************************************************************)
EXTENDS Naturals, FiniteSets

CONSTANTS
    Exts,        \* extensions, each the <publisher>/<slug> of a bundle
    Publishers,
    PublisherOf, \* the publisher of an extension
    Versions,
    Keys,        \* signing keys
    Perms,       \* permission strings of manifests
    Sensitive,   \* those a prompt has an item for: known and not ambient
    Offered,     \* bundles that pass verification
    NumFiles,    \* files in a bundle
    MaxOps,      \* bound on the operations
    MaxActive,   \* bound on the operations running at once
    Menu         \* the operations that may begin as the n-th

\* covered: the manifest covers what the component imports.
Bundle == [ext : Exts, version : Versions, key : Keys, perms : SUBSET Perms,
           covered : BOOLEAN]
Call   == [kind : {"install"}, bundle : Offered]
            \cup [kind : {"uninstall", "clear"}, ext : Exts]

ASSUME PublisherAssumption == PublisherOf \in [Exts -> Publishers]
ASSUME SensitiveAssumption == Sensitive \subseteq Perms
ASSUME OfferedAssumption ==
    /\ Offered \subseteq Bundle
    /\ \A a, b \in Offered : a.ext = b.ext /\ a.version = b.version => a = b
ASSUME OpsAssumption ==
    /\ MaxOps \in Nat /\ MaxActive \in Nat /\ NumFiles \in Nat
    /\ Menu \in [1 .. MaxOps -> SUBSET Call]

VARIABLES
    \* files under the store's root
    trust,    \* trust.json: the key pinned for a publisher
    grants,   \* grants.json: what the user was shown and has granted
    index,    \* installed.json
    torn,     \* files that have been truncated and not yet written
    files,    \* files in the directory of an extension and version
    \* operations
    started,  \* operations begun so far
    call,     \* what each operation was asked to do
    pc,       \* control state of each operation
    prior,    \* the grant an install found
    granted,  \* the permissions an install grants
    file,     \* the file an operation is writing, or wrote last
    buf,      \* the contents it is writing
    victim,   \* the version an uninstall removes
    wrote,    \* files an install has unpacked
    \* history
    consented \* installs whose prompt was answered with a grant

disk    == <<trust, grants, index, torn, files>>
control == <<started, call, pc, prior, granted, file, buf, victim, wrote>>
vars    == <<disk, control, consented>>

-----------------------------------------------------------------------------
Ops    == 1 .. MaxOps
NoCall == [kind |-> "none"]
Dirs   == Exts \X Versions

PinnedKey       == [publisher : Publishers, key : Keys]
PermissionGrant == [ext : Exts, granted : SUBSET Perms, seen : SUBSET Perms]
InstalledRecord == [ext : Exts, version : Versions, key : Keys,
                    perms : SUBSET Perms, granted : SUBSET Perms]

Over   == {"done", "refused", "refused_key", "aborted", "torn"}
Steps  == {"consent", "prompt", "grant", "pin", "clean", "unpack", "lookup",
           "remove", "forget", "truncate", "fill"}
Active == {o \in Ops : pc[o] \in Steps}

b(o)   == call[o].bundle
Ext(o) == IF call[o].kind = "install" THEN b(o).ext ELSE call[o].ext
Items(o) == b(o).perms \cap Sensitive

\* A file that is missing or does not parse reads as an empty list.
ReadTrust == IF "trust" \in torn THEN {} ELSE trust
ReadGrants == IF "grants" \in torn THEN {} ELSE grants
ReadIndex == IF "index" \in torn THEN {} ELSE index

Init ==
    /\ trust = {} /\ grants = {} /\ index = {} /\ torn = {}
    /\ files = [d \in Dirs |-> {}]
    /\ started = 0
    /\ call = [o \in Ops |-> NoCall]
    /\ pc = [o \in Ops |-> "none"]
    /\ prior = [o \in Ops |-> {}]
    /\ granted = [o \in Ops |-> {}]
    /\ file = [o \in Ops |-> "none"]
    /\ buf = [o \in Ops |-> {}]
    /\ victim = [o \in Ops |-> {}]
    /\ wrote = [o \in Ops |-> 0]
    /\ consented = {}

Goto(o, from, to) == pc[o] = from /\ pc' = [pc EXCEPT ![o] = to]

FirstStep(c) ==
    IF c.kind = "install" THEN "consent"
    ELSE IF c.kind = "uninstall" THEN "lookup" ELSE "forget"

\* The host calls finishInstallWithConsent, Store.uninstall or Grants.clear.
Begin(o, c) ==
    /\ o = started + 1
    /\ Cardinality(Active) < MaxActive
    /\ c \in Menu[o]
    /\ started' = o
    /\ call' = [call EXCEPT ![o] = c]
    /\ pc' = [pc EXCEPT ![o] = FirstStep(c)]
    /\ UNCHANGED <<disk, prior, granted, file, buf, victim, wrote, consented>>

-----------------------------------------------------------------------------
(* Consent: finishInstallWithConsent up to grants.set.                      *)

\* The component imports what the manifest does not cover: refused.
RefuseGap(o) ==
    /\ Goto(o, "consent", "refused")
    /\ ~b(o).covered
    /\ UNCHANGED <<disk, started, call, prior, granted, file, buf, victim,
                   wrote, consented>>

PriorGrants(e) == {g \in ReadGrants : g.ext = e}

SeenBefore(o, g) == TRUE
\* The user has already been shown everything the manifest asks for.
NothingNew(o, g) == b(o).perms \subseteq g.seen

TakeManifest(o, g) == b(o).perms
\* What the manifest no longer asks for is dropped from the decision.
KeepPrior(o, g) == g.granted \cap b(o).perms

Consent(o, grant, to) ==
    /\ Goto(o, "consent", to)
    /\ b(o).covered
    /\ prior' = [prior EXCEPT ![o] = PriorGrants(Ext(o))]
    /\ granted' = [granted EXCEPT ![o] = grant]
    /\ UNCHANGED <<disk, started, call, file, buf, victim, wrote, consented>>

\* The manifest asks for ambient permissions only: all of it is granted.
GrantAmbient(o) ==
    /\ Consent(o, b(o).perms, "grant")
    /\ Items(o) = {}

\* An earlier decision covers the manifest: it stands, without a prompt.
GrantPrior(o) ==
    /\ pc[o] = "consent"
    /\ Items(o) # {}
    /\ \E g \in PriorGrants(Ext(o)) :
         NothingNew(o, g) /\ Consent(o, KeepPrior(o, g), "grant")

AskUser(o) ==
    /\ Consent(o, {}, "prompt")
    /\ Items(o) # {}
    /\ \A g \in PriorGrants(Ext(o)) : ~NothingNew(o, g)

\* The user refuses ...
Deny(o) ==
    /\ Goto(o, "prompt", "refused")
    /\ UNCHANGED <<disk, started, call, prior, granted, file, buf, victim,
                   wrote, consented>>

\* ... or answers with the permissions to grant, and those the manifest does
\* not ask for are left out.
Approve(o) ==
    /\ Goto(o, "prompt", "grant")
    /\ \E raw \in SUBSET Perms :
         granted' = [granted EXCEPT ![o] = raw \cap b(o).perms]
    /\ consented' = consented \cup {o}
    /\ UNCHANGED <<disk, started, call, prior, file, buf, victim, wrote>>

-----------------------------------------------------------------------------
(* Read-modify-write of the three files.                                    *)

WriteSameFile(o, from, f, data) ==
    /\ Goto(o, from, "truncate")
    /\ file' = [file EXCEPT ![o] = IF @ = "none" THEN f ELSE @]
    /\ buf' = [buf EXCEPT ![o] = data]
\* What has been read and changed is about to be written to f.
Write(o, from, f, data) ==
    /\ Goto(o, from, "truncate")
    /\ file' = [file EXCEPT ![o] = f]
    /\ buf' = [buf EXCEPT ![o] = data]

NewGrant(o) == [ext |-> Ext(o), granted |-> granted[o], seen |-> b(o).perms]
AllGrants(e) == ReadGrants
OtherGrants(e) == {g \in ReadGrants : g.ext # e}

\* Grants.set replaces the grant of the extension.
SetGrant(o) ==
    /\ Write(o, "grant", "grants", OtherGrants(Ext(o)) \cup {NewGrant(o)})
    /\ UNCHANGED <<disk, started, call, prior, granted, victim, wrote, consented>>

\* Grants.clear drops it; when there is none nothing is written.
ClearGrant(o) ==
    /\ Write(o, "forget", "grants", OtherGrants(Ext(o)))
    /\ PriorGrants(Ext(o)) # {}
    /\ UNCHANGED <<disk, started, call, prior, granted, victim, wrote, consented>>

NothingToClear(o) ==
    /\ Goto(o, "forget", "done")
    /\ PriorGrants(Ext(o)) = {}
    /\ UNCHANGED <<disk, started, call, prior, granted, file, buf, victim,
                   wrote, consented>>

Publisher(o) == PublisherOf[Ext(o)]
PinsOfExtension(o) ==
    {p \in ReadTrust : p.publisher = Publisher(o)
                         /\ \E r \in ReadIndex : r.ext = Ext(o)}
Pins(o) == {p \in ReadTrust : p.publisher = Publisher(o)}

\* enforcePinning: another key is pinned for the publisher ...
RefuseKey(o) ==
    /\ Goto(o, "pin", "refused_key")
    /\ \E p \in Pins(o) : p.key # b(o).key
    /\ UNCHANGED <<disk, started, call, prior, granted, file, buf, victim,
                   wrote, consented>>

\* ... this key is ...
AcceptKey(o) ==
    /\ Goto(o, "pin", "clean")
    /\ Pins(o) # {}
    /\ \A p \in Pins(o) : p.key = b(o).key
    /\ UNCHANGED <<disk, started, call, prior, granted, file, buf, victim,
                   wrote, consented>>

\* ... or none is, and the first one seen is trusted.
PinKey(o) ==
    /\ Write(o, "pin", "trust",
             ReadTrust \cup {[publisher |-> Publisher(o), key |-> b(o).key]})
    /\ Pins(o) = {}
    /\ UNCHANGED <<disk, started, call, prior, granted, victim, wrote, consented>>

-----------------------------------------------------------------------------
(* The directory and the index.                                             *)

Dir(o) == <<Ext(o), b(o).version>>

\* Store.install removes the directory if it is there and makes it anew ...
CleanDir(o) ==
    /\ Goto(o, "clean", "unpack")
    /\ files' = [files EXCEPT ![Dir(o)] = {}]
    /\ UNCHANGED <<trust, grants, index, torn, started, call, prior, granted,
                   file, buf, victim, wrote, consented>>

\* ... writes the files of the bundle one after the other ...
WriteFile(o) ==
    /\ pc[o] = "unpack"
    /\ wrote[o] < NumFiles
    /\ wrote' = [wrote EXCEPT ![o] = @ + 1]
    /\ files' = [files EXCEPT ![Dir(o)] = @ \cup {wrote[o] + 1}]
    /\ UNCHANGED <<trust, grants, index, torn, started, call, pc, prior,
                   granted, file, buf, victim, consented>>

NewRecord(o) == [ext |-> Ext(o), version |-> b(o).version, key |-> b(o).key,
                 perms |-> b(o).perms, granted |-> granted[o]]
OtherPublishers(o) == {r \in ReadIndex : PublisherOf[r.ext] # Publisher(o)}
AllRecords(o) == ReadIndex
OtherRecords(o) == {r \in ReadIndex : r.ext # Ext(o)}

\* ... and replaces the record of the extension.
ListInstall(o) ==
    /\ wrote[o] = NumFiles
    /\ Write(o, "unpack", "index", OtherRecords(o) \cup {NewRecord(o)})
    /\ UNCHANGED <<disk, started, call, prior, granted, victim, wrote, consented>>

\* Store.uninstall looks the extension up ...
Lookup(o) ==
    /\ Goto(o, "lookup", "remove")
    /\ \E r \in ReadIndex :
         /\ r.ext = Ext(o)
         /\ victim' = [victim EXCEPT ![o] = {r.version}]
    /\ file' = [file EXCEPT ![o] = "index"]
    /\ buf' = [buf EXCEPT ![o] = OtherRecords(o)]
    /\ UNCHANGED <<disk, started, call, prior, granted, wrote, consented>>

NotInstalled(o) ==
    /\ Goto(o, "lookup", "done")
    /\ \A r \in ReadIndex : r.ext # Ext(o)
    /\ UNCHANGED <<disk, started, call, prior, granted, file, buf, victim,
                   wrote, consented>>

RemovedByPublisher(o) == {e \in Exts : PublisherOf[e] = Publisher(o)} \X Versions
Removed(o) == {Ext(o)} \X victim[o]

\* ... and removes its directory before it writes the index.
RemoveDir(o) ==
    /\ Goto(o, "remove", "truncate")
    /\ files' = [d \in Dirs |-> IF d \in Removed(o) THEN {} ELSE files[d]]
    /\ UNCHANGED <<trust, grants, index, torn, started, call, prior, granted,
                   file, buf, victim, wrote, consented>>

-----------------------------------------------------------------------------
(* Writing a file.                                                          *)

Truncate(o) ==
    /\ Goto(o, "truncate", "fill")
    /\ torn' = torn \cup {file[o]}
    /\ UNCHANGED <<trust, grants, index, files, started, call, prior, granted,
                   file, buf, victim, wrote, consented>>

AfterWrite(o) ==
    IF file[o] = "grants" /\ call[o].kind = "install" THEN "pin"
    ELSE IF file[o] = "trust" THEN "clean"
    ELSE "done"

Fill(o) ==
    /\ Goto(o, "fill", AfterWrite(o))
    /\ torn' = torn \ {file[o]}
    /\ trust'  = IF file[o] = "trust"  THEN buf[o] ELSE trust
    /\ grants' = IF file[o] = "grants" THEN buf[o] ELSE grants
    /\ index'  = IF file[o] = "index"  THEN buf[o] ELSE index
    /\ buf' = [buf EXCEPT ![o] = {}]
    /\ UNCHANGED <<files, started, call, prior, granted, file, victim, wrote,
                   consented>>

\* The operation is cut off.
Abort(o) ==
    /\ pc[o] \in Steps
    /\ pc' = [pc EXCEPT ![o] = IF @ = "fill" THEN "torn" ELSE "aborted"]
    /\ UNCHANGED <<disk, started, call, prior, granted, file, buf, victim,
                   wrote, consented>>

-----------------------------------------------------------------------------
InstallStep(o) ==
    \/ RefuseGap(o) \/ GrantAmbient(o) \/ GrantPrior(o) \/ AskUser(o)
    \/ Deny(o) \/ Approve(o) \/ SetGrant(o)
    \/ RefuseKey(o) \/ AcceptKey(o) \/ PinKey(o)
    \/ CleanDir(o) \/ WriteFile(o) \/ ListInstall(o)

UninstallStep(o) == Lookup(o) \/ NotInstalled(o) \/ RemoveDir(o)

ClearStep(o) == ClearGrant(o) \/ NothingToClear(o)

Finished == started = MaxOps /\ Active = {} /\ UNCHANGED vars

Next ==
    \/ \E o \in Ops : \E c \in Call : Begin(o, c)
    \/ \E o \in Ops : \/ InstallStep(o) \/ UninstallStep(o) \/ ClearStep(o)
                      \/ Truncate(o) \/ Fill(o) \/ Abort(o)
    \/ Finished

Spec == Init /\ [][Next]_vars

-----------------------------------------------------------------------------
(* Properties.                                                              *)

DiskTypeOK ==
    /\ trust \in SUBSET PinnedKey
    /\ grants \in SUBSET PermissionGrant
    /\ index \in SUBSET InstalledRecord
    /\ torn \in SUBSET {"trust", "grants", "index"}
    /\ files \in [Dirs -> SUBSET (1 .. NumFiles)]

PcStates == {"none"} \cup Steps \cup Over
Contents == (SUBSET PinnedKey) \cup (SUBSET PermissionGrant) \cup (SUBSET InstalledRecord)

ControlTypeOK ==
    /\ started \in 0 .. MaxOps
    /\ call \in [Ops -> Call \cup {NoCall}]
    /\ pc \in [Ops -> PcStates]
    /\ prior \in [Ops -> SUBSET PermissionGrant]
    /\ granted \in [Ops -> SUBSET Perms]
    /\ file \in [Ops -> {"none", "trust", "grants", "index"}]
    /\ buf \in [Ops -> Contents]
    /\ victim \in [Ops -> SUBSET Versions]
    /\ wrote \in [Ops -> 0 .. NumFiles]

\* The three files and the operations keep their types: in particular what an
\* operation writes into a file is a list of that file's entries.
TypeOK ==
    /\ DiskTypeOK /\ ControlTypeOK
    /\ consented \in SUBSET Ops
    /\ \A o \in Ops :
         /\ file[o] = "trust"  => buf[o] \subseteq PinnedKey
         /\ file[o] = "grants" => buf[o] \subseteq PermissionGrant
         /\ file[o] = "index"  => buf[o] \subseteq InstalledRecord

Consented(e) == {o \in consented : Ext(o) = e}

\* Sensitive permissions S of extension e were granted together at one prompt.
GrantedAtPrompt(e, S) ==
    S \cap Sensitive = {} \/ \E o \in Consented(e) : S \cap Sensitive \subseteq granted[o]

\* Every sensitive permission an installed record or a stored grant carries was
\* granted by the user at a prompt for that very extension, all of them at the
\* same prompt, and its manifest asks for it: no upgrade, re-install, race,
\* failed write or restart widens a decision (installer.ts, steps 4 to 7).
ConsentBacked ==
    /\ \A r \in index : r.granted \subseteq r.perms /\ GrantedAtPrompt(r.ext, r.granted)
    /\ \A g \in grants : g.granted \subseteq g.seen /\ GrantedAtPrompt(g.ext, g.granted)

Shown(e) == UNION {b(o).perms : o \in Consented(e)}

\* Nothing is installed with a sensitive permission that was never in a prompt
\* the user answered with a grant: "the host can detect new permissions on a
\* version upgrade and re-prompt the user before activating" (grants.ts).
ShownBeforeInstalled ==
    \A r \in index : r.perms \cap Sensitive \subseteq Shown(r.ext)

Serial == MaxActive = 1
Intact == \A o \in Ops : pc[o] # "torn"
Quiet  == Active = {}

\* Operations of this extension that have run to their end.
Completed(e) == {o \in Ops : pc[o] = "done" /\ Ext(o) = e}
LastOf(S) == CHOOSE o \in S : \A u \in S : u <= o

\* Without overlap and torn writes, the stored grant never exceeds the last
\* decision the user took: what was unticked is not granted again by itself.
LatestDecisionStands ==
    Serial /\ Intact /\ Quiet =>
        \A g \in grants : Consented(g.ext) # {} =>
            LET o == LastOf(Consented(g.ext)) IN
            pc[o] \in {"done", "refused_key"} =>
                g.granted \cap Sensitive \subseteq granted[o]

\* Without overlap and torn writes, all that is installed of one publisher is
\* signed with one key (store.ts: "all subsequent installs from that publisher
\* MUST present the same keyId").
OneKeyPerPublisher ==
    Serial /\ Intact =>
        \A r, s \in index :
            PublisherOf[r.ext] = PublisherOf[s.ext] => r.key = s.key

\* Without overlap and torn writes, an install stays in the index until another
\* operation on the same extension gets to the index: no install, uninstall,
\* refusal or failure of another extension drops its record.
IndexKeepsInstalls ==
    Serial /\ Intact /\ Quiet =>
        \A e \in Exts : Completed(e) # {} =>
            LET o == LastOf(Completed(e)) IN
            (call[o].kind = "install") => NewRecord(o) \in index

\* When operations ran one after the other and none was cut off, every record
\* of the index has all its files.
IndexedFilesPresent ==
    Serial /\ Quiet /\ (\A o \in Ops : pc[o] \notin {"aborted", "torn"}) =>
        \A r \in ReadIndex : files[<<r.ext, r.version>>] = 1 .. NumFiles

\* Operations that run one at a time: an install that finished has done all of
\* its work, whatever earlier ones left behind.  The record, and no other of
\* the extension, its files, its grant and its pin are there: repeating an
\* install that was cut off repairs the store (Store.install).
FinishedInstallStands ==
    \A o \in Ops :
        (Serial /\ pc[o] = "done" /\ call[o].kind = "install" /\ started = o) =>
            /\ {r \in ReadIndex : r.ext = Ext(o)} = {NewRecord(o)}
            /\ files[Dir(o)] = 1 .. NumFiles
            /\ PriorGrants(Ext(o)) = {NewGrant(o)}
            /\ \A p \in Pins(o) : p.key = b(o).key
            /\ Pins(o) # {}

\* store.ts on pinning: "Fails closed before any disk writes so a key-rotation
\* attempt cannot leave partial state".  An install that is refused leaves the
\* grant of the extension as it found it.
RefusalLeavesNothing ==
    \A o \in Ops :
        (Serial /\ pc[o] \in {"refused", "refused_key"} /\ started = o
           /\ b(o).covered) => PriorGrants(Ext(o)) = prior[o]
=============================================================================
