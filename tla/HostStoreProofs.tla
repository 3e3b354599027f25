-------------------------- MODULE HostStoreProofs --------------------------
(***************************************************************************)
(* Theorems about HostStore, for any number of extensions, permissions and *)
(* operations, each cut off anywhere: first those that hold however many   *)
(* run at once, then those that need them to run one at a time.            *)
(***************************************************************************)
EXTENDS HostStore, TLAPS, FiniteSetTheorems, WellFoundedInduction

InstallSteps == {"consent", "prompt", "grant", "pin", "clean", "unpack"}

\* Which operation gets to which control point: what the type of the contents
\* of a file depends on.
KindInv ==
    \A o \in Ops :
        /\ pc[o] \in InstallSteps => call[o].kind = "install"
        /\ pc[o] \in {"lookup", "remove"} => call[o].kind = "uninstall"
        /\ pc[o] = "forget" => call[o].kind = "clear"
        /\ pc[o] = "remove" => file[o] = "index"
        /\ pc[o] \in {"truncate", "fill"} =>
              file[o] # "none" /\ call[o].kind \in {"install", "uninstall", "clear"}
        /\ pc[o] \in {"truncate", "fill"} /\ file[o] = "trust" => call[o].kind = "install"

TypeInv == TypeOK /\ KindInv

-----------------------------------------------------------------------------
(* Operations and their bundles.                                            *)

LEMMA OpsAreNumbers == Ops \subseteq Nat /\ MaxOps \in Nat /\ NumFiles \in Nat
BY OpsAssumption DEF Ops

LEMMA InstallHasBundle ==
    ASSUME TypeInv, NEW o \in Ops, call[o].kind = "install"
    PROVE  /\ b(o) \in Offered /\ b(o) \in Bundle
           /\ b(o).ext \in Exts /\ b(o).version \in Versions
           /\ b(o).key \in Keys /\ b(o).perms \subseteq Perms
           /\ Ext(o) = b(o).ext
<1>1. call[o] \in [kind : {"install"}, bundle : Offered]
  BY DEF TypeInv, TypeOK, ControlTypeOK, Call, NoCall
<1>2. b(o) \in Offered
  BY <1>1 DEF b
<1>3. b(o) \in Bundle
  BY <1>2, OfferedAssumption
<1> QED
  BY <1>2, <1>3 DEF Bundle, Ext

LEMMA CallHasExt ==
    ASSUME TypeInv, NEW o \in Ops, call[o].kind \in {"install", "uninstall", "clear"}
    PROVE  Ext(o) \in Exts
<1>1. CASE call[o].kind = "install"
  BY <1>1, InstallHasBundle
<1>2. CASE call[o].kind # "install"
  BY <1>2 DEF TypeInv, TypeOK, ControlTypeOK, Call, NoCall, Ext
<1> QED
  BY <1>1, <1>2

LEMMA ReadsAreTyped ==
    ASSUME TypeInv
    PROVE  /\ ReadTrust \subseteq trust /\ ReadTrust \subseteq PinnedKey
           /\ ReadGrants \subseteq grants /\ ReadGrants \subseteq PermissionGrant
           /\ ReadIndex \subseteq index /\ ReadIndex \subseteq InstalledRecord
BY DEF TypeInv, TypeOK, DiskTypeOK, ReadTrust, ReadGrants, ReadIndex

LEMMA EntriesAreTyped ==
    ASSUME TypeInv, NEW o \in Ops, call[o].kind = "install"
    PROVE  /\ [publisher |-> Publisher(o), key |-> b(o).key] \in PinnedKey
           /\ NewGrant(o) \in PermissionGrant
           /\ NewRecord(o) \in InstalledRecord
<1>1. granted[o] \subseteq Perms
  BY DEF TypeInv, TypeOK, ControlTypeOK
<1>2. Publisher(o) \in Publishers
  BY InstallHasBundle, PublisherAssumption DEF Publisher
<1> QED
  BY <1>1, <1>2, InstallHasBundle
  DEF PinnedKey, NewGrant, PermissionGrant, NewRecord, InstalledRecord

-----------------------------------------------------------------------------
(* The shapes of steps.                                                     *)

\* Control point c suits operation o, with f the file it writes.
Suits(o, c, f) ==
    /\ c \in InstallSteps => call[o].kind = "install"
    /\ c \in {"lookup", "remove"} => call[o].kind = "uninstall"
    /\ c = "forget" => call[o].kind = "clear"
    /\ c = "remove" => f = "index"
    /\ c \in {"truncate", "fill"} =>
          f # "none" /\ call[o].kind \in {"install", "uninstall", "clear"}
    /\ c \in {"truncate", "fill"} /\ f = "trust" => call[o].kind = "install"

LEMMA DiskStutter == DiskTypeOK /\ UNCHANGED disk => DiskTypeOK'
BY DEF DiskTypeOK, disk

LEMMA GotoKeepsKinds ==
    ASSUME TypeInv, NEW o \in Ops, NEW from, NEW to \in PcStates, Goto(o, from, to),
           UNCHANGED call, \A u \in Ops : u # o => file'[u] = file[u],
           Suits(o, to, file'[o])
    PROVE  pc' \in [Ops -> PcStates] /\ KindInv'
<1>1. pc' \in [Ops -> PcStates] /\ pc'[o] = to /\ \A u \in Ops : u # o => pc'[u] = pc[u]
  BY DEF TypeInv, TypeOK, ControlTypeOK, Goto
<1>2. KindInv'
  BY <1>1 DEF TypeInv, KindInv, Suits
<1> QED
  BY <1>1, <1>2

\* A step that moves o on and may change the disk.
LEMMA MoveKeepsTypes ==
    ASSUME TypeInv, NEW o \in Ops, NEW from, NEW to \in PcStates, Goto(o, from, to),
           UNCHANGED <<started, call, prior, granted, file, buf, victim, wrote, consented>>,
           Suits(o, to, file[o]), DiskTypeOK'
    PROVE  TypeInv'
<1>1. pc' \in [Ops -> PcStates] /\ KindInv'
  BY GotoKeepsKinds
<1>2. ControlTypeOK'
  BY <1>1 DEF TypeInv, TypeOK, ControlTypeOK
<1>3. TypeOK'
  BY <1>2 DEF TypeInv, TypeOK
<1> QED
  BY <1>1, <1>3 DEF TypeInv

\* A step that has read and changed the contents of file f.
LEMMA WriteKeepsTypes ==
    ASSUME TypeInv, NEW o \in Ops, NEW from, NEW f, NEW data, Write(o, from, f, data),
           UNCHANGED <<disk, started, call, prior, granted, victim, wrote, consented>>,
           \/ f = "trust" /\ data \subseteq PinnedKey /\ call[o].kind = "install"
           \/ /\ f = "grants"
              /\ data \subseteq PermissionGrant
              /\ call[o].kind \in {"install", "clear"}
           \/ f = "index" /\ data \subseteq InstalledRecord /\ call[o].kind = "install"
    PROVE  TypeInv'
<1>1. file' = [file EXCEPT ![o] = f] /\ buf' = [buf EXCEPT ![o] = data]
      /\ Goto(o, from, "truncate")
  BY DEF Write
<1>2. data \in Contents
  BY DEF Contents
<1>3. /\ file' \in [Ops -> {"none", "trust", "grants", "index"}] /\ file'[o] = f
      /\ buf' \in [Ops -> Contents] /\ buf'[o] = data
      /\ \A u \in Ops : u # o => file'[u] = file[u] /\ buf'[u] = buf[u]
  BY <1>1, <1>2 DEF TypeInv, TypeOK, ControlTypeOK
<1>4. pc' \in [Ops -> PcStates] /\ KindInv'
  BY <1>1, <1>3, GotoKeepsKinds DEF Suits, PcStates, Steps, InstallSteps
<1>5. ControlTypeOK'
  BY <1>3, <1>4 DEF TypeInv, TypeOK, ControlTypeOK
<1>6. TypeOK'
  BY <1>3, <1>5, DiskStutter DEF TypeInv, TypeOK
<1> QED
  BY <1>4, <1>6 DEF TypeInv

-----------------------------------------------------------------------------
(* Every step keeps TypeInv.                                                *)

LEMMA InitTypes == Init => TypeInv
<1> SUFFICES ASSUME Init PROVE TypeInv
  OBVIOUS
<1>1. DiskTypeOK
  BY DEF Init, DiskTypeOK
<1>2. ControlTypeOK
  BY OpsAreNumbers DEF Init, ControlTypeOK, PcStates, Contents
<1>3. KindInv
  BY DEF Init, KindInv, InstallSteps
<1> QED
  BY <1>1, <1>2, <1>3 DEF TypeInv, TypeOK, Init

LEMMA BeginTypes ==
    ASSUME TypeInv, NEW o \in Ops, NEW c \in Call, Begin(o, c)
    PROVE  TypeInv'
<1>1. /\ started' = o /\ started' \in 0 .. MaxOps
      /\ call' \in [Ops -> Call \cup {NoCall}] /\ call'[o] = c
      /\ pc' \in [Ops -> PcStates] /\ pc'[o] = FirstStep(c)
      /\ \A u \in Ops : u # o => pc'[u] = pc[u] /\ call'[u] = call[u]
  BY OpsAreNumbers DEF Begin, TypeInv, TypeOK, ControlTypeOK, Ops, FirstStep, PcStates, Steps
<1>2. c.kind \in {"install", "uninstall", "clear"}
  BY DEF Call
<1>3. KindInv'
  BY <1>1, <1>2 DEF TypeInv, KindInv, FirstStep, InstallSteps, Begin
<1>4. UNCHANGED <<prior, granted, file, buf, victim, wrote, consented>> /\ UNCHANGED disk
  BY DEF Begin
<1>5. ControlTypeOK'
  BY <1>1, <1>4 DEF TypeInv, TypeOK, ControlTypeOK
<1>6. TypeOK'
  BY <1>4, <1>5, DiskStutter DEF TypeInv, TypeOK
<1> QED
  BY <1>3, <1>6 DEF TypeInv

LEMMA ConsentTypes ==
    ASSUME TypeInv, NEW o \in Ops, NEW grant, NEW to \in {"prompt", "grant"},
           Consent(o, grant, to), grant \subseteq Perms
    PROVE  TypeInv'
<1>1. call[o].kind = "install"
  BY DEF Consent, Goto, TypeInv, KindInv, InstallSteps
<1>2. Goto(o, "consent", to) /\ UNCHANGED <<started, call, file, buf, victim, wrote, consented>>
      /\ UNCHANGED disk
  BY DEF Consent
<1>3. pc' \in [Ops -> PcStates] /\ KindInv'
  BY <1>1, <1>2, GotoKeepsKinds DEF Suits, PcStates, Steps, InstallSteps
<1>4. PriorGrants(Ext(o)) \subseteq PermissionGrant
  BY ReadsAreTyped DEF PriorGrants
<1>5. prior' \in [Ops -> SUBSET PermissionGrant] /\ granted' \in [Ops -> SUBSET Perms]
  BY <1>4 DEF Consent, TypeInv, TypeOK, ControlTypeOK
<1>6. ControlTypeOK'
  BY <1>2, <1>3, <1>5 DEF TypeInv, TypeOK, ControlTypeOK
<1>7. TypeOK'
  BY <1>2, <1>6, DiskStutter DEF TypeInv, TypeOK
<1> QED
  BY <1>3, <1>7 DEF TypeInv

LEMMA ApproveTypes ==
    ASSUME TypeInv, NEW o \in Ops, Approve(o)
    PROVE  TypeInv'
<1>1. call[o].kind = "install"
  BY DEF Approve, Goto, TypeInv, KindInv, InstallSteps
<1>2. /\ Goto(o, "prompt", "grant")
      /\ UNCHANGED <<started, call, prior, file, buf, victim, wrote>> /\ UNCHANGED disk
      /\ consented' = consented \cup {o}
  BY DEF Approve
<1>3. pc' \in [Ops -> PcStates] /\ KindInv'
  BY <1>1, <1>2, GotoKeepsKinds DEF Suits, PcStates, Steps, InstallSteps
<1>4. granted' \in [Ops -> SUBSET Perms]
  BY DEF Approve, TypeInv, TypeOK, ControlTypeOK
<1>5. ControlTypeOK'
  BY <1>2, <1>3, <1>4 DEF TypeInv, TypeOK, ControlTypeOK
<1>6. TypeOK'
  BY <1>2, <1>5, DiskStutter DEF TypeInv, TypeOK
<1> QED
  BY <1>3, <1>6 DEF TypeInv

LEMMA WriteFileTypes ==
    ASSUME TypeInv, NEW o \in Ops, WriteFile(o)
    PROVE  TypeInv'
<1>1. call[o].kind = "install"
  BY DEF WriteFile, TypeInv, KindInv, InstallSteps
<1>2. Dir(o) \in Dirs /\ wrote[o] + 1 \in 1 .. NumFiles
  BY <1>1, InstallHasBundle, OpsAreNumbers
  DEF Dir, Dirs, WriteFile, TypeInv, TypeOK, ControlTypeOK
<1>3. DiskTypeOK'
  BY <1>2 DEF WriteFile, TypeInv, TypeOK, DiskTypeOK
<1>4. UNCHANGED <<started, call, pc, prior, granted, file, buf, victim, consented>>
  BY DEF WriteFile
<1>5. wrote' \in [Ops -> 0 .. NumFiles]
  BY <1>2, OpsAreNumbers DEF WriteFile, TypeInv, TypeOK, ControlTypeOK
<1>6. ControlTypeOK' /\ KindInv'
  BY <1>4, <1>5 DEF TypeInv, TypeOK, ControlTypeOK, KindInv
<1> QED
  BY <1>3, <1>4, <1>6 DEF TypeInv, TypeOK

LEMMA LookupTypes ==
    ASSUME TypeInv, NEW o \in Ops, Lookup(o)
    PROVE  TypeInv'
<1>1. call[o].kind = "uninstall"
  BY DEF Lookup, Goto, TypeInv, KindInv
<1>2. /\ Goto(o, "lookup", "remove")
      /\ UNCHANGED <<started, call, prior, granted, wrote, consented>> /\ UNCHANGED disk
  BY DEF Lookup
<1>3. OtherRecords(o) \subseteq InstalledRecord
  BY ReadsAreTyped DEF OtherRecords
<1>4. /\ file' \in [Ops -> {"none", "trust", "grants", "index"}] /\ file'[o] = "index"
      /\ buf' \in [Ops -> Contents] /\ buf'[o] = OtherRecords(o)
      /\ \A u \in Ops : u # o => file'[u] = file[u] /\ buf'[u] = buf[u]
  BY <1>3 DEF Lookup, TypeInv, TypeOK, ControlTypeOK, Contents
<1>5. victim' \in [Ops -> SUBSET Versions]
  <2>1. PICK r \in ReadIndex : victim' = [victim EXCEPT ![o] = {r.version}]
    BY DEF Lookup
  <2>2. r.version \in Versions
    BY ReadsAreTyped DEF InstalledRecord
  <2> QED
    BY <2>1, <2>2 DEF TypeInv, TypeOK, ControlTypeOK
<1>6. pc' \in [Ops -> PcStates] /\ KindInv'
  BY <1>1, <1>2, <1>4, GotoKeepsKinds DEF Suits, PcStates, Steps, InstallSteps
<1>7. ControlTypeOK'
  BY <1>2, <1>4, <1>5, <1>6 DEF TypeInv, TypeOK, ControlTypeOK
<1>8. TypeOK'
  BY <1>2, <1>3, <1>4, <1>7, DiskStutter DEF TypeInv, TypeOK
<1> QED
  BY <1>6, <1>8 DEF TypeInv

LEMMA FillTypes ==
    ASSUME TypeInv, NEW o \in Ops, Fill(o)
    PROVE  TypeInv'
<1>1. Goto(o, "fill", AfterWrite(o)) /\ AfterWrite(o) \in {"pin", "clean", "done"}
  BY DEF Fill, AfterWrite
<1>2. UNCHANGED <<files, started, call, prior, granted, file, victim, wrote, consented>>
  BY DEF Fill
<1>3. pc[o] = "fill"
  BY <1>1 DEF Goto
<1>4. AfterWrite(o) \in {"pin", "clean"} => call[o].kind = "install"
  BY <1>3 DEF AfterWrite, TypeInv, KindInv
<1>5. pc' \in [Ops -> PcStates] /\ KindInv'
  BY <1>1, <1>2, <1>4, GotoKeepsKinds DEF Suits, PcStates, Steps, Over, InstallSteps
<1>6. /\ buf' \in [Ops -> Contents] /\ buf'[o] = {}
      /\ \A u \in Ops : u # o => buf'[u] = buf[u]
  BY DEF Fill, TypeInv, TypeOK, ControlTypeOK, Contents
<1>7. DiskTypeOK'
  <2>1. trust' \in SUBSET PinnedKey /\ grants' \in SUBSET PermissionGrant
        /\ index' \in SUBSET InstalledRecord
    BY DEF Fill, TypeInv, TypeOK, DiskTypeOK
  <2>2. torn' \in SUBSET {"trust", "grants", "index"}
    BY DEF Fill, TypeInv, TypeOK, DiskTypeOK
  <2> QED
    BY <1>2, <2>1, <2>2 DEF TypeInv, TypeOK, DiskTypeOK
<1>8. ControlTypeOK'
  BY <1>2, <1>5, <1>6 DEF TypeInv, TypeOK, ControlTypeOK
<1>9. TypeOK'
  BY <1>2, <1>6, <1>7, <1>8 DEF TypeInv, TypeOK
<1> QED
  BY <1>5, <1>9 DEF TypeInv

\* The steps that only move on.
LEMMA MoveTypes ==
    ASSUME TypeInv, NEW o \in Ops,
           \/ RefuseGap(o) \/ Deny(o) \/ RefuseKey(o) \/ AcceptKey(o)
           \/ NothingToClear(o) \/ NotInstalled(o) \/ Abort(o)
    PROVE  TypeInv'
<1>1. UNCHANGED <<disk, started, call, prior, granted, file, buf, victim, wrote, consented>>
  BY DEF RefuseGap, Deny, RefuseKey, AcceptKey, NothingToClear, NotInstalled, Abort
<1>2. DiskTypeOK'
  BY <1>1, DiskStutter DEF TypeInv, TypeOK
<1>3. PICK to \in Over \cup {"clean"} :
        \E from \in PcStates : Goto(o, from, to) /\ (to = "clean" => from = "pin")
  <2>1. CASE Abort(o)
    <3> DEFINE to == IF pc[o] = "fill" THEN "torn" ELSE "aborted"
    <3>1. Goto(o, pc[o], to) /\ pc[o] \in PcStates /\ to \in Over
      BY <2>1 DEF Abort, Goto, Over, PcStates
    <3> QED
      BY <3>1 DEF Over
  <2>2. CASE RefuseGap(o) \/ Deny(o) \/ RefuseKey(o) \/ NothingToClear(o) \/ NotInstalled(o)
    BY <2>2 DEF RefuseGap, Deny, RefuseKey, NothingToClear, NotInstalled, Over,
                PcStates, Steps, Goto
  <2>3. CASE AcceptKey(o)
    BY <2>3 DEF AcceptKey, PcStates, Steps
  <2> QED
    BY <2>1, <2>2, <2>3
<1>4. Suits(o, to, file[o])
  BY <1>3 DEF Suits, Over, InstallSteps, TypeInv, KindInv, Goto
<1>5. to \in PcStates
  BY <1>3 DEF PcStates, Over, Steps
<1> QED
  BY <1>1, <1>2, <1>3, <1>4, <1>5, MoveKeepsTypes

\* The steps that also change a directory or truncate a file.
LEMMA DiskTypes ==
    ASSUME TypeInv, NEW o \in Ops, CleanDir(o) \/ RemoveDir(o) \/ Truncate(o)
    PROVE  TypeInv'
<1>1. UNCHANGED <<started, call, prior, granted, file, buf, victim, wrote, consented>>
  BY DEF CleanDir, RemoveDir, Truncate
<1>2. CASE CleanDir(o)
  <2>1. Goto(o, "clean", "unpack") /\ call[o].kind = "install"
    BY <1>2 DEF CleanDir, Goto, TypeInv, KindInv, InstallSteps
  <2>2. DiskTypeOK'
    BY <1>2 DEF CleanDir, TypeInv, TypeOK, DiskTypeOK
  <2> QED
    BY <1>1, <2>1, <2>2, MoveKeepsTypes DEF Suits, PcStates, Steps
<1>3. CASE RemoveDir(o)
  <2>1. /\ Goto(o, "remove", "truncate") /\ call[o].kind = "uninstall"
    BY <1>3 DEF RemoveDir, Goto, TypeInv, KindInv
  <2>2. DiskTypeOK'
    BY <1>3 DEF RemoveDir, TypeInv, TypeOK, DiskTypeOK
  <2>3. file[o] = "index"
    BY <1>3 DEF RemoveDir, Goto, TypeInv, KindInv
  <2> QED
    BY <1>1, <2>1, <2>2, <2>3, MoveKeepsTypes DEF Suits, PcStates, Steps, InstallSteps
<1>4. CASE Truncate(o)
  <2>1. Goto(o, "truncate", "fill")
    BY <1>4 DEF Truncate
  <2>2. DiskTypeOK'
    <3>1. file[o] \in {"trust", "grants", "index"}
      BY <2>1 DEF Goto, TypeInv, TypeOK, ControlTypeOK, KindInv
    <3> QED
      BY <1>4, <3>1 DEF Truncate, TypeInv, TypeOK, DiskTypeOK
  <2>3. Suits(o, "fill", file[o])
    BY <2>1 DEF Goto, Suits, TypeInv, KindInv, InstallSteps
  <2> QED
    BY <1>1, <2>1, <2>2, <2>3, MoveKeepsTypes DEF PcStates, Steps
<1> QED
  BY <1>2, <1>3, <1>4

\* What a step of each kind writes into a file has the type of that file.
LEMMA ContentsTypes ==
    ASSUME TypeInv, NEW o \in Ops,
           SetGrant(o) \/ ClearGrant(o) \/ PinKey(o) \/ ListInstall(o)
    PROVE  TypeInv'
<1>1. UNCHANGED <<disk, started, call, prior, granted, victim, wrote, consented>>
  BY DEF SetGrant, ClearGrant, PinKey, ListInstall
<1>2. CASE SetGrant(o)
  <2>1. /\ call[o].kind = "install"
        /\ Write(o, "grant", "grants", OtherGrants(Ext(o)) \cup {NewGrant(o)})
    BY <1>2 DEF SetGrant, Write, Goto, TypeInv, KindInv, InstallSteps
  <2>2. OtherGrants(Ext(o)) \cup {NewGrant(o)} \subseteq PermissionGrant
    BY <2>1, ReadsAreTyped, EntriesAreTyped DEF OtherGrants
  <2> QED
    BY <1>1, <2>1, <2>2, WriteKeepsTypes
<1>3. CASE ClearGrant(o)
  <2>1. call[o].kind = "clear" /\ Write(o, "forget", "grants", OtherGrants(Ext(o)))
    BY <1>3 DEF ClearGrant, Write, Goto, TypeInv, KindInv
  <2>2. OtherGrants(Ext(o)) \subseteq PermissionGrant
    BY ReadsAreTyped DEF OtherGrants
  <2> QED
    BY <1>1, <2>1, <2>2, WriteKeepsTypes
<1>4. CASE PinKey(o)
  <2> DEFINE pin == [publisher |-> Publisher(o), key |-> b(o).key]
  <2>1. call[o].kind = "install" /\ Write(o, "pin", "trust", ReadTrust \cup {pin})
    BY <1>4 DEF PinKey, Write, Goto, TypeInv, KindInv, InstallSteps
  <2>2. ReadTrust \cup {pin} \subseteq PinnedKey
    BY <2>1, ReadsAreTyped, EntriesAreTyped
  <2> QED
    BY <1>1, <2>1, <2>2, WriteKeepsTypes
<1>5. CASE ListInstall(o)
  <2>1. call[o].kind = "install"
        /\ Write(o, "unpack", "index", OtherRecords(o) \cup {NewRecord(o)})
    BY <1>5 DEF ListInstall, Write, Goto, TypeInv, KindInv, InstallSteps
  <2>2. OtherRecords(o) \cup {NewRecord(o)} \subseteq InstalledRecord
    BY <2>1, ReadsAreTyped, EntriesAreTyped DEF OtherRecords
  <2> QED
    BY <1>1, <2>1, <2>2, WriteKeepsTypes
<1> QED
  BY <1>2, <1>3, <1>4, <1>5

\* An install decides without asking, or asks.
LEMMA DecisionTypes ==
    ASSUME TypeInv, NEW o \in Ops, GrantAmbient(o) \/ GrantPrior(o) \/ AskUser(o)
    PROVE  TypeInv'
<1>1. b(o).perms \subseteq Perms
  BY InstallHasBundle
  DEF GrantAmbient, GrantPrior, AskUser, Consent, Goto, TypeInv, KindInv, InstallSteps
<1>2. CASE GrantAmbient(o)
  BY <1>1, <1>2, ConsentTypes DEF GrantAmbient
<1>3. CASE GrantPrior(o)
  <2>1. PICK g \in PriorGrants(Ext(o)) : Consent(o, KeepPrior(o, g), "grant")
    BY <1>3 DEF GrantPrior
  <2> QED
    BY <1>1, <2>1, ConsentTypes DEF KeepPrior
<1>4. CASE AskUser(o)
  BY <1>4, ConsentTypes DEF AskUser
<1> QED
  BY <1>2, <1>3, <1>4

LEMMA NextTypes == TypeInv /\ [Next]_vars => TypeInv'
<1> SUFFICES ASSUME TypeInv, [Next]_vars PROVE TypeInv'
  OBVIOUS
<1>1. CASE UNCHANGED vars
  <2>1. DiskTypeOK'
    BY <1>1, DiskStutter DEF vars, TypeInv, TypeOK
  <2>2. ControlTypeOK' /\ KindInv'
    BY <1>1 DEF vars, control, TypeInv, TypeOK, ControlTypeOK, KindInv
  <2> QED
    BY <1>1, <2>1, <2>2 DEF vars, control, TypeInv, TypeOK
<1>2. ASSUME NEW o \in Ops, NEW c \in Call, Begin(o, c) PROVE TypeInv'
  BY <1>2, BeginTypes
<1>3. ASSUME NEW o \in Ops, InstallStep(o) PROVE TypeInv'
  BY <1>3, MoveTypes, DecisionTypes, ApproveTypes, ContentsTypes, DiskTypes, WriteFileTypes
  DEF InstallStep
<1>4. ASSUME NEW o \in Ops,
             UninstallStep(o) \/ ClearStep(o) \/ Truncate(o) \/ Fill(o) \/ Abort(o)
      PROVE  TypeInv'
  BY <1>4, MoveTypes, LookupTypes, DiskTypes, ContentsTypes, FillTypes
  DEF UninstallStep, ClearStep
<1>5. CASE Finished
  BY <1>1, <1>5 DEF Finished
<1> QED
  BY <1>1, <1>2, <1>3, <1>4, <1>5 DEF Next

LEMMA TypesHold == Spec => []TypeInv
<1> QED
  BY InitTypes, NextTypes, PTL DEF Spec

\* The files of the store and the operations on them keep their types: what an
\* operation is about to write into a file are entries of that very file, for
\* any operations at once (store.ts, grants.ts, installer.ts).
THEOREM StoreTypeCorrect == Spec => []TypeOK
<1>1. TypeInv => TypeOK
  BY DEF TypeInv
<1> QED
  BY <1>1, TypesHold, PTL

-----------------------------------------------------------------------------
(* ConsentBacked and ShownBeforeInstalled.  Neither is inductive: a record  *)
(* comes from an install that decided some steps ago, a decision may reuse  *)
(* a grant, and a grant is what some operation once wrote.  So ConsentInv   *)
(* says the same of all places a decision passes through: the files, what   *)
(* is about to be written, and the installs that have decided.              *)

\* The user was shown the sensitive ones of perms for e, and granted those of S.
Backed(e, perms, S) ==
    /\ S \subseteq perms
    /\ GrantedAtPrompt(e, S)
    /\ perms \cap Sensitive \subseteq Shown(e)

Grants(G)  == \A g \in G : Backed(g.ext, g.seen, g.granted)
Records(R) == \A r \in R : Backed(r.ext, r.perms, r.granted)

Decided(o) == /\ call[o].kind = "install"
              /\ pc[o] \in {"grant", "pin", "clean", "unpack", "truncate", "fill"}

DecisionInv == \A o \in Ops : Decided(o) => Backed(Ext(o), b(o).perms, granted[o])

\* What is remembered of a prompt is that of an install that has passed it.
PromptInv ==
    /\ \A o \in consented : pc[o] \notin {"none", "consent", "prompt"}
    /\ \A o \in Ops : o > started => pc[o] = "none"

BufferInv ==
    \A o \in Ops : /\ file[o] = "grants" => Grants(buf[o])
                   /\ file[o] = "index" => Records(buf[o])

ConsentInv == Grants(grants) /\ Records(index) /\ BufferInv /\ DecisionInv /\ PromptInv

LEMMA InitConsent == Init => ConsentInv
BY DEF Init, ConsentInv, Grants, Records, BufferInv, DecisionInv, Decided, PromptInv

-----------------------------------------------------------------------------
(* What a step of operation o keeps.                                        *)

\* Prompts answered so far are not forgotten or changed.
Remembers ==
    /\ consented \subseteq consented'
    /\ \A o \in consented : call'[o] = call[o] /\ granted'[o] = granted[o]

LEMMA BackedIsStable ==
    ASSUME Remembers, NEW e, NEW perms, NEW S, Backed(e, perms, S)
    PROVE  Backed(e, perms, S)'
<1>1. \A o \in consented : o \in consented' /\ (b(o)' = b(o)) /\ (Ext(o)' = Ext(o))
  BY DEF Remembers, b, Ext
<1>2. GrantedAtPrompt(e, S)'
  BY <1>1 DEF Remembers, Backed, GrantedAtPrompt, Consented
<1>3. Shown(e) \subseteq Shown(e)'
  BY <1>1 DEF Shown, Consented
<1> QED
  BY <1>2, <1>3 DEF Backed

LEMMA ListsAreStable ==
    ASSUME Remembers
    PROVE  /\ \A G : Grants(G) => Grants(G)'
           /\ \A R : Records(R) => Records(R)'
BY BackedIsStable DEF Grants, Records

\* Only o moves, and what has been decided is not changed.
Moves(o) ==
    /\ UNCHANGED <<call, started>>
    /\ \A u \in Ops : u # o => pc'[u] = pc[u] /\ granted'[u] = granted[u]
    /\ pc[o] # "none" /\ pc'[o] \notin {"none", "consent", "prompt"}

LEMMA MoveConsent ==
    ASSUME ConsentInv, TypeInv, Remembers, NEW o \in Ops, Moves(o),
           consented' \subseteq consented \cup {o},
           Decided(o)' => \/ Decided(o) /\ granted'[o] = granted[o]
                          \/ Backed(Ext(o), b(o).perms, granted[o])'
    PROVE  DecisionInv' /\ PromptInv'
<1>1. consented \subseteq Ops
  BY DEF TypeInv, TypeOK
<1>2. PromptInv'
  BY <1>1 DEF Moves, ConsentInv, PromptInv
<1>3. ASSUME NEW u \in Ops, Decided(u)'
      PROVE  Backed(Ext(u), b(u).perms, granted[u])'
  <2>1. Ext(u)' = Ext(u) /\ b(u)' = b(u)
    BY DEF Moves, Ext, b
  <2>2. CASE Decided(u) /\ granted'[u] = granted[u]
    <3>1. Backed(Ext(u), b(u).perms, granted[u])
      BY <2>2 DEF ConsentInv, DecisionInv
    <3> DEFINE e == Ext(u)  p == b(u).perms  S == granted[u]
    <3> QED
      BY <2>1, <2>2, <3>1, BackedIsStable
  <2>3. CASE u # o
    BY <1>3, <2>2, <2>3 DEF Moves, Decided
  <2>4. CASE u = o
    BY <1>3, <2>2, <2>4
  <2> QED
    BY <2>3, <2>4
<1> QED
  BY <1>2, <1>3 DEF DecisionInv

LEMMA GotoMoves ==
    ASSUME TypeInv, NEW o \in Ops, NEW from, NEW to, Goto(o, from, to)
    PROVE  pc[o] = from /\ pc'[o] = to /\ \A u \in Ops : u # o => pc'[u] = pc[u]
BY DEF TypeInv, TypeOK, ControlTypeOK, Goto

\* A step that touches neither the decisions nor grants.json and installed.json.
LEMMA QuietStep ==
    ASSUME ConsentInv, TypeInv, NEW o \in Ops,
           UNCHANGED <<grants, index, file, buf, call, granted, consented, started>>,
           \A u \in Ops : u # o => pc'[u] = pc[u],
           pc[o] # "none" /\ pc'[o] \notin {"none", "consent", "prompt"},
           Decided(o)' => Decided(o)
    PROVE  ConsentInv'
<1>1. Remembers
  BY DEF Remembers
<1>2. Moves(o)
  BY DEF Moves
<1>3. DecisionInv' /\ PromptInv'
  BY <1>1, <1>2, MoveConsent
<1>4. Grants(grants)' /\ Records(index)'
  BY <1>1, BackedIsStable DEF ConsentInv, Grants, Records
<1>5. BufferInv'
  BY <1>1, BackedIsStable DEF ConsentInv, BufferInv, Grants, Records
<1> QED
  BY <1>3, <1>4, <1>5 DEF ConsentInv

\* A step that prepares to write data into file f.
LEMMA BufferStep ==
    ASSUME ConsentInv, TypeInv, NEW o \in Ops, NEW f, NEW data,
           f = "grants" => Grants(data), f = "index" => Records(data),
           file' = [file EXCEPT ![o] = f], buf' = [buf EXCEPT ![o] = data],
           UNCHANGED <<grants, index, call, granted, consented, started>>,
           \A u \in Ops : u # o => pc'[u] = pc[u],
           pc[o] # "none" /\ pc'[o] \notin {"none", "consent", "prompt"},
           Decided(o)' => Decided(o)
    PROVE  ConsentInv'
<1>1. Remembers
  BY DEF Remembers
<1>2. Moves(o)
  BY DEF Moves
<1>3. DecisionInv' /\ PromptInv'
  BY <1>1, <1>2, MoveConsent
<1>4. Grants(grants)' /\ Records(index)'
  BY <1>1, BackedIsStable DEF ConsentInv, Grants, Records
<1>5. ASSUME NEW u \in Ops
      PROVE  /\ file'[u] = "grants" => Grants(buf[u])'
             /\ file'[u] = "index" => Records(buf[u])'
  <2>1. /\ u = o => file'[u] = f /\ buf'[u] = data
        /\ u # o => file'[u] = file[u] /\ buf'[u] = buf[u]
    BY DEF TypeInv, TypeOK, ControlTypeOK
  <2>2. CASE u = o
    BY <1>1, <2>1, <2>2, BackedIsStable DEF Grants, Records
  <2>3. CASE u # o
    BY <1>1, <2>1, <2>3, BackedIsStable DEF ConsentInv, BufferInv, Grants, Records
  <2> QED
    BY <2>2, <2>3
<1>6. BufferInv'
  BY <1>5 DEF BufferInv
<1> QED
  BY <1>3, <1>4, <1>6 DEF ConsentInv

-----------------------------------------------------------------------------
(* Every step keeps ConsentInv.                                             *)

LEMMA BeginConsent ==
    ASSUME ConsentInv, TypeInv, NEW o \in Ops, NEW c \in Call, Begin(o, c)
    PROVE  ConsentInv'
<1>1. /\ started' = o /\ o = started + 1 /\ started \in Nat
      /\ UNCHANGED <<grants, index, file, buf, granted, consented>>
      /\ pc'[o] = FirstStep(c)
      /\ \A u \in Ops : u # o => pc'[u] = pc[u] /\ call'[u] = call[u]
  BY OpsAreNumbers DEF Begin, disk, TypeInv, TypeOK, ControlTypeOK
<1>2. pc[o] = "none" /\ o \notin consented
  BY <1>1, OpsAreNumbers DEF ConsentInv, PromptInv
<1>3. Remembers
  BY <1>1, <1>2 DEF Remembers, TypeInv, TypeOK
<1>4. Grants(grants)' /\ Records(index)' /\ BufferInv'
  BY <1>1, <1>3, BackedIsStable DEF ConsentInv, BufferInv, Grants, Records
<1>5. PromptInv'
  BY <1>1, <1>2, OpsAreNumbers DEF ConsentInv, PromptInv, TypeInv, TypeOK
<1>6. ASSUME NEW u \in Ops, Decided(u)'
      PROVE  Backed(Ext(u), b(u).perms, granted[u])'
  <2>1. u # o
    BY <1>1, <1>6 DEF Decided, FirstStep
  <2>2. Decided(u) /\ Ext(u)' = Ext(u) /\ b(u)' = b(u) /\ granted'[u] = granted[u]
    BY <1>1, <1>6, <2>1 DEF Decided, Ext, b
  <2> QED
    BY <1>3, <2>2, BackedIsStable DEF ConsentInv, DecisionInv
<1> QED
  BY <1>4, <1>5, <1>6 DEF ConsentInv, DecisionInv

\* An install that decides, by itself or by what the user answers.
LEMMA DecisionStep ==
    ASSUME ConsentInv, TypeInv, NEW o \in Ops, NEW from \in {"consent", "prompt"},
           NEW to \in {"prompt", "grant"}, Goto(o, from, to), Remembers,
           UNCHANGED <<grants, index, file, buf, call, started>>,
           \A u \in Ops : u # o => granted'[u] = granted[u],
           to = "grant" => Backed(Ext(o), b(o).perms, granted[o])',
           consented' \subseteq IF to = "grant" THEN consented \cup {o} ELSE consented
    PROVE  ConsentInv'
<1>1. pc[o] = from /\ pc'[o] = to /\ \A u \in Ops : u # o => pc'[u] = pc[u]
  BY GotoMoves
<1>2. o \notin consented
  BY <1>1 DEF ConsentInv, PromptInv
<1>3. Grants(grants)' /\ Records(index)' /\ BufferInv'
  BY BackedIsStable DEF ConsentInv, BufferInv, Grants, Records
<1>4. PromptInv'
  BY <1>1, <1>2 DEF ConsentInv, PromptInv, TypeInv, TypeOK
<1>5. ASSUME NEW u \in Ops, Decided(u)'
      PROVE  Backed(Ext(u), b(u).perms, granted[u])'
  <2>1. CASE u = o
    BY <1>1, <1>5, <2>1 DEF Decided
  <2>2. CASE u # o
    <3>1. Decided(u) /\ Ext(u)' = Ext(u) /\ b(u)' = b(u) /\ granted'[u] = granted[u]
      BY <1>1, <1>5, <2>2 DEF Decided, Ext, b
    <3> QED
      BY <3>1, BackedIsStable DEF ConsentInv, DecisionInv
  <2> QED
    BY <2>1, <2>2
<1> QED
  BY <1>3, <1>4, <1>5 DEF ConsentInv, DecisionInv

LEMMA ConsentConsent ==
    ASSUME ConsentInv, TypeInv, NEW o \in Ops, NEW grant, NEW to \in {"prompt", "grant"},
           Consent(o, grant, to), to = "grant" => Backed(Ext(o), b(o).perms, grant)
    PROVE  ConsentInv'
<1>1. /\ Goto(o, "consent", to)
      /\ UNCHANGED <<grants, index, file, buf, call, started, consented>>
      /\ granted' = [granted EXCEPT ![o] = grant]
  BY DEF Consent, disk
<1>2. pc[o] = "consent"
  BY <1>1 DEF Goto
<1>3. /\ granted'[o] = grant /\ \A u \in Ops : u # o => granted'[u] = granted[u]
  BY <1>1 DEF TypeInv, TypeOK, ControlTypeOK
<1>4. Remembers
  BY <1>1, <1>2, <1>3 DEF Remembers, ConsentInv, PromptInv, TypeInv, TypeOK
<1>5. Ext(o)' = Ext(o) /\ b(o)' = b(o)
  BY <1>1 DEF Ext, b
<1>6. to = "grant" => Backed(Ext(o), b(o).perms, granted[o])'
  BY <1>3, <1>4, <1>5, BackedIsStable
<1> QED
  BY <1>1, <1>3, <1>4, <1>6, DecisionStep

LEMMA DecideConsent ==
    ASSUME ConsentInv, TypeInv, NEW o \in Ops,
           GrantAmbient(o) \/ GrantPrior(o) \/ AskUser(o)
    PROVE  ConsentInv'
<1>1. CASE GrantAmbient(o)
  <2>1. Backed(Ext(o), b(o).perms, b(o).perms)
    BY <1>1 DEF GrantAmbient, Items, Backed, GrantedAtPrompt
  <2> QED
    BY <1>1, <2>1, ConsentConsent DEF GrantAmbient
<1>2. CASE GrantPrior(o)
  <2>1. PICK g \in PriorGrants(Ext(o)) :
          NothingNew(o, g) /\ Consent(o, KeepPrior(o, g), "grant")
    BY <1>2 DEF GrantPrior
  <2>2. g \in grants /\ g.ext = Ext(o)
    BY <2>1, ReadsAreTyped DEF PriorGrants
  <2>3. Backed(Ext(o), g.seen, g.granted)
    BY <2>2 DEF ConsentInv, Grants
  <2>4. Backed(Ext(o), b(o).perms, KeepPrior(o, g))
    BY <2>1, <2>3 DEF Backed, NothingNew, KeepPrior, GrantedAtPrompt
  <2> QED
    BY <2>1, <2>4, ConsentConsent
<1>3. CASE AskUser(o)
  BY <1>3, ConsentConsent DEF AskUser
<1> QED
  BY <1>1, <1>2, <1>3

LEMMA ApproveConsent ==
    ASSUME ConsentInv, TypeInv, NEW o \in Ops, Approve(o)
    PROVE  ConsentInv'
<1>1. /\ Goto(o, "prompt", "grant")
      /\ UNCHANGED <<grants, index, file, buf, call, started>>
      /\ consented' = consented \cup {o}
  BY DEF Approve, disk
<1>2. PICK raw \in SUBSET Perms : granted' = [granted EXCEPT ![o] = raw \cap b(o).perms]
  BY DEF Approve
<1>3. /\ granted'[o] = raw \cap b(o).perms
      /\ \A u \in Ops : u # o => granted'[u] = granted[u]
  BY <1>2 DEF TypeInv, TypeOK, ControlTypeOK
<1>4. Remembers
  <2>1. o \notin consented
    BY <1>1, GotoMoves DEF ConsentInv, PromptInv
  <2> QED
    BY <1>1, <1>3, <2>1 DEF Remembers, TypeInv, TypeOK
<1>5. Ext(o)' = Ext(o) /\ b(o)' = b(o)
  BY <1>1 DEF Ext, b
<1>6. o \in Consented(Ext(o))'
  BY <1>1, <1>5 DEF Consented
<1>7. Backed(Ext(o), b(o).perms, granted[o])'
  BY <1>3, <1>5, <1>6 DEF Backed, GrantedAtPrompt, Shown
<1> QED
  BY <1>1, <1>3, <1>4, <1>7, DecisionStep

LEMMA FillConsent ==
    ASSUME ConsentInv, TypeInv, NEW o \in Ops, Fill(o)
    PROVE  ConsentInv'
<1>1. /\ Goto(o, "fill", AfterWrite(o)) /\ AfterWrite(o) \in {"pin", "clean", "done"}
      /\ UNCHANGED <<call, granted, file, started, consented>>
      /\ buf' = [buf EXCEPT ![o] = {}]
      /\ grants' = IF file[o] = "grants" THEN buf[o] ELSE grants
      /\ index' = IF file[o] = "index" THEN buf[o] ELSE index
  BY DEF Fill, AfterWrite
<1>2. pc[o] = "fill" /\ pc'[o] = AfterWrite(o) /\ \A u \in Ops : u # o => pc'[u] = pc[u]
  BY <1>1, GotoMoves
<1>3. Remembers
  BY <1>1 DEF Remembers
<1>4. DecisionInv' /\ PromptInv'
  <2>1. Moves(o)
    BY <1>1, <1>2 DEF Moves
  <2>2. Decided(o)' => Decided(o) /\ granted'[o] = granted[o]
    BY <1>1, <1>2 DEF Decided
  <2> QED
    BY <1>1, <1>3, <2>1, <2>2, MoveConsent
<1>5. Grants(grants') /\ Records(index')
  BY <1>1 DEF ConsentInv, BufferInv
<1>6. Grants(grants)' /\ Records(index)'
  BY <1>3, <1>5, BackedIsStable DEF Grants, Records
<1>7. BufferInv'
  <2>1. \A u \in Ops : buf'[u] = buf[u] \/ buf'[u] = {}
    BY <1>1 DEF TypeInv, TypeOK, ControlTypeOK
  <2> QED
    BY <1>1, <1>3, <2>1, BackedIsStable DEF ConsentInv, BufferInv, Grants, Records
<1> QED
  BY <1>4, <1>6, <1>7 DEF ConsentInv

LEMMA QuietConsent ==
    ASSUME ConsentInv, TypeInv, NEW o \in Ops,
           \/ RefuseGap(o) \/ Deny(o) \/ RefuseKey(o) \/ AcceptKey(o) \/ NothingToClear(o)
           \/ NotInstalled(o) \/ CleanDir(o) \/ WriteFile(o) \/ RemoveDir(o)
           \/ Truncate(o) \/ Abort(o)
    PROVE  ConsentInv'
<1>1. UNCHANGED <<grants, index, file, buf, call, granted, consented, started>>
  BY DEF RefuseGap, Deny, RefuseKey, AcceptKey, NothingToClear, NotInstalled, CleanDir,
         WriteFile, RemoveDir, Truncate, Abort, disk
<1>2. \A u \in Ops : u # o => pc'[u] = pc[u]
  BY DEF RefuseGap, Deny, RefuseKey, AcceptKey, NothingToClear, NotInstalled, CleanDir,
         WriteFile, RemoveDir, Truncate, Abort, Goto, TypeInv, TypeOK, ControlTypeOK
<1>3. /\ pc[o] # "none" /\ pc'[o] \notin {"none", "consent", "prompt"}
      /\ Decided(o)' => Decided(o)
  <2>1. CASE RefuseGap(o) \/ Deny(o) \/ RefuseKey(o) \/ NothingToClear(o) \/ NotInstalled(o)
    BY <2>1 DEF RefuseGap, Deny, RefuseKey, NothingToClear, NotInstalled, Goto, Decided,
                TypeInv, TypeOK, ControlTypeOK
  <2>2. CASE AcceptKey(o) \/ CleanDir(o) \/ WriteFile(o) \/ Truncate(o)
    BY <1>1, <2>2 DEF AcceptKey, CleanDir, WriteFile, Truncate, Goto, Decided,
                      TypeInv, TypeOK, ControlTypeOK
  <2>3. CASE RemoveDir(o)
    BY <1>1, <2>3 DEF RemoveDir, Goto, Decided, TypeInv, KindInv, TypeOK, ControlTypeOK
  <2>4. CASE Abort(o)
    BY <2>4 DEF Abort, Steps, Decided, TypeInv, TypeOK, ControlTypeOK
  <2> QED
    BY <2>1, <2>2, <2>3, <2>4
<1> QED
  BY <1>1, <1>2, <1>3, QuietStep

\* The grant, the pin, the record or what is left of them goes into a buffer.
LEMMA WriteConsent ==
    ASSUME ConsentInv, TypeInv, NEW o \in Ops, NEW from, NEW f, NEW data,
           Write(o, from, f, data), from # "none",
           from \in {"grant", "pin", "unpack"} \/ call[o].kind # "install",
           f = "grants" => Grants(data), f = "index" => Records(data),
           UNCHANGED <<grants, index, call, granted, consented, started>>
    PROVE  ConsentInv'
<1>1. /\ Goto(o, from, "truncate")
      /\ file' = [file EXCEPT ![o] = f] /\ buf' = [buf EXCEPT ![o] = data]
  BY DEF Write
<1>2. pc[o] = from /\ pc'[o] = "truncate" /\ \A u \in Ops : u # o => pc'[u] = pc[u]
  BY <1>1, GotoMoves
<1>3. Decided(o)' => Decided(o)
  BY <1>2 DEF Decided
<1> QED
  BY <1>1, <1>2, <1>3, BufferStep

LEMMA StoredConsent ==
    ASSUME ConsentInv, TypeInv, NEW o \in Ops,
           SetGrant(o) \/ ClearGrant(o) \/ PinKey(o) \/ ListInstall(o)
    PROVE  ConsentInv'
<1>1. UNCHANGED <<grants, index, call, granted, consented, started>>
  BY DEF SetGrant, ClearGrant, PinKey, ListInstall, disk
<1>2. CASE SetGrant(o)
  <2>1. Write(o, "grant", "grants", OtherGrants(Ext(o)) \cup {NewGrant(o)})
    BY <1>2 DEF SetGrant
  <2>2. Decided(o)
    BY <2>1 DEF Write, Goto, Decided, TypeInv, KindInv, InstallSteps
  <2>3. Grants(OtherGrants(Ext(o)) \cup {NewGrant(o)})
    BY <2>2, ReadsAreTyped
    DEF ConsentInv, DecisionInv, Grants, OtherGrants, NewGrant
  <2> QED
    BY <1>1, <2>1, <2>3, WriteConsent
<1>3. CASE ClearGrant(o)
  <2>1. Write(o, "forget", "grants", OtherGrants(Ext(o)))
    BY <1>3 DEF ClearGrant
  <2>2. call[o].kind # "install"
    BY <2>1 DEF Write, Goto, TypeInv, KindInv
  <2>3. Grants(OtherGrants(Ext(o)))
    BY ReadsAreTyped DEF ConsentInv, Grants, OtherGrants
  <2> QED
    BY <1>1, <2>1, <2>2, <2>3, WriteConsent
<1>4. CASE PinKey(o)
  BY <1>1, <1>4, WriteConsent DEF PinKey
<1>5. CASE ListInstall(o)
  <2>1. Write(o, "unpack", "index", OtherRecords(o) \cup {NewRecord(o)})
    BY <1>5 DEF ListInstall
  <2>2. Decided(o)
    BY <2>1 DEF Write, Goto, Decided, TypeInv, KindInv, InstallSteps
  <2>3. Records(OtherRecords(o) \cup {NewRecord(o)})
    BY <2>2, ReadsAreTyped
    DEF ConsentInv, DecisionInv, Records, OtherRecords, NewRecord
  <2> QED
    BY <1>1, <2>1, <2>3, WriteConsent
<1> QED
  BY <1>2, <1>3, <1>4, <1>5

LEMMA LookupConsent ==
    ASSUME ConsentInv, TypeInv, NEW o \in Ops, Lookup(o)
    PROVE  ConsentInv'
<1>1. /\ Goto(o, "lookup", "remove")
      /\ file' = [file EXCEPT ![o] = "index"]
      /\ buf' = [buf EXCEPT ![o] = OtherRecords(o)]
      /\ UNCHANGED <<grants, index, call, granted, consented, started>>
  BY DEF Lookup, disk
<1>2. pc[o] = "lookup" /\ pc'[o] = "remove" /\ \A u \in Ops : u # o => pc'[u] = pc[u]
  BY <1>1, GotoMoves
<1>3. Records(OtherRecords(o))
  BY ReadsAreTyped DEF ConsentInv, Records, OtherRecords
<1>4. ~Decided(o)'
  BY <1>2 DEF Decided
<1> QED
  BY <1>1, <1>2, <1>3, <1>4, BufferStep

LEMMA NextConsent == ConsentInv /\ TypeInv /\ [Next]_vars => ConsentInv'
<1> SUFFICES ASSUME ConsentInv, TypeInv, [Next]_vars PROVE ConsentInv'
  OBVIOUS
<1>1. CASE UNCHANGED vars
  <2>1. Remembers
    BY <1>1 DEF vars, control, Remembers
  <2>2. Grants(grants)' /\ Records(index)' /\ BufferInv'
    BY <1>1, <2>1, BackedIsStable
    DEF vars, control, disk, ConsentInv, BufferInv, Grants, Records
  <2>3. PromptInv'
    BY <1>1 DEF vars, control, ConsentInv, PromptInv
  <2>4. ASSUME NEW u \in Ops, Decided(u)'
        PROVE  Backed(Ext(u), b(u).perms, granted[u])'
    <3>1. Decided(u) /\ Ext(u)' = Ext(u) /\ b(u)' = b(u) /\ granted'[u] = granted[u]
      BY <1>1, <2>4 DEF vars, control, Decided, Ext, b
    <3> QED
      BY <2>1, <3>1, BackedIsStable DEF ConsentInv, DecisionInv
  <2> QED
    BY <2>2, <2>3, <2>4 DEF ConsentInv, DecisionInv
<1>2. ASSUME NEW o \in Ops, NEW c \in Call, Begin(o, c) PROVE ConsentInv'
  BY <1>2, BeginConsent
<1>3. ASSUME NEW o \in Ops, InstallStep(o) PROVE ConsentInv'
  BY <1>3, QuietConsent, DecideConsent, ApproveConsent, StoredConsent DEF InstallStep
<1>4. ASSUME NEW o \in Ops,
             UninstallStep(o) \/ ClearStep(o) \/ Truncate(o) \/ Fill(o) \/ Abort(o)
      PROVE  ConsentInv'
  BY <1>4, QuietConsent, LookupConsent, StoredConsent, FillConsent
  DEF UninstallStep, ClearStep
<1>5. CASE Finished
  BY <1>1, <1>5 DEF Finished
<1> QED
  BY <1>1, <1>2, <1>3, <1>4, <1>5 DEF Next

LEMMA ConsentHolds == Spec => []ConsentInv
<1> QED
  BY InitConsent, NextConsent, TypesHold, PTL DEF Spec

-----------------------------------------------------------------------------
(* Theorems.                                                                *)

\* No sensitive permission is stored or recorded for an extension that its user
\* did not grant to it at a prompt, whatever operations run at once and wherever
\* they are cut off (finishInstallWithConsent, Grants.set, Store.install).
THEOREM ConsentBackedHolds == Spec => []ConsentBacked
<1>1. ConsentInv => ConsentBacked
  BY DEF ConsentInv, Grants, Records, Backed, ConsentBacked
<1> QED
  BY <1>1, ConsentHolds, PTL

\* Nothing is installed with a sensitive permission the user was never shown for
\* that extension, with the same generality (addedPermissions and the prompt of
\* finishInstallWithConsent).
THEOREM ShownBeforeInstalledHolds == Spec => []ShownBeforeInstalled
<1>1. ConsentInv => ShownBeforeInstalled
  BY DEF ConsentInv, Records, Backed, ShownBeforeInstalled
<1> QED
  BY <1>1, ConsentHolds, PTL

-----------------------------------------------------------------------------
(* Operations that run one at a time.                                       *)

Writing(o, f) == pc[o] \in {"truncate", "fill"} /\ file[o] = f

\* The last operation begun is the only one that may still run.
OrderInv ==
    /\ \A o \in Ops : o > started => pc[o] = "none" /\ o \notin consented /\ wrote[o] = 0
    /\ \A o \in Ops : o < started => pc[o] \in Over
    /\ \A o \in Ops : o = started => pc[o] # "none"
    /\ \A o \in consented : call[o].kind = "install"

\* A file that does not parse is being written, or was when its writer was cut off.
TornInv ==
    \A f \in torn : \E o \in Ops : file[o] = f /\ pc[o] \in {"fill", "torn"}

\* How far an install has got.
HasGrant(o) == /\ call[o].kind = "install"
               /\ \/ pc[o] \in {"pin", "clean", "unpack", "done", "refused_key"}
                  \/ Writing(o, "trust") \/ Writing(o, "index")
HasPin(o)   == pc[o] \in {"clean", "unpack", "done"} \/ Writing(o, "index")
HasFiles(o) == pc[o] = "done" \/ Writing(o, "index")
Rewrites(o) == pc[o] = "remove" \/ Writing(o, "index")

InstallPin(o) == [publisher |-> Publisher(o), key |-> b(o).key]
RecordPin(r)  == [publisher |-> PublisherOf[r.ext], key |-> r.key]

\* What the last install has done so far is there, whatever it found.
Unstarted(o) ==
    \/ pc[o] \in {"none", "consent", "prompt", "grant", "pin", "clean"}
    \/ Writing(o, "grants") \/ Writing(o, "trust")
GrantProgress(o) ==
    /\ Writing(o, "grants") => {g \in buf[o] : g.ext = Ext(o)} = {NewGrant(o)}
    /\ HasGrant(o) => PriorGrants(Ext(o)) = {NewGrant(o)}
PinProgress(o) ==
    /\ Writing(o, "trust") =>
          {p \in buf[o] : p.publisher = Publisher(o)} = {InstallPin(o)}
    /\ HasPin(o) => Pins(o) = {InstallPin(o)}
FilesProgress(o) ==
    /\ Unstarted(o) => wrote[o] = 0
    /\ pc[o] = "unpack" => files[Dir(o)] = 1 .. wrote[o]
    /\ HasFiles(o) => files[Dir(o)] = 1 .. NumFiles
IndexProgress(o) ==
    /\ Writing(o, "index") => {r \in buf[o] : r.ext = Ext(o)} = {NewRecord(o)}
    /\ pc[o] = "done" => {r \in ReadIndex : r.ext = Ext(o)} = {NewRecord(o)}

ProgressInv ==
    \A o \in Ops : (o = started /\ call[o].kind = "install") =>
        GrantProgress(o) /\ PinProgress(o) /\ FilesProgress(o) /\ IndexProgress(o)

\* One key is pinned for a publisher, and every record has it.
KeysOf(o) ==
    /\ pc[o] \in {"clean", "unpack"} => InstallPin(o) \in trust
    /\ Writing(o, "trust") =>
          /\ buf[o] = trust \cup {InstallPin(o)}
          /\ \A p \in trust : p.publisher # Publisher(o)
    /\ Rewrites(o) => \A r \in buf[o] : RecordPin(r) \in trust
KeysInv ==
    /\ \A p, q \in trust : p.publisher = q.publisher => p = q
    /\ \A r \in index : RecordPin(r) \in trust
    /\ \A o \in Ops : KeysOf(o)

\* The last install of an extension that finished is in the index.
LastDone(o) == \A u \in Completed(Ext(o)) : u <= o
KeptInv ==
    \A o \in Ops :
        /\ (pc[o] = "done" /\ call[o].kind = "install" /\ LastDone(o)) =>
              NewRecord(o) \in index
        /\ Rewrites(o) => \A r \in index : r.ext # Ext(o) => r \in buf[o]
        /\ Writing(o, "index") /\ call[o].kind = "install" => NewRecord(o) \in buf[o]

\* No stored or coming grant exceeds the last decision that was stored.
LastAsked(o) == \A u \in Consented(Ext(o)) : u <= o
Within(o, S) == S \cap Sensitive \subseteq granted[o]
LatestOf(u) ==
    /\ pc[u] = "grant" => \A o \in Consented(Ext(u)) :
          LastAsked(o) /\ (o = u \/ HasGrant(o)) => Within(o, granted[u])
    /\ Writing(u, "grants") => \A g \in buf[u] : \A o \in Consented(g.ext) :
          LastAsked(o) /\ (o = u \/ HasGrant(o)) => Within(o, g.granted)
LatestInv ==
    /\ \A g \in grants : \A o \in Consented(g.ext) :
          LastAsked(o) /\ HasGrant(o) => Within(o, g.granted)
    /\ \A u \in Ops : LatestOf(u)

\* Every record has its files, unless the operation that will replace it is at them.
FilesInv ==
    /\ \A r \in index :
          \/ files[<<r.ext, r.version>>] = 1 .. NumFiles
          \/ \E o \in Ops : Ext(o) = r.ext /\ (pc[o] = "unpack" \/ Writing(o, "index"))
    /\ \A o \in Ops : Rewrites(o) => \A r \in buf[o] :
          (r \in index /\ r.ext # Ext(o)) \/ (call[o].kind = "install" /\ r = NewRecord(o))

Uncut == \A o \in Ops : pc[o] \notin {"aborted", "torn"}

SerialInv ==
    Serial =>
        /\ OrderInv /\ TornInv /\ ProgressInv
        /\ Intact => KeysInv /\ KeptInv /\ LatestInv
        /\ Uncut => FilesInv

-----------------------------------------------------------------------------
(* One operation at a time.                                                 *)

StepOf(o) ==
    InstallStep(o) \/ UninstallStep(o) \/ ClearStep(o) \/ Truncate(o) \/ Fill(o) \/ Abort(o)

\* The steps that only move on, those that decide, and those that have read a
\* file and are about to write it.
Moving(o)    == \/ RefuseGap(o) \/ Deny(o) \/ RefuseKey(o) \/ AcceptKey(o)
                \/ NothingToClear(o) \/ NotInstalled(o) \/ Abort(o)
Deciding(o)  == GrantAmbient(o) \/ GrantPrior(o) \/ AskUser(o) \/ Approve(o)
Preparing(o) == SetGrant(o) \/ ClearGrant(o) \/ PinKey(o) \/ ListInstall(o) \/ Lookup(o)
Storing(o)   == CleanDir(o) \/ WriteFile(o) \/ RemoveDir(o)

LEMMA StepKinds ==
    ASSUME NEW o, StepOf(o)
    PROVE  Moving(o) \/ Deciding(o) \/ Preparing(o) \/ Storing(o) \/ Truncate(o) \/ Fill(o)
BY DEF StepOf, InstallStep, UninstallStep, ClearStep, Moving, Deciding, Preparing, Storing

LEMMA StagesDiffer == Steps \cap Over = {} /\ "none" \notin Steps \cup Over
BY DEF Steps, Over

\* What a step of o leaves alone.
Alone(o) ==
    /\ pc[o] \in Steps /\ pc'[o] # "none"
    /\ UNCHANGED <<call, started>>
    /\ \A u \in Ops : u # o => /\ pc'[u] = pc[u] /\ file'[u] = file[u] /\ buf'[u] = buf[u]
                               /\ granted'[u] = granted[u] /\ wrote'[u] = wrote[u]
    /\ consented \subseteq consented' /\ consented' \subseteq consented \cup {o}

LEMMA MovingAlone ==
    ASSUME TypeInv, NEW o \in Ops, Moving(o)
    PROVE  /\ Alone(o) /\ pc'[o] \in Over \cup {"clean"}
           /\ UNCHANGED <<disk, file, buf, granted, wrote, consented>>
           /\ pc'[o] = "clean" => pc[o] = "pin" /\ AcceptKey(o)
           /\ pc'[o] = "refused_key" => pc[o] = "pin"
           /\ pc'[o] = "done" => pc[o] \in {"lookup", "forget"}
           /\ pc'[o] = "torn" => pc[o] = "fill"
           /\ pc[o] = "fill" => pc'[o] = "torn"
<1>1. UNCHANGED <<disk, started, call, file, buf, granted, wrote, consented>>
  BY DEF Moving, RefuseGap, Deny, RefuseKey, AcceptKey, NothingToClear, NotInstalled, Abort
<1>2. CASE Abort(o)
  <2>1. pc[o] \in Steps /\ pc'[o] = (IF pc[o] = "fill" THEN "torn" ELSE "aborted")
        /\ \A u \in Ops : u # o => pc'[u] = pc[u]
    BY <1>2 DEF Abort, TypeInv, TypeOK, ControlTypeOK
  <2> QED
    BY <1>1, <2>1 DEF Alone, Over
<1>3. CASE ~Abort(o)
  <2>1. \/ Goto(o, "consent", "refused") \/ Goto(o, "prompt", "refused")
        \/ Goto(o, "pin", "refused_key") \/ Goto(o, "forget", "done")
        \/ Goto(o, "lookup", "done") \/ (Goto(o, "pin", "clean") /\ AcceptKey(o))
    BY <1>3 DEF Moving, RefuseGap, Deny, RefuseKey, AcceptKey, NothingToClear, NotInstalled
  <2> QED
    BY <1>1, <2>1, GotoMoves DEF Alone, Over, Steps
<1> QED
  BY <1>2, <1>3

LEMMA DecidingAlone ==
    ASSUME TypeInv, NEW o \in Ops, Deciding(o)
    PROVE  /\ Alone(o) /\ pc[o] \in {"consent", "prompt"} /\ pc'[o] \in {"prompt", "grant"}
           /\ UNCHANGED <<disk, file, buf, wrote>>
           /\ pc'[o] = "prompt" => consented' = consented
<1>1. CASE Approve(o)
  <2>1. Goto(o, "prompt", "grant")
        /\ UNCHANGED <<disk, started, call, file, buf, wrote>>
        /\ consented' = consented \cup {o}
    BY <1>1 DEF Approve
  <2>2. \A u \in Ops : u # o => granted'[u] = granted[u]
    BY <1>1 DEF Approve, TypeInv, TypeOK, ControlTypeOK
  <2> QED
    BY <2>1, <2>2, GotoMoves DEF Alone, Steps
<1>2. CASE ~Approve(o)
  <2>1. PICK to \in {"prompt", "grant"} : \E grant : Consent(o, grant, to)
    BY <1>2 DEF Deciding, GrantAmbient, GrantPrior, AskUser
  <2>2. Goto(o, "consent", to) /\ UNCHANGED <<disk, started, call, file, buf, wrote, consented>>
        /\ \A u \in Ops : u # o => granted'[u] = granted[u]
    BY <2>1 DEF Consent, TypeInv, TypeOK, ControlTypeOK
  <2> QED
    BY <2>2, GotoMoves DEF Alone, Steps
<1> QED
  BY <1>1, <1>2


LEMMA PreparingAlone ==
    ASSUME TypeInv, NEW o \in Ops, Preparing(o)
    PROVE  /\ Alone(o) /\ pc[o] \in {"grant", "forget", "pin", "unpack", "lookup"}
           /\ pc'[o] \in {"truncate", "remove"}
           /\ UNCHANGED <<disk, granted, wrote, consented>>
<1>1. CASE Lookup(o)
  <2>1. /\ Goto(o, "lookup", "remove") /\ UNCHANGED <<disk, started, call, granted, wrote, consented>>
        /\ file' = [file EXCEPT ![o] = "index"] /\ buf' = [buf EXCEPT ![o] = OtherRecords(o)]
    BY <1>1 DEF Lookup
  <2>2. \A u \in Ops : u # o => file'[u] = file[u] /\ buf'[u] = buf[u]
    BY <2>1 DEF TypeInv, TypeOK, ControlTypeOK
  <2> QED
    BY <2>1, <2>2, GotoMoves DEF Alone, Steps
<1>2. CASE ~Lookup(o)
  <2>1. PICK from \in {"grant", "forget", "pin", "unpack"} :
          /\ Goto(o, from, "truncate") /\ UNCHANGED <<disk, started, call, granted, wrote, consented>>
          /\ \E f, data : file' = [file EXCEPT ![o] = f] /\ buf' = [buf EXCEPT ![o] = data]
    BY <1>2 DEF Preparing, SetGrant, ClearGrant, PinKey, ListInstall, Write
  <2>2. \A u \in Ops : u # o => file'[u] = file[u] /\ buf'[u] = buf[u]
    BY <2>1 DEF TypeInv, TypeOK, ControlTypeOK
  <2> QED
    BY <2>1, <2>2, GotoMoves DEF Alone, Steps
<1> QED
  BY <1>1, <1>2

LEMMA StoringAlone ==
    ASSUME TypeInv, NEW o \in Ops, Storing(o)
    PROVE  /\ Alone(o)
           /\ \/ pc[o] = "clean" /\ pc'[o] = "unpack" /\ CleanDir(o)
              \/ pc[o] = "unpack" /\ pc'[o] = "unpack" /\ WriteFile(o)
              \/ pc[o] = "remove" /\ pc'[o] = "truncate" /\ RemoveDir(o)
           /\ UNCHANGED <<trust, grants, index, torn, granted, file, buf, consented>>
<1>1. CASE CleanDir(o)
  BY <1>1, GotoMoves DEF CleanDir, Alone, Steps
<1>2. CASE WriteFile(o)
  <2>1. \A u \in Ops : u # o => wrote'[u] = wrote[u]
    BY <1>2 DEF WriteFile, TypeInv, TypeOK, ControlTypeOK
  <2> QED
    BY <1>2, <2>1 DEF WriteFile, Alone, Steps
<1>3. CASE RemoveDir(o)
  BY <1>3, GotoMoves DEF RemoveDir, Alone, Steps
<1> QED
  BY <1>1, <1>2, <1>3 DEF Storing

LEMMA TruncateAlone ==
    ASSUME TypeInv, NEW o \in Ops, Truncate(o)
    PROVE  /\ Alone(o) /\ pc[o] = "truncate" /\ pc'[o] = "fill"
           /\ torn' = torn \cup {file[o]}
           /\ UNCHANGED <<trust, grants, index, files, granted, file, buf, wrote, consented>>
BY GotoMoves DEF Truncate, Alone, Steps

LEMMA FillAlone ==
    ASSUME TypeInv, NEW o \in Ops, Fill(o)
    PROVE  /\ Alone(o) /\ pc[o] = "fill" /\ pc'[o] = AfterWrite(o)
           /\ torn' = torn \ {file[o]} /\ file[o] \in {"trust", "grants", "index"}
           /\ UNCHANGED <<files, granted, file, wrote, consented>>
           /\ trust'  = IF file[o] = "trust"  THEN buf[o] ELSE trust
           /\ grants' = IF file[o] = "grants" THEN buf[o] ELSE grants
           /\ index'  = IF file[o] = "index"  THEN buf[o] ELSE index
<1>1. Goto(o, "fill", AfterWrite(o)) /\ AfterWrite(o) # "none"
  BY DEF Fill, AfterWrite
<1>2. UNCHANGED <<files, started, call, granted, file, wrote, consented>>
      /\ torn' = torn \ {file[o]} /\ buf' = [buf EXCEPT ![o] = {}]
      /\ trust'  = (IF file[o] = "trust"  THEN buf[o] ELSE trust)
      /\ grants' = (IF file[o] = "grants" THEN buf[o] ELSE grants)
      /\ index'  = (IF file[o] = "index"  THEN buf[o] ELSE index)
  BY DEF Fill
<1>3. \A u \in Ops : u # o => buf'[u] = buf[u]
  BY <1>2 DEF TypeInv, TypeOK, ControlTypeOK
<1>4. pc[o] = "fill" /\ pc'[o] = AfterWrite(o) /\ \A u \in Ops : u # o => pc'[u] = pc[u]
  BY <1>1, GotoMoves
<1>5. file[o] \in {"trust", "grants", "index"}
  BY <1>4 DEF TypeInv, TypeOK, ControlTypeOK, KindInv
<1> QED
  BY <1>1, <1>2, <1>3, <1>4, <1>5 DEF Alone, Steps

LEMMA StepAlone ==
    ASSUME TypeInv, NEW o \in Ops, StepOf(o)
    PROVE  Alone(o)
BY StepKinds, MovingAlone, DecidingAlone, PreparingAlone, StoringAlone, TruncateAlone, FillAlone

\* While it runs, an operation is the last one begun, and no other runs.
LEMMA TheOneThatRuns ==
    ASSUME TypeInv, OrderInv, NEW o \in Ops, pc[o] \in Steps
    PROVE  /\ o = started
           /\ \A u \in Ops : u # o => pc[u] \notin Steps
           /\ \A u \in Ops : pc[u] # "none" => u <= o
<1>1. started \in Nat /\ o \in Nat
  BY OpsAreNumbers DEF TypeInv, TypeOK, ControlTypeOK
<1>2. o = started
  BY <1>1, StagesDiffer DEF OrderInv
<1>3. ASSUME NEW u \in Ops PROVE (u # o => pc[u] \notin Steps) /\ (pc[u] # "none" => u <= o)
  <2>1. u \in Nat
    BY OpsAreNumbers
  <2> QED
    BY <1>1, <1>2, <2>1, StagesDiffer DEF OrderInv
<1> QED
  BY <1>2, <1>3

LEMMA StepOrder ==
    ASSUME TypeInv, OrderInv, NEW o \in Ops, StepOf(o)
    PROVE  OrderInv'
<1>1. Alone(o) /\ o = started /\ started' = started
  BY StepAlone, TheOneThatRuns DEF Alone
<1>2. started \in Nat
  BY OpsAreNumbers DEF TypeInv, TypeOK, ControlTypeOK
<1>3. ASSUME NEW u \in Ops
      PROVE  /\ u > started => pc'[u] = "none" /\ u \notin consented' /\ wrote'[u] = 0
             /\ u < started => pc'[u] \in Over
             /\ u = started => pc'[u] # "none"
  <2>1. CASE u = o
    BY <1>1, <1>2, <2>1 DEF Alone
  <2>2. CASE u # o
    BY <1>1, <2>2 DEF Alone, OrderInv
  <2> QED
    BY <2>1, <2>2
<1>4. \A u \in consented' : u \in consented \/ call[u].kind = "install"
  <2>1. Deciding(o) => call[o].kind = "install"
    BY DecidingAlone DEF TypeInv, KindInv, InstallSteps
  <2>2. ~Deciding(o) => consented' = consented
    BY StepKinds, MovingAlone, PreparingAlone, StoringAlone, TruncateAlone, FillAlone
  <2> QED
    BY <1>1, <2>1, <2>2 DEF Alone
<1> QED
  BY <1>1, <1>3, <1>4 DEF OrderInv, Alone

LEMMA SerialBegin ==
    ASSUME TypeInv, Serial, NEW o \in Ops, NEW c \in Call, Begin(o, c)
    PROVE  Active = {}
<1>1. IsFiniteSet(Ops)
  BY OpsAreNumbers, FS_Interval DEF Ops
<1>2. IsFiniteSet(Active)
  BY <1>1, FS_Subset DEF Active
<1>3. Cardinality(Active) \in Nat /\ Cardinality(Active) < 1
  BY <1>2, FS_CardinalityType DEF Begin, Serial
<1> QED
  BY <1>2, <1>3, FS_EmptySet

\* The next operation begins when none runs.
LEMMA Begins ==
    ASSUME TypeInv, OrderInv, NEW o \in Ops, NEW c \in Call, Begin(o, c)
    PROVE  /\ o = started + 1 /\ started \in Nat /\ started' = o
           /\ pc[o] = "none" /\ o \notin consented /\ wrote[o] = 0
           /\ pc'[o] \in {"consent", "lookup", "forget"}
           /\ c.kind = "install" => pc'[o] = "consent"
           /\ call'[o] = c
           /\ \A u \in Ops : u # o => pc'[u] = pc[u] /\ call'[u] = call[u]
           /\ UNCHANGED <<disk, prior, granted, file, buf, victim, wrote, consented>>
<1>1. /\ o = started + 1 /\ started \in Nat /\ started' = o
      /\ pc'[o] = FirstStep(c) /\ call'[o] = c
      /\ \A u \in Ops : u # o => pc'[u] = pc[u] /\ call'[u] = call[u]
      /\ UNCHANGED <<disk, prior, granted, file, buf, victim, wrote, consented>>
  BY OpsAreNumbers DEF Begin, TypeInv, TypeOK, ControlTypeOK
<1>2. o > started
  BY <1>1
<1> QED
  BY <1>1, <1>2 DEF OrderInv, FirstStep

LEMMA BeginOrder ==
    ASSUME TypeInv, OrderInv, Serial, NEW o \in Ops, NEW c \in Call, Begin(o, c)
    PROVE  OrderInv'
<1>1. \A u \in Ops : pc[u] \notin Steps
  BY SerialBegin DEF Active
<1>2. \A u \in Ops : u = started => pc[u] \in Over
  BY <1>1 DEF OrderInv, TypeInv, TypeOK, ControlTypeOK, PcStates
<1>3. ASSUME NEW u \in Ops
      PROVE  /\ u > o => pc'[u] = "none" /\ u \notin consented' /\ wrote'[u] = 0
             /\ u < o => pc'[u] \in Over
             /\ u = o => pc'[u] # "none"
  <2>1. u \in Nat
    BY OpsAreNumbers
  <2>2. CASE u = o
    BY <2>1, <2>2, Begins
  <2>3. CASE u # o
    <3>1. (u > o => u > started) /\ (u < o => u < started \/ u = started)
      BY <2>1, Begins
    <3> QED
      BY <1>2, <2>1, <2>3, <3>1, Begins DEF OrderInv
  <2> QED
    BY <2>2, <2>3
<1>4. \A u \in consented' : call'[u].kind = "install"
  BY Begins DEF OrderInv, TypeInv, TypeOK
<1> QED
  BY <1>3, <1>4, Begins DEF OrderInv

-----------------------------------------------------------------------------
(* Files that do not parse.                                                 *)

LEMMA StepTorn ==
    ASSUME TypeInv, TornInv, NEW o \in Ops, StepOf(o)
    PROVE  TornInv'
<1>1. ASSUME NEW f \in torn'
      PROVE  \E u \in Ops : file'[u] = f /\ pc'[u] \in {"fill", "torn"}
  <2>1. Alone(o) /\ pc'[o] # "none"
    BY StepAlone DEF Alone
  <2>2. CASE f \notin torn
    <3>1. Truncate(o) /\ f = file[o]
      BY <1>1, <2>2, StepKinds, MovingAlone, DecidingAlone, PreparingAlone, StoringAlone,
         TruncateAlone, FillAlone DEF disk
    <3> QED
      BY <3>1, TruncateAlone
  <2>3. CASE f \in torn
    <3>1. PICK u \in Ops : file[u] = f /\ pc[u] \in {"fill", "torn"}
      BY <2>3 DEF TornInv
    <3>2. CASE u # o
      BY <2>1, <3>1, <3>2 DEF Alone
    <3>3. CASE u = o
      <4>1. pc[o] = "fill"
        BY <2>1, <3>1, <3>3 DEF Alone, Steps
      <4>2. Moving(o) \/ Fill(o)
        BY <4>1, StepKinds, DecidingAlone, PreparingAlone, StoringAlone, TruncateAlone
      <4>3. ~Fill(o)
        BY <1>1, <3>1, <3>3, FillAlone
      <4> QED
        BY <3>1, <3>3, <4>1, <4>2, <4>3, MovingAlone
    <3> QED
      BY <3>2, <3>3
  <2> QED
    BY <2>2, <2>3
<1> QED
  BY <1>1 DEF TornInv

LEMMA BeginTorn ==
    ASSUME TypeInv, OrderInv, TornInv, NEW o \in Ops, NEW c \in Call, Begin(o, c)
    PROVE  TornInv'
<1>1. pc[o] = "none" /\ UNCHANGED <<torn, file>> /\ \A u \in Ops : u # o => pc'[u] = pc[u]
  BY Begins DEF disk
<1> QED
  BY <1>1 DEF TornInv

\* Unless an operation was cut off in the middle of a file, all files parse but
\* the one the operation that runs is writing.
LEMMA FilesParse ==
    ASSUME TypeInv, OrderInv, TornInv, Intact, NEW o \in Ops, pc[o] \in Steps
    PROVE  /\ torn \subseteq {file[o]}
           /\ pc[o] # "fill" => /\ torn = {}
                                /\ ReadTrust = trust /\ ReadGrants = grants /\ ReadIndex = index
<1>1. ASSUME NEW f \in torn PROVE f = file[o] /\ pc[o] = "fill"
  <2>1. PICK u \in Ops : file[u] = f /\ pc[u] \in {"fill", "torn"}
    BY DEF TornInv
  <2>2. pc[u] = "fill" /\ u = o
    BY <2>1, TheOneThatRuns DEF Intact, Steps
  <2> QED
    BY <2>1, <2>2
<1> QED
  BY <1>1 DEF ReadTrust, ReadGrants, ReadIndex

LEMMA ReadsStay ==
    /\ trust' = trust /\ ("trust" \in torn' <=> "trust" \in torn) => ReadTrust' = ReadTrust
    /\ grants' = grants /\ ("grants" \in torn' <=> "grants" \in torn) => ReadGrants' = ReadGrants
    /\ index' = index /\ ("index" \in torn' <=> "index" \in torn) => ReadIndex' = ReadIndex
BY DEF ReadTrust, ReadGrants, ReadIndex

-----------------------------------------------------------------------------
(* What the last install has done so far.                                   *)

\* What the call of an operation determines, it determines for good.
LEMMA CallsStay ==
    ASSUME NEW o, call'[o] = call[o]
    PROVE  /\ b(o)' = b(o) /\ Ext(o)' = Ext(o) /\ Publisher(o)' = Publisher(o)
           /\ Dir(o)' = Dir(o) /\ InstallPin(o)' = InstallPin(o)
           /\ granted'[o] = granted[o] => /\ NewGrant(o)' = NewGrant(o)
                                          /\ NewRecord(o)' = NewRecord(o)
<1>1. b(o)' = b(o) /\ Ext(o)' = Ext(o)
  BY DEF b, Ext
<1> QED
  BY <1>1 DEF Publisher, Dir, InstallPin, NewGrant, NewRecord

LEMMA StepGrantProgress ==
    ASSUME TypeInv, NEW o \in Ops, call[o].kind = "install", GrantProgress(o), StepOf(o)
    PROVE  GrantProgress(o)'
<1>1. call' = call
  BY StepAlone DEF Alone
<1>2. /\ Ext(o)' = Ext(o)
      /\ granted'[o] = granted[o] => NewGrant(o)' = NewGrant(o)
  BY <1>1, CallsStay
<1>3. CASE Moving(o)
  <2>1. HasGrant(o)' => HasGrant(o)
    BY <1>1, <1>3, MovingAlone DEF HasGrant, Writing, Over, TypeInv, KindInv
  <2>2. ~Writing(o, "grants")'
    BY <1>3, MovingAlone DEF Writing, Over
  <2>3. PriorGrants(Ext(o))' = PriorGrants(Ext(o))
    BY <1>2, <1>3, MovingAlone, ReadsStay DEF disk, PriorGrants
  <2> QED
    BY <1>2, <1>3, <2>1, <2>2, <2>3, MovingAlone DEF GrantProgress
<1>4. CASE Deciding(o)
  BY <1>4, DecidingAlone DEF GrantProgress, HasGrant, Writing
<1>5. CASE Preparing(o)
  <2>1. PriorGrants(Ext(o))' = PriorGrants(Ext(o)) /\ NewGrant(o)' = NewGrant(o)
    BY <1>2, <1>5, PreparingAlone, ReadsStay DEF disk, PriorGrants
  <2>2. CASE SetGrant(o)
    <3>1. /\ pc'[o] = "truncate" /\ file'[o] = "grants"
          /\ buf'[o] = OtherGrants(Ext(o)) \cup {NewGrant(o)}
      BY <2>2 DEF SetGrant, Write, Goto, TypeInv, TypeOK, ControlTypeOK
    <3>2. ~HasGrant(o)'
      BY <3>1 DEF HasGrant, Writing
    <3>3. {g \in buf'[o] : g.ext = Ext(o)} = {NewGrant(o)}
      BY <3>1 DEF OtherGrants, NewGrant
    <3> QED
      BY <1>2, <2>1, <3>2, <3>3 DEF GrantProgress
  <2>3. CASE ~SetGrant(o)
    <3>1. PinKey(o) \/ ListInstall(o)
      BY <1>5, <2>3 DEF Preparing, ClearGrant, Lookup, Write, Goto, TypeInv, KindInv
    <3>2. pc[o] \in {"pin", "unpack"} /\ file'[o] # "grants"
      BY <3>1 DEF PinKey, ListInstall, Write, Goto, TypeInv, TypeOK, ControlTypeOK
    <3> QED
      BY <2>1, <3>2 DEF GrantProgress, HasGrant, Writing
  <2> QED
    BY <2>2, <2>3
<1>6. CASE Storing(o)
  <2>1. PriorGrants(Ext(o))' = PriorGrants(Ext(o)) /\ NewGrant(o)' = NewGrant(o)
    BY <1>2, <1>6, StoringAlone, ReadsStay DEF PriorGrants
  <2>2. pc[o] \in {"clean", "unpack"} /\ pc'[o] = "unpack"
    BY <1>6, StoringAlone DEF TypeInv, KindInv
  <2> QED
    BY <2>1, <2>2 DEF GrantProgress, HasGrant, Writing
<1>7. CASE Truncate(o)
  <2>1. file[o] # "grants" => PriorGrants(Ext(o))' = PriorGrants(Ext(o))
    BY <1>2, <1>7, TruncateAlone, ReadsStay DEF PriorGrants
  <2>2. NewGrant(o)' = NewGrant(o)
    BY <1>2, <1>7, TruncateAlone
  <2>3. /\ Writing(o, "grants")' => Writing(o, "grants") /\ buf'[o] = buf[o]
        /\ HasGrant(o)' => HasGrant(o) /\ file[o] # "grants"
    BY <1>7, TruncateAlone DEF Writing, HasGrant
  <2> QED
    BY <1>2, <2>1, <2>2, <2>3 DEF GrantProgress
<1>8. CASE Fill(o)
  <2>1. NewGrant(o)' = NewGrant(o) /\ ~Writing(o, "grants")'
    BY <1>2, <1>8, FillAlone DEF AfterWrite, Writing
  <2>2. CASE file[o] = "grants"
    <3>1. ReadGrants' = buf[o]
      BY <1>8, <2>2, FillAlone DEF ReadGrants
    <3>2. {g \in buf[o] : g.ext = Ext(o)} = {NewGrant(o)}
      BY <1>8, <2>2, FillAlone DEF GrantProgress, Writing
    <3> QED
      BY <1>2, <2>1, <3>1, <3>2 DEF GrantProgress, PriorGrants
  <2>3. CASE file[o] # "grants"
    <3>1. HasGrant(o)
      BY <1>8, <2>3, FillAlone DEF HasGrant, Writing
    <3>2. PriorGrants(Ext(o))' = PriorGrants(Ext(o))
      BY <1>2, <1>8, <2>3, FillAlone, ReadsStay DEF PriorGrants
    <3> QED
      BY <2>1, <3>1, <3>2 DEF GrantProgress
  <2> QED
    BY <2>2, <2>3
<1> QED
  BY <1>3, <1>4, <1>5, <1>6, <1>7, <1>8, StepKinds

LEMMA StepPinProgress ==
    ASSUME TypeInv, NEW o \in Ops, call[o].kind = "install", PinProgress(o), StepOf(o)
    PROVE  PinProgress(o)'
<1>1. /\ Publisher(o)' = Publisher(o) /\ b(o)' = b(o) /\ InstallPin(o)' = InstallPin(o)
  BY StepAlone, CallsStay DEF Alone
<1>2. CASE Moving(o)
  <2>1. ~Writing(o, "trust")' /\ (HasPin(o)' => AcceptKey(o))
    BY <1>2, MovingAlone DEF Writing, HasPin, Over, TypeInv, KindInv
  <2>2. Pins(o)' = Pins(o)
    BY <1>1, <1>2, MovingAlone, ReadsStay DEF disk, Pins
  <2>3. AcceptKey(o) => Pins(o) = {InstallPin(o)}
    <3>1. \A p \in Pins(o) : p \in PinnedKey /\ p.publisher = Publisher(o)
      BY ReadsAreTyped DEF Pins
    <3>2. \A p \in Pins(o) : p.key = b(o).key => p = InstallPin(o)
      BY <3>1 DEF PinnedKey, InstallPin
    <3> QED
      BY <3>2 DEF AcceptKey
  <2> QED
    BY <1>1, <2>1, <2>2, <2>3 DEF PinProgress
<1>3. CASE Deciding(o)
  BY <1>3, DecidingAlone DEF PinProgress, HasPin, Writing
<1>4. CASE Preparing(o)
  <2>1. Pins(o)' = Pins(o)
    BY <1>1, <1>4, PreparingAlone, ReadsStay DEF disk, Pins
  <2>2. CASE PinKey(o)
    <3>1. /\ pc'[o] = "truncate" /\ file'[o] = "trust"
          /\ buf'[o] = ReadTrust \cup {InstallPin(o)}
      BY <2>2 DEF PinKey, Write, Goto, InstallPin, TypeInv, TypeOK, ControlTypeOK
    <3>2. ~HasPin(o)'
      BY <3>1 DEF HasPin, Writing
    <3>3. {p \in buf'[o] : p.publisher = Publisher(o)} = {InstallPin(o)}
      BY <2>2, <3>1 DEF PinKey, Pins, InstallPin
    <3> QED
      BY <1>1, <3>2, <3>3 DEF PinProgress
  <2>3. CASE SetGrant(o)
    <3>1. pc'[o] = "truncate" /\ file'[o] = "grants"
      BY <2>3 DEF SetGrant, Write, Goto, TypeInv, TypeOK, ControlTypeOK
    <3> QED
      BY <3>1 DEF PinProgress, HasPin, Writing
  <2>4. CASE ListInstall(o)
    <3>1. pc[o] = "unpack" /\ file'[o] = "index"
      BY <2>4 DEF ListInstall, Write, Goto, TypeInv, TypeOK, ControlTypeOK
    <3> QED
      BY <1>1, <2>1, <3>1 DEF PinProgress, HasPin, Writing
  <2> QED
    BY <1>4, <2>2, <2>3, <2>4 DEF Preparing, ClearGrant, Lookup, Write, Goto, TypeInv, KindInv
<1>5. CASE Storing(o)
  <2>1. Pins(o)' = Pins(o)
    BY <1>1, <1>5, StoringAlone, ReadsStay DEF Pins
  <2>2. pc[o] \in {"clean", "unpack"} /\ pc'[o] = "unpack"
    BY <1>5, StoringAlone DEF TypeInv, KindInv
  <2> QED
    BY <1>1, <2>1, <2>2 DEF PinProgress, HasPin, Writing
<1>6. CASE Truncate(o)
  <2>1. file[o] # "trust" => Pins(o)' = Pins(o)
    BY <1>1, <1>6, TruncateAlone, ReadsStay DEF Pins
  <2>2. /\ Writing(o, "trust")' => Writing(o, "trust") /\ buf'[o] = buf[o]
        /\ HasPin(o)' => HasPin(o) /\ file[o] # "trust"
    BY <1>6, TruncateAlone DEF Writing, HasPin
  <2> QED
    BY <1>1, <2>1, <2>2 DEF PinProgress
<1>7. CASE Fill(o)
  <2>1. ~Writing(o, "trust")'
    BY <1>7, FillAlone DEF AfterWrite, Writing
  <2>2. CASE file[o] = "trust"
    <3>1. ReadTrust' = buf[o]
      BY <1>7, <2>2, FillAlone DEF ReadTrust
    <3>2. {p \in buf[o] : p.publisher = Publisher(o)} = {InstallPin(o)}
      BY <1>7, <2>2, FillAlone DEF PinProgress, Writing
    <3> QED
      BY <1>1, <2>1, <3>1, <3>2 DEF PinProgress, Pins
  <2>3. CASE file[o] = "grants"
    BY <1>7, <2>1, <2>3, FillAlone DEF PinProgress, HasPin, AfterWrite, Writing
  <2>4. CASE file[o] = "index"
    <3>1. HasPin(o)
      BY <1>7, <2>4, FillAlone DEF HasPin, Writing
    <3>2. Pins(o)' = Pins(o)
      BY <1>1, <1>7, <2>4, FillAlone, ReadsStay DEF Pins
    <3> QED
      BY <1>1, <2>1, <3>1, <3>2 DEF PinProgress
  <2> QED
    BY <1>7, <2>2, <2>3, <2>4, FillAlone
<1> QED
  BY <1>2, <1>3, <1>4, <1>5, <1>6, <1>7, StepKinds

LEMMA StepFilesProgress ==
    ASSUME TypeInv, NEW o \in Ops, call[o].kind = "install", FilesProgress(o), StepOf(o)
    PROVE  FilesProgress(o)'
<1>1. Dir(o)' = Dir(o)
  BY StepAlone, CallsStay DEF Alone
<1>2. Dir(o) \in Dirs /\ files \in [Dirs -> SUBSET (1 .. NumFiles)] /\ wrote[o] \in Nat
  BY InstallHasBundle, OpsAreNumbers
  DEF Dir, Dirs, TypeInv, TypeOK, DiskTypeOK, ControlTypeOK
<1>3. CASE Moving(o)
  <2>1. /\ Unstarted(o)' => Unstarted(o) /\ wrote'[o] = wrote[o]
        /\ pc'[o] # "unpack" /\ ~HasFiles(o)'
    BY <1>3, MovingAlone DEF Unstarted, Writing, HasFiles, Over, TypeInv, KindInv
  <2> QED
    BY <2>1 DEF FilesProgress
<1>4. CASE Deciding(o)
  BY <1>4, DecidingAlone DEF FilesProgress, Unstarted, HasFiles, Writing
<1>5. CASE Preparing(o)
  <2>1. /\ UNCHANGED <<files, wrote>> /\ pc'[o] \in {"truncate", "remove"}
    BY <1>5, PreparingAlone DEF disk
  <2>2. CASE ListInstall(o)
    <3>1. pc[o] = "unpack" /\ file'[o] = "index" /\ wrote[o] = NumFiles
      BY <2>2 DEF ListInstall, Write, Goto, TypeInv, TypeOK, ControlTypeOK
    <3> QED
      BY <1>1, <2>1, <3>1 DEF FilesProgress, Unstarted, Writing
  <2>3. CASE SetGrant(o) \/ PinKey(o)
    <3>1. pc[o] \in {"grant", "pin"} /\ file'[o] # "index" /\ pc'[o] = "truncate"
      BY <2>3 DEF SetGrant, PinKey, Write, Goto, TypeInv, TypeOK, ControlTypeOK
    <3> QED
      BY <2>1, <3>1 DEF FilesProgress, Unstarted, HasFiles, Writing
  <2> QED
    BY <1>5, <2>2, <2>3 DEF Preparing, ClearGrant, Lookup, Write, Goto, TypeInv, KindInv
<1>6. CASE CleanDir(o)
  <2>1. pc[o] = "clean" /\ pc'[o] = "unpack" /\ wrote'[o] = wrote[o] /\ files'[Dir(o)] = {}
    BY <1>2, <1>6, GotoMoves DEF CleanDir
  <2>2. wrote[o] = 0 /\ 1 .. 0 = {}
    BY <2>1 DEF FilesProgress, Unstarted
  <2> QED
    BY <1>1, <2>1, <2>2 DEF FilesProgress, Unstarted, HasFiles, Writing
<1>7. CASE WriteFile(o)
  <2>1. /\ pc[o] = "unpack" /\ pc'[o] = "unpack" /\ wrote'[o] = wrote[o] + 1
        /\ files'[Dir(o)] = files[Dir(o)] \cup {wrote[o] + 1}
    BY <1>2, <1>7 DEF WriteFile, TypeInv, TypeOK, ControlTypeOK
  <2>2. files[Dir(o)] = 1 .. wrote[o]
    BY <2>1 DEF FilesProgress
  <2>3. (1 .. wrote[o]) \cup {wrote[o] + 1} = 1 .. (wrote[o] + 1)
    BY <1>2
  <2> QED
    BY <1>1, <2>1, <2>2, <2>3 DEF FilesProgress, Unstarted, HasFiles, Writing
<1>8. CASE Truncate(o)
  BY <1>1, <1>8, TruncateAlone DEF FilesProgress, Unstarted, HasFiles, Writing
<1>9. CASE Fill(o)
  <2>1. UNCHANGED <<files, wrote>> /\ pc'[o] = AfterWrite(o)
    BY <1>9, FillAlone
  <2>2. CASE file[o] = "index"
    <3>1. HasFiles(o) /\ pc'[o] = "done"
      BY <1>9, <2>1, <2>2, FillAlone DEF HasFiles, Writing, AfterWrite
    <3> QED
      BY <1>1, <2>1, <3>1 DEF FilesProgress, Unstarted, Writing
  <2>3. CASE file[o] # "index"
    <3>1. Unstarted(o) /\ pc'[o] \in {"pin", "clean"}
      BY <1>9, <2>1, <2>3, FillAlone DEF Unstarted, Writing, AfterWrite
    <3> QED
      BY <2>1, <3>1 DEF FilesProgress, HasFiles, Writing
  <2> QED
    BY <2>2, <2>3
<1> QED
  BY <1>3, <1>4, <1>5, <1>6, <1>7, <1>8, <1>9, StepKinds
  DEF Storing, RemoveDir, Goto, TypeInv, KindInv

LEMMA StepIndexProgress ==
    ASSUME TypeInv, NEW o \in Ops, call[o].kind = "install", IndexProgress(o), StepOf(o)
    PROVE  IndexProgress(o)'
<1>1. /\ Ext(o)' = Ext(o) /\ pc[o] # "done"
      /\ granted'[o] = granted[o] => NewRecord(o)' = NewRecord(o)
  BY StepAlone, CallsStay DEF Alone, Steps
<1>2. CASE Moving(o) \/ Deciding(o) \/ Storing(o)
  <2>1. ~Writing(o, "index")' /\ pc'[o] # "done"
    BY <1>2, MovingAlone, DecidingAlone, StoringAlone DEF Writing, Over, TypeInv, KindInv
  <2> QED
    BY <2>1 DEF IndexProgress
<1>3. CASE Preparing(o)
  <2>1. NewRecord(o)' = NewRecord(o) /\ pc'[o] # "done"
    BY <1>1, <1>3, PreparingAlone
  <2>2. CASE ListInstall(o)
    <3>1. buf'[o] = OtherRecords(o) \cup {NewRecord(o)}
      BY <2>2 DEF ListInstall, Write, TypeInv, TypeOK, ControlTypeOK
    <3>2. {r \in buf'[o] : r.ext = Ext(o)} = {NewRecord(o)}
      BY <3>1 DEF OtherRecords, NewRecord
    <3> QED
      BY <1>1, <2>1, <3>2 DEF IndexProgress
  <2>3. CASE SetGrant(o) \/ PinKey(o)
    <3>1. file'[o] # "index"
      BY <2>3 DEF SetGrant, PinKey, Write, TypeInv, TypeOK, ControlTypeOK
    <3> QED
      BY <2>1, <3>1 DEF IndexProgress, Writing
  <2> QED
    BY <1>3, <2>2, <2>3 DEF Preparing, ClearGrant, Lookup, Write, Goto, TypeInv, KindInv
<1>4. CASE Truncate(o)
  <2>1. /\ NewRecord(o)' = NewRecord(o) /\ pc'[o] # "done"
        /\ Writing(o, "index")' => Writing(o, "index") /\ buf'[o] = buf[o]
    BY <1>1, <1>4, TruncateAlone DEF Writing
  <2> QED
    BY <1>1, <2>1 DEF IndexProgress
<1>5. CASE Fill(o)
  <2>1. NewRecord(o)' = NewRecord(o) /\ ~Writing(o, "index")'
    BY <1>1, <1>5, FillAlone DEF AfterWrite, Writing
  <2>2. pc'[o] = "done" => file[o] = "index"
    BY <1>5, FillAlone DEF AfterWrite
  <2>3. file[o] = "index" => /\ ReadIndex' = buf[o]
                             /\ {r \in buf[o] : r.ext = Ext(o)} = {NewRecord(o)}
    BY <1>5, FillAlone DEF ReadIndex, IndexProgress, Writing
  <2> QED
    BY <1>1, <2>1, <2>2, <2>3 DEF IndexProgress
<1> QED
  BY <1>2, <1>3, <1>4, <1>5, StepKinds

LEMMA StepProgress ==
    ASSUME TypeInv, OrderInv, ProgressInv, NEW o \in Ops, StepOf(o)
    PROVE  ProgressInv'
<1>1. Alone(o) /\ o = started
  BY StepAlone, TheOneThatRuns DEF Alone
<1>2. ASSUME NEW u \in Ops, u = started', call'[u].kind = "install"
      PROVE  (GrantProgress(u) /\ PinProgress(u) /\ FilesProgress(u) /\ IndexProgress(u))'
  <2>1. u = o /\ call[o].kind = "install"
    BY <1>1, <1>2 DEF Alone
  <2>2. GrantProgress(o) /\ PinProgress(o) /\ FilesProgress(o) /\ IndexProgress(o)
    BY <1>1, <2>1 DEF ProgressInv
  <2> QED
    BY <2>1, <2>2, StepGrantProgress, StepPinProgress, StepFilesProgress, StepIndexProgress
<1> QED
  BY <1>2 DEF ProgressInv

LEMMA BeginProgress ==
    ASSUME TypeInv, OrderInv, NEW o \in Ops, NEW c \in Call, Begin(o, c)
    PROVE  ProgressInv'
<1>1. ASSUME NEW u \in Ops, u = started', call'[u].kind = "install"
      PROVE  pc'[u] = "consent" /\ wrote'[u] = 0
  BY <1>1, Begins
<1> QED
  BY <1>1 DEF ProgressInv, GrantProgress, PinProgress, FilesProgress, IndexProgress,
              HasGrant, HasPin, HasFiles, Unstarted, Writing

-----------------------------------------------------------------------------
(* One key for a publisher.                                                 *)

\* A file torn once stays torn, and an operation cut off stays cut off.
LEMMA CutsStay ==
    ASSUME TypeInv, OrderInv,
           \/ \E o \in Ops : StepOf(o)
           \/ \E o \in Ops : \E c \in Call : Begin(o, c)
    PROVE  (Intact' => Intact) /\ (Uncut' => Uncut) /\ (Uncut => Intact)
<1>1. ASSUME NEW o \in Ops, StepOf(o)
      PROVE  pc[o] \notin {"aborted", "torn"} /\ \A u \in Ops : u # o => pc'[u] = pc[u]
  BY <1>1, StepAlone DEF Alone, Steps
<1>2. ASSUME NEW o \in Ops, NEW c \in Call, Begin(o, c)
      PROVE  pc[o] \notin {"aborted", "torn"} /\ \A u \in Ops : u # o => pc'[u] = pc[u]
  BY <1>2, Begins
<1> QED
  BY <1>1, <1>2 DEF Intact, Uncut

LEMMA StepKeys ==
    ASSUME TypeInv, OrderInv, TornInv, KeysInv, Intact, NEW o \in Ops, StepOf(o)
    PROVE  KeysInv'
<1>1. Alone(o) /\ pc[o] \in Steps
  BY StepAlone DEF Alone
<1>2. \A u \in Ops : u # o => pc'[u] \notin Steps
  BY <1>1, TheOneThatRuns DEF Alone
<1>3. \A u \in Ops : u # o => KeysOf(u)'
  BY <1>2 DEF KeysOf, Writing, Rewrites, Steps
<1>4. SUFFICES /\ \A p, q \in trust' : p.publisher = q.publisher => p = q
               /\ \A r \in index' : RecordPin(r) \in trust'
               /\ KeysOf(o)'
  BY <1>3 DEF KeysInv, KeysOf, RecordPin
<1>5. /\ Publisher(o)' = Publisher(o) /\ InstallPin(o)' = InstallPin(o)
      /\ Publisher(o) = InstallPin(o).publisher
  BY <1>1, CallsStay DEF Alone, InstallPin
<1>6. KeysOf(o)
  BY DEF KeysInv, KeysOf
<1>7. pc[o] # "fill" => ReadTrust = trust /\ ReadIndex = index
  BY <1>1, FilesParse
<1>8. CASE Moving(o)
  <2>1. UNCHANGED <<trust, index>> /\ ~Writing(o, "trust")' /\ ~Rewrites(o)'
    BY <1>8, MovingAlone DEF disk, Writing, Rewrites, Over
  <2>2. pc'[o] \in {"clean", "unpack"} => InstallPin(o) \in trust
    <3>1. SUFFICES ASSUME AcceptKey(o) PROVE InstallPin(o) \in trust
      BY <1>8, MovingAlone DEF Over
    <3>2. PICK p \in Pins(o) : p.key = b(o).key
      BY <3>1 DEF AcceptKey
    <3>3. p \in PinnedKey /\ p \in trust /\ p.publisher = Publisher(o)
      BY <3>2, ReadsAreTyped DEF Pins
    <3>4. p = InstallPin(o)
      BY <3>2, <3>3 DEF PinnedKey, InstallPin
    <3> QED
      BY <3>3, <3>4
  <2> QED
    BY <1>5, <2>1, <2>2 DEF KeysInv, KeysOf
<1>9. CASE Deciding(o)
  BY <1>9, DecidingAlone DEF disk, KeysInv, KeysOf, Writing, Rewrites
<1>10. CASE Preparing(o)
  <2>1. UNCHANGED <<trust, index>> /\ pc[o] # "fill" /\ pc'[o] \notin {"clean", "unpack"}
    BY <1>10, PreparingAlone DEF disk
  <2>2. CASE PinKey(o)
    <3>1. /\ pc'[o] = "truncate" /\ file'[o] = "trust"
          /\ buf'[o] = ReadTrust \cup {InstallPin(o)} /\ Pins(o) = {}
      BY <2>2 DEF PinKey, Write, Goto, InstallPin, TypeInv, TypeOK, ControlTypeOK
    <3>2. \A p \in trust : p.publisher # Publisher(o)
      BY <1>7, <2>1, <3>1 DEF Pins
    <3> QED
      BY <1>5, <1>7, <2>1, <3>1, <3>2 DEF KeysInv, KeysOf, Writing, Rewrites
  <2>3. CASE ListInstall(o)
    <3>1. /\ pc[o] = "unpack" /\ file'[o] = "index"
          /\ buf'[o] = OtherRecords(o) \cup {NewRecord(o)}
      BY <2>3 DEF ListInstall, Write, Goto, TypeInv, TypeOK, ControlTypeOK
    <3>2. RecordPin(NewRecord(o)) = InstallPin(o)
      BY DEF RecordPin, NewRecord, InstallPin, Publisher
    <3>3. \A r \in buf'[o] : RecordPin(r) \in trust
      BY <1>6, <1>7, <2>1, <3>1, <3>2 DEF KeysInv, KeysOf, OtherRecords
    <3> QED
      BY <2>1, <3>1, <3>3 DEF KeysInv, KeysOf, Writing, RecordPin
  <2>4. CASE Lookup(o)
    <3>1. file'[o] = "index" /\ buf'[o] = OtherRecords(o)
      BY <2>4 DEF Lookup, TypeInv, TypeOK, ControlTypeOK
    <3>2. \A r \in buf'[o] : RecordPin(r) \in trust
      BY <1>7, <2>1, <3>1 DEF KeysInv, KeysOf, OtherRecords
    <3> QED
      BY <2>1, <3>1, <3>2 DEF KeysInv, KeysOf, Writing, RecordPin
  <2>5. CASE SetGrant(o) \/ ClearGrant(o)
    <3>1. pc'[o] = "truncate" /\ file'[o] = "grants"
      BY <2>5 DEF SetGrant, ClearGrant, Write, Goto, TypeInv, TypeOK, ControlTypeOK
    <3> QED
      BY <2>1, <3>1 DEF KeysInv, KeysOf, Writing, Rewrites
  <2> QED
    BY <1>10, <2>2, <2>3, <2>4, <2>5 DEF Preparing
<1>11. CASE Storing(o)
  <2>1. /\ UNCHANGED <<trust, index, file, buf>> /\ (Rewrites(o)' => Rewrites(o))
        /\ pc'[o] \in {"clean", "unpack"} => pc[o] \in {"clean", "unpack"}
        /\ ~Writing(o, "trust")'
    BY <1>11, StoringAlone DEF Writing, Rewrites, TypeInv, KindInv
  <2> QED
    BY <1>5, <1>6, <2>1 DEF KeysInv, KeysOf, RecordPin
<1>12. CASE Truncate(o)
  <2>1. /\ UNCHANGED <<trust, index, file, buf>> /\ (Rewrites(o)' => Rewrites(o))
        /\ pc'[o] \notin {"clean", "unpack"}
        /\ Writing(o, "trust")' => Writing(o, "trust")
    BY <1>12, TruncateAlone DEF Writing, Rewrites
  <2> QED
    BY <1>5, <1>6, <2>1 DEF KeysInv, KeysOf, RecordPin
<1>13. CASE Fill(o)
  <2>1. pc'[o] \in {"pin", "clean", "done"} /\ (pc'[o] = "clean" => file[o] = "trust")
    BY <1>13, FillAlone DEF AfterWrite
  <2>2. ~Writing(o, "trust")' /\ ~Rewrites(o)'
    BY <2>1 DEF Writing, Rewrites
  <2>3. CASE file[o] = "trust"
    <3>1. /\ trust' = trust \cup {InstallPin(o)} /\ index' = index
          /\ \A p \in trust : p.publisher # Publisher(o)
      BY <1>6, <1>13, <2>3, FillAlone DEF KeysOf, Writing
    <3>2. \A p, q \in trust' : p.publisher = q.publisher => p = q
      BY <1>5, <3>1 DEF KeysInv, KeysOf
    <3> QED
      BY <1>5, <2>1, <2>2, <3>1, <3>2 DEF KeysInv, KeysOf
  <2>4. CASE file[o] = "index"
    <3>1. trust' = trust /\ index' = buf[o] /\ Rewrites(o) /\ pc'[o] # "unpack"
      BY <1>13, <2>1, <2>4, FillAlone DEF Rewrites, Writing
    <3> QED
      BY <1>6, <2>1, <2>2, <2>4, <3>1 DEF KeysInv, KeysOf
  <2>5. CASE file[o] = "grants"
    <3>1. UNCHANGED <<trust, index>>
      BY <1>13, <2>5, FillAlone
    <3> QED
      BY <2>1, <2>2, <2>5, <3>1 DEF KeysInv, KeysOf
  <2> QED
    BY <1>13, <2>3, <2>4, <2>5, FillAlone
<1> QED
  BY <1>8, <1>9, <1>10, <1>11, <1>12, <1>13, StepKinds

LEMMA BeginKeys ==
    ASSUME TypeInv, OrderInv, Serial, KeysInv, NEW o \in Ops, NEW c \in Call, Begin(o, c)
    PROVE  KeysInv'
<1>1. \A u \in Ops : pc[u] \notin Steps
  BY SerialBegin DEF Active
<1>2. \A u \in Ops : pc'[u] \notin {"clean", "unpack", "truncate", "fill", "remove"}
  BY <1>1, Begins DEF Steps
<1>3. UNCHANGED <<trust, index>>
  BY Begins DEF disk
<1> QED
  BY <1>2, <1>3 DEF KeysInv, KeysOf, Writing, Rewrites, RecordPin

-----------------------------------------------------------------------------
(* Finished installs are in the index.                                      *)

LEMMA StepKept ==
    ASSUME TypeInv, OrderInv, TornInv, KeptInv, Intact, NEW o \in Ops, StepOf(o)
    PROVE  KeptInv'
<1>1. Alone(o) /\ pc[o] \in Steps /\ pc[o] # "done"
  BY StepAlone DEF Alone, Steps
<1>2. \A u \in Ops : u # o => pc'[u] \notin Steps /\ pc'[u] = pc[u]
  BY <1>1, TheOneThatRuns DEF Alone
<1>3. \A u \in Ops : Ext(u)' = Ext(u) /\ call'[u] = call[u]
  BY <1>1, CallsStay DEF Alone
<1>4. \A e : Completed(e) \subseteq Completed(e)'
  BY <1>1, <1>2, <1>3 DEF Completed
<1>5. \A u \in Ops : LastDone(u)' => LastDone(u)
  BY <1>3, <1>4 DEF LastDone
<1>6. \A u \in Ops : u # o => NewRecord(u)' = NewRecord(u)
  BY <1>1, <1>3, CallsStay DEF Alone
<1>7. pc[o] # "fill" => ReadIndex = index
  BY <1>1, FilesParse
<1>8. CASE Fill(o) /\ file[o] = "index"
  <2>1. Rewrites(o) /\ index' = buf[o] /\ pc'[o] = "done" /\ NewRecord(o)' = NewRecord(o)
    BY <1>3, <1>8, FillAlone, CallsStay DEF Rewrites, Writing, AfterWrite
  <2>2. ASSUME NEW u \in Ops, pc'[u] = "done", call'[u].kind = "install", LastDone(u)'
        PROVE  NewRecord(u)' \in index'
    <3>1. CASE u = o
      BY <1>3, <1>8, <2>1, <2>2, <3>1, FillAlone DEF KeptInv, Writing
    <3>2. CASE u # o
      <4>1. Ext(u) # Ext(o)
        <5>1. SUFFICES ASSUME Ext(u) = Ext(o) PROVE FALSE
          OBVIOUS
        <5>2. o \in Completed(Ext(u))'
          BY <1>3, <2>1, <5>1 DEF Completed
        <5>3. o <= u
          BY <2>2, <5>2 DEF LastDone
        <5>4. u <= o /\ u \in Nat /\ o \in Nat
          BY <1>1, <1>2, <2>2, TheOneThatRuns, OpsAreNumbers
        <5> QED
          BY <3>2, <5>3, <5>4
      <4>2. NewRecord(u) \in index
        BY <1>2, <1>3, <1>5, <2>2, <3>2 DEF KeptInv
      <4>3. NewRecord(u).ext # Ext(o)
        BY <4>1 DEF NewRecord
      <4> QED
        BY <1>6, <2>1, <3>2, <4>2, <4>3 DEF KeptInv
    <3> QED
      BY <3>1, <3>2
  <2>3. \A u \in Ops : ~Rewrites(u)' /\ ~Writing(u, "index")'
    BY <1>2, <2>1 DEF Rewrites, Writing, Steps
  <2> QED
    BY <2>2, <2>3 DEF KeptInv
<1>9. CASE ~(Fill(o) /\ file[o] = "index")
  <2>1. index' = index
    BY <1>9, StepKinds, MovingAlone, DecidingAlone, PreparingAlone, StoringAlone,
       TruncateAlone, FillAlone DEF disk
  <2>2. pc'[o] = "done" => call[o].kind # "install"
    <3>1. Moving(o) \/ Fill(o) \/ pc'[o] # "done"
      BY StepKinds, DecidingAlone, PreparingAlone, StoringAlone, TruncateAlone
    <3>2. Moving(o) => (pc'[o] = "done" => call[o].kind # "install")
      BY MovingAlone DEF TypeInv, KindInv
    <3>3. Fill(o) => (pc'[o] = "done" => call[o].kind # "install")
      BY <1>9, FillAlone DEF AfterWrite
    <3> QED
      BY <3>1, <3>2, <3>3
  <2>3. ASSUME NEW u \in Ops, pc'[u] = "done", call'[u].kind = "install", LastDone(u)'
        PROVE  NewRecord(u)' \in index'
    BY <1>2, <1>3, <1>5, <1>6, <2>1, <2>2, <2>3 DEF KeptInv
  <2>4. /\ Rewrites(o)' => \A r \in index' : r.ext # Ext(o)' => r \in buf'[o]
        /\ Writing(o, "index")' /\ call'[o].kind = "install" => NewRecord(o)' \in buf'[o]
    <3>1. CASE Moving(o) \/ Deciding(o) \/ Fill(o)
      <4>1. ~Rewrites(o)' /\ ~Writing(o, "index")'
        BY <3>1, MovingAlone, DecidingAlone, FillAlone DEF Rewrites, Writing, AfterWrite, Over
      <4> QED
        BY <4>1
    <3>2. CASE ListInstall(o)
      <4>1. buf'[o] = OtherRecords(o) \cup {NewRecord(o)} /\ pc[o] # "fill"
        BY <3>2 DEF ListInstall, Write, Goto, TypeInv, TypeOK, ControlTypeOK
      <4>2. NewRecord(o)' = NewRecord(o)
        BY <1>3, <3>2, PreparingAlone, CallsStay DEF Preparing
      <4> QED
        BY <1>3, <1>7, <2>1, <4>1, <4>2 DEF OtherRecords
    <3>3. CASE Lookup(o)
      <4>1. buf'[o] = OtherRecords(o) /\ pc[o] = "lookup"
        BY <3>3 DEF Lookup, Goto, TypeInv, TypeOK, ControlTypeOK
      <4> QED
        BY <1>3, <1>7, <2>1, <4>1 DEF OtherRecords, TypeInv, KindInv
    <3>4. CASE SetGrant(o) \/ ClearGrant(o) \/ PinKey(o)
      <4>1. file'[o] # "index" /\ pc'[o] = "truncate"
        BY <3>4 DEF SetGrant, ClearGrant, PinKey, Write, Goto, TypeInv, TypeOK, ControlTypeOK
      <4> QED
        BY <4>1 DEF Rewrites, Writing
    <3>5. CASE Storing(o) \/ Truncate(o)
      <4>1. /\ Rewrites(o)' => Rewrites(o)
            /\ Writing(o, "index")' /\ call[o].kind = "install" => Writing(o, "index")
            /\ UNCHANGED <<buf, granted>>
        BY <3>5, StoringAlone, TruncateAlone DEF Rewrites, Writing, TypeInv, KindInv
      <4>2. NewRecord(o)' = NewRecord(o)
        BY <1>3, <4>1, CallsStay
      <4> QED
        BY <1>3, <2>1, <4>1, <4>2 DEF KeptInv
    <3> QED
      BY <3>1, <3>2, <3>3, <3>4, <3>5, StepKinds DEF Preparing
  <2>5. \A u \in Ops : u # o => ~Rewrites(u)' /\ ~Writing(u, "index")'
    BY <1>2 DEF Rewrites, Writing, Steps
  <2> QED
    BY <2>3, <2>4, <2>5 DEF KeptInv
<1> QED
  BY <1>8, <1>9

LEMMA BeginKept ==
    ASSUME TypeInv, OrderInv, Serial, KeptInv, NEW o \in Ops, NEW c \in Call, Begin(o, c)
    PROVE  KeptInv'
<1>1. \A u \in Ops : pc[u] \notin Steps
  BY SerialBegin DEF Active
<1>2. \A u \in Ops : pc'[u] \notin {"truncate", "fill", "remove"}
  BY <1>1, Begins DEF Steps
<1>3. pc'[o] # "done" /\ pc[o] # "done" /\ index' = index
  BY Begins DEF disk
<1>4. \A u \in Ops : u # o => /\ Ext(u)' = Ext(u) /\ pc'[u] = pc[u]
                              /\ NewRecord(u)' = NewRecord(u) /\ call'[u] = call[u]
  BY Begins, CallsStay
<1>5. \A e : Completed(e)' = Completed(e)
  BY <1>3, <1>4 DEF Completed
<1>6. \A u \in Ops : u # o => (LastDone(u)' <=> LastDone(u))
  BY <1>4, <1>5 DEF LastDone
<1> QED
  BY <1>2, <1>3, <1>4, <1>6 DEF KeptInv, Rewrites, Writing

-----------------------------------------------------------------------------
(* Every record has its files.                                              *)

LEMMA StepFiles ==
    ASSUME TypeInv, OrderInv, TornInv, ProgressInv, FilesInv, Uncut, Uncut',
           NEW o \in Ops, StepOf(o)
    PROVE  FilesInv'
<1> DEFINE At(u) == pc[u] = "unpack" \/ Writing(u, "index")
           Full(r) == files[<<r.ext, r.version>>] = 1 .. NumFiles
<1>1. Alone(o) /\ pc[o] \in Steps /\ o = started
  BY StepAlone, TheOneThatRuns DEF Alone
<1>2. \A u \in Ops : u # o => pc'[u] \notin Steps /\ pc[u] \notin Steps
  BY <1>1, TheOneThatRuns DEF Alone
<1>3. Ext(o)' = Ext(o) /\ Dir(o)' = Dir(o) /\ call'[o] = call[o]
      /\ (granted'[o] = granted[o] => NewRecord(o)' = NewRecord(o))
  BY <1>1, CallsStay DEF Alone
<1>4. \A u \in Ops : u # o => ~At(u) /\ ~At(u)' /\ ~Rewrites(u)'
  BY <1>2 DEF Writing, Rewrites, Steps
<1>5. \A r \in index : Full(r) \/ (Ext(o) = r.ext /\ At(o))
  BY <1>4 DEF FilesInv
<1>6. SUFFICES /\ \A r \in index' : Full(r)' \/ (Ext(o) = r.ext /\ At(o)')
               /\ Rewrites(o)' => \A r \in buf'[o] :
                    \/ r \in index' /\ r.ext # Ext(o)
                    \/ call[o].kind = "install" /\ r = NewRecord(o)'
  BY <1>3, <1>4 DEF FilesInv
<1>7. Intact
  BY DEF Uncut, Intact
<1>8. pc[o] # "fill" => ReadIndex = index
  BY <1>1, <1>7, FilesParse
<1>9. CASE Moving(o)
  <2>1. UNCHANGED <<index, files>> /\ ~Rewrites(o)'
    BY <1>9, MovingAlone DEF disk, Rewrites, Writing, Over
  <2>2. ~At(o)
    <3>1. ~Abort(o)
      BY DEF Abort, Uncut, TypeInv, TypeOK, ControlTypeOK
    <3>2. pc[o] \in {"consent", "prompt", "pin", "forget", "lookup"}
      BY <1>9, <3>1 DEF Moving, RefuseGap, Deny, RefuseKey, AcceptKey, NothingToClear,
                        NotInstalled, Goto
    <3> QED
      BY <3>2 DEF Writing
  <2> QED
    BY <1>5, <2>1, <2>2
<1>10. CASE Deciding(o)
  <2>1. UNCHANGED <<index, files>> /\ ~Rewrites(o)' /\ ~At(o)
    BY <1>10, DecidingAlone DEF disk, Rewrites, Writing
  <2> QED
    BY <1>5, <2>1
<1>11. CASE Preparing(o)
  <2>1. /\ UNCHANGED <<index, files>> /\ pc[o] # "fill" /\ ~Writing(o, "index")
        /\ NewRecord(o)' = NewRecord(o)
    BY <1>3, <1>11, PreparingAlone DEF disk, Writing
  <2>2. CASE ListInstall(o)
    <3>1. /\ buf'[o] = OtherRecords(o) \cup {NewRecord(o)}
          /\ pc'[o] = "truncate" /\ file'[o] = "index" /\ call[o].kind = "install"
      BY <2>2 DEF ListInstall, Write, Goto, TypeInv, TypeOK, ControlTypeOK, KindInv, InstallSteps
    <3>2. At(o)'
      BY <3>1 DEF Writing
    <3> QED
      BY <1>5, <1>8, <2>1, <3>1, <3>2 DEF OtherRecords
  <2>3. CASE Lookup(o)
    <3>1. buf'[o] = OtherRecords(o) /\ pc[o] = "lookup"
      BY <2>3 DEF Lookup, Goto, TypeInv, TypeOK, ControlTypeOK
    <3>2. \A r \in buf'[o] : r \in index /\ r.ext # Ext(o)
      BY <1>8, <2>1, <3>1 DEF OtherRecords
    <3> QED
      BY <1>5, <2>1, <3>1, <3>2
  <2>4. CASE SetGrant(o) \/ ClearGrant(o) \/ PinKey(o)
    <3>1. file'[o] # "index" /\ pc'[o] = "truncate" /\ pc[o] # "unpack"
      BY <2>4 DEF SetGrant, ClearGrant, PinKey, Write, Goto, TypeInv, TypeOK, ControlTypeOK
    <3> QED
      BY <1>5, <2>1, <3>1 DEF Rewrites, Writing
  <2> QED
    BY <1>11, <2>2, <2>3, <2>4 DEF Preparing
<1>12. CASE Storing(o)
  <2>1. /\ UNCHANGED <<index, buf>> /\ At(o)' /\ (Rewrites(o)' => Rewrites(o))
        /\ NewRecord(o)' = NewRecord(o)
    BY <1>3, <1>12, StoringAlone DEF Writing, Rewrites, TypeInv, KindInv
  <2>2. \A r \in index : r.ext # Ext(o) => (Full(r) => Full(r)')
    <3>1. ASSUME NEW r \in index, r.ext # Ext(o)
          PROVE  files'[<<r.ext, r.version>>] = files[<<r.ext, r.version>>]
      <4>1. <<r.ext, r.version>> \in Dirs /\ files \in [Dirs -> SUBSET (1 .. NumFiles)]
        BY DEF TypeInv, TypeOK, DiskTypeOK, InstalledRecord, Dirs
      <4>2. <<r.ext, r.version>> # Dir(o) /\ <<r.ext, r.version>> \notin Removed(o)
        BY <3>1 DEF Dir, Removed
      <4> QED
        BY <1>12, <4>1, <4>2 DEF Storing, CleanDir, WriteFile, RemoveDir
    <3> QED
      BY <3>1
  <2>3. At(o) \/ \A r \in index : Full(r)
    BY <1>5
  <2> QED
    BY <1>3, <1>5, <2>1, <2>2 DEF FilesInv
<1>13. CASE Truncate(o)
  <2>1. /\ UNCHANGED <<index, files, buf>> /\ (At(o) => At(o)') /\ (Rewrites(o)' => Rewrites(o))
        /\ NewRecord(o)' = NewRecord(o)
    BY <1>3, <1>13, TruncateAlone DEF Writing, Rewrites
  <2> QED
    BY <1>5, <2>1 DEF FilesInv
<1>14. CASE Fill(o)
  <2>1. ~Rewrites(o)' /\ files' = files
    BY <1>14, FillAlone DEF AfterWrite, Rewrites, Writing
  <2>2. CASE file[o] # "index"
    <3>1. index' = index /\ ~At(o)
      BY <1>14, <2>2, FillAlone DEF Writing
    <3> QED
      BY <1>5, <2>1, <3>1
  <2>3. CASE file[o] = "index"
    <3>1. index' = buf[o] /\ Rewrites(o) /\ HasFiles(o)
      BY <1>14, <2>3, FillAlone DEF Rewrites, Writing, HasFiles
    <3>2. ASSUME NEW r \in buf[o] PROVE Full(r)
      <4>1. CASE r \in index /\ r.ext # Ext(o)
        BY <1>5, <4>1
      <4>2. CASE call[o].kind = "install" /\ r = NewRecord(o)
        <5>1. files[Dir(o)] = 1 .. NumFiles
          BY <1>1, <3>1, <4>2 DEF ProgressInv, FilesProgress
        <5> QED
          BY <4>2, <5>1 DEF NewRecord, Dir
      <4> QED
        BY <3>1, <4>1, <4>2 DEF FilesInv
    <3> QED
      BY <2>1, <3>1, <3>2
  <2> QED
    BY <2>2, <2>3
<1> QED
  BY <1>9, <1>10, <1>11, <1>12, <1>13, <1>14, StepKinds

LEMMA BeginFiles ==
    ASSUME TypeInv, OrderInv, Serial, FilesInv, NEW o \in Ops, NEW c \in Call, Begin(o, c)
    PROVE  FilesInv'
<1>1. \A u \in Ops : pc[u] \notin Steps
  BY SerialBegin DEF Active
<1>2. \A u \in Ops : pc[u] # "unpack" /\ ~Writing(u, "index")
  BY <1>1 DEF Steps, Writing
<1>3. \A u \in Ops : pc'[u] \notin {"truncate", "fill", "remove"}
  BY <1>1, Begins DEF Steps
<1>4. UNCHANGED <<index, files>>
  BY Begins DEF disk
<1> QED
  BY <1>2, <1>3, <1>4 DEF FilesInv, Rewrites, Writing

-----------------------------------------------------------------------------
(* The last decision of the user.                                           *)

\* Who was asked is an install that has passed its prompt.
LEMMA AskedBefore ==
    ASSUME TypeInv, ConsentInv, OrderInv, NEW o \in Ops, StepOf(o)
    PROVE  /\ \A u \in consented : u \in Ops /\ granted'[u] = granted[u] /\ u <= o
           /\ pc[o] \in {"consent", "prompt"} => o \notin consented
           /\ \A u \in Ops : Ext(u)' = Ext(u)
           /\ \A e : Consented(e) \subseteq Consented(e)'
           /\ \A u \in Ops : LastAsked(u)' => LastAsked(u)
<1>1. Alone(o) /\ pc[o] \in Steps
  BY StepAlone DEF Alone
<1>2. pc[o] \in {"consent", "prompt"} => o \notin consented
  BY DEF ConsentInv, PromptInv
<1>3. o \in consented => granted'[o] = granted[o]
  <2>1. ~Deciding(o) => granted'[o] = granted[o]
    BY StepKinds, MovingAlone, PreparingAlone, StoringAlone, TruncateAlone, FillAlone
  <2> QED
    BY <1>2, <2>1, DecidingAlone
<1>4. \A u \in consented : u \in Ops /\ pc[u] # "none"
  BY DEF TypeInv, TypeOK, ConsentInv, PromptInv
<1>5. \A u \in consented : u \in Ops /\ granted'[u] = granted[u] /\ u <= o
  BY <1>1, <1>3, <1>4, TheOneThatRuns DEF Alone
<1>6. \A u \in Ops : Ext(u)' = Ext(u)
  BY <1>1, CallsStay DEF Alone
<1>7. \A e : Consented(e) \subseteq Consented(e)'
  BY <1>1, <1>4, <1>6 DEF Alone, Consented
<1>8. \A u \in Ops : LastAsked(u)' => LastAsked(u)
  BY <1>6, <1>7 DEF LastAsked
<1> QED
  BY <1>2, <1>5, <1>6, <1>7, <1>8

\* An install has its grant stored once grants.json has been filled, and not before.
LEMMA GrantsComeByFilling ==
    ASSUME TypeInv, NEW o \in Ops, StepOf(o), NEW u \in Ops, HasGrant(u)'
    PROVE  HasGrant(u) \/ (u = o /\ Fill(o) /\ file[o] = "grants")
<1>1. Alone(o)
  BY StepAlone
<1>2. CASE u # o
  BY <1>1, <1>2 DEF Alone, HasGrant, Writing
<1>3. CASE u = o
  <2>1. call[o].kind = "install"
    BY <1>1, <1>3 DEF Alone, HasGrant
  <2>2. CASE Moving(o)
    BY <1>3, <2>1, <2>2, MovingAlone DEF HasGrant, Writing, Over, TypeInv, KindInv
  <2>3. CASE Deciding(o)
    BY <1>3, <2>3, DecidingAlone DEF HasGrant, Writing
  <2>4. CASE Preparing(o)
    <3>1. CASE SetGrant(o)
      BY <1>3, <3>1 DEF SetGrant, Write, Goto, HasGrant, Writing, TypeInv, TypeOK, ControlTypeOK
    <3>2. CASE PinKey(o) \/ ListInstall(o)
      BY <1>3, <2>1, <3>2 DEF PinKey, ListInstall, Write, Goto, HasGrant
    <3> QED
      BY <2>1, <2>4, <3>1, <3>2 DEF Preparing, ClearGrant, Lookup, Write, Goto, TypeInv, KindInv
  <2>5. CASE Storing(o)
    BY <1>3, <2>1, <2>5, StoringAlone DEF HasGrant, TypeInv, KindInv
  <2>6. CASE Truncate(o)
    BY <1>3, <2>1, <2>6, TruncateAlone DEF HasGrant, Writing
  <2>7. CASE Fill(o)
    BY <1>3, <2>1, <2>7, FillAlone DEF HasGrant, Writing
  <2> QED
    BY <2>2, <2>3, <2>4, <2>5, <2>6, <2>7, StepKinds
<1> QED
  BY <1>2, <1>3

\* A step after which nobody else has been asked and grants.json is as it was.
LEMMA QuietLatest ==
    ASSUME TypeInv, ConsentInv, OrderInv, LatestInv, NEW o \in Ops, StepOf(o),
           UNCHANGED <<grants, consented>>, ~(Fill(o) /\ file[o] = "grants"),
           LatestOf(o)'
    PROVE  LatestInv'
<1>1. Alone(o) /\ pc[o] \in Steps
  BY StepAlone DEF Alone
<1>2. \A u \in Ops : u # o => pc'[u] \notin Steps
  BY <1>1, TheOneThatRuns DEF Alone
<1>3. \A u \in Ops : u # o => LatestOf(u)'
  BY <1>2 DEF LatestOf, Writing, Steps
<1>4. \A e : Consented(e)' = Consented(e)
  BY AskedBefore DEF Consented, TypeInv, TypeOK
<1>5. ASSUME NEW g \in grants', NEW u \in Consented(g.ext)', LastAsked(u)', HasGrant(u)'
      PROVE  Within(u, g.granted)'
  <2>1. u \in Consented(g.ext) /\ u \in Ops /\ u \in consented
    BY <1>4, <1>5, AskedBefore DEF Consented
  <2>2. LastAsked(u) /\ HasGrant(u) /\ granted'[u] = granted[u]
    BY <1>5, <2>1, AskedBefore, GrantsComeByFilling
  <2> QED
    BY <1>5, <2>1, <2>2 DEF LatestInv, LatestOf, Within
<1> QED
  BY <1>3, <1>5 DEF LatestInv, LatestOf

LEMMA DecidingLatest ==
    ASSUME TypeInv, ConsentInv, OrderInv, TornInv, LatestInv, Intact, NEW o \in Ops,
           GrantAmbient(o) \/ GrantPrior(o) \/ AskUser(o)
    PROVE  LatestInv'
<1>1. StepOf(o) /\ Deciding(o)
  BY DEF StepOf, InstallStep, Deciding
<1>2. /\ Alone(o) /\ pc[o] = "consent" /\ pc'[o] \in {"prompt", "grant"}
      /\ UNCHANGED <<grants, file, buf, consented>>
  BY <1>1, DecidingAlone DEF GrantAmbient, GrantPrior, AskUser, Consent, Goto, disk
<1>3. o \notin consented /\ ~Fill(o) /\ ~Writing(o, "grants")'
  BY <1>1, <1>2, AskedBefore, FillAlone DEF Writing
<1>4. ReadGrants = grants
  BY <1>2, FilesParse DEF Alone
<1>5. ASSUME pc'[o] = "grant", NEW u \in Consented(Ext(o))', LastAsked(u)',
             u = o \/ HasGrant(u)'
      PROVE  granted'[o] \cap Sensitive \subseteq granted'[u]
  <2>1. u \in Consented(Ext(o)) /\ u \in Ops /\ u \in consented /\ u # o
    BY <1>1, <1>2, <1>3, <1>5, AskedBefore DEF Consented, TypeInv, TypeOK
  <2>2. LastAsked(u) /\ HasGrant(u) /\ granted'[u] = granted[u]
    BY <1>1, <1>3, <1>5, <2>1, AskedBefore, GrantsComeByFilling
  <2>3. CASE GrantAmbient(o)
    <3>1. granted'[o] = b(o).perms /\ b(o).perms \cap Sensitive = {}
      BY <2>3 DEF GrantAmbient, Consent, Items, TypeInv, TypeOK, ControlTypeOK
    <3> QED
      BY <3>1 DEF Within
  <2>4. CASE GrantPrior(o)
    <3>1. PICK g \in PriorGrants(Ext(o)) : Consent(o, KeepPrior(o, g), "grant")
      BY <2>4 DEF GrantPrior
    <3>2. granted'[o] \subseteq g.granted
      BY <3>1 DEF Consent, KeepPrior, TypeInv, TypeOK, ControlTypeOK
    <3>3. g \in grants /\ g.ext = Ext(o)
      BY <1>4, <3>1 DEF PriorGrants
    <3>4. Within(u, g.granted)
      BY <2>1, <2>2, <3>3 DEF LatestInv, LatestOf
    <3> QED
      BY <2>2, <3>2, <3>4 DEF Within
  <2>5. CASE AskUser(o)
    BY <1>5, <2>5, GotoMoves DEF AskUser, Consent
  <2> QED
    BY <2>3, <2>4, <2>5
<1>6. LatestOf(o)'
  <2>1. Ext(o)' = Ext(o)
    BY <1>1, AskedBefore
  <2> QED
    BY <1>3, <1>5, <2>1 DEF LatestOf, Within
<1> QED
  BY <1>1, <1>2, <1>3, <1>6, QuietLatest

LEMMA ApproveLatest ==
    ASSUME TypeInv, ConsentInv, OrderInv, LatestInv, NEW o \in Ops, Approve(o)
    PROVE  LatestInv'
<1>1. StepOf(o) /\ Deciding(o)
  BY DEF StepOf, InstallStep, Deciding
<1>2. /\ Alone(o) /\ pc[o] \in Steps /\ pc[o] = "prompt" /\ pc'[o] = "grant"
      /\ grants' = grants /\ consented' = consented \cup {o}
  BY <1>1, DecidingAlone DEF Approve, Goto, disk, Alone, TypeInv, TypeOK, ControlTypeOK
<1>3. \A u \in Ops : u # o => pc'[u] \notin Steps
  BY <1>2, TheOneThatRuns DEF Alone
<1>4. \A u \in Ops : u # o => LatestOf(u)'
  BY <1>3 DEF LatestOf, Writing, Steps
<1>5. ~HasGrant(o)' /\ ~Writing(o, "grants")' /\ ~Fill(o)
  BY <1>2, FillAlone DEF HasGrant, Writing
<1>6. ASSUME NEW g \in grants', NEW u \in Consented(g.ext)', LastAsked(u)', HasGrant(u)'
      PROVE  Within(u, g.granted)'
  <2>1. u \in consented' /\ u # o
    BY <1>5, <1>6 DEF Consented
  <2>2. u \in consented /\ u \in Ops /\ u \in Consented(g.ext)
    BY <1>1, <1>2, <1>6, <2>1, AskedBefore DEF Consented, TypeInv, TypeOK
  <2>3. LastAsked(u) /\ HasGrant(u) /\ granted'[u] = granted[u]
    BY <1>1, <1>5, <1>6, <2>2, AskedBefore, GrantsComeByFilling
  <2> QED
    BY <1>2, <1>6, <2>2, <2>3 DEF LatestInv, LatestOf, Within
<1>7. ASSUME NEW u \in Consented(Ext(o))', LastAsked(u)'
      PROVE  u = o
  <2>1. Ext(o)' = Ext(o) /\ o \in Consented(Ext(o))' /\ u \in consented' /\ Ext(u)' = Ext(o)
    BY <1>1, <1>2, <1>7, AskedBefore DEF Consented
  <2>2. o <= u
    BY <1>7, <2>1 DEF LastAsked
  <2>3. CASE u \in consented
    <3>1. u \in Ops /\ u <= o
      BY <1>1, <2>3, AskedBefore
    <3>2. u \in Nat /\ o \in Nat
      BY <3>1, OpsAreNumbers
    <3> QED
      BY <2>2, <3>1, <3>2
  <2> QED
    BY <1>2, <2>1, <2>3
<1>8. LatestOf(o)'
  <2>1. Ext(o)' = Ext(o)
    BY <1>1, AskedBefore
  <2> QED
    BY <1>5, <1>7, <2>1 DEF LatestOf, Within
<1> QED
  BY <1>4, <1>6, <1>8 DEF LatestInv, LatestOf

LEMMA SetGrantLatest ==
    ASSUME TypeInv, ConsentInv, OrderInv, TornInv, LatestInv, Intact, NEW o \in Ops,
           SetGrant(o) \/ ClearGrant(o)
    PROVE  LatestInv'
<1>1. StepOf(o) /\ Preparing(o)
  BY DEF StepOf, InstallStep, ClearStep, Preparing
<1>2. /\ Alone(o) /\ pc[o] \in {"grant", "forget"} /\ pc[o] \in Steps
      /\ pc'[o] = "truncate" /\ UNCHANGED <<grants, granted, consented>>
  BY <1>1, PreparingAlone DEF SetGrant, ClearGrant, Write, Goto, disk, Alone,
     TypeInv, TypeOK, ControlTypeOK
<1>3. ReadGrants = grants /\ ~Fill(o)
  BY <1>2, FilesParse, FillAlone
<1>4. /\ buf'[o] \subseteq OtherGrants(Ext(o)) \cup {NewGrant(o)}
      /\ ClearGrant(o) => buf'[o] \subseteq OtherGrants(Ext(o))
  BY DEF SetGrant, ClearGrant, Write, TypeInv, TypeOK, ControlTypeOK
<1>5. ASSUME NEW g \in buf'[o], NEW u \in Consented(g.ext)', LastAsked(u)',
             u = o \/ HasGrant(u)'
      PROVE  g.granted \cap Sensitive \subseteq granted'[u]
  <2>1. u \in Consented(g.ext) /\ u \in Ops /\ u \in consented /\ Ext(u) = g.ext
    BY <1>1, <1>2, <1>5, AskedBefore DEF Consented, TypeInv, TypeOK
  <2>2. LastAsked(u) /\ granted'[u] = granted[u] /\ (u = o \/ HasGrant(u))
    BY <1>1, <1>3, <1>5, <2>1, AskedBefore, GrantsComeByFilling
  <2>3. CASE g \in OtherGrants(Ext(o))
    <3>1. g \in grants /\ g.ext # Ext(o)
      BY <1>3, <2>3 DEF OtherGrants
    <3>2. u # o
      BY <2>1, <3>1
    <3> QED
      BY <2>1, <2>2, <3>1, <3>2 DEF LatestInv, LatestOf, Within
  <2>4. CASE g \notin OtherGrants(Ext(o))
    <3>1. g = NewGrant(o) /\ SetGrant(o)
      BY <1>4, <1>5, <2>4
    <3>2. pc[o] = "grant" /\ g.ext = Ext(o) /\ g.granted = granted[o]
      BY <3>1 DEF SetGrant, Write, Goto, NewGrant
    <3> QED
      BY <2>1, <2>2, <3>2 DEF LatestInv, LatestOf, Within
  <2> QED
    BY <2>3, <2>4
<1>6. LatestOf(o)'
  BY <1>2, <1>5 DEF LatestOf, Within
<1> QED
  BY <1>1, <1>2, <1>3, <1>6, QuietLatest

LEMMA FillLatest ==
    ASSUME TypeInv, ConsentInv, OrderInv, LatestInv, NEW o \in Ops, Fill(o),
           file[o] = "grants"
    PROVE  LatestInv'
<1>1. StepOf(o)
  BY DEF StepOf
<1>2. /\ Alone(o) /\ pc[o] \in Steps /\ pc[o] = "fill" /\ pc'[o] \in {"pin", "done"}
      /\ grants' = buf[o] /\ UNCHANGED <<granted, consented>>
  BY FillAlone DEF Alone, AfterWrite
<1>3. \A u \in Ops : pc'[u] # "grant" /\ ~Writing(u, "grants")'
  BY <1>2, TheOneThatRuns DEF Alone, Writing, Steps
<1>4. ASSUME NEW g \in grants', NEW u \in Consented(g.ext)', LastAsked(u)', HasGrant(u)'
      PROVE  Within(u, g.granted)'
  <2>1. u \in Consented(g.ext) /\ u \in Ops /\ u \in consented
    BY <1>1, <1>2, <1>4, AskedBefore DEF Consented, TypeInv, TypeOK
  <2>2. LastAsked(u) /\ (u = o \/ HasGrant(u)) /\ granted'[u] = granted[u]
    BY <1>1, <1>4, <2>1, AskedBefore, GrantsComeByFilling
  <2>3. Writing(o, "grants")
    BY <1>2 DEF Writing
  <2> QED
    BY <1>2, <1>4, <2>1, <2>2, <2>3 DEF LatestInv, LatestOf, Within
<1> QED
  BY <1>3, <1>4 DEF LatestInv, LatestOf

LEMMA StepLatest ==
    ASSUME TypeInv, ConsentInv, OrderInv, TornInv, LatestInv, Intact, NEW o \in Ops, StepOf(o)
    PROVE  LatestInv'
<1>1. CASE Deciding(o)
  BY <1>1, DecidingLatest, ApproveLatest DEF Deciding
<1>2. CASE SetGrant(o) \/ ClearGrant(o)
  BY <1>2, SetGrantLatest
<1>3. CASE Fill(o) /\ file[o] = "grants"
  BY <1>3, FillLatest
<1>4. CASE Moving(o) \/ Storing(o)
  <2>1. UNCHANGED <<grants, consented>> /\ ~Fill(o)
    BY <1>4, MovingAlone, StoringAlone, FillAlone DEF disk, AfterWrite, Over
  <2>2. pc'[o] # "grant" /\ ~Writing(o, "grants")'
    BY <1>4, MovingAlone, StoringAlone DEF Writing, Over, TypeInv, KindInv
  <2> QED
    BY <2>1, <2>2, QuietLatest DEF LatestOf
<1>5. CASE Preparing(o) /\ ~(SetGrant(o) \/ ClearGrant(o))
  <2>1. UNCHANGED <<grants, consented>> /\ ~Fill(o) /\ pc'[o] # "grant"
    BY <1>5, PreparingAlone, FillAlone DEF disk
  <2>2. file'[o] # "grants"
    BY <1>5 DEF Preparing, PinKey, ListInstall, Lookup, Write, TypeInv, TypeOK, ControlTypeOK
  <2> QED
    BY <2>1, <2>2, QuietLatest DEF LatestOf, Writing
<1>6. CASE Truncate(o)
  <2>1. UNCHANGED <<grants, granted, buf, file, consented>> /\ ~Fill(o)
        /\ pc[o] = "truncate" /\ pc'[o] = "fill"
    BY <1>6, TruncateAlone, FillAlone
  <2>2. ASSUME Writing(o, "grants")', NEW g \in buf'[o], NEW u \in Consented(g.ext)',
               LastAsked(u)', u = o \/ HasGrant(u)'
        PROVE  Within(u, g.granted)'
    <3>1. u \in Consented(g.ext) /\ u \in Ops /\ u \in consented
      BY <2>1, <2>2, AskedBefore DEF Consented, TypeInv, TypeOK
    <3>2. LastAsked(u) /\ (u = o \/ HasGrant(u))
      BY <2>1, <2>2, <3>1, AskedBefore, GrantsComeByFilling
    <3>3. Writing(o, "grants")
      BY <2>1, <2>2 DEF Writing
    <3> QED
      BY <2>1, <2>2, <3>1, <3>2, <3>3 DEF LatestInv, LatestOf, Within
  <2> QED
    BY <2>1, <2>2, QuietLatest DEF LatestOf
<1>7. CASE Fill(o) /\ file[o] # "grants"
  <2>1. UNCHANGED <<grants, consented>> /\ pc'[o] # "grant" /\ ~Writing(o, "grants")'
    BY <1>7, FillAlone DEF AfterWrite, Writing
  <2> QED
    BY <1>7, <2>1, QuietLatest DEF LatestOf
<1> QED
  BY <1>1, <1>2, <1>3, <1>4, <1>5, <1>6, <1>7, StepKinds

LEMMA BeginLatest ==
    ASSUME TypeInv, OrderInv, Serial, LatestInv, NEW o \in Ops, NEW c \in Call, Begin(o, c)
    PROVE  LatestInv'
<1>1. \A u \in Ops : pc[u] \notin Steps
  BY SerialBegin DEF Active
<1>2. \A u \in Ops : pc'[u] # "grant" /\ ~Writing(u, "grants")'
  BY <1>1, Begins DEF Steps, Writing
<1>3. UNCHANGED <<grants, granted, consented>> /\ o \notin consented
  BY Begins DEF disk
<1>4. \A u \in Ops : u # o => Ext(u)' = Ext(u) /\ (HasGrant(u)' => HasGrant(u))
  BY <1>1, Begins, CallsStay DEF HasGrant, Writing
<1>5. consented \subseteq Ops /\ \A e : Consented(e)' = Consented(e)
  BY <1>3, <1>4 DEF Consented, TypeInv, TypeOK
<1>6. \A u \in consented : LastAsked(u)' => LastAsked(u)
  BY <1>3, <1>4, <1>5 DEF LastAsked
<1>7. ASSUME NEW g \in grants', NEW u \in Consented(g.ext)', LastAsked(u)', HasGrant(u)'
      PROVE  Within(u, g.granted)'
  <2>1. u \in Consented(g.ext) /\ u \in consented /\ u \in Ops /\ u # o
    BY <1>3, <1>5 DEF Consented
  <2> QED
    BY <1>3, <1>4, <1>6, <1>7, <2>1 DEF LatestInv, LatestOf, Within
<1> QED
  BY <1>2, <1>7 DEF LatestInv, LatestOf

-----------------------------------------------------------------------------
(* All of it together.                                                      *)

\* Operations are numbered, so there is a last one in every set of them.
LEMMA LastExists ==
    ASSUME NEW S, S \subseteq Ops, S # {}
    PROVE  LastOf(S) \in S /\ \A u \in S : u <= LastOf(S)
<1> DEFINE R == OpToRel(<, Nat)
           T == {MaxOps - o : o \in S}
<1>1. S \subseteq Nat /\ \A o \in S : MaxOps - o \in Nat /\ MaxOps - (MaxOps - o) = o
  BY OpsAreNumbers DEF Ops
<1>2. T \subseteq Nat /\ T # {}
  BY <1>1
<1>3. \A m, n \in Nat : m < n => <<m, n>> \in R
  BY DEF OpToRel
<1>4. IsWellFoundedOn(R, Nat)
  BY NatLessThanWellFounded
<1> HIDE DEF R
<1>5. \E m \in T : \A n \in T : ~(<<n, m>> \in R)
  BY <1>2, <1>4, WFMin
<1>6. PICK m \in T : \A n \in T : ~(<<n, m>> \in R)
  BY <1>5
<1>7. PICK o \in S : m = MaxOps - o
  BY <1>6
<1>8. ASSUME NEW u \in S PROVE u <= o
  <2>1. MaxOps - u \in T /\ MaxOps - u \in Nat /\ m \in Nat /\ u \in Nat /\ o \in Nat
    BY <1>1, <1>2
  <2>2. ~(MaxOps - u < m)
    BY <1>3, <1>6, <2>1
  <2> QED
    BY <1>7, <2>1, <2>2, OpsAreNumbers
<1> QED
  BY <1>7, <1>8 DEF LastOf

LEMMA InitSerial == Init => SerialInv
<1> SUFFICES ASSUME Init PROVE SerialInv
  OBVIOUS
<1>1. OrderInv
  BY OpsAreNumbers DEF Init, OrderInv, Ops
<1>2. TornInv /\ ProgressInv
  BY DEF Init, TornInv, ProgressInv, GrantProgress, PinProgress, FilesProgress,
         IndexProgress, HasGrant, HasPin, HasFiles, Unstarted, Writing, NoCall
<1>3. KeysInv /\ KeptInv /\ LatestInv /\ FilesInv
  BY DEF Init, KeysInv, KeysOf, KeptInv, LatestInv, LatestOf, FilesInv, Writing, Rewrites
<1> QED
  BY <1>1, <1>2, <1>3 DEF SerialInv

LEMMA StutterSerial == SerialInv /\ UNCHANGED vars => SerialInv'
<1> SUFFICES ASSUME SerialInv, UNCHANGED vars PROVE SerialInv'
  OBVIOUS
<1> USE DEF vars, disk, control
<1>1. (OrderInv => OrderInv') /\ (TornInv => TornInv') /\ (Intact' => Intact) /\ (Uncut' => Uncut)
  BY DEF OrderInv, TornInv, Intact, Uncut
<1>2. \A o : /\ Ext(o)' = Ext(o) /\ Publisher(o)' = Publisher(o) /\ Dir(o)' = Dir(o)
             /\ InstallPin(o)' = InstallPin(o) /\ NewGrant(o)' = NewGrant(o)
             /\ NewRecord(o)' = NewRecord(o) /\ Pins(o)' = Pins(o)
  BY DEF Ext, Publisher, Dir, InstallPin, NewGrant, NewRecord, Pins, b, ReadTrust
<1>3. ReadIndex' = ReadIndex /\ \A e : PriorGrants(e)' = PriorGrants(e)
  BY DEF ReadIndex, ReadGrants, PriorGrants
<1>4. ProgressInv => ProgressInv'
  BY <1>2, <1>3 DEF ProgressInv, GrantProgress, PinProgress, FilesProgress, IndexProgress,
                    HasGrant, HasPin, HasFiles, Unstarted, Writing
<1>5. KeysInv => KeysInv'
  BY <1>2 DEF KeysInv, KeysOf, Writing, Rewrites, RecordPin
<1>6. KeptInv => KeptInv'
  <2>1. \A o : LastDone(o)' <=> LastDone(o)
    BY <1>2 DEF LastDone, Completed
  <2> QED
    BY <1>2, <2>1 DEF KeptInv, Writing, Rewrites
<1>7. LatestInv => LatestInv'
  <2>1. \A e : Consented(e)' = Consented(e)
    BY <1>2 DEF Consented
  <2>2. \A o : (LastAsked(o)' <=> LastAsked(o)) /\ (HasGrant(o)' <=> HasGrant(o))
    BY <1>2, <2>1 DEF LastAsked, HasGrant, Writing
  <2> QED
    BY <1>2, <2>1, <2>2 DEF LatestInv, LatestOf, Writing, Within
<1>8. FilesInv => FilesInv'
  BY <1>2 DEF FilesInv, Writing, Rewrites
<1> QED
  BY <1>1, <1>4, <1>5, <1>6, <1>7, <1>8 DEF SerialInv, Serial

LEMMA NextSerial == SerialInv /\ ConsentInv /\ TypeInv /\ [Next]_vars => SerialInv'
<1> SUFFICES ASSUME SerialInv, ConsentInv, TypeInv, [Next]_vars PROVE SerialInv'
  OBVIOUS
<1>1. CASE UNCHANGED vars
  BY <1>1, StutterSerial
<1>2. CASE ~Serial
  BY <1>2 DEF SerialInv, Serial
<1>3. ASSUME Serial, NEW o \in Ops, NEW c \in Call, Begin(o, c) PROVE SerialInv'
  <2>1. (Intact' => Intact) /\ (Uncut' => Uncut)
    BY <1>3, CutsStay DEF SerialInv
  <2>2. OrderInv' /\ TornInv' /\ ProgressInv'
    BY <1>3, BeginOrder, BeginTorn, BeginProgress DEF SerialInv
  <2>3. Intact' => KeysInv' /\ KeptInv' /\ LatestInv'
    BY <1>3, <2>1, BeginKeys, BeginKept, BeginLatest DEF SerialInv
  <2>4. Uncut' => FilesInv'
    BY <1>3, <2>1, BeginFiles DEF SerialInv
  <2> QED
    BY <2>2, <2>3, <2>4 DEF SerialInv
<1>4. ASSUME Serial, NEW o \in Ops, StepOf(o) PROVE SerialInv'
  <2>1. (Intact' => Intact) /\ (Uncut' => Uncut) /\ (Uncut => Intact)
    BY <1>4, CutsStay DEF SerialInv
  <2>2. OrderInv' /\ TornInv' /\ ProgressInv'
    BY <1>4, StepOrder, StepTorn, StepProgress DEF SerialInv
  <2>3. Intact' => KeysInv' /\ KeptInv' /\ LatestInv'
    BY <1>4, <2>1, StepKeys, StepKept, StepLatest DEF SerialInv
  <2>4. Uncut' => FilesInv'
    BY <1>4, <2>1, StepFiles DEF SerialInv
  <2> QED
    BY <2>2, <2>3, <2>4 DEF SerialInv
<1>5. CASE Finished
  BY <1>1, <1>5 DEF Finished
<1> QED
  BY <1>1, <1>2, <1>3, <1>4, <1>5 DEF Next, StepOf

LEMMA SerialHolds == Spec => [](SerialInv /\ TypeInv)
<1> QED
  BY InitSerial, NextSerial, TypesHold, ConsentHolds, PTL DEF Spec

-----------------------------------------------------------------------------
(* Theorems about operations one at a time.                                 *)

\* One operation at a time and no file torn: the stored grant of an extension
\* never exceeds the last decision its user took (finishInstallWithConsent,
\* Grants.set, Grants.clear).
THEOREM LatestDecisionStandsHolds == Spec => []LatestDecisionStands
<1>1. SerialInv /\ TypeInv => LatestDecisionStands
  <2> SUFFICES ASSUME SerialInv, TypeInv, Serial, Intact,
                      NEW g \in grants, Consented(g.ext) # {},
                      pc[LastOf(Consented(g.ext))] \in {"done", "refused_key"}
               PROVE  g.granted \cap Sensitive \subseteq granted[LastOf(Consented(g.ext))]
    BY DEF LatestDecisionStands
  <2> DEFINE o == LastOf(Consented(g.ext))
  <2>1. o \in Consented(g.ext) /\ \A u \in Consented(g.ext) : u <= o
    BY LastExists DEF Consented, TypeInv, TypeOK
  <2>2. o \in consented /\ Ext(o) = g.ext /\ LastAsked(o)
    BY <2>1 DEF Consented, LastAsked
  <2>3. call[o].kind = "install"
    BY <2>2 DEF SerialInv, OrderInv
  <2>4. HasGrant(o)
    BY <2>3 DEF HasGrant
  <2> QED
    BY <2>1, <2>2, <2>4 DEF SerialInv, LatestInv, LatestOf, Within
<1> QED
  BY <1>1, SerialHolds, PTL

\* One operation at a time and no file torn: everything installed of a publisher
\* is signed with one key (enforcePinning, Store.install).
THEOREM OneKeyPerPublisherHolds == Spec => []OneKeyPerPublisher
<1>1. SerialInv => OneKeyPerPublisher
  <2> SUFFICES ASSUME SerialInv, Serial, Intact, NEW r \in index, NEW s \in index,
                      PublisherOf[r.ext] = PublisherOf[s.ext]
               PROVE  r.key = s.key
    BY DEF OneKeyPerPublisher
  <2>1. RecordPin(r) \in trust /\ RecordPin(s) \in trust
    BY DEF SerialInv, KeysInv, KeysOf
  <2>2. RecordPin(r) = RecordPin(s)
    <3>1. RecordPin(r).publisher = RecordPin(s).publisher
      BY DEF RecordPin
    <3> QED
      BY <2>1, <3>1 DEF SerialInv, KeysInv, KeysOf
  <2>3. RecordPin(r).key = r.key /\ RecordPin(s).key = s.key
    BY DEF RecordPin
  <2> QED
    BY <2>2, <2>3
<1> QED
  BY <1>1, SerialHolds, PTL

\* One operation at a time and no file torn: the last install of an extension
\* that finished stays in installed.json until the extension is installed or
\* uninstalled again (Store.install, Store.uninstall).
THEOREM IndexKeepsInstallsHolds == Spec => []IndexKeepsInstalls
<1>1. SerialInv => IndexKeepsInstalls
  <2> SUFFICES ASSUME SerialInv, Serial, Intact, NEW e \in Exts, Completed(e) # {},
                      call[LastOf(Completed(e))].kind = "install"
               PROVE  NewRecord(LastOf(Completed(e))) \in index
    BY DEF IndexKeepsInstalls
  <2> DEFINE o == LastOf(Completed(e))
  <2>1. o \in Completed(e) /\ \A u \in Completed(e) : u <= o
    BY LastExists DEF Completed
  <2>2. o \in Ops /\ pc[o] = "done" /\ Ext(o) = e /\ LastDone(o)
    BY <2>1 DEF Completed, LastDone
  <2> QED
    BY <2>2 DEF SerialInv, KeptInv
<1> QED
  BY <1>1, SerialHolds, PTL

\* One operation at a time, none cut off: every record of installed.json has all
\* the files of its bundle (Store.install, Store.uninstall).
THEOREM IndexedFilesPresentHolds == Spec => []IndexedFilesPresent
<1>1. SerialInv /\ TypeInv => IndexedFilesPresent
  <2> SUFFICES ASSUME SerialInv, TypeInv, Serial, Quiet, Uncut, NEW r \in ReadIndex
               PROVE  files[<<r.ext, r.version>>] = 1 .. NumFiles
    BY DEF IndexedFilesPresent, Uncut
  <2>1. r \in index
    BY ReadsAreTyped
  <2>2. \A o \in Ops : pc[o] \notin Steps
    BY DEF Quiet, Active
  <2>3. \A o \in Ops : pc[o] # "unpack" /\ ~Writing(o, "index")
    BY <2>2 DEF Steps, Writing
  <2> QED
    BY <2>1, <2>3 DEF SerialInv, FilesInv
<1> QED
  BY <1>1, SerialHolds, PTL

\* One operation at a time: an install that has just finished has done all of its
\* work, whatever operations that were cut off left behind
\* (finishInstallWithConsent, enforcePinning, Store.install).
THEOREM FinishedInstallStandsHolds == Spec => []FinishedInstallStands
<1>1. SerialInv => FinishedInstallStands
  <2> SUFFICES ASSUME SerialInv, Serial, NEW o \in Ops, pc[o] = "done",
                      call[o].kind = "install", started = o
               PROVE  /\ {r \in ReadIndex : r.ext = Ext(o)} = {NewRecord(o)}
                      /\ files[Dir(o)] = 1 .. NumFiles
                      /\ PriorGrants(Ext(o)) = {NewGrant(o)}
                      /\ \A p \in Pins(o) : p.key = b(o).key
                      /\ Pins(o) # {}
    BY DEF FinishedInstallStands
  <2>1. GrantProgress(o) /\ PinProgress(o) /\ FilesProgress(o) /\ IndexProgress(o)
    BY DEF SerialInv, ProgressInv
  <2>2. HasGrant(o) /\ HasPin(o) /\ HasFiles(o)
    BY DEF HasGrant, HasPin, HasFiles
  <2>3. Pins(o) = {InstallPin(o)}
    BY <2>1, <2>2 DEF PinProgress
  <2> QED
    BY <2>1, <2>2, <2>3 DEF GrantProgress, FilesProgress, IndexProgress, InstallPin
<1> QED
  BY <1>1, SerialHolds, PTL
=============================================================================
