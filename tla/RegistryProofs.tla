--------------------------- MODULE RegistryProofs ---------------------------
(***************************************************************************)
(* Proofs about modules Registry, Listing and Import, for any users,       *)
(* names, channels, versions, tarballs, stubs, slots and bounds; and about *)
(* module VersionOrder, which says how the numbers they use for versions   *)
(* are ordered.                                                            *)
(***************************************************************************)
EXTENDS Import, VersionOrder, PublishProofs

\* What a handler carries from one of its calls to the next.
LEMMA OpFields ==
    ASSUME RegistryTypeOK, NEW x \in Slots, op[x] # NULL
    PROVE  LET o == op[x] IN
           /\ o \in Ops
           /\ o.kind = "set_yanked" => o \in [kind : {"set_yanked"}, at : Targets, to : BOOLEAN]
           /\ o.kind \in {"delete_package_dir", "delete_prebuilts"} =>
                 o \in [kind : {"delete_package_dir", "delete_prebuilts"}, name : Spellings,
                        channel : Channels]
           /\ o.kind = "gc" => o \in [kind : {"gc"}, todo : SUBSET (Spellings \X Versions)]
           /\ o.kind = "read" => o \in [kind : {"read"}, at : Targets, checksum : Contents]
           /\ o.kind \in {"save_prebuilt", "store_prebuilt", "read_prebuilt"} =>
                 o \in [kind : {"save_prebuilt", "store_prebuilt", "read_prebuilt"},
                        at : Targets]
BY DEF RegistryTypeOK, Ops

LEMMA TargetFields ==
    ASSUME NEW t \in Targets
    PROVE  /\ t.name \in Spellings /\ t.channel \in Channels /\ t.vers \in Versions
           /\ KeyOf(t) \in Keys
BY SetsAssumption DEF Targets, KeyOf, Keys

\* A step of another handler deletes a package, or leaves the tables of packages,
\* versions and owners, and the publish handlers, as they are.
LEMMA OpCases ==
    ASSUME RegistryTypeOK, NEW x \in Slots, OpStep(x)
    PROVE  \/ DeletePackage(x)
           \/ /\ UNCHANGED <<dbVars, pc, req, pid, deletes>>
              /\ faults' \in {faults, faults + 1}
              /\ yanked' = yanked \/ SetYanked(x)
BY DEF OpStep, CheckYanker, SetYanked, DeletePackageDir, DeletePackagePrebuilts,
       ListYankedVersions, DeleteVersion, GetVersion, ReadTarball, Served, CheckUploader,
       SavePrebuilt, StorePrebuilt, GetPrebuilt, ReadPrebuilt, AbortOp, vars, shelves,
       prebuiltVars

\* What a deletion takes with it.
LEMMA Deleted ==
    ASSUME RegistryTypeOK, NEW x \in Slots, DeletePackage(x)
    PROVE  /\ UNCHANGED <<blobs, pc, req, pid, faults, prebuiltVars>>
           /\ deletes' = deletes + 1
           /\ \E k0 \in Keys :
                 /\ pkgId' = [pkgId EXCEPT ![k0] = 0]
                 /\ pkgName' = [pkgName EXCEPT ![k0] = NULL]
                 /\ latest' = [latest EXCEPT ![k0] = NULL]
                 /\ status' = [status EXCEPT ![k0] = [v \in Versions |-> "none"]]
                 /\ digest' = [digest EXCEPT ![k0] = [v \in Versions |-> NULL]]
                 /\ publisher' = [publisher EXCEPT ![k0] = [v \in Versions |-> NULL]]
                 /\ owners' = [owners EXCEPT ![k0] = {}]
                 /\ yanked' = [yanked EXCEPT ![k0] = [v \in Versions |-> FALSE]]
<1>1. PICK s \in Spellings, c \in Channels :
        LET k == <<Lower[s], c>> IN
          /\ pkgId' = [pkgId EXCEPT ![k] = 0]
          /\ pkgName' = [pkgName EXCEPT ![k] = NULL]
          /\ latest' = [latest EXCEPT ![k] = NULL]
          /\ status' = [status EXCEPT ![k] = [v \in Versions |-> "none"]]
          /\ digest' = [digest EXCEPT ![k] = [v \in Versions |-> NULL]]
          /\ publisher' = [publisher EXCEPT ![k] = [v \in Versions |-> NULL]]
          /\ owners' = [owners EXCEPT ![k] = {}]
          /\ yanked' = [yanked EXCEPT ![k] = [v \in Versions |-> FALSE]]
  BY DEF DeletePackage
<1>2. <<Lower[s], c>> \in Keys
  BY SetsAssumption DEF Keys
<1> QED
  BY <1>1, <1>2 DEF DeletePackage

-----------------------------------------------------------------------------
(* Types, and nothing without a package.                                   *)

\* The tables, whichever handler a step is of.
LEMMA TablesType ==
    ASSUME RegistryTypeOK, NEW x \in Slots, OpStep(x),
           blobs' \in [Spellings -> [Versions -> Contents \cup {NULL}]],
           faults' \in 0..MaxFaults
    PROVE  TypeOK'
<1>1. CASE DeletePackage(x)
  <2>1. PICK k0 \in Keys :
          /\ pkgId' = [pkgId EXCEPT ![k0] = 0]
          /\ pkgName' = [pkgName EXCEPT ![k0] = NULL]
          /\ latest' = [latest EXCEPT ![k0] = NULL]
          /\ status' = [status EXCEPT ![k0] = [v \in Versions |-> "none"]]
          /\ digest' = [digest EXCEPT ![k0] = [v \in Versions |-> NULL]]
          /\ publisher' = [publisher EXCEPT ![k0] = [v \in Versions |-> NULL]]
          /\ owners' = [owners EXCEPT ![k0] = {}]
    BY <1>1, Deleted
  <2>2. UNCHANGED <<pc, req, pid>>
    BY <1>1, Deleted
  <2>3. /\ pkgId' \in [Keys -> 0..MaxId]
        /\ pkgName' \in [Keys -> Spellings \cup {NULL}]
        /\ latest' \in [Keys -> Versions \cup {NULL}]
        /\ owners' \in [Keys -> SUBSET Users]
    BY <2>1, BoundsAssumption DEF RegistryTypeOK, TypeOK
  <2>4. /\ status' \in [Keys -> [Versions -> Statuses]]
        /\ digest' \in [Keys -> [Versions -> Contents \cup {NULL}]]
        /\ publisher' \in [Keys -> [Versions -> Users \cup {NULL}]]
    BY <2>1 DEF RegistryTypeOK, TypeOK, Statuses
  <2> QED
    BY <2>2, <2>3, <2>4 DEF RegistryTypeOK, TypeOK
<1>2. CASE UNCHANGED <<dbVars, pc, req, pid>>
  BY <1>2 DEF RegistryTypeOK, TypeOK, dbVars, packageVars, versionVars
<1> QED
  BY <1>1, <1>2, OpCases

\* The store's own state, by the kind of step.
LEMMA ReaderType ==
    ASSUME StoreInv, NEW x \in Slots,
           \/ CheckYanker(x) \/ ListYankedVersions(x) \/ GetVersion(x) \/ ReadTarball(x)
           \/ Served(x) \/ CheckUploader(x) \/ GetPrebuilt(x) \/ ReadPrebuilt(x)
    PROVE  RegistryTypeOK'
<1> USE DEF StoreInv
<1>1. UNCHANGED <<vars, shelves>>
  BY DEF CheckYanker, ListYankedVersions, GetVersion, ReadTarball, Served, CheckUploader,
         GetPrebuilt, ReadPrebuilt
<1>2. TypeOK'
  BY <1>1, TypeStep DEF RegistryTypeOK
<1>3. ASSUME NEW o \in Ops \cup {NULL}, op' = [op EXCEPT ![x] = o]
      PROVE  RegistryTypeOK'
  <2>1. op' \in [Slots -> Ops \cup {NULL}]
    BY <1>3 DEF RegistryTypeOK
  <2> QED
    BY <1>1, <1>2, <2>1 DEF RegistryTypeOK, shelves, prebuiltVars
<1>4. CASE Finish(x)
  BY <1>3, <1>4 DEF Finish
<1>5. CASE CheckYanker(x)
  <2>1. PICK t \in Targets, to \in BOOLEAN :
          op' = [op EXCEPT ![x] = [kind |-> "set_yanked", at |-> t, to |-> to]]
    BY <1>5 DEF CheckYanker, Begin
  <2>2. [kind |-> "set_yanked", at |-> t, to |-> to] \in Ops
    BY DEF Ops
  <2> QED
    BY <1>3, <2>1, <2>2
<1>6. CASE ListYankedVersions(x)
  <2> DEFINE todo == {<<pkgName[y[1]], y[2]>> : y \in Yanked}
  <2>1. ASSUME NEW y \in Yanked PROVE <<pkgName[y[1]], y[2]>> \in Spellings \X Versions
    <3>1. y[1] \in Keys /\ y[2] \in Versions /\ yanked[y[1]][y[2]]
      BY <2>1 DEF Yanked
    <3>2. pkgId[y[1]] # 0
      BY <3>1 DEF NothingWithoutPackage
    <3> QED
      BY <3>1, <3>2 DEF PackagesAreNamed, RegistryTypeOK, TypeOK
  <2>2. todo \subseteq Spellings \X Versions
    BY <2>1
  <2>3. [kind |-> "gc", todo |-> todo] \in Ops
    BY <2>2 DEF Ops
  <2>4. op' = [op EXCEPT ![x] = [kind |-> "gc", todo |-> todo]]
    BY <1>6 DEF ListYankedVersions, Begin
  <2> QED
    BY <1>3, <2>3, <2>4
<1>7. CASE GetVersion(x)
  <2>1. PICK t \in Targets :
          /\ digest[KeyOf(t)][t.vers] # NULL
          /\ op' = [op EXCEPT ![x] = [kind |-> "read", at |-> t,
                                      checksum |-> digest[KeyOf(t)][t.vers]]]
    BY <1>7 DEF GetVersion, Begin
  <2>2. digest[KeyOf(t)][t.vers] \in Contents
    BY <2>1, TargetFields DEF RegistryTypeOK, TypeOK
  <2>3. [kind |-> "read", at |-> t, checksum |-> digest[KeyOf(t)][t.vers]] \in Ops
    BY <2>2 DEF Ops
  <2> QED
    BY <1>3, <2>1, <2>3
<1>8. CASE ReadTarball(x)
  <2>1. op[x].at \in Targets
    BY <1>8, OpFields DEF ReadTarball, Running
  <2>2. blobs[op[x].at.name][op[x].at.vers] \in Contents \cup {NULL}
    BY <2>1, TargetFields DEF RegistryTypeOK, TypeOK
  <2>3. [kind |-> "served", at |-> op[x].at,
         bytes |-> blobs[op[x].at.name][op[x].at.vers]] \in Ops
    BY <2>1, <2>2 DEF Ops
  <2> QED
    BY <1>3, <1>8, <2>3 DEF ReadTarball
<1>9. CASE Served(x)
  BY <1>4, <1>9 DEF Served
<1>10. CASE CheckUploader(x)
  <2>1. PICK t \in Targets : op' = [op EXCEPT ![x] = [kind |-> "save_prebuilt", at |-> t]]
    BY <1>10 DEF CheckUploader, Begin
  <2>2. [kind |-> "save_prebuilt", at |-> t] \in Ops
    BY DEF Ops
  <2> QED
    BY <1>3, <2>1, <2>2
<1>11. CASE GetPrebuilt(x)
  <2>1. PICK t \in Targets : op' = [op EXCEPT ![x] = [kind |-> "read_prebuilt", at |-> t]]
    BY <1>11 DEF GetPrebuilt, Begin
  <2>2. [kind |-> "read_prebuilt", at |-> t] \in Ops
    BY DEF Ops
  <2> QED
    BY <1>3, <2>1, <2>2
<1>12. CASE ReadPrebuilt(x)
  <2>1. op[x].at \in Targets
    BY <1>12, OpFields DEF ReadPrebuilt, Running
  <2>2. [kind |-> "served_prebuilt", at |-> op[x].at, bytes |-> op[x].at.channel] \in Ops
    BY <2>1, TargetFields DEF Ops
  <2>3. \/ op' = [op EXCEPT ![x] = [kind |-> "served_prebuilt", at |-> op[x].at,
                                    bytes |-> op[x].at.channel]]
        \/ Finish(x)
    BY <1>12 DEF ReadPrebuilt, ChecksumMatches
  <2> QED
    BY <1>3, <1>4, <2>2, <2>3
<1> QED
  BY <1>5, <1>6, <1>7, <1>8, <1>9, <1>10, <1>11, <1>12

LEMMA WriterType ==
    ASSUME RegistryTypeOK, NEW x \in Slots,
           \/ SetYanked(x) \/ DeletePackage(x) \/ DeletePackageDir(x)
           \/ DeletePackagePrebuilts(x) \/ DeleteVersion(x) \/ SavePrebuilt(x)
           \/ StorePrebuilt(x) \/ AbortOp(x)
    PROVE  RegistryTypeOK'
<1> USE DEF shelves, prebuiltVars
<1>1. ASSUME NEW o \in Ops \cup {NULL}, op' = [op EXCEPT ![x] = o]
      PROVE  op' \in [Slots -> Ops \cup {NULL}]
  BY <1>1 DEF RegistryTypeOK
<1>2. CASE SetYanked(x)
  <2>1. op[x].at \in Targets /\ op[x].to \in BOOLEAN
    BY <1>2, OpFields DEF SetYanked, Running
  <2>2. yanked' \in [Keys -> [Versions -> BOOLEAN]]
    BY <1>2, <2>1 DEF SetYanked, RegistryTypeOK, HasRow
  <2>3. TypeOK'
    BY <1>2, TypeStep DEF SetYanked, RegistryTypeOK
  <2> QED
    BY <1>1, <1>2, <2>2, <2>3 DEF SetYanked, Finish, RegistryTypeOK
<1>3. CASE DeletePackage(x)
  <2>1. TypeOK'
    <3>1. OpStep(x)
      BY <1>3 DEF OpStep, DeletePackage, Begin
    <3> QED
      BY <1>3, <3>1, TablesType, Deleted DEF RegistryTypeOK, TypeOK
  <2>2. deletes' \in 0..MaxDeletes
    BY <1>3, RegistryAssumption DEF DeletePackage, RegistryTypeOK
  <2>3. yanked' \in [Keys -> [Versions -> BOOLEAN]]
    <3>1. PICK k0 \in Keys : yanked' = [yanked EXCEPT ![k0] = [v \in Versions |-> FALSE]]
      BY <1>3, Deleted
    <3>2. [v \in Versions |-> FALSE] \in [Versions -> BOOLEAN]
      OBVIOUS
    <3> QED
      BY <3>1, <3>2 DEF RegistryTypeOK
  <2>4. PICK s \in Spellings, c \in Channels :
          op' = [op EXCEPT ![x] = [kind |-> "delete_package_dir", name |-> s, channel |-> c]]
    BY <1>3 DEF DeletePackage, Begin
  <2>5. [kind |-> "delete_package_dir", name |-> s, channel |-> c] \in Ops
    BY DEF Ops
  <2> QED
    BY <1>1, <1>3, <2>1, <2>2, <2>3, <2>4, <2>5 DEF DeletePackage, RegistryTypeOK
<1>4. CASE DeletePackageDir(x)
  <2>1. /\ op[x].name \in Spellings /\ op[x].channel \in Channels
        /\ op[x] \in [kind : {"delete_package_dir", "delete_prebuilts"}, name : Spellings,
                      channel : Channels]
    BY <1>4, OpFields DEF DeletePackageDir, Running
  <2> DEFINE o == [op[x] EXCEPT !.kind = "delete_prebuilts"]
  <2>2. o \in [kind : {"delete_package_dir", "delete_prebuilts"}, name : Spellings,
               channel : Channels]
    BY <2>1
  <2>3. o \in Ops
    BY <2>2 DEF Ops
  <2>4. op' = [op EXCEPT ![x] = o]
    BY <1>4 DEF DeletePackageDir
  <2>5. /\ blobs' \in [Spellings -> [Versions -> Contents \cup {NULL}]]
        /\ binaries' \in [Spellings -> [Versions -> Channels \cup {NULL}]]
    <3>1. CASE UNCHANGED <<blobs, binaries>>
      BY <3>1 DEF RegistryTypeOK, TypeOK
    <3>2. CASE /\ blobs' = [blobs EXCEPT ![op[x].name] = [v \in Versions |-> NULL]]
               /\ binaries' = [binaries EXCEPT ![op[x].name] = [v \in Versions |-> NULL]]
      BY <2>1, <3>2 DEF RegistryTypeOK, TypeOK
    <3> QED
      BY <1>4, <3>1, <3>2 DEF DeletePackageDir
  <2>6. faults' \in 0..MaxFaults
    BY <1>4, BoundsAssumption DEF DeletePackageDir, RegistryTypeOK, TypeOK
  <2>7. TypeOK'
    BY <1>4, <2>5, <2>6, TablesType DEF OpStep
  <2> QED
    BY <1>1, <1>4, <2>3, <2>4, <2>5, <2>7 DEF DeletePackageDir, RegistryTypeOK
<1>5. CASE DeletePackagePrebuilts(x)
  <2>1. op[x].name \in Spellings /\ op[x].channel \in Channels
    BY <1>5, OpFields DEF DeletePackagePrebuilts, Running
  <2>2. prebuilts' \in [Keys -> [Versions -> BOOLEAN]]
    BY <1>5 DEF DeletePackagePrebuilts, RegistryTypeOK
  <2>3. TypeOK'
    BY <1>5, TypeStep DEF DeletePackagePrebuilts, RegistryTypeOK
  <2> QED
    BY <1>1, <1>5, <2>2, <2>3 DEF DeletePackagePrebuilts, Finish, RegistryTypeOK
<1>6. CASE DeleteVersion(x)
  <2>1. op[x] \in [kind : {"gc"}, todo : SUBSET (Spellings \X Versions)]
    BY <1>6, OpFields DEF DeleteVersion, Running
  <2>2. PICK t \in op[x].todo :
          /\ blobs' = [blobs EXCEPT ![t[1]][t[2]] = NULL]
          /\ binaries' = [binaries EXCEPT ![t[1]][t[2]] = NULL]
          /\ IF op[x].todo = {t}
               THEN Finish(x)
               ELSE op' = [op EXCEPT ![x].todo = @ \ {t}]
    BY <1>6 DEF DeleteVersion
  <2>3. /\ blobs' \in [Spellings -> [Versions -> Contents \cup {NULL}]]
        /\ binaries' \in [Spellings -> [Versions -> Channels \cup {NULL}]]
    BY <2>1, <2>2 DEF RegistryTypeOK, TypeOK
  <2> DEFINE o == [op[x] EXCEPT !.todo = @ \ {t}]
  <2>4. o \in [kind : {"gc"}, todo : SUBSET (Spellings \X Versions)]
    BY <2>1
  <2>5. o \in Ops
    BY <2>4 DEF Ops
  <2>6. op' = [op EXCEPT ![x] = o] \/ op' = [op EXCEPT ![x] = NULL]
    BY <2>2 DEF Finish
  <2>7. op' \in [Slots -> Ops \cup {NULL}]
    BY <1>1, <2>5, <2>6
  <2>8. TypeOK'
    <3>1. faults' = faults
      BY <1>6 DEF DeleteVersion
    <3> QED
      BY <1>6, <2>3, <3>1, TablesType DEF OpStep, RegistryTypeOK, TypeOK
  <2> QED
    BY <1>6, <2>3, <2>7, <2>8 DEF DeleteVersion, RegistryTypeOK
<1>7. CASE SavePrebuilt(x) \/ StorePrebuilt(x)
  <2>1. /\ op[x] \in [kind : {"save_prebuilt", "store_prebuilt", "read_prebuilt"},
                      at : Targets]
        /\ op[x].at.name \in Spellings /\ op[x].at.channel \in Channels
    BY <1>7, OpFields, TargetFields DEF SavePrebuilt, StorePrebuilt, Running
  <2> DEFINE o == [op[x] EXCEPT !.kind = "store_prebuilt"]
  <2>2. o \in [kind : {"save_prebuilt", "store_prebuilt", "read_prebuilt"}, at : Targets]
    BY <2>1
  <2>3. o \in Ops
    BY <2>2 DEF Ops
  <2>4. op' \in [Slots -> Ops \cup {NULL}]
    BY <1>1, <1>7, <2>3 DEF SavePrebuilt, StorePrebuilt, Finish
  <2>5. /\ binaries' \in [Spellings -> [Versions -> Channels \cup {NULL}]]
        /\ prebuilts' \in [Keys -> [Versions -> BOOLEAN]]
    <3>1. CASE SavePrebuilt(x)
      BY <2>1, <3>1 DEF SavePrebuilt, RegistryTypeOK
    <3>2. CASE StorePrebuilt(x)
      BY <3>2 DEF StorePrebuilt, RegistryTypeOK
    <3> QED
      BY <1>7, <3>1, <3>2
  <2>6. TypeOK'
    BY <1>7, TypeStep DEF SavePrebuilt, StorePrebuilt, RegistryTypeOK
  <2> QED
    BY <1>7, <2>4, <2>5, <2>6 DEF SavePrebuilt, StorePrebuilt, RegistryTypeOK
<1>8. CASE AbortOp(x)
  <2>1. faults' \in 0..MaxFaults /\ UNCHANGED blobs
    BY <1>8, BoundsAssumption DEF AbortOp, RegistryTypeOK, TypeOK
  <2>2. TypeOK'
    BY <1>8, <2>1, TablesType DEF OpStep, RegistryTypeOK, TypeOK
  <2> QED
    BY <1>1, <1>8, <2>2 DEF AbortOp, Finish, RegistryTypeOK
<1> QED
  BY <1>2, <1>3, <1>4, <1>5, <1>6, <1>7, <1>8

LEMMA RegistryTypeStep ==
    ASSUME StoreInv, [RegistryNext]_allVars
    PROVE  RegistryTypeOK'
<1>1. CASE PublishStep
  <2>1. TypeOK'
    BY <1>1, TypeStep DEF PublishStep, Next, StoreInv, RegistryTypeOK
  <2> QED
    BY <1>1, <2>1
    DEF PublishStep, storeVars, shelves, prebuiltVars, StoreInv, RegistryTypeOK
<1>2. ASSUME NEW x \in Slots, OpStep(x)
      PROVE  RegistryTypeOK'
  BY <1>2, ReaderType, WriterType DEF OpStep, StoreInv
<1>3. CASE RestartServer
  <2>1. TypeOK'
    BY <1>3, TypeStep DEF RestartServer, Next, StoreInv, RegistryTypeOK
  <2> QED
    BY <1>3, <2>1 DEF RestartServer, shelves, prebuiltVars, StoreInv, RegistryTypeOK
<1>4. CASE UNCHANGED allVars
  <2>1. TypeOK'
    BY <1>4, TypeStep DEF allVars, StoreInv, RegistryTypeOK
  <2> QED
    BY <1>4, <2>1
    DEF allVars, storeVars, shelves, prebuiltVars, StoreInv, RegistryTypeOK
<1> QED
  BY <1>2, <1>1, <1>3, <1>4 DEF RegistryNext

\* Which statements of the publish path write the tables.
LEMMA WritingSteps ==
    ASSUME [Next]_vars
    PROVE  \/ UNCHANGED dbVars
           \/ \E r \in Requests : \/ Upsert(r) \/ InsertVersion(r) \/ SetLatest(r)
                                  \/ GrantOwner(r) \/ Settle(r)
BY DEF Next, HandlerStep, Receive, CheckOwner, CheckQuota, CheckDuplicate, SaveBlob, Scan,
       ResolveId, ReadLatest, CountOwners, Abort, Restart, vars

\* A publish handler writes nothing under an id that no package has, and takes no
\* package away.
LEMMA PackageKept ==
    ASSUME TypeOK, [Next]_vars, NEW k \in Keys
    PROVE  /\ pkgId[k] # 0 => pkgId'[k] = pkgId[k] /\ pkgName'[k] = pkgName[k]
           /\ pkgId[k] = 0 /\ pkgId'[k] # 0 => pkgName'[k] # NULL
           /\ pkgId[k] = 0 =>
                 /\ owners'[k] = owners[k]
                 /\ latest'[k] \in {latest[k], NULL}
                 /\ \A v \in Versions : HasRow(k, v)' <=> HasRow(k, v)
<1> USE DEF packageVars, versionVars
<1>1. CASE UNCHANGED dbVars
  BY <1>1 DEF dbVars, HasRow
<1>2. ASSUME NEW r \in Requests, Upsert(r)
      PROVE  /\ pkgId[k] # 0 => pkgId'[k] = pkgId[k] /\ pkgName'[k] = pkgName[k]
             /\ pkgId[k] = 0 /\ pkgId'[k] # 0 => pkgName'[k] # NULL
             /\ pkgId[k] = 0 =>
                   /\ owners'[k] = owners[k]
                   /\ latest'[k] \in {latest[k], NULL}
                   /\ \A v \in Versions : HasRow(k, v)' <=> HasRow(k, v)
  <2>1. pc[r] # "idle"
    BY <1>2 DEF Upsert
  <2>2. req[r].name # NULL
    BY <2>1, BusySlot, InputFields, NullAssumption
  <2> QED
    BY <1>2, <2>2 DEF Upsert, TypeOK, HasRow
<1>3. ASSUME NEW r \in Requests, InsertVersion(r), pkgId[k] = 0
      PROVE  \A v \in Versions : HasRow(k, v)' <=> HasRow(k, v)
  <2>1. CASE UNCHANGED versionVars
    BY <2>1 DEF HasRow
  <2>2. ASSUME NEW j \in Keys, InsertRow(r, j)
        PROVE  status'[k] = status[k]
    BY <1>3, <2>2 DEF InsertRow, HasId, TypeOK
  <2> QED
    BY <1>3, <2>1, <2>2 DEF InsertVersion, HasRow
<1>4. ASSUME NEW r \in Requests, InsertVersion(r)
      PROVE  UNCHANGED <<packageVars, owners>>
  BY <1>4 DEF InsertVersion
<1>5. ASSUME NEW r \in Requests, SetLatest(r), pkgId[k] = 0
      PROVE  latest'[k] = latest[k]
  BY <1>5 DEF SetLatest, HasId
<1>6. ASSUME NEW r \in Requests, SetLatest(r)
      PROVE  UNCHANGED <<pkgId, pkgName, versionVars, owners>>
  BY <1>6 DEF SetLatest
<1>7. ASSUME NEW r \in Requests, GrantOwner(r), pkgId[k] = 0
      PROVE  owners'[k] = owners[k]
  BY <1>7 DEF GrantOwner, HasId, TypeOK
<1>8. ASSUME NEW r \in Requests, GrantOwner(r)
      PROVE  UNCHANGED <<packageVars, versionVars>>
  BY <1>8 DEF GrantOwner
<1>9. ASSUME NEW r \in Requests, Settle(r)
      PROVE  /\ UNCHANGED <<packageVars, owners>>
             /\ \A v \in Versions : HasRow(k, v)' <=> HasRow(k, v)
  BY <1>9 DEF Settle, TypeOK, HasRow
<1> QED
  BY <1>1, <1>2, <1>3, <1>4, <1>5, <1>6, <1>7, <1>8, <1>9, WritingSteps DEF HasRow

LEMMA StoreInvStep == StoreInv /\ [RegistryNext]_allVars => StoreInv'
<1> SUFFICES ASSUME StoreInv, [RegistryNext]_allVars PROVE StoreInv'
  OBVIOUS
<1>1. RegistryTypeOK'
  BY RegistryTypeStep
<1>2. ASSUME [Next]_vars, UNCHANGED yanked
      PROVE  NothingWithoutPackage' /\ PackagesAreNamed'
  <2>1. \A k \in Keys :
          /\ pkgId[k] # 0 => pkgId'[k] = pkgId[k] /\ pkgName'[k] = pkgName[k]
          /\ pkgId[k] = 0 /\ pkgId'[k] # 0 => pkgName'[k] # NULL
          /\ pkgId[k] = 0 =>
                 /\ owners'[k] = owners[k]
                 /\ latest'[k] \in {latest[k], NULL}
                 /\ \A v \in Versions : HasRow(k, v)' <=> HasRow(k, v)
    BY <1>2, PackageKept DEF StoreInv, RegistryTypeOK
  <2>2. NothingWithoutPackage'
    BY <1>2, <2>1 DEF StoreInv, NothingWithoutPackage
  <2>3. PackagesAreNamed'
    BY <2>1 DEF StoreInv, PackagesAreNamed
  <2> QED
    BY <2>2, <2>3
<1>3. ASSUME NEW x \in Slots, DeletePackage(x)
      PROVE  NothingWithoutPackage' /\ PackagesAreNamed'
  <2>1. PICK k0 \in Keys :
          /\ pkgId' = [pkgId EXCEPT ![k0] = 0]
          /\ pkgName' = [pkgName EXCEPT ![k0] = NULL]
          /\ latest' = [latest EXCEPT ![k0] = NULL]
          /\ status' = [status EXCEPT ![k0] = [v \in Versions |-> "none"]]
          /\ owners' = [owners EXCEPT ![k0] = {}]
          /\ yanked' = [yanked EXCEPT ![k0] = [v \in Versions |-> FALSE]]
    BY <1>3, Deleted DEF StoreInv
  <2>2. /\ pkgId'[k0] = 0 /\ owners'[k0] = {} /\ latest'[k0] = NULL
        /\ \A v \in Versions : status'[k0][v] = "none" /\ ~yanked'[k0][v]
        /\ \A k \in Keys \ {k0} :
              /\ pkgId'[k] = pkgId[k] /\ pkgName'[k] = pkgName[k]
              /\ owners'[k] = owners[k] /\ latest'[k] = latest[k]
              /\ status'[k] = status[k] /\ yanked'[k] = yanked[k]
    BY <2>1 DEF StoreInv, RegistryTypeOK, TypeOK
  <2> QED
    BY <2>2 DEF StoreInv, NothingWithoutPackage, PackagesAreNamed, HasRow
<1>4. ASSUME NEW x \in Slots, SetYanked(x)
      PROVE  NothingWithoutPackage' /\ PackagesAreNamed'
  <2>1. UNCHANGED <<pkgId, pkgName, owners, latest, status>>
    BY <1>4 DEF SetYanked, vars, dbVars, packageVars, versionVars
  <2>2. \A k \in Keys, v \in Versions : yanked'[k][v] => yanked[k][v] \/ HasRow(k, v)
    BY <1>4 DEF SetYanked, StoreInv, RegistryTypeOK
  <2> QED
    BY <2>1, <2>2 DEF StoreInv, NothingWithoutPackage, PackagesAreNamed, HasRow
<1>5. ASSUME UNCHANGED <<dbVars, yanked>>
      PROVE  NothingWithoutPackage' /\ PackagesAreNamed'
  BY <1>5 DEF StoreInv, NothingWithoutPackage, PackagesAreNamed, HasRow, dbVars,
              packageVars, versionVars
<1>6. ASSUME NEW x \in Slots, OpStep(x)
      PROVE  DeletePackage(x) \/ SetYanked(x) \/ UNCHANGED <<dbVars, yanked>>
  BY <1>6, OpCases DEF StoreInv
<1>7. PublishStep => [Next]_vars /\ UNCHANGED yanked
  BY DEF PublishStep, Next, storeVars, shelves
<1>8. RestartServer \/ UNCHANGED allVars => UNCHANGED <<dbVars, yanked>>
  BY DEF RestartServer, Restart, shelves, allVars, vars, storeVars
<1>9. NothingWithoutPackage' /\ PackagesAreNamed'
  BY <1>2, <1>3, <1>4, <1>5, <1>6, <1>7, <1>8 DEF RegistryNext
<1> QED
  BY <1>1, <1>9 DEF StoreInv

LEMMA StoreInvInit == RegistryInit => StoreInv
<1> SUFFICES ASSUME RegistryInit PROVE StoreInv
  OBVIOUS
<1>1. TypeOK
  BY InvInit DEF RegistryInit, Inv, TablesInv
<1>2. RegistryTypeOK
  <2>1. yanked \in [Keys -> [Versions -> BOOLEAN]]
    BY DEF RegistryInit
  <2>2. prebuilts \in [Keys -> [Versions -> BOOLEAN]]
    BY DEF RegistryInit
  <2>3. binaries \in [Spellings -> [Versions -> Channels \cup {NULL}]]
    BY DEF RegistryInit
  <2> QED
    BY <1>1, <2>1, <2>2, <2>3, RegistryAssumption DEF RegistryInit, RegistryTypeOK
<1> QED
  BY <1>2 DEF RegistryInit, Init, StoreInv, NothingWithoutPackage, PackagesAreNamed, HasRow

\* Tables, storage and handlers of the store keep their types.
THEOREM RegistryTypes == RegistrySpec => []RegistryTypeOK
<1>1. StoreInv => RegistryTypeOK
  BY DEF StoreInv
<1> QED
  BY <1>1, StoreInvInit, StoreInvStep, PTL DEF RegistrySpec

\* A deletion takes everything with it, and no handler that is on its way brings a
\* version, an owner or a mark back.
THEOREM NothingOutlivesItsPackage == RegistrySpec => []NothingWithoutPackage
<1>1. StoreInv => NothingWithoutPackage
  BY DEF StoreInv
<1> QED
  BY <1>1, StoreInvInit, StoreInvStep, PTL DEF RegistrySpec

-----------------------------------------------------------------------------
(* Heirs: who will claim a package that nobody owns.                       *)

LEMMA IdsStep == TypeOK /\ IdsAreUnique /\ [Next]_vars => IdsAreUnique'
<1> SUFFICES ASSUME TypeOK, IdsAreUnique, [Next]_vars PROVE IdsAreUnique'
  OBVIOUS
<1>1. CASE UNCHANGED pkgId
  BY <1>1 DEF IdsAreUnique
<1>2. ASSUME NEW r \in Requests, Upsert(r), pkgId[Key(r)] = 0
      PROVE  IdsAreUnique'
  <2>1. Key(r) \in Keys
    BY <1>2, BusySlot DEF Upsert
  <2>2. PICK n \in 1..MaxId : IsNextId(n) /\ pkgId' = [pkgId EXCEPT ![Key(r)] = n]
    BY <1>2 DEF Upsert
  <2>3. \A k \in Keys : pkgId[k] # n
    BY <2>2, BoundsAssumption DEF IsNextId, TypeOK
  <2> QED
    BY <2>1, <2>2, <2>3 DEF IdsAreUnique, TypeOK
<1>3. ASSUME NEW r \in Requests, Upsert(r), pkgId[Key(r)] # 0
      PROVE  UNCHANGED pkgId
  BY <1>3 DEF Upsert, packageVars
<1>4. ASSUME NEW r \in Requests,
             InsertVersion(r) \/ SetLatest(r) \/ GrantOwner(r) \/ Settle(r)
      PROVE  UNCHANGED pkgId
  BY <1>4 DEF InsertVersion, SetLatest, GrantOwner, Settle, packageVars
<1> QED
  BY <1>1, <1>2, <1>3, <1>4, WritingSteps DEF dbVars, packageVars

\* The handler that will claim package k, if nobody owns it by then.
Heir(k, r) ==
    \/ pc[r] = "resolve_id" /\ Key(r) = k
    \/ pc[r] \in {"insert_version"} \cup AfterInsert /\ HasId(k, r)

InsertedHeir(k, r) == pc[r] \in AfterInsert /\ HasId(k, r)

\* What the step of one slot must leave of the heirs.
LEMMA HeirsStay ==
    ASSUME HeirInv, NEW r \in Requests, OthersSame(r),
           faults' = 0 => faults = 0,
           \A k \in Keys : owners'[k] = {} => owners[k] = {},
           \A k \in Keys : pkgId[k] # 0 => pkgId'[k] = pkgId[k],
           \A k \in Keys : pkgId[k] = 0 /\ pkgId'[k] # 0 => Heir(k, r)',
           \A k \in Keys, v \in Versions :
              HasRow(k, v)' => HasRow(k, v) \/ InsertedHeir(k, r)',
           \A k \in Keys : owners'[k] = {} /\ faults' = 0 =>
              /\ InsertedHeir(k, r) => InsertedHeir(k, r)'
              /\ Heir(k, r) => Heir(k, r)' \/ \E v \in Versions : HasRow(k, v)
    PROVE  RowHasHeir' /\ OrphanHasHeir'
<1>1. ASSUME NEW k \in Keys, NEW q \in Requests \ {r}, pkgId[k] # 0
      PROVE  /\ Heir(k, q) => Heir(k, q)'
             /\ InsertedHeir(k, q) => InsertedHeir(k, q)'
  BY <1>1 DEF Heir, InsertedHeir, HasId, OthersSame, Key
<1>2. ASSUME NEW k \in Keys, NEW v \in Versions,
             HasRow(k, v), owners'[k] = {}, faults' = 0
      PROVE  \E q \in Requests : InsertedHeir(k, q) /\ InsertedHeir(k, q)'
  <2>1. pkgId[k] # 0
    BY <1>2 DEF HeirInv, StoreInv, NothingWithoutPackage
  <2>2. PICK q \in Requests : InsertedHeir(k, q)
    BY <1>2 DEF HeirInv, RowHasHeir, InsertedHeir
  <2> QED
    BY <1>1, <1>2, <2>1, <2>2
<1>3. RowHasHeir'
  <2>1. ASSUME NEW k \in Keys, NEW v \in Versions,
               HasRow(k, v)', owners'[k] = {}, faults' = 0
        PROVE  \E q \in Requests : InsertedHeir(k, q)'
    BY <1>2, <2>1
  <2> QED
    BY <2>1 DEF RowHasHeir, InsertedHeir
<1>4. ASSUME NEW k \in Keys, pkgId'[k] # 0, owners'[k] = {}, faults' = 0
      PROVE  \E q \in Requests : Heir(k, q)'
  <2>1. CASE pkgId[k] = 0
    BY <1>4, <2>1
  <2>2. CASE pkgId[k] # 0
    <3>1. PICK q \in Requests : Heir(k, q)
      BY <1>4, <2>2 DEF HeirInv, OrphanHasHeir, Heir
    <3>2. CASE q # r
      BY <1>1, <2>2, <3>1, <3>2
    <3>3. CASE q = r
      <4>1. CASE \E v \in Versions : HasRow(k, v)
        <5>1. PICK p \in Requests : InsertedHeir(k, p)'
          BY <1>2, <1>4, <4>1
        <5> QED
          BY <5>1 DEF InsertedHeir, Heir
      <4> QED
        BY <1>4, <3>1, <3>3, <4>1
    <3> QED
      BY <3>2, <3>3
  <2> QED
    BY <2>1, <2>2
<1>5. OrphanHasHeir'
  BY <1>4 DEF OrphanHasHeir, Heir
<1> QED
  BY <1>3, <1>5

\* A slot that had no claim, or keeps it.
LEMMA HeirsUntouched ==
    ASSUME HeirInv, NEW r \in Requests, OthersSame(r),
           UNCHANGED <<pkgId, owners>>,
           \A k \in Keys, v \in Versions : HasRow(k, v)' <=> HasRow(k, v),
           \/ faults' # 0
           \/ /\ faults' = faults
              /\ \/ pc[r] \notin BeforeInsert \cup AfterInsert
                 \/ /\ pc[r] \in AfterInsert /\ pc'[r] \in AfterInsert
                    /\ req'[r] = req[r] /\ pid'[r] = pid[r]
    PROVE  RowHasHeir' /\ OrphanHasHeir'
<1>1. CASE faults' # 0
  BY <1>1 DEF RowHasHeir, OrphanHasHeir
<1>2. CASE /\ faults' = faults
           /\ \/ pc[r] \notin BeforeInsert \cup AfterInsert
              \/ /\ pc[r] \in AfterInsert /\ pc'[r] \in AfterInsert
                 /\ req'[r] = req[r] /\ pid'[r] = pid[r]
  <2>1. \A k \in Keys : /\ InsertedHeir(k, r) => InsertedHeir(k, r)'
                        /\ Heir(k, r) => Heir(k, r)'
    BY <1>2 DEF InsertedHeir, Heir, HasId, Key, BeforeInsert, AfterInsert
  <2> QED
    BY <1>2, <2>1, HeirsStay
<1> QED
  BY <1>1, <1>2

LEMMA HeirsUpsert ==
    ASSUME HeirInv, NEW r \in Requests, Upsert(r)
    PROVE  RowHasHeir' /\ OrphanHasHeir'
<1>1. /\ pc[r] = "upsert" /\ pc'[r] = "resolve_id" /\ req'[r] = req[r]
      /\ UNCHANGED <<status, owners, faults>>
      /\ OthersSame(r)
  BY Others DEF HeirInv, StoreInv, RegistryTypeOK, TypeOK, Upsert, Goto, versionVars
<1>2. \A k \in Keys : /\ pkgId[k] # 0 => pkgId'[k] = pkgId[k]
                      /\ pkgId'[k] # 0 /\ pkgId[k] = 0 => k = Key(r)
  BY DEF HeirInv, StoreInv, RegistryTypeOK, TypeOK, Upsert, packageVars
<1>3. \A k \in Keys : ~Heir(k, r) /\ ~InsertedHeir(k, r)
  BY <1>1 DEF Heir, InsertedHeir, AfterInsert
<1>4. Heir(Key(r), r)'
  BY <1>1 DEF Heir, Key
<1>5. \A k \in Keys : pkgId[k] = 0 /\ pkgId'[k] # 0 => Heir(k, r)'
  BY <1>1, <1>2 DEF Heir, Key
<1> QED
  BY <1>1, <1>2, <1>3, <1>5, HeirsStay DEF HasRow

LEMMA HeirsResolve ==
    ASSUME HeirInv, NEW r \in Requests, ResolveId(r)
    PROVE  RowHasHeir' /\ OrphanHasHeir'
<1>1. /\ pc[r] = "resolve_id"
      /\ UNCHANGED <<pkgId, status, owners, faults>>
  BY DEF ResolveId, dbVars, packageVars, versionVars
<1>2. OthersSame(r)
  BY DEF HeirInv, StoreInv, RegistryTypeOK, TypeOK, ResolveId, Return, OthersSame
<1>3. ASSUME NEW k \in Keys, Heir(k, r), pkgId[k] # 0
      PROVE  Heir(k, r)'
  <2>1. Key(r) = k
    BY <1>1, <1>3 DEF Heir, AfterInsert
  <2>2. pid' = [pid EXCEPT ![r] = pkgId[k]] /\ pc' = [pc EXCEPT ![r] = "insert_version"]
    BY <1>3, <2>1 DEF ResolveId
  <2>3. pid'[r] = pkgId[k] /\ pc'[r] = "insert_version"
    BY <2>2 DEF HeirInv, StoreInv, RegistryTypeOK, TypeOK
  <2> QED
    BY <1>1, <1>3, <2>3 DEF Heir, HasId
<1>4. \A k \in Keys : ~InsertedHeir(k, r)
  BY <1>1 DEF InsertedHeir, AfterInsert
<1>5. CASE \A k \in Keys : Heir(k, r) => Heir(k, r)'
  BY <1>1, <1>2, <1>4, <1>5, HeirsStay DEF HasRow
<1>6. CASE \E k \in Keys : Heir(k, r) /\ pkgId[k] = 0
  <2>1. pkgId[Key(r)] = 0
    BY <1>1, <1>6 DEF Heir, AfterInsert
  <2>2. ASSUME NEW k \in Keys, pkgId[k] # 0, owners[k] = {}, faults = 0
        PROVE  \E q \in Requests \ {r} : Heir(k, q)
    BY <1>1, <2>1, <2>2 DEF HeirInv, OrphanHasHeir, Heir, AfterInsert
  <2>3. ASSUME NEW k \in Keys, NEW q \in Requests \ {r}
        PROVE  /\ Heir(k, q) => Heir(k, q)'
               /\ InsertedHeir(k, q) => InsertedHeir(k, q)'
    BY <1>1, <1>2, <2>3 DEF Heir, InsertedHeir, HasId, OthersSame, Key
  <2>4. OrphanHasHeir'
    <3>1. ASSUME NEW k \in Keys, pkgId'[k] # 0, owners'[k] = {}, faults' = 0
          PROVE  \E q \in Requests : Heir(k, q)'
      BY <1>1, <2>2, <2>3, <3>1
    <3> QED
      BY <3>1 DEF OrphanHasHeir, Heir
  <2>5. RowHasHeir'
    <3>1. ASSUME NEW k \in Keys, NEW v \in Versions,
                 HasRow(k, v)', owners'[k] = {}, faults' = 0
          PROVE  \E q \in Requests : InsertedHeir(k, q)'
      <4>1. PICK q \in Requests : InsertedHeir(k, q)
        BY <1>1, <3>1 DEF HeirInv, RowHasHeir, InsertedHeir, HasRow
      <4> QED
        BY <1>4, <2>3, <4>1
    <3> QED
      BY <3>1 DEF RowHasHeir, InsertedHeir
  <2> QED
    BY <2>4, <2>5
<1> QED
  BY <1>3, <1>5, <1>6

\* A duplicate ends the handler, but whoever inserted the row is an heir as well.
LEMMA HeirsInsert ==
    ASSUME HeirInv, NEW r \in Requests, InsertVersion(r)
    PROVE  RowHasHeir' /\ OrphanHasHeir'
<1>1. /\ pc[r] = "insert_version"
      /\ UNCHANGED <<pkgId, owners, faults>>
  BY DEF InsertVersion, packageVars
<1>2. OthersSame(r)
  BY Others DEF HeirInv, StoreInv, RegistryTypeOK, InsertVersion
<1>3. \A k \in Keys : ~InsertedHeir(k, r)
  BY <1>1 DEF InsertedHeir, AfterInsert
<1>4. \A j, k \in Keys : HasId(j, r) /\ HasId(k, r) => j = k
  BY DEF HeirInv, IdsAreUnique, HasId
<1>5. ASSUME NEW j \in Keys, InsertRow(r, j), Goto(r, "read_latest")
      PROVE  RowHasHeir' /\ OrphanHasHeir'
  <2>1. HasId(j, r) /\ req'[r] = req[r] /\ pid'[r] = pid[r] /\ pc'[r] = "read_latest"
    BY <1>5 DEF InsertRow, Goto, HeirInv, StoreInv, RegistryTypeOK, TypeOK
  <2>2. InsertedHeir(j, r)'
    BY <1>1, <2>1 DEF InsertedHeir, HasId, AfterInsert
  <2>3. \A k \in Keys : Heir(k, r) => Heir(k, r)'
    BY <1>1, <2>1 DEF Heir, HasId, AfterInsert
  <2>4. \A k \in Keys \ {j}, v \in Versions : HasRow(k, v)' <=> HasRow(k, v)
    BY <1>5 DEF InsertRow, HasRow, HeirInv, StoreInv, RegistryTypeOK, TypeOK
  <2>5. \A k \in Keys, v \in Versions : HasRow(k, v)' => HasRow(k, v) \/ InsertedHeir(k, r)'
    BY <2>2, <2>4
  <2> QED
    BY <1>1, <1>2, <1>3, <2>3, <2>5, HeirsStay
<1>6. ASSUME UNCHANGED versionVars,
             IdGone(r) \/ \E k \in Keys : HasId(k, r) /\ status[k][req[r].vers] # "none"
      PROVE  RowHasHeir' /\ OrphanHasHeir'
  <2>1. req[r].vers \in Versions
    BY <1>1, BusySlot, InputFields DEF HeirInv, StoreInv, RegistryTypeOK
  <2>2. \A k \in Keys : Heir(k, r) => \E v \in Versions : HasRow(k, v)
    BY <1>1, <1>4, <1>6, <2>1 DEF Heir, IdGone, HasRow
  <2> QED
    BY <1>1, <1>2, <1>3, <1>6, <2>2, HeirsStay DEF HasRow, versionVars
<1> QED
  BY <1>5, <1>6 DEF InsertVersion

LEMMA HeirsFinishing ==
    ASSUME HeirInv, NEW r \in Requests,
           ReadLatest(r) \/ SetLatest(r) \/ CountOwners(r) \/ GrantOwner(r)
    PROVE  RowHasHeir' /\ OrphanHasHeir'
<1>1. /\ pc[r] \in AfterInsert
      /\ UNCHANGED <<pkgId, status, faults>>
  BY DEF ReadLatest, SetLatest, CountOwners, GrantOwner, AfterInsert, dbVars, packageVars,
         versionVars
<1>2. OthersSame(r)
  BY Others DEF HeirInv, StoreInv, RegistryTypeOK, ReadLatest, SetLatest, CountOwners,
                GrantOwner
<1>3. ASSUME NEW label \in AfterInsert, Goto(r, label), UNCHANGED owners
      PROVE  RowHasHeir' /\ OrphanHasHeir'
  <2>1. pc'[r] \in AfterInsert /\ req'[r] = req[r] /\ pid'[r] = pid[r]
    BY <1>3 DEF Goto, HeirInv, StoreInv, RegistryTypeOK, TypeOK
  <2> QED
    BY <1>1, <1>2, <1>3, <2>1, HeirsUntouched DEF HasRow
<1>4. \A j, k \in Keys : HasId(j, r) /\ HasId(k, r) => j = k
  BY DEF HeirInv, IdsAreUnique, HasId
\* The package that r holds the id of has an owner afterwards.
<1>5. ASSUME \A k \in Keys : owners'[k] = {} => owners[k] = {} /\ ~HasId(k, r)
      PROVE  RowHasHeir' /\ OrphanHasHeir'
  <2>1. \A k \in Keys : owners'[k] = {} => ~Heir(k, r) /\ ~InsertedHeir(k, r)
    BY <1>1, <1>5 DEF Heir, InsertedHeir, AfterInsert
  <2> QED
    BY <1>1, <1>2, <1>5, <2>1, HeirsStay DEF HasRow
<1>6. CASE ReadLatest(r) \/ SetLatest(r)
  <2>1. UNCHANGED owners /\ \E label \in AfterInsert : Goto(r, label)
    BY <1>6 DEF ReadLatest, SetLatest, AfterInsert, dbVars
  <2> QED
    BY <1>3, <2>1
<1>7. CASE CountOwners(r)
  <2>1. UNCHANGED owners
    BY <1>7 DEF CountOwners, dbVars
  <2>2. CASE \E k \in Keys : HasId(k, r) /\ owners[k] # {}
    BY <1>4, <1>5, <2>1, <2>2
  <2>3. CASE Goto(r, "grant_owner")
    BY <1>3, <2>1, <2>3 DEF AfterInsert
  <2> QED
    BY <1>7, <2>2, <2>3 DEF CountOwners
<1>8. CASE GrantOwner(r)
  <2>1. ASSUME NEW j \in Keys, HasId(j, r), owners' = [owners EXCEPT ![j] = @ \cup {req[r].user}]
        PROVE  \A k \in Keys : owners'[k] = {} => owners[k] = {} /\ ~HasId(k, r)
    BY <1>4, <2>1 DEF HeirInv, StoreInv, RegistryTypeOK, TypeOK
  <2>2. CASE IdGone(r) /\ UNCHANGED owners
    BY <1>5, <2>2 DEF IdGone
  <2> QED
    BY <1>5, <1>8, <2>1, <2>2 DEF GrantOwner
<1> QED
  BY <1>6, <1>7, <1>8

LEMMA HeirsPublish ==
    ASSUME HeirInv, [Next]_vars
    PROVE  RowHasHeir' /\ OrphanHasHeir'
<1> USE DEF dbVars, packageVars, versionVars
<1>1. TypeOK
  BY DEF HeirInv, StoreInv, RegistryTypeOK
<1>2. ASSUME NEW r \in Requests,
             \/ Receive(r) \/ CheckOwner(r) \/ CheckQuota(r) \/ CheckDuplicate(r)
             \/ SaveBlob(r) \/ Scan(r)
      PROVE  RowHasHeir' /\ OrphanHasHeir'
  <2>1. /\ UNCHANGED <<dbVars, faults>>
        /\ pc[r] \notin BeforeInsert \cup AfterInsert
    BY <1>2 DEF Receive, CheckOwner, CheckQuota, CheckDuplicate, SaveBlob, Scan,
                BeforeInsert, AfterInsert
  <2>2. OthersSame(r)
    BY <1>1, <1>2, Others DEF TypeOK, Receive, CheckOwner, CheckQuota, CheckDuplicate,
                              SaveBlob, Scan, OthersSame
  <2> QED
    BY <2>1, <2>2, HeirsUntouched DEF HasRow
<1>3. ASSUME NEW r \in Requests, Settle(r)
      PROVE  RowHasHeir' /\ OrphanHasHeir'
  <2>1. /\ UNCHANGED <<pkgId, owners, faults>>
        /\ pc[r] \notin BeforeInsert \cup AfterInsert
        /\ \A k \in Keys, v \in Versions : HasRow(k, v)' <=> HasRow(k, v)
    BY <1>1, <1>3 DEF Settle, BeforeInsert, AfterInsert, TypeOK, HasRow
  <2>2. OthersSame(r)
    BY <1>1, <1>3, Others DEF Settle
  <2> QED
    BY <2>1, <2>2, HeirsUntouched
<1>4. ASSUME (\E r \in Requests : Abort(r)) \/ Restart
      PROVE  RowHasHeir' /\ OrphanHasHeir'
  <2>1. faults' # 0
    BY <1>1, <1>4 DEF Abort, Restart, TypeOK
  <2> QED
    BY <2>1 DEF RowHasHeir, OrphanHasHeir
<1>5. CASE UNCHANGED vars
  BY <1>5 DEF vars, HeirInv, RowHasHeir, OrphanHasHeir, HasRow, HasId, Key
<1> QED
  BY <1>2, <1>3, <1>4, <1>5, HeirsUpsert, HeirsResolve, HeirsInsert, HeirsFinishing
  DEF Next, HandlerStep

LEMMA HeirInvStep == HeirInv /\ [RegistryNext]_allVars => HeirInv'
<1> SUFFICES ASSUME HeirInv, [RegistryNext]_allVars PROVE HeirInv'
  OBVIOUS
<1> USE DEF HeirInv
<1>1. StoreInv'
  BY StoreInvStep
<1>2. TypeOK /\ TypeOK'
  BY <1>1 DEF StoreInv, RegistryTypeOK
<1>3. CASE [Next]_vars
  BY <1>1, <1>2, <1>3, IdsStep, HeirsPublish
<1>4. ASSUME NEW x \in Slots, DeletePackage(x)
      PROVE  IdsAreUnique' /\ RowHasHeir' /\ OrphanHasHeir'
  <2>1. PICK k0 \in Keys :
          /\ pkgId' = [pkgId EXCEPT ![k0] = 0]
          /\ status' = [status EXCEPT ![k0] = [v \in Versions |-> "none"]]
          /\ owners' = [owners EXCEPT ![k0] = {}]
    BY <1>4, Deleted DEF StoreInv
  <2>2. /\ pkgId'[k0] = 0 /\ \A v \in Versions : status'[k0][v] = "none"
        /\ \A k \in Keys \ {k0} :
              /\ pkgId'[k] = pkgId[k] /\ status'[k] = status[k] /\ owners'[k] = owners[k]
    BY <1>2, <2>1 DEF TypeOK
  <2>3. UNCHANGED <<pc, req, pid, faults>>
    BY <1>4, Deleted DEF StoreInv
  <2>4. IdsAreUnique'
    BY <2>2 DEF IdsAreUnique
  <2>5. RowHasHeir'
    BY <2>2, <2>3 DEF RowHasHeir, HasRow, HasId
  <2>6. OrphanHasHeir'
    BY <2>2, <2>3 DEF OrphanHasHeir, HasId, Key
  <2> QED
    BY <2>4, <2>5, <2>6
<1>5. ASSUME UNCHANGED <<dbVars, pc, req, pid>>, faults' \in {faults, faults + 1}
      PROVE  IdsAreUnique' /\ RowHasHeir' /\ OrphanHasHeir'
  <2>1. faults' = 0 => faults = 0
    BY <1>2, <1>5 DEF TypeOK
  <2> QED
    BY <1>5, <2>1 DEF dbVars, packageVars, versionVars, IdsAreUnique, RowHasHeir,
                      OrphanHasHeir, HasRow, HasId, Key
<1>6. PublishStep \/ RestartServer \/ UNCHANGED allVars => [Next]_vars
  BY DEF PublishStep, RestartServer, Next, allVars
<1> QED
  BY <1>1, <1>3, <1>4, <1>5, <1>6, OpCases DEF RegistryNext, StoreInv

LEMMA HeirInvInit == RegistryInit => HeirInv
BY StoreInvInit DEF RegistryInit, Init, HeirInv, IdsAreUnique, RowHasHeir, OrphanHasHeir,
   HasRow

\* Deletions hand ids on to other packages, and handlers go on with the ids they have;
\* while no handler is dropped, a package without owners will still be claimed.
THEOREM OrphansHaveHeirs == RegistrySpec => []OrphanHasHeir
<1>1. HeirInv => OrphanHasHeir
  BY DEF HeirInv
<1> QED
  BY <1>1, HeirInvInit, HeirInvStep, PTL DEF RegistrySpec

-----------------------------------------------------------------------------
(* Downloads.                                                              *)

\* Until something is deleted the steps of the store leave the tables as the publish
\* handlers have them, and a versions row is written once.
LEMMA TablesUndeleted ==
    ASSUME StoreInv, TablesInv, [RegistryNext]_allVars, deletes' = 0
    PROVE  TablesInv' /\ WriteOnce
<1>1. TypeOK'
  BY RegistryTypeStep DEF RegistryTypeOK
<1>2. PublishStep \/ RestartServer \/ UNCHANGED allVars => [Next]_vars
  BY DEF PublishStep, RestartServer, Next, allVars
<1>3. CASE [Next]_vars
  BY <1>3, TablesStep, WriteOnceStep
<1>4. CASE UNCHANGED <<dbVars, pc, req, pid>>
  BY <1>1, <1>4
  DEF dbVars, packageVars, versionVars, TablesInv, IdsAreUnique, Resolved, Inserted,
      OneInserter, LatestHasRow, HasRow, Key, WriteOnce
<1>5. ASSUME NEW x \in Slots, DeletePackage(x) PROVE FALSE
  <2>1. deletes' = deletes + 1 /\ deletes \in 0..MaxDeletes
    BY <1>5 DEF DeletePackage, StoreInv, RegistryTypeOK
  <2> QED
    BY <2>1, RegistryAssumption
<1> QED
  BY <1>2, <1>3, <1>4, <1>5, OpCases DEF RegistryNext, StoreInv

LEMMA DeletesGrow ==
    ASSUME RegistryTypeOK, [RegistryNext]_allVars
    PROVE  deletes' = 0 => deletes = 0
<1>1. CASE UNCHANGED deletes
  BY <1>1
<1>2. ASSUME NEW x \in Slots, DeletePackage(x) PROVE deletes' # 0
  <2>1. deletes' = deletes + 1 /\ deletes \in 0..MaxDeletes
    BY <1>2 DEF DeletePackage, RegistryTypeOK
  <2> QED
    BY <2>1, RegistryAssumption
<1>3. PublishStep \/ RestartServer \/ UNCHANGED allVars => UNCHANGED deletes
  BY DEF PublishStep, RestartServer, allVars, storeVars, shelves
<1> QED
  BY <1>1, <1>2, <1>3, OpCases DEF RegistryNext

\* Who begins and who answers a download.
LEMMA Downloads ==
    ASSUME RegistryTypeOK, [RegistryNext]_allVars, NEW x \in Slots, op'[x] # op[x]
    PROVE  /\ Running(x, "read")' => GetVersion(x)
           /\ Running(x, "served")' => ReadTarball(x)
           /\ Running(x, "served_prebuilt")' => ReadPrebuilt(x)
<1>1. PICK y \in Slots : OpStep(y) \/ RestartServer
  BY DEF RegistryNext, PublishStep, storeVars, allVars
<1>2. CASE RestartServer
  <2>1. op'[x] = NULL
    BY <1>2 DEF RestartServer
  <2> QED
    BY <2>1 DEF Running
<1>3. CASE OpStep(y)
  <2>1. x = y
    BY <1>3 DEF OpStep, CheckYanker, SetYanked, DeletePackage, DeletePackageDir,
       DeletePackagePrebuilts, ListYankedVersions, DeleteVersion, GetVersion, ReadTarball,
       Served, CheckUploader, SavePrebuilt, StorePrebuilt, GetPrebuilt, ReadPrebuilt,
       AbortOp, Begin, Finish, RegistryTypeOK
  <2>2. CASE \/ SetYanked(x) \/ DeletePackagePrebuilts(x) \/ Served(x) \/ StorePrebuilt(x)
             \/ AbortOp(x)
    <3>1. op'[x] = NULL
      BY <2>2 DEF SetYanked, DeletePackagePrebuilts, Served, StorePrebuilt, AbortOp, Finish,
                  RegistryTypeOK
    <3> QED
      BY <3>1 DEF Running
  <2>3. CASE \/ CheckYanker(x) \/ DeletePackage(x) \/ ListYankedVersions(x)
             \/ CheckUploader(x) \/ GetPrebuilt(x)
    <3>1. op'[x].kind \in {"set_yanked", "delete_package_dir", "gc", "save_prebuilt",
                           "read_prebuilt"}
      <4>1. CASE CheckYanker(x) \/ ListYankedVersions(x) \/ CheckUploader(x) \/ GetPrebuilt(x)
        BY <4>1 DEF CheckYanker, ListYankedVersions, CheckUploader, GetPrebuilt, Begin,
                    RegistryTypeOK
      <4>2. CASE DeletePackage(x)
        <5>1. PICK s \in Spellings, c \in Channels :
                op' = [op EXCEPT ![x] = [kind |-> "delete_package_dir", name |-> s,
                                         channel |-> c]]
          BY <4>2 DEF DeletePackage, Begin
        <5> QED
          BY <5>1 DEF RegistryTypeOK
      <4> QED
        BY <2>3, <4>1, <4>2
    <3> QED
      BY <3>1 DEF Running
  <2>4. CASE DeletePackageDir(x) \/ SavePrebuilt(x)
    <3>1. op'[x].kind \in {"delete_prebuilts", "store_prebuilt"}
      <4>1. op[x] \in [kind : {"delete_package_dir", "delete_prebuilts"}, name : Spellings,
                       channel : Channels]
            \/ op[x] \in [kind : {"save_prebuilt", "store_prebuilt", "read_prebuilt"},
                          at : Targets]
        BY <2>4, OpFields DEF DeletePackageDir, SavePrebuilt, Running
      <4> QED
        BY <2>4, <4>1 DEF DeletePackageDir, SavePrebuilt, RegistryTypeOK
    <3> QED
      BY <3>1 DEF Running
  <2>5. CASE DeleteVersion(x)
    <3>1. op[x] \in [kind : {"gc"}, todo : SUBSET (Spellings \X Versions)]
      BY <2>5, OpFields DEF DeleteVersion, Running
    <3>2. op'[x] = NULL \/ op'[x].kind = "gc"
      BY <2>5, <3>1 DEF DeleteVersion, Finish, RegistryTypeOK
    <3> QED
      BY <3>2 DEF Running
  <2>6. CASE GetVersion(x)
    <3>1. op'[x].kind = "read"
      BY <2>6 DEF GetVersion, Begin, RegistryTypeOK
    <3> QED
      BY <2>6, <3>1 DEF Running
  <2>7. CASE ReadTarball(x)
    <3>1. op'[x] = NULL \/ op'[x].kind = "served"
      BY <2>7 DEF ReadTarball, RegistryTypeOK
    <3> QED
      BY <2>7, <3>1 DEF Running
  <2>8. CASE ReadPrebuilt(x)
    <3>1. op'[x] = NULL \/ op'[x].kind = "served_prebuilt"
      BY <2>8 DEF ReadPrebuilt, Finish, RegistryTypeOK
    <3> QED
      BY <2>8, <3>1 DEF Running
  <2> QED
    BY <1>3, <2>1, <2>2, <2>3, <2>4, <2>5, <2>6, <2>7, <2>8 DEF OpStep
<1> QED
  BY <1>1, <1>2, <1>3

\* A version's row stays as a download has found it.
LEMMA FoundStays ==
    ASSUME TypeOK, WriteOnce, NEW k \in Keys, NEW v \in Versions,
           status[k][v] = "published"
    PROVE  status'[k][v] = "published" /\ digest'[k][v] = digest[k][v]
BY DEF WriteOnce, HasRow

LEMMA GenuineInvStep == GenuineInv /\ [RegistryNext]_allVars => GenuineInv'
<1> SUFFICES ASSUME GenuineInv, [RegistryNext]_allVars PROVE GenuineInv'
  OBVIOUS
<1>1. StoreInv'
  BY StoreInvStep DEF GenuineInv
<1>2. RegistryTypeOK /\ RegistryTypeOK' /\ TypeOK
  BY <1>1 DEF GenuineInv, StoreInv, RegistryTypeOK
<1>3. ASSUME deletes' = 0
      PROVE  TablesInv' /\ WriteOnce /\ deletes = 0
  BY <1>2, <1>3, DeletesGrow, TablesUndeleted DEF GenuineInv
<1>4. ASSUME deletes' = 0, NEW x \in Slots, Running(x, "read")'
      PROVE  LET t == op'[x].at k == KeyOf(t) IN
             status'[k][t.vers] = "published" /\ digest'[k][t.vers] = op'[x].checksum
  <2>1. CASE op'[x] = op[x]
    <3>1. Running(x, "read")
      BY <1>4, <2>1 DEF Running
    <3>2. /\ status[KeyOf(op[x].at)][op[x].at.vers] = "published"
          /\ digest[KeyOf(op[x].at)][op[x].at.vers] = op[x].checksum
      BY <1>3, <1>4, <3>1 DEF GenuineInv, ChecksumIsOfRow
    <3>3. op[x].at \in Targets
      BY <1>2, <3>1, OpFields DEF Running
    <3> QED
      BY <1>2, <1>3, <1>4, <2>1, <3>2, <3>3, TargetFields, FoundStays
  <2>2. CASE op'[x] # op[x]
    <3>1. GetVersion(x)
      BY <1>2, <1>4, <2>2, Downloads
    <3>2. PICK t \in Targets :
            /\ status[KeyOf(t)][t.vers] = "published"
            /\ op' = [op EXCEPT ![x] = [kind |-> "read", at |-> t,
                                        checksum |-> digest[KeyOf(t)][t.vers]]]
      BY <3>1 DEF GetVersion, Begin
    <3>3. op'[x].at = t /\ op'[x].checksum = digest[KeyOf(t)][t.vers]
      BY <1>2, <3>2 DEF RegistryTypeOK
    <3> QED
      BY <1>2, <1>3, <1>4, <3>2, <3>3, TargetFields, FoundStays
  <2> QED
    BY <2>1, <2>2
<1>5. ASSUME deletes' = 0, NEW x \in Slots, Running(x, "served")'
      PROVE  LET t == op'[x].at k == KeyOf(t) IN
             status'[k][t.vers] = "published" /\ digest'[k][t.vers] = op'[x].bytes
  <2>1. CASE op'[x] = op[x]
    <3>1. Running(x, "served")
      BY <1>5, <2>1 DEF Running
    <3>2. /\ status[KeyOf(op[x].at)][op[x].at.vers] = "published"
          /\ digest[KeyOf(op[x].at)][op[x].at.vers] = op[x].bytes
      BY <1>3, <1>5, <3>1 DEF GenuineInv, DownloadsAreGenuine
    <3>3. op[x].at \in Targets
      BY <1>2, <3>1 DEF RegistryTypeOK, Running, Ops
    <3> QED
      BY <1>2, <1>3, <1>5, <2>1, <3>2, <3>3, TargetFields, FoundStays
  <2>2. CASE op'[x] # op[x]
    <3>1. ReadTarball(x)
      BY <1>2, <1>5, <2>2, Downloads
    <3>2. Running(x, "read") /\ op[x].at \in Targets
      BY <1>2, <3>1, OpFields DEF ReadTarball, Running
    <3>3. /\ status[KeyOf(op[x].at)][op[x].at.vers] = "published"
          /\ digest[KeyOf(op[x].at)][op[x].at.vers] = op[x].checksum
      BY <1>3, <1>5, <3>2 DEF GenuineInv, ChecksumIsOfRow
    <3>4. op'[x].at = op[x].at /\ op'[x].bytes = op[x].checksum
      BY <1>2, <1>5, <3>1 DEF ReadTarball, ChecksumMatches, RegistryTypeOK, Running
    <3> QED
      BY <1>2, <1>3, <1>5, <3>2, <3>3, <3>4, TargetFields, FoundStays
  <2> QED
    BY <2>1, <2>2
<1>6. deletes' = 0 => TablesInv' /\ ChecksumIsOfRow'
  BY <1>3, <1>4 DEF ChecksumIsOfRow, KeyOf
<1>7. DownloadsAreGenuine'
  BY <1>5 DEF DownloadsAreGenuine, KeyOf
<1> QED
  BY <1>1, <1>6, <1>7 DEF GenuineInv

LEMMA GenuineInvInit == RegistryInit => GenuineInv
<1> SUFFICES ASSUME RegistryInit PROVE GenuineInv
  OBVIOUS
<1>1. StoreInv /\ TablesInv
  BY StoreInvInit, InvInit DEF RegistryInit, Inv
<1>2. \A x \in Slots : op[x] = NULL
  BY DEF RegistryInit
<1> QED
  BY <1>1, <1>2 DEF GenuineInv, ChecksumIsOfRow, DownloadsAreGenuine, Running

\* Until something is deleted, what a download answers are the bytes the version was
\* published with, whatever runs between its two calls.
THEOREM DownloadsStayGenuine == RegistrySpec => []DownloadsAreGenuine
<1>1. GenuineInv => DownloadsAreGenuine
  BY DEF GenuineInv
<1> QED
  BY <1>1, GenuineInvInit, GenuineInvStep, PTL DEF RegistrySpec

\* A prebuilt is never answered with what was uploaded to another channel.
THEOREM PrebuiltsStayInChannel == RegistrySpec => []PrebuiltsKeepTheirChannel
<1>1. RegistryInit => PrebuiltsKeepTheirChannel
  BY DEF RegistryInit, PrebuiltsKeepTheirChannel, Running
<1>2. ASSUME StoreInv, PrebuiltsKeepTheirChannel, [RegistryNext]_allVars
      PROVE  PrebuiltsKeepTheirChannel'
  <2>1. RegistryTypeOK
    BY <1>2 DEF StoreInv
  <2>2. ASSUME NEW x \in Slots, Running(x, "served_prebuilt")'
        PROVE  op'[x].bytes = op'[x].at.channel
    <3>1. CASE op'[x] = op[x]
      BY <1>2, <2>2, <3>1 DEF PrebuiltsKeepTheirChannel, Running
    <3>2. CASE op'[x] # op[x]
      <4>1. ReadPrebuilt(x)
        BY <1>2, <2>1, <2>2, <3>2, Downloads
      <4> QED
        BY <2>1, <2>2, <4>1
        DEF ReadPrebuilt, ChecksumMatches, Finish, RegistryTypeOK, Running
    <3> QED
      BY <3>1, <3>2
  <2> QED
    BY <2>2 DEF PrebuiltsKeepTheirChannel
<1> QED
  BY <1>1, <1>2, StoreInvInit, StoreInvStep, PTL DEF RegistrySpec

-----------------------------------------------------------------------------
(* Search and the page of a package, one publish at a time.                *)

LEMMA RowsAreVersions ==
    ASSUME NEW k
    PROVE  Rows(k) \subseteq Versions /\ Rows(k) \subseteq Nat
BY SetsAssumption DEF Rows

\* No slot is comparing, before or after.
LEMMA LatestCalm ==
    ASSUME LatestIsGreatest,
           \A q \in Requests : /\ pc[q] \notin {"read_latest", "set_latest"}
                               /\ pc'[q] \notin {"read_latest", "set_latest"},
           \A k \in Keys :
              \/ latest'[k] = latest[k] /\ Rows(k)' = Rows(k)
              \/ latest'[k] = NULL /\ Rows(k)' = {}
    PROVE  LatestIsGreatest'
BY DEF LatestIsGreatest, Comparing, IsGreatest

LEMMA LatestInsert ==
    ASSUME OneAtATime, HeirInv, LatestIsGreatest, NEW r \in Requests, InsertVersion(r)
    PROVE  LatestIsGreatest'
<1>1. TypeOK
  BY DEF HeirInv, StoreInv, RegistryTypeOK
<1>2. /\ pc[r] = "insert_version" /\ UNCHANGED <<pkgId, latest>>
      /\ \A q \in Requests : q = r
  BY DEF InsertVersion, packageVars, OneAtATime
<1>3. CASE Return(r) /\ UNCHANGED versionVars
  <2>1. pc'[r] = "idle"
    BY <1>1, <1>3 DEF Return, TypeOK
  <2>2. \A k \in Keys : latest'[k] = latest[k] /\ Rows(k)' = Rows(k)
    BY <1>2, <1>3 DEF versionVars, Rows, HasRow
  <2>3. \A q \in Requests : /\ pc[q] \notin {"read_latest", "set_latest"}
                            /\ pc'[q] \notin {"read_latest", "set_latest"}
    BY <1>2, <2>1
  <2> QED
    BY <2>2, <2>3, LatestCalm
<1>4. ASSUME NEW j \in Keys, InsertRow(r, j), Goto(r, "read_latest")
      PROVE  LatestIsGreatest'
  <2> DEFINE v == req[r].vers
  <2>1. /\ HasId(j, r) /\ req'[r] = req[r] /\ pid'[r] = pid[r] /\ pc'[r] = "read_latest"
        /\ \A k \in Keys : HasId(k, r)' => k = j
    BY <1>1, <1>2, <1>4 DEF InsertRow, Goto, TypeOK, HeirInv, IdsAreUnique, HasId
  <2>2. v \in Versions
    BY <1>1, <1>2, BusySlot, InputFields
  <2>3. /\ \A k \in Keys \ {j} : Rows(k)' = Rows(k)
        /\ v \notin Rows(j) /\ Rows(j)' = Rows(j) \cup {v}
    <3>1. \A k \in Keys \ {j} : status'[k] = status[k]
      BY <1>1, <1>4 DEF InsertRow, TypeOK
    <3>2. status[j][v] = "none" /\ status'[j][v] # "none"
      BY <1>1, <1>4, <2>2 DEF InsertRow, TypeOK
    <3>3. \A w \in Versions \ {v} : status'[j][w] = status[j][w]
      BY <1>1, <1>4 DEF InsertRow, TypeOK
    <3> QED
      BY <2>2, <3>1, <3>2, <3>3 DEF Rows, HasRow
  <2>4. \A k \in Keys : ~Comparing(k)
    BY <1>2 DEF Comparing
  <2>5. ASSUME NEW k \in Keys \ {j}
        PROVE  /\ ~Comparing(k)'
               /\ Rows(k)' = {} => latest'[k] = NULL
               /\ Rows(k)' # {} => IsGreatest(k, latest[k], Rows(k))'
    <3>1. ~Comparing(k)'
      BY <1>2, <2>1, <2>5 DEF Comparing
    <3>2. /\ Rows(k) = {} => latest[k] = NULL
          /\ Rows(k) # {} => IsGreatest(k, latest[k], Rows(k))
      BY <2>4, <2>5 DEF LatestIsGreatest
    <3> QED
      BY <1>2, <2>3, <2>5, <3>1, <3>2 DEF IsGreatest
  <2>6. /\ Comparing(j)'
        /\ Rows(j)' # {}
        /\ v \in Rows(j)'
        /\ Rows(j)' \ {v} = Rows(j)
    BY <1>2, <2>1, <2>3 DEF Comparing, HasId
  <2>7. IF Rows(j) = {} THEN latest'[j] = NULL ELSE IsGreatest(j, latest'[j], Rows(j))
    BY <1>2, <2>4 DEF LatestIsGreatest
  <2> QED
    BY <1>2, <2>1, <2>5, <2>6, <2>7 DEF LatestIsGreatest, IsGreatest
<1> QED
  BY <1>3, <1>4 DEF InsertVersion

LEMMA LatestCompare ==
    ASSUME OneAtATime, HeirInv, LatestIsGreatest, NEW r \in Requests, ReadLatest(r)
    PROVE  LatestIsGreatest'
<1>1. TypeOK
  BY DEF HeirInv, StoreInv, RegistryTypeOK
<1>2. /\ pc[r] = "read_latest" /\ UNCHANGED <<pkgId, latest, status, req, pid>>
      /\ \A q \in Requests : q = r
  BY DEF ReadLatest, Goto, dbVars, packageVars, versionVars, OneAtATime
<1> DEFINE v == req[r].vers
<1>3. v \in Versions /\ v \in Nat
  BY <1>1, <1>2, BusySlot, InputFields, SetsAssumption
<1>4. \A k \in Keys : Rows(k)' = Rows(k)
  BY <1>2 DEF Rows, HasRow
<1>5. CASE IdGone(r)
  <2>1. \A k \in Keys : ~Comparing(k) /\ ~Comparing(k)' /\ ~HasId(k, r)'
    BY <1>2, <1>5 DEF IdGone, Comparing, HasId
  <2> QED
    BY <1>2, <1>4, <2>1 DEF LatestIsGreatest, IsGreatest
<1>6. ASSUME NEW j \in Keys, HasId(j, r),
             Goto(r, IF IsNewer(v, latest[j]) THEN "set_latest" ELSE "count_owners")
      PROVE  LatestIsGreatest'
  <2>1. \A k \in Keys : HasId(k, r)' => k = j
    BY <1>2, <1>6 DEF HeirInv, IdsAreUnique, HasId
  <2>2. ASSUME NEW k \in Keys \ {j}
        PROVE  /\ ~Comparing(k)' /\ ~HasId(k, r)'
               /\ Rows(k)' = {} => latest'[k] = NULL
               /\ Rows(k)' # {} => IsGreatest(k, latest[k], Rows(k))'
    <3>1. ~Comparing(k) /\ ~Comparing(k)' /\ ~HasId(k, r)'
      BY <1>2, <2>1, <2>2 DEF Comparing, HasId
    <3> QED
      BY <1>2, <1>4, <2>2, <3>1 DEF LatestIsGreatest, IsGreatest
  <2>3. /\ v \in Rows(j)
        /\ IF Rows(j) \ {v} = {} THEN latest[j] = NULL
                                 ELSE IsGreatest(j, latest[j], Rows(j) \ {v})
    BY <1>2, <1>6 DEF LatestIsGreatest
  <2>4. Rows(j) \subseteq Nat /\ NULL \notin Rows(j)
    BY RowsAreVersions, NullAssumption
  <2>5. CASE IsNewer(v, latest[j])
    <3>1. pc'[r] = "set_latest"
      BY <1>1, <1>6, <2>5 DEF Goto, TypeOK
    <3>2. IsGreatest(j, v, Rows(j))
      <4>1. CASE Rows(j) \ {v} = {}
        BY <1>3, <2>3, <4>1 DEF IsGreatest
      <4>2. CASE Rows(j) \ {v} # {}
        <5>1. latest[j] \in Nat /\ latest[j] # NULL /\ v > latest[j]
          BY <2>3, <2>4, <2>5, <4>2 DEF IsGreatest, IsNewer
        <5> QED
          BY <1>3, <2>3, <2>4, <4>2, <5>1 DEF IsGreatest
      <4> QED
        BY <4>1, <4>2
    <3>3. Comparing(j)'
      BY <1>2, <1>6, <3>1 DEF Comparing, HasId
    <3>4. /\ Rows(j)' # {} /\ IsGreatest(j, v, Rows(j))'
      BY <1>2, <1>4, <2>3, <3>2 DEF IsGreatest
    <3> QED
      BY <1>2, <2>2, <3>1, <3>3, <3>4 DEF LatestIsGreatest
  <2>6. CASE ~IsNewer(v, latest[j])
    <3>1. pc'[r] = "count_owners"
      BY <1>1, <1>6, <2>6 DEF Goto, TypeOK
    <3>2. IsGreatest(j, latest[j], Rows(j))
      <4>1. latest[j] # NULL /\ ~(v > latest[j])
        BY <2>6 DEF IsNewer
      <4>2. Rows(j) \ {v} # {} /\ IsGreatest(j, latest[j], Rows(j) \ {v})
        BY <2>3, <4>1
      <4>3. latest[j] \in Nat
        BY <2>4, <4>2 DEF IsGreatest
      <4> QED
        BY <1>3, <2>4, <4>1, <4>2, <4>3 DEF IsGreatest
    <3>3. IsGreatest(j, latest[j], Rows(j))' /\ Rows(j)' # {}
      BY <1>2, <1>4, <2>3, <3>2 DEF IsGreatest
    <3> QED
      BY <1>2, <2>2, <3>1, <3>3 DEF LatestIsGreatest
  <2> QED
    BY <2>5, <2>6
<1> QED
  BY <1>5, <1>6 DEF ReadLatest

LEMMA LatestSet ==
    ASSUME OneAtATime, HeirInv, LatestIsGreatest, NEW r \in Requests, SetLatest(r)
    PROVE  LatestIsGreatest'
<1>1. TypeOK
  BY DEF HeirInv, StoreInv, RegistryTypeOK
<1>2. /\ pc[r] = "set_latest" /\ pc'[r] = "count_owners"
      /\ UNCHANGED <<pkgId, status, req, pid>>
      /\ \A q \in Requests : q = r
  BY <1>1 DEF SetLatest, Goto, versionVars, OneAtATime, TypeOK
<1>3. \A k \in Keys : Rows(k)' = Rows(k) /\ ~Comparing(k)'
  BY <1>2 DEF Rows, HasRow, Comparing
<1>4. ASSUME NEW k \in Keys, HasId(k, r)
      PROVE  latest'[k] = req[r].vers /\ IsGreatest(k, req[r].vers, Rows(k))
  BY <1>2, <1>4 DEF SetLatest, LatestIsGreatest
<1>5. ASSUME NEW k \in Keys, ~HasId(k, r)
      PROVE  latest'[k] = latest[k] /\ ~Comparing(k)
  BY <1>2, <1>5 DEF SetLatest, Comparing
<1> QED
  BY <1>2, <1>3, <1>4, <1>5 DEF LatestIsGreatest, IsGreatest

LEMMA LatestPublish ==
    ASSUME OneAtATime, MaxFaults = 0, HeirInv, LatestIsGreatest, [Next]_vars
    PROVE  LatestIsGreatest'
<1> USE DEF packageVars, versionVars
<1>1. TypeOK /\ faults = 0
  BY DEF HeirInv, StoreInv, RegistryTypeOK, TypeOK
<1>2. ASSUME NEW r \in Requests,
             \/ Receive(r) \/ CheckOwner(r) \/ CheckQuota(r) \/ CheckDuplicate(r)
             \/ SaveBlob(r) \/ Scan(r) \/ Upsert(r) \/ ResolveId(r) \/ CountOwners(r)
             \/ GrantOwner(r) \/ Settle(r)
      PROVE  LatestIsGreatest'
  <2>1. /\ pc[r] \notin {"read_latest", "set_latest"}
        /\ pc'[r] \notin {"read_latest", "set_latest"}
    BY <1>1, <1>2 DEF TypeOK, Receive, CheckOwner, CheckQuota, CheckDuplicate, SaveBlob,
       Scan, Upsert, ResolveId, CountOwners, GrantOwner, Settle, Goto, Return, Respond
  <2>2. ASSUME NEW k \in Keys
        PROVE  \/ latest'[k] = latest[k] /\ Rows(k)' = Rows(k)
               \/ latest'[k] = NULL /\ Rows(k)' = {}
    <3>1. CASE Upsert(r)
      <4>1. UNCHANGED status /\ (latest'[k] = latest[k] \/ (latest'[k] = NULL /\ pkgId[k] = 0))
        BY <1>1, <3>1 DEF Upsert, TypeOK
      <4>2. pkgId[k] = 0 => Rows(k) = {}
        BY DEF HeirInv, StoreInv, NothingWithoutPackage, Rows
      <4>3. Rows(k)' = Rows(k)
        BY <4>1 DEF Rows, HasRow
      <4> QED
        BY <4>1, <4>2, <4>3
    <3>2. CASE Settle(r)
      <4>1. \A v \in Versions : HasRow(k, v)' <=> HasRow(k, v)
        BY <1>1, <3>2 DEF Settle, TypeOK, HasRow
      <4> QED
        BY <3>2, <4>1 DEF Settle, Rows
    <3>3. CASE UNCHANGED <<latest, status>>
      BY <3>3 DEF Rows, HasRow
    <3> QED
      BY <1>2, <3>1, <3>2, <3>3 DEF Receive, CheckOwner, CheckQuota, CheckDuplicate,
         SaveBlob, Scan, ResolveId, CountOwners, GrantOwner, dbVars
  <2>3. \A q \in Requests : q = r
    BY DEF OneAtATime
  <2>4. \A q \in Requests : /\ pc[q] \notin {"read_latest", "set_latest"}
                            /\ pc'[q] \notin {"read_latest", "set_latest"}
    BY <2>1, <2>3
  <2> QED
    BY <2>2, <2>4, LatestCalm
<1>3. ~Restart /\ \A r \in Requests : ~Abort(r)
  BY <1>1 DEF Restart, Abort
<1>4. CASE UNCHANGED vars
  BY <1>4 DEF vars, dbVars, LatestIsGreatest, Comparing, IsGreatest, Rows, HasRow, HasId
<1> QED
  BY <1>2, <1>3, <1>4, LatestInsert, LatestCompare, LatestSet DEF Next, HandlerStep

LEMMA LatestInvStep ==
    ASSUME OneAtATime, MaxFaults = 0, HeirInv, LatestIsGreatest, [RegistryNext]_allVars
    PROVE  LatestIsGreatest'
<1>1. TypeOK
  BY DEF HeirInv, StoreInv, RegistryTypeOK
<1>2. ASSUME NEW x \in Slots, DeletePackage(x)
      PROVE  LatestIsGreatest'
  <2>1. PICK k0 \in Keys :
          /\ pkgId' = [pkgId EXCEPT ![k0] = 0]
          /\ latest' = [latest EXCEPT ![k0] = NULL]
          /\ status' = [status EXCEPT ![k0] = [v \in Versions |-> "none"]]
    BY <1>2, Deleted DEF HeirInv, StoreInv
  <2>2. UNCHANGED <<pc, req, pid>>
    BY <1>2, Deleted DEF HeirInv, StoreInv
  <2>3. /\ pkgId'[k0] = 0 /\ latest'[k0] = NULL /\ \A v \in Versions : status'[k0][v] = "none"
        /\ \A k \in Keys \ {k0} :
              /\ pkgId'[k] = pkgId[k] /\ latest'[k] = latest[k] /\ status'[k] = status[k]
    BY <1>1, <2>1 DEF TypeOK
  <2>4. /\ Rows(k0)' = {} /\ \A q \in Requests : ~HasId(k0, q)'
        /\ \A k \in Keys \ {k0} :
              /\ Rows(k)' = Rows(k)
              /\ Comparing(k)' <=> Comparing(k)
              /\ \A q \in Requests : HasId(k, q)' <=> HasId(k, q)
    BY <2>2, <2>3 DEF Rows, HasRow, HasId, Comparing
  <2> QED
    BY <2>2, <2>3, <2>4 DEF LatestIsGreatest, IsGreatest
<1>3. CASE UNCHANGED <<dbVars, pc, req, pid>>
  BY <1>3 DEF dbVars, packageVars, versionVars, LatestIsGreatest, Comparing, IsGreatest,
              Rows, HasRow, HasId
<1>4. PublishStep \/ RestartServer \/ UNCHANGED allVars => [Next]_vars
  BY DEF PublishStep, RestartServer, Next, allVars
<1> QED
  BY <1>2, <1>3, <1>4, LatestPublish, OpCases DEF RegistryNext, HeirInv, StoreInv

\* After publishes that did not race and were not dropped, search, the page of a package
\* and the dependency graph agree on its latest version, with any yanks and deletions.
THEOREM SearchAndDetailAgree ==
    ASSUME OneAtATime, MaxFaults = 0
    PROVE  RegistrySpec => []SearchAgreesWithDetail
<1>1. RegistryInit => LatestIsGreatest
  BY DEF RegistryInit, Init, LatestIsGreatest, Comparing, Rows, HasRow, HasId
<1>2. ASSUME HeirInv, LatestIsGreatest, Quiet, NEW k \in Keys, Found(k)
      PROVE  SearchVersions(k) = {DetailLatest(k)} /\ GraphVersions(k) = SearchVersions(k)
  <2>1. Live(k) # {} /\ Live(k) \subseteq Rows(k) /\ Live(k) \subseteq Unyanked(k)
    BY <1>2 DEF Found, SearchVersions, Live, Unyanked
  <2>2. IsGreatest(k, latest[k], Rows(k))
    BY <1>2, <2>1 DEF LatestIsGreatest, Comparing, Quiet
  <2>3. latest[k] # NULL
    BY <2>2, RowsAreVersions, NullAssumption DEF IsGreatest
  <2>4. SearchVersions(k) = {latest[k]} /\ latest[k] \in Live(k)
    BY <1>2, <2>3 DEF Found, SearchVersions, LatestOr
  <2>5. Max(Live(k)) = latest[k]
    <3>1. Live(k) \subseteq Nat
      BY <2>1, RowsAreVersions
    <3>2. \A y \in Live(k) : latest[k] >= y
      BY <2>1, <2>2, <2>4, <3>1 DEF IsGreatest
    <3>3. \A z \in Live(k) : (\A y \in Live(k) : z >= y) => z = latest[k]
      BY <2>4, <3>1, <3>2
    <3> QED
      BY <2>4, <3>2, <3>3 DEF Max
  <2>6. DetailLatest(k) = latest[k]
    BY <2>1, <2>5 DEF DetailLatest, Live
  <2>7. GraphVersions(k) = {latest[k]}
    BY <2>1, <2>3, <2>4 DEF GraphVersions, LatestOr
  <2> QED
    BY <2>4, <2>6, <2>7
<1>3. HeirInv /\ LatestIsGreatest => SearchAgreesWithDetail
  BY <1>2 DEF SearchAgreesWithDetail
<1>4. HeirInv /\ LatestIsGreatest /\ [RegistryNext]_allVars => LatestIsGreatest'
  BY LatestInvStep
<1> QED
  BY <1>1, <1>3, <1>4, HeirInvInit, HeirInvStep, PTL DEF RegistrySpec

-----------------------------------------------------------------------------
(* The import: types.                                                      *)

\* A finite, non-empty set of numbers has a greatest element.
LEMMA GreatestExists ==
    ASSUME NEW S \in SUBSET Nat, IsFiniteSet(S), S # {}
    PROVE  Max(S) \in S
<1> DEFINE above(x) == {y \in S : y > x}
           T        == {Cardinality(above(x)) : x \in S}
<1>1. ASSUME NEW x \in S
      PROVE  IsFiniteSet(above(x)) /\ Cardinality(above(x)) \in Nat
  <2>1. above(x) \in SUBSET S
    OBVIOUS
  <2>2. IsFiniteSet(above(x))
    BY <2>1, FS_Subset
  <2> QED
    BY <2>2, FS_CardinalityType
<1>2. T \subseteq Nat /\ T # {}
  BY <1>1
<1>3. \E m \in T : \A n \in T : ~(n < m)
  <2> HIDE DEF T
  <2>1. \E m \in T : \A n \in T : ~(<<n, m>> \in OpToRel(<, Nat))
    BY <1>2, NatLessThanWellFounded, WFMin
  <2> QED
    BY <1>2, <2>1 DEF OpToRel
<1>4. PICK x \in S : \A y \in S : ~(Cardinality(above(y)) < Cardinality(above(x)))
  BY <1>3
<1>5. ASSUME NEW y \in S, y > x PROVE FALSE
  <2>1. above(y) \in SUBSET above(x) /\ y \in above(x) /\ y \notin above(y)
    <3>1. \A z \in S : z > y => z > x
      BY <1>5
    <3>2. ~(y > y)
      OBVIOUS
    <3>3. above(y) \subseteq above(x)
      BY <3>1
    <3> QED
      BY <1>5, <3>2, <3>3
  <2> HIDE DEF above
  <2>2. /\ Cardinality(above(y)) <= Cardinality(above(x))
        /\ Cardinality(above(x)) = Cardinality(above(y)) => above(x) = above(y)
    BY <1>1, <2>1, FS_Subset
  <2> QED
    BY <1>1, <1>4, <2>1, <2>2
<1>6. \A y \in S : x >= y
  BY <1>5
<1> QED
  BY <1>6 DEF Max

LEMMA StubFields ==
    ASSUME NEW s \in Stubs
    PROVE  /\ s.name \in Spellings /\ s.vers \in Versions
           /\ StubKey(s) \in StubKeys /\ StubKey(s) \in Keys
BY ImportAssumption, SetsAssumption DEF StubKey, StubKeys, Keys

\* What the command has in hand in each pass.
LEMMA ImpFields ==
    ASSUME ImportTypeOK, imp # NULL
    PROVE  /\ imp.pass \in {"upsert", "resolve"} =>
                 imp \in [pass : {"upsert", "resolve"}, todo : SUBSET Stubs,
                          ids : [StubKeys -> 0..MaxId]]
           /\ imp.pass \in {"versions", "owners", "update"} =>
                 imp \in [pass : {"versions", "owners", "update"}, todo : SUBSET IdRows,
                          rows : SUBSET IdRows]
BY DEF ImportTypeOK, Passes

LEMMA IdRowFields ==
    ASSUME NEW x \in IdRows
    PROVE  /\ x[1] \in Ids /\ x[2] \in Versions
           /\ x[1] # 0 /\ x[1] \in 0..MaxId
BY BoundsAssumption DEF IdRows, Ids

\* The version that pass 4 will write is one of the package's own.
LEMMA BestIsRow ==
    ASSUME RegistryTypeOK, NEW x \in BestOf({n \in Ids : IdInUse(n)})
    PROVE  /\ x \in IdRows
           /\ \E k \in Keys : pkgId[k] = x[1] /\ HasRow(k, x[2])
<1>1. PICK n \in {m \in Ids : IdInUse(m)} :
        /\ Unyanked(KeyWithId(n)) # {}
        /\ x = <<n, Max(Unyanked(KeyWithId(n)))>>
  BY DEF BestOf
<1>2. KeyWithId(n) \in Keys /\ pkgId[KeyWithId(n)] = n
  BY <1>1 DEF IdInUse, KeyWithId
<1>3. Unyanked(KeyWithId(n)) \in SUBSET Nat /\ Unyanked(KeyWithId(n)) \in SUBSET Versions
  BY SetsAssumption DEF Unyanked, Rows
<1>4. IsFiniteSet(Unyanked(KeyWithId(n)))
  BY <1>3, RegistryAssumption, FS_Subset
<1>5. Max(Unyanked(KeyWithId(n))) \in Unyanked(KeyWithId(n))
  BY <1>1, <1>3, <1>4, GreatestExists
<1> QED
  BY <1>1, <1>2, <1>3, <1>5 DEF IdRows, Unyanked, Rows

\* The tables keep their types, pass by pass.
LEMMA ImportTablesType ==
    ASSUME ImportTypeOK, ImportStep
    PROVE  TypeOK'
<1> USE DEF ImportTypeOK, RegistryTypeOK
<1>1. CASE StartImport \/ ResolveStub
  <2>1. UNCHANGED vars
    BY <1>1 DEF StartImport, ResolveStub, allVars
  <2> QED
    BY <2>1, TypeStep
<1>2. CASE UpsertStub
  <2>1. PICK s \in imp.todo : UpsertPackage(StubKey(s), s)
    BY <1>2 DEF UpsertStub
  <2>2. s \in Stubs
    BY <1>2, <2>1, ImpFields DEF UpsertStub, Importing
  <2>3. /\ pkgId' \in [Keys -> 0..MaxId]
        /\ pkgName' \in [Keys -> Spellings \cup {NULL}]
        /\ latest' \in [Keys -> Versions \cup {NULL}]
    <3>1. CASE pkgId[StubKey(s)] # 0
      BY <2>1, <3>1 DEF UpsertPackage, packageVars, TypeOK
    <3>2. CASE pkgId[StubKey(s)] = 0
      <4>1. PICK n \in Ids : pkgId' = [pkgId EXCEPT ![StubKey(s)] = n]
        BY <2>1, <3>2 DEF UpsertPackage
      <4>2. n \in 0..MaxId
        BY BoundsAssumption DEF Ids
      <4>3. pkgName' = [pkgName EXCEPT ![StubKey(s)] = s.name] /\ UNCHANGED latest
        BY <2>1, <3>2 DEF UpsertPackage
      <4> QED
        BY <2>2, <4>1, <4>2, <4>3, StubFields DEF TypeOK
    <3> QED
      BY <3>1, <3>2
  <2> QED
    BY <1>2, <2>3 DEF UpsertStub, TypeOK, versionVars
<1>3. CASE InsertVersions
  <2>1. status' \in [Keys -> [Versions -> Statuses]]
    <3>1. CASE UNCHANGED status
      BY <3>1 DEF TypeOK
    <3>2. ASSUME NEW rows, InsertStubs(rows)
          PROVE  status' \in [Keys -> [Versions -> Statuses]]
      BY <3>2 DEF InsertStubs, TypeOK, Statuses
    <3> QED
      BY <1>3, <3>1, <3>2 DEF InsertVersions
  <2> QED
    BY <1>3, <2>1 DEF InsertVersions, TypeOK, packageVars
<1>4. CASE InsertOwners
  <2>1. owners' \in [Keys -> SUBSET Users]
    <3>1. \A k \in Keys : OwnersWith(k, imp.rows) \in SUBSET Users
      BY ImportAssumption DEF OwnersWith, TypeOK
    <3> QED
      BY <1>4, <3>1 DEF InsertOwners, TypeOK
  <2> QED
    BY <1>4, <2>1 DEF InsertOwners, TypeOK, packageVars, versionVars
<1>5. CASE UpdateLatest
  <2>1. ASSUME NEW x \in imp.todo PROVE x[2] \in Versions
    BY <1>5, <2>1, ImpFields, IdRowFields DEF UpdateLatest, Importing
  <2>2. latest' \in [Keys -> Versions \cup {NULL}]
    <3>1. CASE UNCHANGED latest
      BY <3>1 DEF TypeOK
    <3>2. ASSUME NEW x \in imp.todo,
                 latest' = [k \in Keys |-> IF pkgId[k] = x[1] THEN x[2] ELSE latest[k]]
          PROVE  latest' \in [Keys -> Versions \cup {NULL}]
      BY <2>1, <3>2 DEF TypeOK
    <3> QED
      BY <1>5, <3>1, <3>2 DEF UpdateLatest
  <2> QED
    BY <1>5, <2>2 DEF UpdateLatest, TypeOK, versionVars
<1>6. CASE InterruptImport
  BY <1>6, BoundsAssumption
  DEF InterruptImport, TypeOK, dbVars, packageVars, versionVars
<1> QED
  BY <1>1, <1>2, <1>3, <1>4, <1>5, <1>6 DEF ImportStep

\* So does the command's own state.
LEMMA ImportStepType ==
    ASSUME ImportTypeOK, ImportStep
    PROVE  ImportTypeOK'
<1>1. TypeOK'
  BY ImportTablesType
<1>2. UNCHANGED storeVars
  BY DEF ImportStep, StartImport, UpsertStub, ResolveStub, InsertVersions, InsertOwners,
         UpdateLatest, InterruptImport, allVars
<1>3. RegistryTypeOK'
  BY <1>1, <1>2 DEF ImportTypeOK, RegistryTypeOK, storeVars, shelves, prebuiltVars
<1>4. imports' \in 0..MaxImports /\ done' \in BOOLEAN
  <2>1. \/ UNCHANGED imports
        \/ imports < MaxImports /\ imports' = imports + 1
    BY DEF ImportStep, StartImport, UpsertStub, ResolveStub, InsertVersions, InsertOwners,
           UpdateLatest, InterruptImport
  <2>2. done' = done \/ done' = TRUE
    BY DEF ImportStep, StartImport, UpsertStub, ResolveStub, InsertVersions, InsertOwners,
           UpdateLatest, InterruptImport
  <2>3. imports' \in 0..MaxImports
    BY <2>1, ImportAssumption DEF ImportTypeOK
  <2> QED
    BY <2>2, <2>3 DEF ImportTypeOK
<1>5. imp' \in Passes \cup {NULL}
  <2>1. CASE StartImport
    <3>1. [k \in StubKeys |-> 0] \in [StubKeys -> 0..MaxId]
      BY BoundsAssumption
    <3> QED
      BY <2>1, <3>1 DEF StartImport, Passes
  <2>2. CASE UpsertStub
    <3>1. imp \in [pass : {"upsert", "resolve"}, todo : SUBSET Stubs,
                   ids : [StubKeys -> 0..MaxId]]
      BY <2>2, ImpFields DEF UpsertStub, Importing
    <3>2. PICK s \in imp.todo :
            LET todo == {t \in imp.todo : StubKey(t) # StubKey(s)} IN
            imp' = IF todo # {} THEN [imp EXCEPT !.todo = todo]
                   ELSE [imp EXCEPT !.pass = "resolve", !.todo = Stubs]
      BY <2>2 DEF UpsertStub
    <3>3. \/ imp' = [imp EXCEPT !.todo = {t \in imp.todo : StubKey(t) # StubKey(s)}]
          \/ imp' = [imp EXCEPT !.pass = "resolve", !.todo = Stubs]
      BY <3>2
    <3>4. imp' \in [pass : {"upsert", "resolve"}, todo : SUBSET Stubs,
                    ids : [StubKeys -> 0..MaxId]]
      BY <3>1, <3>3
    <3> QED
      BY <3>4 DEF Passes
  <2>3. CASE ResolveStub
    <3>1. imp \in [pass : {"upsert", "resolve"}, todo : SUBSET Stubs,
                   ids : [StubKeys -> 0..MaxId]]
      BY <2>3, ImpFields DEF ResolveStub, Importing
    <3>2. PICK s \in imp.todo :
            LET k    == StubKey(s)
                todo == {t \in imp.todo : StubKey(t) # k}
                ids  == [imp.ids EXCEPT ![k] = SelectId(k)]
            IN imp' = IF todo # {} THEN [imp EXCEPT !.todo = todo, !.ids = ids]
                      ELSE [pass |-> "versions", rows |-> {},
                            todo |-> {<<ids[StubKey(t)], t.vers>> : t \in Stubs}
                                        \cap IdRows]
      BY <2>3 DEF ResolveStub
    <3> DEFINE todo == {t \in imp.todo : StubKey(t) # StubKey(s)}
               ids  == [imp.ids EXCEPT ![StubKey(s)] = SelectId(StubKey(s))]
               rows == {<<ids[StubKey(t)], t.vers>> : t \in Stubs} \cap IdRows
    <3>3. \/ imp' = [imp EXCEPT !.todo = todo, !.ids = ids]
          \/ imp' = [pass |-> "versions", rows |-> {}, todo |-> rows]
      BY <3>2
    <3>4. ids \in [StubKeys -> 0..MaxId]
      <4>1. SelectId(StubKey(s)) \in 0..MaxId
        BY <3>1, <3>2, StubFields DEF SelectId, ImportTypeOK, RegistryTypeOK, TypeOK
      <4> QED
        BY <3>1, <4>1
    <3>5. rows \subseteq IdRows /\ todo \subseteq Stubs
      BY <3>1
    <3> HIDE DEF ids, rows, todo
    <3>6. CASE imp' = [imp EXCEPT !.todo = todo, !.ids = ids]
      <4>1. imp' \in [pass : {"upsert", "resolve"}, todo : SUBSET Stubs,
                      ids : [StubKeys -> 0..MaxId]]
        BY <3>1, <3>4, <3>5, <3>6
      <4> QED
        BY <4>1 DEF Passes
    <3>7. CASE imp' = [pass |-> "versions", rows |-> {}, todo |-> rows]
      BY <3>5, <3>7 DEF Passes
    <3> QED
      BY <3>3, <3>6, <3>7
  <2>4. CASE InsertVersions
    <3>1. imp \in [pass : {"versions", "owners", "update"}, todo : SUBSET IdRows,
                   rows : SUBSET IdRows]
      BY <2>4, ImpFields DEF InsertVersions, Importing
    <3>2. BestOf({n \in Ids : IdInUse(n)}) \subseteq IdRows
      BY BestIsRow DEF ImportTypeOK
    <3>3. CASE imp' = [pass |-> "update", rows |-> {}, todo |-> BestOf({n \in Ids : IdInUse(n)})]
      BY <3>2, <3>3 DEF Passes
    <3>4. ASSUME NEW rows \in SUBSET imp.todo,
                 imp' = [imp EXCEPT !.pass = "owners", !.rows = rows, !.todo = @ \ rows]
          PROVE  imp' \in Passes
      <4>1. imp' \in [pass : {"versions", "owners", "update"}, todo : SUBSET IdRows,
                      rows : SUBSET IdRows]
        BY <3>1, <3>4
      <4> QED
        BY <4>1 DEF Passes
    <3> QED
      BY <2>4, <3>3, <3>4 DEF InsertVersions
  <2>5. CASE InsertOwners \/ UpdateLatest
    <3>1. imp \in [pass : {"versions", "owners", "update"}, todo : SUBSET IdRows,
                   rows : SUBSET IdRows]
      BY <2>5, ImpFields DEF InsertOwners, UpdateLatest, Importing
    <3>2. CASE imp' = [imp EXCEPT !.pass = "versions", !.rows = {}]
      <4>1. imp' \in [pass : {"versions", "owners", "update"}, todo : SUBSET IdRows,
                      rows : SUBSET IdRows]
        BY <3>1, <3>2
      <4> QED
        BY <4>1 DEF Passes
    <3>3. ASSUME NEW x, imp' = [imp EXCEPT !.todo = @ \ {x}]
          PROVE  imp' \in Passes
      <4>1. imp' \in [pass : {"versions", "owners", "update"}, todo : SUBSET IdRows,
                      rows : SUBSET IdRows]
        BY <3>1, <3>3
      <4> QED
        BY <4>1 DEF Passes
    <3> QED
      BY <2>5, <3>2, <3>3 DEF InsertOwners, UpdateLatest
  <2>6. CASE InterruptImport
    BY <2>6 DEF InterruptImport
  <2> QED
    BY <2>1, <2>2, <2>3, <2>4, <2>5, <2>6 DEF ImportStep
<1> QED
  BY <1>3, <1>4, <1>5 DEF ImportTypeOK

-----------------------------------------------------------------------------
(* The import: nothing without a package, and the tables.                  *)

\* Pass 1 adds at most one packages row, with a fresh id and no version.
LEMMA UpsertShape ==
    ASSUME ImportTypeOK, UpsertStub
    PROVE  /\ UNCHANGED <<latest, versionVars, owners, blobs, pc, req, pid, faults,
                          storeVars, imports, done>>
           /\ imp # NULL /\ imp.pass = "upsert"
           /\ IdsAreUnique => IdsAreUnique'
           /\ \E s \in imp.todo :
                 LET todo == {t \in imp.todo : StubKey(t) # StubKey(s)} IN
                 /\ s \in Stubs
                 /\ imp' = IF todo # {} THEN [imp EXCEPT !.todo = todo]
                           ELSE [imp EXCEPT !.pass = "resolve", !.todo = Stubs]
                 /\ pkgId'[StubKey(s)] # 0
                 /\ pkgId[StubKey(s)] = 0 => pkgName'[StubKey(s)] # NULL
                 /\ \A k \in Keys : k # StubKey(s) \/ pkgId[k] # 0 =>
                       pkgId'[k] = pkgId[k] /\ pkgName'[k] = pkgName[k]
<1>1. imp # NULL /\ imp.pass = "upsert"
  BY DEF UpsertStub, Importing
<1>2. PICK s \in imp.todo :
        LET k == StubKey(s) todo == {t \in imp.todo : StubKey(t) # k} IN
        /\ UpsertPackage(k, s)
        /\ imp' = IF todo # {} THEN [imp EXCEPT !.todo = todo]
                  ELSE [imp EXCEPT !.pass = "resolve", !.todo = Stubs]
  BY DEF UpsertStub
<1>3. s \in Stubs
  BY <1>1, <1>2, ImpFields
<1> DEFINE k0 == StubKey(s)
<1>4. k0 \in Keys /\ s.name # NULL
  BY <1>3, StubFields, NullAssumption
<1>5. UpsertPackage(k0, s)
  BY <1>2
<1>6. CASE pkgId[k0] # 0
  <2>1. UNCHANGED packageVars
    BY <1>5, <1>6 DEF UpsertPackage
  <2> QED
    BY <1>1, <1>2, <1>3, <1>6, <2>1 DEF UpsertStub, packageVars, IdsAreUnique
<1>7. CASE pkgId[k0] = 0
  <2>1. PICK n \in Ids : IsNextId(n) /\ pkgId' = [pkgId EXCEPT ![k0] = n]
    BY <1>5, <1>7 DEF UpsertPackage
  <2>2. pkgName' = [pkgName EXCEPT ![k0] = s.name] /\ UNCHANGED latest
    BY <1>5, <1>7 DEF UpsertPackage
  <2>3. n # 0 /\ \A k \in Keys : pkgId[k] # n
    BY <2>1, BoundsAssumption DEF IsNextId, Ids, ImportTypeOK, RegistryTypeOK, TypeOK
  <2>4. /\ pkgId'[k0] = n /\ pkgName'[k0] = s.name
        /\ \A k \in Keys : k # k0 => pkgId'[k] = pkgId[k] /\ pkgName'[k] = pkgName[k]
    BY <1>4, <2>1, <2>2 DEF ImportTypeOK, RegistryTypeOK, TypeOK
  <2>5. IdsAreUnique => IdsAreUnique'
    BY <2>3, <2>4 DEF IdsAreUnique
  <2>6. UNCHANGED <<latest, versionVars, owners, blobs, pc, req, pid, faults, storeVars,
                    imports, done>>
    BY <2>2 DEF UpsertStub
  <2> QED
    BY <1>1, <1>2, <1>3, <1>4, <1>7, <2>3, <2>4, <2>5, <2>6
<1> QED
  BY <1>6, <1>7

\* Rows and owners are added to packages that are there, and nothing is taken away.
Grown ==
    \A k \in Keys :
        /\ pkgId[k] # 0 => pkgId'[k] = pkgId[k]
        /\ owners[k] \subseteq owners'[k]
        /\ \A v \in Versions : HasRow(k, v) => HasRow(k, v)'

LEMMA ImportGrows ==
    ASSUME ImportTypeOK, ImportStep
    PROVE  /\ Grown
           /\ UNCHANGED <<pc, req, pid, storeVars>>
           /\ \A k \in Keys, v \in Versions : HasRow(k, v) => status'[k][v] = status[k][v]
           /\ \A k \in Keys : pkgId[k] = 0 =>
                 /\ owners'[k] = owners[k] /\ latest'[k] = latest[k]
                 /\ \A v \in Versions : HasRow(k, v)' <=> HasRow(k, v)
           /\ \A k \in Keys : pkgId'[k] # 0 =>
                 \/ pkgName'[k] # NULL
                 \/ pkgId[k] # 0 /\ pkgName'[k] = pkgName[k]
<1> USE DEF packageVars, versionVars
<1>1. CASE StartImport \/ ResolveStub \/ InterruptImport
  <2>1. UNCHANGED <<dbVars, pc, req, pid, storeVars>>
    BY <1>1 DEF StartImport, ResolveStub, InterruptImport, allVars, vars
  <2> QED
    BY <2>1 DEF dbVars, Grown, HasRow
<1>2. CASE UpsertStub
  BY <1>2, UpsertShape DEF Grown, HasRow
<1>3. CASE InsertVersions
  <2>1. UNCHANGED <<packageVars, owners, pc, req, pid, storeVars>>
    BY <1>3 DEF InsertVersions
  <2>2. CASE UNCHANGED status
    BY <2>1, <2>2 DEF Grown, HasRow
  <2>3. ASSUME NEW rows \in SUBSET imp.todo, InsertStubs(rows)
        PROVE  /\ \A k \in Keys, v \in Versions : HasRow(k, v) => status'[k][v] = status[k][v]
               /\ \A k \in Keys : pkgId[k] = 0 =>
                     \A v \in Versions : HasRow(k, v)' <=> HasRow(k, v)
    <3>1. rows \subseteq IdRows
      BY <1>3, ImpFields DEF InsertVersions, Importing
    <3>2. \A k \in Keys, v \in Versions : pkgId[k] = 0 => <<pkgId[k], v>> \notin rows
      BY <3>1, IdRowFields
    <3> QED
      BY <2>3, <3>2 DEF InsertStubs, HasRow
  <2>4. CASE \E rows \in SUBSET imp.todo : InsertStubs(rows)
    BY <2>1, <2>3, <2>4 DEF Grown, HasRow
  <2> QED
    BY <1>3, <2>2, <2>4 DEF InsertVersions
<1>4. CASE InsertOwners
  <2>1. UNCHANGED <<packageVars, versionVars, pc, req, pid, storeVars>>
    BY <1>4 DEF InsertOwners
  <2>2. imp.rows \subseteq IdRows
    BY <1>4, ImpFields DEF InsertOwners, Importing
  <2>3. \A k \in Keys : /\ owners[k] \subseteq owners'[k]
                        /\ pkgId[k] = 0 => owners'[k] = owners[k]
    <3>1. CASE UNCHANGED owners
      BY <3>1
    <3>2. CASE owners' = [k \in Keys |-> OwnersWith(k, imp.rows)]
      <4>1. \A k \in Keys : owners[k] \subseteq OwnersWith(k, imp.rows)
        BY DEF OwnersWith
      <4>2. \A x \in imp.rows : x[1] # 0
        BY <2>2, IdRowFields
      <4>3. \A k \in Keys : pkgId[k] = 0 => OwnersWith(k, imp.rows) = owners[k]
        BY <4>2 DEF OwnersWith
      <4> QED
        BY <3>2, <4>1, <4>3
    <3> QED
      BY <1>4, <3>1, <3>2 DEF InsertOwners
  <2> QED
    BY <2>1, <2>3 DEF Grown, HasRow
<1>5. CASE UpdateLatest
  <2>1. UNCHANGED <<pkgId, pkgName, versionVars, owners, pc, req, pid, storeVars>>
    BY <1>5 DEF UpdateLatest
  <2>2. \A k \in Keys : pkgId[k] = 0 => latest'[k] = latest[k]
    <3>1. imp.todo \subseteq IdRows
      BY <1>5, ImpFields DEF UpdateLatest, Importing
    <3> QED
      BY <1>5, <3>1, IdRowFields DEF UpdateLatest
  <2> QED
    BY <2>1, <2>2 DEF Grown, HasRow
<1> QED
  BY <1>1, <1>2, <1>3, <1>4, <1>5 DEF ImportStep

LEMMA ImportStore ==
    ASSUME ImportTypeOK, StoreInv, ImportStep
    PROVE  StoreInv'
<1>1. RegistryTypeOK'
  BY ImportStepType DEF ImportTypeOK
<1>2. UNCHANGED yanked
  BY ImportGrows DEF storeVars, shelves
<1>3. NothingWithoutPackage'
  <2>1. ASSUME NEW k \in Keys, pkgId'[k] = 0
        PROVE  pkgId[k] = 0
    BY <2>1, ImportGrows DEF Grown
  <2> QED
    BY <1>2, <2>1, ImportGrows DEF StoreInv, NothingWithoutPackage
<1>4. PackagesAreNamed'
  BY ImportGrows DEF StoreInv, PackagesAreNamed
<1> QED
  BY <1>1, <1>3, <1>4 DEF StoreInv

\* What the import adds leaves the tables as the publish handlers rely on them.
LEMMA ImportTables ==
    ASSUME ImportTypeOK, TablesInv, UpdatesFit, ImportStep
    PROVE  TablesInv'
<1> USE DEF packageVars, versionVars
<1>1. TypeOK'
  BY ImportTablesType
<1>2. /\ UNCHANGED <<pc, req, pid>>
      /\ \A k \in Keys : pkgId[k] # 0 => pkgId'[k] = pkgId[k]
      /\ \A k \in Keys, v \in Versions : HasRow(k, v) => status'[k][v] = status[k][v]
  BY ImportGrows DEF Grown
<1>3. IdsAreUnique'
  <2>1. CASE UpsertStub
    BY <2>1, UpsertShape DEF TablesInv
  <2>2. CASE UNCHANGED pkgId
    BY <2>2 DEF TablesInv, IdsAreUnique
  <2> QED
    BY <2>1, <2>2 DEF ImportStep, StartImport, ResolveStub, InsertVersions, InsertOwners,
       UpdateLatest, InterruptImport, allVars, vars, dbVars
<1>4. ASSUME NEW r \in Requests, pc[r] # "idle"
      PROVE  Key(r) \in Keys /\ req[r].vers \in Versions
  BY <1>4, BusySlot, InputFields DEF TablesInv
<1>5. Resolved'
  BY <1>2, <1>4 DEF TablesInv, Resolved, Key, AfterInsert
<1>6. Inserted' /\ OneInserter'
  BY <1>2, <1>4 DEF TablesInv, Inserted, OneInserter, Key, HasRow, PastInsert, AfterInsert
<1>7. LatestHasRow'
  <2>1. \A k \in Keys : latest[k] # NULL =>
           latest[k] \in Versions /\ status'[k][latest[k]] # "none"
    <3>1. \A k \in Keys : latest[k] # NULL => latest[k] \in Versions /\ HasRow(k, latest[k])
      BY DEF TablesInv, TypeOK, LatestHasRow
    <3> QED
      BY <1>2, <3>1 DEF HasRow
  <2>2. CASE UNCHANGED latest
    BY <2>1, <2>2 DEF LatestHasRow, HasRow
  <2>3. CASE UpdateLatest
    <3>1. UNCHANGED <<pkgId, status>> /\ Importing("update")
      BY <2>3 DEF UpdateLatest
    <3>2. ASSUME NEW x \in imp.todo, NEW k \in Keys, pkgId[k] = x[1]
          PROVE  HasRow(k, x[2])
      <4>1. PICK j \in Keys : pkgId[j] = x[1] /\ HasRow(j, x[2])
        BY <3>1, <3>2 DEF UpdatesFit
      <4>2. x[1] # 0
        BY <3>1, <3>2, ImpFields, IdRowFields DEF Importing
      <4> QED
        BY <3>2, <4>1, <4>2 DEF TablesInv, IdsAreUnique
    <3>3. ASSUME NEW x \in imp.todo,
                 latest' = [k \in Keys |-> IF pkgId[k] = x[1] THEN x[2] ELSE latest[k]]
          PROVE  LatestHasRow'
      BY <2>1, <3>1, <3>2, <3>3 DEF LatestHasRow, HasRow
    <3> QED
      BY <2>2, <2>3, <3>3 DEF UpdateLatest
  <2>4. CASE UpsertStub
    BY <2>2, <2>4, UpsertShape
  <2> QED
    BY <2>2, <2>3, <2>4 DEF ImportStep, StartImport, ResolveStub, InsertVersions,
       InsertOwners, InterruptImport, allVars, vars, dbVars
<1> QED
  BY <1>1, <1>3, <1>5, <1>6, <1>7 DEF TablesInv

-----------------------------------------------------------------------------
(* The import: what a pass has left to do.                                 *)

\* Nor do the steps of the store take a version or an owner away, until a deletion.
LEMMA OwnersGrow ==
    ASSUME TypeOK, [Next]_vars, NEW k \in Keys
    PROVE  owners[k] \subseteq owners'[k]
<1>1. CASE UNCHANGED owners
  BY <1>1
<1>2. ASSUME NEW r \in Requests, GrantOwner(r)
      PROVE  owners[k] \subseteq owners'[k]
  BY <1>2 DEF GrantOwner, TypeOK
<1>3. ASSUME NEW r \in Requests, Upsert(r) \/ InsertVersion(r) \/ SetLatest(r) \/ Settle(r)
      PROVE  UNCHANGED owners
  BY <1>3 DEF Upsert, InsertVersion, SetLatest, Settle
<1> QED
  BY <1>1, <1>2, <1>3, WritingSteps DEF dbVars

\* What the handlers do between two steps of the import: nothing to its tables, or a
\* step of module Publish.
LEMMA BetweenImports ==
    ASSUME StoreInv, [RegistryNext]_allVars, deletes' = 0
    PROVE  \/ [Next]_vars
           \/ UNCHANGED <<dbVars, pc, req, pid>> /\ faults' \in {faults, faults + 1}
<1>1. PublishStep \/ RestartServer \/ UNCHANGED allVars => [Next]_vars
  BY DEF PublishStep, RestartServer, Next, allVars
<1>2. ASSUME NEW x \in Slots, DeletePackage(x) PROVE FALSE
  <2>1. deletes' = deletes + 1 /\ deletes \in 0..MaxDeletes
    BY <1>2 DEF DeletePackage, StoreInv, RegistryTypeOK
  <2> QED
    BY <2>1, RegistryAssumption
<1>3. ASSUME NEW x \in Slots, OpStep(x)
      PROVE  \/ DeletePackage(x)
             \/ UNCHANGED <<dbVars, pc, req, pid>> /\ faults' \in {faults, faults + 1}
  BY <1>3, OpCases DEF StoreInv
<1> QED
  BY <1>1, <1>2, <1>3 DEF RegistryNext

LEMMA RegistryGrows ==
    ASSUME StoreInv, TablesInv, [RegistryNext]_allVars, deletes' = 0
    PROVE  Grown
<1>1. CASE [Next]_vars
  <2>1. WriteOnce
    BY <1>1, WriteOnceStep
  <2>2. ASSUME NEW k \in Keys
        PROVE  /\ pkgId[k] # 0 => pkgId'[k] = pkgId[k]
               /\ owners[k] \subseteq owners'[k]
    BY <1>1, PackageKept, OwnersGrow DEF TablesInv
  <2> QED
    BY <2>1, <2>2 DEF Grown, WriteOnce
<1>2. CASE UNCHANGED dbVars
  BY <1>2 DEF dbVars, packageVars, versionVars, Grown, HasRow
<1> QED
  BY <1>1, <1>2, BetweenImports

LEMMA GrownStubs ==
    ASSUME Grown, NEW s \in Stubs
    PROVE  /\ pkgId[StubKey(s)] # 0 => /\ pkgId'[StubKey(s)] # 0
                                       /\ StubRow(s)' = StubRow(s)
           /\ Stored(s) => Stored(s)'
           /\ Imported(s) => Imported(s)'
<1>1. StubKey(s) \in Keys /\ s.vers \in Versions
  BY StubFields
<1>2. StubKey(s)' = StubKey(s)
  BY DEF StubKey
<1>3. Stored(s) => Stored(s)'
  BY <1>1, <1>2 DEF Grown, Stored
<1> QED
  BY <1>1, <1>2, <1>3 DEF Grown, StubRow, Imported

\* Whoever runs between two steps of the import.
LEMMA FitsStay ==
    ASSUME ImportTypeOK, NothingWithoutPackage, NamesFit, ChunksFit, UpdatesFit, Grown,
           UNCHANGED imp
    PROVE  NamesFit' /\ ChunksFit' /\ UpdatesFit'
<1>1. \A s \in Stubs : /\ pkgId[StubKey(s)] # 0 => /\ pkgId'[StubKey(s)] # 0
                                                   /\ StubRow(s)' = StubRow(s)
                       /\ Stored(s) => Stored(s)'
                       /\ Imported(s) => Imported(s)'
  BY GrownStubs
<1>2. \A pass : Importing(pass)' <=> Importing(pass)
  BY DEF Importing
<1>3. NamesFit'
  <2>1. \A s \in Stubs : pkgId[StubKey(s)] # 0 => pkgId'[StubKey(s)] = pkgId[StubKey(s)]
    BY StubFields DEF Grown
  <2> QED
    BY <1>1, <1>2, <2>1 DEF NamesFit
<1>4. ChunksFit'
  <2> SUFFICES ASSUME Importing("versions") \/ Importing("owners")
               PROVE  /\ \A x \in imp.todo \cup imp.rows : IdInUse(x[1])'
                      /\ Importing("versions") => imp.rows = {}
                      /\ \A s \in Stubs : \/ StubRow(s)' \in imp.todo
                                          \/ StubRow(s)' \in imp.rows /\ Stored(s)'
                                          \/ Imported(s)'
    BY <1>2 DEF ChunksFit
  <2>1. imp.todo \cup imp.rows \subseteq IdRows
    BY ImpFields DEF Importing
  <2>2. ASSUME NEW x \in imp.todo \cup imp.rows PROVE IdInUse(x[1])'
    <3>1. PICK k \in Keys : pkgId[k] = x[1]
      BY DEF ChunksFit, IdInUse
    <3>2. x[1] # 0
      BY <2>1, IdRowFields
    <3> QED
      BY <3>1, <3>2 DEF Grown, IdInUse
  <2>3. ASSUME NEW s \in Stubs, StubRow(s) \in IdRows PROVE StubRow(s)' = StubRow(s)
    <3>1. pkgId[StubKey(s)] # 0
      BY <2>3, IdRowFields DEF StubRow
    <3> QED
      BY <1>1, <3>1
  <2> QED
    BY <1>1, <2>1, <2>2, <2>3 DEF ChunksFit
<1>5. UpdatesFit'
  <2> SUFFICES ASSUME Importing("update")
               PROVE  /\ \A x \in imp.todo :
                            \E k \in Keys : pkgId'[k] = x[1] /\ HasRow(k, x[2])'
                      /\ \A s \in Stubs : Imported(s)'
    BY <1>2 DEF UpdatesFit
  <2>1. ASSUME NEW x \in imp.todo
        PROVE  \E k \in Keys : pkgId'[k] = x[1] /\ HasRow(k, x[2])'
    <3>1. PICK k \in Keys : pkgId[k] = x[1] /\ HasRow(k, x[2])
      BY DEF UpdatesFit
    <3>2. x[1] # 0 /\ x[2] \in Versions
      BY ImpFields, IdRowFields DEF Importing
    <3> QED
      BY <3>1, <3>2 DEF Grown
  <2> QED
    BY <1>1, <2>1 DEF UpdatesFit
<1> QED
  BY <1>3, <1>4, <1>5

LEMMA CompleteStays ==
    ASSUME Grown, deletes' = 0 => deletes = 0, ImportIsComplete, UNCHANGED done
    PROVE  ImportIsComplete'
<1>1. \A s \in Stubs : Imported(s) => Imported(s)'
  BY GrownStubs
<1> QED
  BY <1>1 DEF ImportIsComplete, Imported, Stored, StubKey

-----------------------------------------------------------------------------
(* The import: what each pass has done.                                    *)

LEMMA FitsStart ==
    ASSUME StartImport
    PROVE  NamesFit' /\ ChunksFit' /\ UpdatesFit'
<1>1. imp' = [pass |-> "upsert", todo |-> Stubs, ids |-> [k \in StubKeys |-> 0]]
  BY DEF StartImport
<1>2. \A pass : Importing(pass)' => pass = "upsert"
  BY <1>1 DEF Importing
<1>3. \A s \in Stubs : imp'.ids[StubKey(s)] = 0 /\ s \in imp'.todo
  BY <1>1, StubFields
<1> QED
  BY <1>2, <1>3 DEF NamesFit, ChunksFit, UpdatesFit, StubKey

LEMMA FitsUpsert ==
    ASSUME ImportTypeOK, NamesFit, UpsertStub
    PROVE  NamesFit' /\ ChunksFit' /\ UpdatesFit'
<1>1. PICK s \in imp.todo :
        LET todo == {t \in imp.todo : StubKey(t) # StubKey(s)} IN
        /\ s \in Stubs
        /\ imp' = IF todo # {} THEN [imp EXCEPT !.todo = todo]
                  ELSE [imp EXCEPT !.pass = "resolve", !.todo = Stubs]
        /\ pkgId'[StubKey(s)] # 0
        /\ \A k \in Keys : k # StubKey(s) \/ pkgId[k] # 0 => pkgId'[k] = pkgId[k]
  BY UpsertShape
<1> DEFINE todo == {t \in imp.todo : StubKey(t) # StubKey(s)}
<1>2. imp # NULL /\ imp.pass = "upsert"
  BY UpsertShape
<1>3. imp \in [pass : {"upsert", "resolve"}, todo : SUBSET Stubs,
               ids : [StubKeys -> 0..MaxId]]
  BY <1>2, ImpFields
<1>4. ASSUME NEW t \in Stubs
      PROVE  /\ imp.ids[StubKey(t)] = 0
             /\ t \notin todo => pkgId'[StubKey(t)] # 0
  <2>1. /\ imp.ids[StubKey(t)] = 0
        /\ t \notin imp.todo => pkgId[StubKey(t)] # 0
    BY <1>2 DEF NamesFit, Importing
  <2>2. StubKey(t) \in Keys
    BY StubFields
  <2> QED
    BY <1>1, <2>1, <2>2
<1>5. imp' = IF todo # {} THEN [imp EXCEPT !.todo = todo]
             ELSE [imp EXCEPT !.pass = "resolve", !.todo = Stubs]
  BY <1>1
<1> HIDE DEF todo
<1>6. CASE todo # {}
  <2>1. imp'.pass = "upsert" /\ imp'.todo = todo /\ imp'.ids = imp.ids
    BY <1>2, <1>3, <1>5, <1>6
  <2>2. \A pass : Importing(pass)' => pass = "upsert"
    BY <2>1 DEF Importing
  <2> QED
    BY <1>4, <2>1, <2>2 DEF NamesFit, ChunksFit, UpdatesFit, StubKey
<1>7. CASE todo = {}
  <2>1. imp'.pass = "resolve" /\ imp'.todo = Stubs /\ imp'.ids = imp.ids
    BY <1>2, <1>3, <1>5, <1>7
  <2>2. \A pass : Importing(pass)' => pass = "resolve"
    BY <2>1 DEF Importing
  <2>3. \A t \in Stubs : imp'.ids[StubKey(t)] = 0 /\ pkgId'[StubKey(t)] # 0
    BY <1>4, <1>7, <2>1
  <2> QED
    BY <2>1, <2>2, <2>3 DEF NamesFit, ChunksFit, UpdatesFit, StubKey
<1> QED
  BY <1>6, <1>7

\* Every stub's package was there when its id was looked up, so that none is passed over.
LEMMA FitsResolve ==
    ASSUME ImportTypeOK, NamesFit, ResolveStub
    PROVE  /\ NamesFit' /\ ChunksFit' /\ UpdatesFit'
           /\ Importing("resolve")' \/ Importing("versions")'
<1>1. imp # NULL /\ imp.pass = "resolve" /\ UNCHANGED <<pkgId, status, owners>>
  BY DEF ResolveStub, Importing, allVars, vars, dbVars, packageVars, versionVars
<1>2. imp \in [pass : {"upsert", "resolve"}, todo : SUBSET Stubs,
               ids : [StubKeys -> 0..MaxId]]
  BY <1>1, ImpFields
<1>3. PICK s \in imp.todo :
        LET k    == StubKey(s)
            todo == {t \in imp.todo : StubKey(t) # k}
            ids  == [imp.ids EXCEPT ![k] = SelectId(k)]
        IN imp' = IF todo # {} THEN [imp EXCEPT !.todo = todo, !.ids = ids]
                  ELSE [pass |-> "versions", rows |-> {},
                        todo |-> {<<ids[StubKey(t)], t.vers>> : t \in Stubs} \cap IdRows]
  BY DEF ResolveStub
<1> DEFINE todo == {t \in imp.todo : StubKey(t) # StubKey(s)}
           ids  == [imp.ids EXCEPT ![StubKey(s)] = SelectId(StubKey(s))]
           rows == {<<ids[StubKey(t)], t.vers>> : t \in Stubs} \cap IdRows
<1>4. imp' = IF todo # {} THEN [imp EXCEPT !.todo = todo, !.ids = ids]
             ELSE [pass |-> "versions", rows |-> {}, todo |-> rows]
  BY <1>3
<1>5. ASSUME NEW t \in Stubs
      PROVE  /\ pkgId[StubKey(t)] # 0
             /\ ids[StubKey(t)] = IF \E u \in todo : StubKey(u) = StubKey(t)
                                    THEN 0 ELSE pkgId[StubKey(t)]
  <2>1. /\ pkgId[StubKey(t)] # 0
        /\ imp.ids[StubKey(t)] = IF \E u \in imp.todo : StubKey(u) = StubKey(t)
                                   THEN 0 ELSE pkgId[StubKey(t)]
    BY <1>1 DEF NamesFit, Importing
  <2>2. StubKey(t) \in StubKeys
    BY StubFields
  <2>3. CASE StubKey(t) = StubKey(s)
    BY <1>2, <2>1, <2>2, <2>3 DEF SelectId
  <2>4. CASE StubKey(t) # StubKey(s)
    BY <1>2, <2>1, <2>2, <2>4
  <2> QED
    BY <2>3, <2>4
<1>6. CASE todo # {}
  <2>1. /\ imp'.pass = "resolve" /\ imp'.todo = todo /\ imp'.ids = ids
        /\ imp' # NULL
    <3>1. ids \in [StubKeys -> 0..MaxId] /\ todo \in SUBSET Stubs
      <4>1. SelectId(StubKey(s)) \in 0..MaxId
        BY <1>2, <1>3, StubFields DEF SelectId, ImportTypeOK, RegistryTypeOK, TypeOK
      <4> QED
        BY <1>2, <4>1
    <3> HIDE DEF todo, ids
    <3>2. imp' \in [pass : {"upsert", "resolve"}, todo : SUBSET Stubs,
                    ids : [StubKeys -> 0..MaxId]]
      BY <1>2, <1>4, <1>6, <3>1
    <3>3. imp'.pass = "resolve" /\ imp'.todo = todo /\ imp'.ids = ids
      BY <1>1, <1>2, <1>4, <1>6
    <3> QED
      BY <3>2, <3>3, NullIsNoPass DEF Passes
  <2>2. \A pass : Importing(pass)' <=> pass = "resolve"
    BY <2>1 DEF Importing
  <2> HIDE DEF todo, ids
  <2> QED
    BY <1>1, <1>5, <2>1, <2>2 DEF NamesFit, ChunksFit, UpdatesFit, StubKey
<1>7. CASE todo = {}
  <2>1. /\ imp'.pass = "versions" /\ imp'.todo = rows /\ imp'.rows = {}
        /\ imp' # NULL
    <3>1. rows \in SUBSET IdRows
      OBVIOUS
    <3> HIDE DEF todo, rows
    <3>2. imp' = [pass |-> "versions", rows |-> {}, todo |-> rows]
      BY <1>4, <1>7
    <3> QED
      BY <3>1, <3>2, NullIsNoPass DEF Passes
  <2>2. \A pass : Importing(pass)' <=> pass = "versions"
    BY <2>1 DEF Importing
  <2>3. ASSUME NEW t \in Stubs PROVE StubRow(t) \in rows
    <3>1. ids[StubKey(t)] = pkgId[StubKey(t)] /\ pkgId[StubKey(t)] # 0
      BY <1>5, <1>7
    <3>2. StubKey(t) \in Keys /\ t.vers \in Versions
      BY StubFields
    <3>3. pkgId[StubKey(t)] \in Ids
      BY <3>1, <3>2, BoundsAssumption DEF Ids, ImportTypeOK, RegistryTypeOK, TypeOK
    <3> HIDE DEF ids
    <3> QED
      BY <3>1, <3>2, <3>3 DEF StubRow, IdRows
  <2>4. ASSUME NEW x \in rows PROVE IdInUse(x[1])
    <3>1. PICK t \in Stubs : x = <<ids[StubKey(t)], t.vers>>
      OBVIOUS
    <3>2. x[1] = pkgId[StubKey(t)]
      BY <1>5, <1>7, <3>1
    <3> QED
      BY <3>2, StubFields DEF IdInUse
  <2> HIDE DEF rows, todo, ids
  <2>5. /\ \A x \in imp'.todo \cup imp'.rows : IdInUse(x[1])'
        /\ \A t \in Stubs : StubRow(t)' \in imp'.todo
    BY <1>1, <2>1, <2>3, <2>4 DEF IdInUse, StubRow, StubKey
  <2> QED
    BY <2>1, <2>2, <2>5 DEF NamesFit, ChunksFit, UpdatesFit
<1> QED
  BY <1>6, <1>7

\* No chunk fails, and when none is left every stub is imported.
LEMMA FitsVersions ==
    ASSUME ImportTypeOK, NothingWithoutPackage, ChunksFit, InsertVersions
    PROVE  /\ NamesFit' /\ ChunksFit' /\ UpdatesFit'
           /\ imp # NULL /\ imp.pass = "versions" /\ imp.rows = {}
           /\ UNCHANGED <<pkgId, owners, pc, req, pid, faults>>
           /\ \/ \E rows \in SUBSET imp.todo :
                    /\ InsertStubs(rows)
                    /\ Importing("owners")'
                    /\ imp'.rows = rows /\ imp'.todo = imp.todo \ rows
              \/ UNCHANGED status /\ imp.todo = {} /\ Importing("update")'
<1>1. /\ imp # NULL /\ imp.pass = "versions"
      /\ UNCHANGED <<packageVars, owners, pc, req, pid, faults>>
  BY DEF InsertVersions, Importing
<1>2. imp \in [pass : {"versions", "owners", "update"}, todo : SUBSET IdRows,
               rows : SUBSET IdRows]
  BY <1>1, ImpFields
<1>3. /\ \A x \in imp.todo : IdInUse(x[1])
      /\ imp.rows = {}
      /\ \A s \in Stubs : StubRow(s) \in imp.todo \/ Imported(s)
  BY <1>1 DEF ChunksFit, Importing
<1>4. UNCHANGED pkgId /\ \A n : IdInUse(n)' <=> IdInUse(n)
  BY <1>1 DEF IdInUse, packageVars
<1>5. Grown
  BY ImportGrows DEF ImportStep
<1>6. ASSUME NEW rows \in SUBSET imp.todo, InsertStubs(rows),
             imp' = [imp EXCEPT !.pass = "owners", !.rows = rows, !.todo = @ \ rows]
      PROVE  /\ NamesFit' /\ ChunksFit' /\ UpdatesFit'
             /\ Importing("owners")'
             /\ imp'.rows = rows /\ imp'.todo = imp.todo \ rows
  <2>1. imp'.pass = "owners" /\ imp'.rows = rows /\ imp'.todo = imp.todo \ rows
    BY <1>2, <1>6
  <2>2. imp' # NULL
    <3>1. imp' \in [pass : {"versions", "owners", "update"}, todo : SUBSET IdRows,
                    rows : SUBSET IdRows]
      BY <1>2, <1>6
    <3> QED
      BY <3>1, NullIsNoPass DEF Passes
  <2>3. \A pass : Importing(pass)' <=> pass = "owners"
    BY <2>1, <2>2 DEF Importing
  <2>4. ASSUME NEW s \in Stubs, StubRow(s) \in rows PROVE Stored(s)'
    <3>1. StubKey(s) \in Keys /\ s.vers \in Versions
      BY StubFields
    <3>2. status'[StubKey(s)][s.vers] # "none"
      BY <1>6, <2>4, <3>1 DEF InsertStubs, StubRow, HasRow
    <3> QED
      BY <3>2 DEF Stored, HasRow, StubKey
  <2>5. ASSUME NEW s \in Stubs
        PROVE  /\ StubRow(s)' = StubRow(s)
               /\ Imported(s) => Imported(s)'
    BY <1>4, <1>5, GrownStubs DEF StubRow, StubKey
  <2>6. ChunksFit'
    BY <1>3, <1>4, <2>1, <2>3, <2>4, <2>5 DEF ChunksFit
  <2> QED
    BY <2>1, <2>3, <2>6 DEF NamesFit, UpdatesFit
<1>7. ASSUME imp.todo = {}, UNCHANGED status,
             imp' = [pass |-> "update", rows |-> {},
                     todo |-> BestOf({n \in Ids : IdInUse(n)})]
      PROVE  NamesFit' /\ ChunksFit' /\ UpdatesFit' /\ Importing("update")'
  <2>1. \A x \in imp'.todo : \E k \in Keys : pkgId[k] = x[1] /\ HasRow(k, x[2])
    BY <1>7, BestIsRow DEF ImportTypeOK
  <2>2. \A x \in imp'.todo : \E k \in Keys : pkgId'[k] = x[1] /\ HasRow(k, x[2])'
    BY <1>4, <1>7, <2>1, BestIsRow DEF HasRow, ImportTypeOK
  <2>3. \A s \in Stubs : Imported(s)'
    BY <1>3, <1>5, <1>7, GrownStubs
  <2>4. imp'.pass = "update"
    BY <1>7
  <2>5. \A pass : Importing(pass)' => pass = "update"
    BY <2>4 DEF Importing
  <2>6. Importing("update")'
    <3>1. imp' \in Passes
      BY <1>7, BestIsRow DEF Passes, ImportTypeOK
    <3> QED
      BY <2>4, <3>1, NullIsNoPass DEF Importing
  <2> QED
    BY <2>2, <2>3, <2>5, <2>6 DEF NamesFit, ChunksFit, UpdatesFit
<1> QED
  BY <1>1, <1>3, <1>4, <1>6, <1>7 DEF InsertVersions

LEMMA FitsOwners ==
    ASSUME ImportTypeOK, ChunksFit, InsertOwners
    PROVE  /\ NamesFit' /\ ChunksFit' /\ UpdatesFit'
           /\ imp # NULL /\ imp.pass = "owners"
           /\ UNCHANGED <<pkgId, status, pc, req, pid, faults>>
           /\ Importing("versions")'
           /\ imp'.todo = imp.todo /\ imp'.rows = {}
           /\ \A k \in Keys :
                 (\E x \in imp.rows : x[1] = pkgId[k]) => Importer \in owners'[k]
<1>1. /\ imp # NULL /\ imp.pass = "owners"
      /\ UNCHANGED <<pkgId, status, pc, req, pid, faults>>
  BY DEF InsertOwners, Importing, packageVars, versionVars
<1>2. imp \in [pass : {"versions", "owners", "update"}, todo : SUBSET IdRows,
               rows : SUBSET IdRows]
  BY <1>1, ImpFields
<1>3. /\ \A x \in imp.todo \cup imp.rows : IdInUse(x[1])
      /\ \A s \in Stubs : \/ StubRow(s) \in imp.todo
                          \/ StubRow(s) \in imp.rows /\ Stored(s)
                          \/ Imported(s)
  BY <1>1 DEF ChunksFit, Importing
<1>4. /\ owners' = [k \in Keys |-> OwnersWith(k, imp.rows)]
      /\ imp' = [imp EXCEPT !.pass = "versions", !.rows = {}]
  BY <1>3 DEF InsertOwners
<1>5. imp'.pass = "versions" /\ imp'.todo = imp.todo /\ imp'.rows = {}
  BY <1>2, <1>4
<1>6. imp' # NULL
  <2>1. imp' \in [pass : {"versions", "owners", "update"}, todo : SUBSET IdRows,
                  rows : SUBSET IdRows]
    BY <1>2, <1>4
  <2> QED
    BY <2>1, NullIsNoPass DEF Passes
<1>7. \A pass : Importing(pass)' <=> pass = "versions"
  BY <1>5, <1>6 DEF Importing
<1>8. \A k \in Keys : (\E x \in imp.rows : x[1] = pkgId[k]) => Importer \in owners'[k]
  BY <1>4 DEF OwnersWith
<1>9. Grown
  BY ImportGrows DEF ImportStep
<1>10. ASSUME NEW s \in Stubs
       PROVE  \/ StubRow(s)' \in imp.todo
              \/ Imported(s)'
  <2>1. StubRow(s)' = StubRow(s)
    BY <1>1 DEF StubRow, StubKey
  <2>2. ASSUME StubRow(s) \in imp.rows, Stored(s) PROVE Imported(s)'
    <3>1. Importer \in owners'[StubKey(s)]
      BY <1>8, <2>2, StubFields DEF StubRow
    <3>2. Stored(s)'
      BY <1>9, <2>2, GrownStubs
    <3> QED
      BY <3>1, <3>2 DEF Imported, StubKey
  <2> QED
    BY <1>3, <1>9, <2>1, <2>2, GrownStubs
<1>11. \A n : IdInUse(n)' <=> IdInUse(n)
  BY <1>1 DEF IdInUse
<1>12. ChunksFit'
  BY <1>3, <1>5, <1>7, <1>10, <1>11 DEF ChunksFit
<1> QED
  BY <1>1, <1>5, <1>7, <1>8, <1>12 DEF NamesFit, UpdatesFit

LEMMA FitsUpdate ==
    ASSUME ImportTypeOK, UpdatesFit, UpdateLatest
    PROVE  /\ NamesFit' /\ ChunksFit' /\ UpdatesFit'
           /\ imp # NULL /\ imp.pass = "update"
           /\ UNCHANGED <<pkgId, status, owners, pc, req, pid, faults>>
           /\ \A s \in Stubs : Imported(s)'
           /\ Importing("owners")' => FALSE
<1>1. /\ imp # NULL /\ imp.pass = "update"
      /\ UNCHANGED <<pkgId, status, owners, pc, req, pid, faults>>
  BY DEF UpdateLatest, Importing, versionVars
<1>2. imp \in [pass : {"versions", "owners", "update"}, todo : SUBSET IdRows,
               rows : SUBSET IdRows]
  BY <1>1, ImpFields
<1>3. /\ \A x \in imp.todo : \E k \in Keys : pkgId[k] = x[1] /\ HasRow(k, x[2])
      /\ \A s \in Stubs : Imported(s)
  BY <1>1 DEF UpdatesFit, Importing
<1>4. imp' = NULL \/ (imp'.pass = "update" /\ imp'.todo \subseteq imp.todo)
  <2>1. ASSUME NEW x \in imp.todo, imp' = [imp EXCEPT !.todo = @ \ {x}]
        PROVE  imp'.pass = "update" /\ imp'.todo \subseteq imp.todo
    BY <1>1, <1>2, <2>1
  <2> QED
    BY <2>1 DEF UpdateLatest
<1>5. \A pass : Importing(pass)' => pass = "update" /\ imp'.todo \subseteq imp.todo
  BY <1>4 DEF Importing
<1>6. \A s \in Stubs : Imported(s)'
  BY <1>1, <1>3 DEF Imported, Stored, HasRow, StubKey
<1>7. \A x \in imp.todo : \E k \in Keys : pkgId'[k] = x[1] /\ HasRow(k, x[2])'
  BY <1>1, <1>3 DEF HasRow
<1>8. UpdatesFit'
  BY <1>5, <1>6, <1>7 DEF UpdatesFit
<1> QED
  BY <1>1, <1>5, <1>6, <1>8 DEF NamesFit, ChunksFit

LEMMA FitsImport ==
    ASSUME ImportTypeOK, NothingWithoutPackage, NamesFit, ChunksFit, UpdatesFit,
           ImportIsComplete, ImportStep
    PROVE  NamesFit' /\ ChunksFit' /\ UpdatesFit' /\ ImportIsComplete'
<1>1. Grown
  BY ImportGrows
<1>2. UNCHANGED deletes
  BY ImportGrows DEF storeVars, shelves
<1>3. UNCHANGED done => ImportIsComplete'
  BY <1>1, <1>2, CompleteStays
<1>4. CASE InterruptImport
  <2>1. imp' = NULL /\ UNCHANGED done
    BY <1>4 DEF InterruptImport
  <2> QED
    BY <1>3, <2>1 DEF NamesFit, ChunksFit, UpdatesFit, Importing
<1>5. CASE UpdateLatest
  <2>1. \A s \in Stubs : Imported(s)'
    BY <1>5, FitsUpdate
  <2>2. ImportIsComplete'
    BY <2>1 DEF ImportIsComplete, Imported, Stored
  <2> QED
    BY <1>5, <2>2, FitsUpdate
<1>6. CASE ~InterruptImport /\ ~UpdateLatest
  <2>1. UNCHANGED done
    BY <1>6 DEF ImportStep, StartImport, UpsertStub, ResolveStub, InsertVersions,
                InsertOwners
  <2> QED
    BY <1>3, <1>6, <2>1, FitsStart, FitsUpsert, FitsResolve, FitsVersions, FitsOwners
    DEF ImportStep
<1> QED
  BY <1>4, <1>5, <1>6

-----------------------------------------------------------------------------
(* The import: who will own a package that nobody owns.                    *)

\* As Heir and InsertedHeir; while nothing is deleted, key and id agree.
Claims(k, r) == pc[r] \in {"resolve_id", "insert_version"} \cup AfterInsert /\ Key(r) = k
ClaimsRow(k, r) == pc[r] \in AfterInsert /\ Key(r) = k

\* What a step must leave of the claims of the publish handlers.
ClaimsKept ==
    /\ \A k \in Keys : pkgId[k] = 0 /\ pkgId'[k] # 0 => \E r \in Requests : Claims(k, r)'
    /\ \A k \in Keys, v \in Versions :
          HasRow(k, v)' => HasRow(k, v) \/ \E r \in Requests : ClaimsRow(k, r)'
    /\ \A k \in Keys, r \in Requests : owners'[k] = {} =>
          /\ ClaimsRow(k, r) => ClaimsRow(k, r)'
          /\ Claims(k, r) => Claims(k, r)' \/ \E v \in Versions : HasRow(k, v)

\* The step of one slot, once the others have been seen to.
LEMMA ClaimsOf ==
    ASSUME NEW r \in Requests, OthersSame(r),
           \A k \in Keys : pkgId[k] = 0 /\ pkgId'[k] # 0 => Claims(k, r)',
           \A k \in Keys, v \in Versions :
              HasRow(k, v)' => HasRow(k, v) \/ ClaimsRow(k, r)',
           \A k \in Keys : owners'[k] = {} =>
              /\ ClaimsRow(k, r) => ClaimsRow(k, r)'
              /\ Claims(k, r) => Claims(k, r)' \/ \E v \in Versions : HasRow(k, v)
    PROVE  ClaimsKept
<1>1. ASSUME NEW k \in Keys, NEW q \in Requests \ {r}
      PROVE  /\ Claims(k, q) => Claims(k, q)'
             /\ ClaimsRow(k, q) => ClaimsRow(k, q)'
  BY <1>1 DEF Claims, ClaimsRow, OthersSame, Key
<1> QED
  BY <1>1 DEF ClaimsKept

LEMMA ClaimsPublish ==
    ASSUME TablesInv, [Next]_vars, faults' = 0
    PROVE  ClaimsKept
<1> USE DEF packageVars, versionVars
<1>1. TypeOK /\ TypeOK'
  BY TablesStep DEF TablesInv
<1>2. ASSUME NEW r \in Requests,
             \/ Receive(r) \/ CheckOwner(r) \/ CheckQuota(r) \/ CheckDuplicate(r)
             \/ SaveBlob(r) \/ Scan(r)
      PROVE  ClaimsKept
  <2>1. /\ UNCHANGED dbVars
        /\ pc[r] \notin BeforeInsert \cup AfterInsert
    BY <1>2 DEF Receive, CheckOwner, CheckQuota, CheckDuplicate, SaveBlob, Scan,
                BeforeInsert, AfterInsert
  <2>2. OthersSame(r)
    BY <1>1, <1>2, Others DEF TypeOK, Receive, CheckOwner, CheckQuota, CheckDuplicate,
                              SaveBlob, Scan, OthersSame
  <2> QED
    BY <2>1, <2>2, ClaimsOf DEF dbVars, HasRow, Claims, ClaimsRow, BeforeInsert
<1>3. ASSUME NEW r \in Requests, Upsert(r)
      PROVE  ClaimsKept
  <2>1. /\ OthersSame(r) /\ pc[r] = "upsert" /\ pc'[r] = "resolve_id"
        /\ \A k \in Keys \ {Key(r)} : pkgId'[k] = pkgId[k]
    BY <1>1, <1>3, TablesUpsert
  <2>2. req' = req /\ UNCHANGED <<status, owners>>
    BY <1>3 DEF Upsert, Goto
  <2>3. Claims(Key(r), r)'
    BY <2>1, <2>2 DEF Claims, Key
  <2>4. \A k \in Keys : pkgId[k] = 0 /\ pkgId'[k] # 0 => Claims(k, r)'
    BY <2>1, <2>2, <2>3 DEF Claims, Key
  <2>5. \A k \in Keys : ~Claims(k, r) /\ ~ClaimsRow(k, r)
    BY <2>1 DEF Claims, ClaimsRow, AfterInsert
  <2> QED
    BY <2>1, <2>2, <2>4, <2>5, ClaimsOf DEF HasRow
<1>4. ASSUME NEW r \in Requests, ResolveId(r)
      PROVE  ClaimsKept
  <2>1. /\ OthersSame(r) /\ pc[r] = "resolve_id" /\ pc'[r] = "insert_version"
        /\ UNCHANGED <<req, dbVars>>
    <3>1. pkgId[Key(r)] # 0
      BY <1>4 DEF TablesInv, Resolved, ResolveId
    <3> QED
      BY <1>1, <1>4, <3>1, TablesResolve DEF ResolveId
  <2>2. \A k \in Keys : /\ Claims(k, r) => Claims(k, r)'
                        /\ ~ClaimsRow(k, r)
    BY <2>1 DEF Claims, ClaimsRow, AfterInsert, Key
  <2> QED
    BY <2>1, <2>2, ClaimsOf DEF HasRow, dbVars
<1>5. ASSUME NEW r \in Requests, InsertVersion(r)
      PROVE  ClaimsKept
  <2>1. /\ pc[r] = "insert_version" /\ UNCHANGED <<packageVars, owners>>
        /\ OthersSame(r)
        /\ Key(r) \in Keys /\ req[r].vers \in Versions
        /\ \/ /\ status[Key(r)][req[r].vers] # "none"
              /\ UNCHANGED versionVars
           \/ /\ InsertRow(r, Key(r))
              /\ UNCHANGED req /\ pc'[r] = "read_latest"
    BY <1>5, InsertCases
  <2>2. \A k \in Keys : ~ClaimsRow(k, r) /\ (Claims(k, r) => k = Key(r))
    BY <2>1 DEF Claims, ClaimsRow, AfterInsert
  <2>3. CASE status[Key(r)][req[r].vers] # "none" /\ UNCHANGED versionVars
    <3>1. \A k \in Keys : Claims(k, r) => \E v \in Versions : HasRow(k, v)
      BY <2>1, <2>2, <2>3 DEF HasRow
    <3> QED
      BY <2>1, <2>2, <2>3, <3>1, ClaimsOf DEF HasRow
  <2>4. CASE InsertRow(r, Key(r)) /\ UNCHANGED req /\ pc'[r] = "read_latest"
    <3>1. Claims(Key(r), r)' /\ ClaimsRow(Key(r), r)'
      BY <2>4 DEF Claims, ClaimsRow, AfterInsert, Key
    <3>2. \A k \in Keys \ {Key(r)}, v \in Versions : HasRow(k, v)' => HasRow(k, v)
      BY <1>1, <2>4 DEF InsertRow, HasRow, TypeOK
    <3>3. \A k \in Keys : k = Key(r) => Claims(k, r)' /\ ClaimsRow(k, r)'
      BY <2>4 DEF Claims, ClaimsRow, AfterInsert, Key
    <3> QED
      BY <2>1, <2>2, <3>2, <3>3, ClaimsOf
  <2> QED
    BY <2>1, <2>3, <2>4
<1>6. ASSUME NEW r \in Requests,
             ReadLatest(r) \/ SetLatest(r) \/ CountOwners(r) \/ GrantOwner(r)
      PROVE  ClaimsKept
  <2>1. /\ pc[r] \in AfterInsert
        /\ UNCHANGED <<pkgId, versionVars>>
        /\ OthersSame(r)
    BY <1>6, FinishingCases
  <2>2. HasId(Key(r), r) /\ \A k \in Keys : HasId(k, r) => k = Key(r)
    BY <2>1, OwnRow
  <2>3. Key(r) \in Keys
    BY <2>1, OwnRow
  <2>4. (UNCHANGED req /\ pc'[r] \in AfterInsert) \/ owners'[Key(r)] # {}
    <3>1. CASE ReadLatest(r) \/ SetLatest(r)
      BY <1>1, <3>1 DEF ReadLatest, SetLatest, Goto, AfterInsert, TypeOK
    <3>2. CASE CountOwners(r)
      <4>1. CASE Goto(r, "grant_owner")
        BY <1>1, <4>1 DEF Goto, AfterInsert, TypeOK
      <4>2. CASE \E k \in Keys : HasId(k, r) /\ owners[k] # {}
        BY <2>2, <3>2, <4>2 DEF CountOwners, dbVars
      <4> QED
        BY <3>2, <4>1, <4>2 DEF CountOwners
    <3>3. CASE GrantOwner(r)
      <4>1. PICK k \in Keys : /\ HasId(k, r)
                              /\ owners' = [owners EXCEPT ![k] = @ \cup {req[r].user}]
        BY <2>2, <2>3, <3>3 DEF GrantOwner, IdGone
      <4> QED
        BY <1>1, <2>2, <4>1 DEF TypeOK
    <3> QED
      BY <1>6, <3>1, <3>2, <3>3
  <2>5. \A k \in Keys : owners'[k] = {} =>
           /\ ClaimsRow(k, r) => ClaimsRow(k, r)'
           /\ Claims(k, r) => Claims(k, r)'
    BY <2>4 DEF Claims, ClaimsRow, Key
  <2> QED
    BY <2>1, <2>5, ClaimsOf DEF HasRow
<1>7. ASSUME NEW r \in Requests, Settle(r)
      PROVE  ClaimsKept
  <2>1. /\ OthersSame(r) /\ pc[r] = "verifying" /\ UNCHANGED <<packageVars, owners>>
        /\ \A k \in Keys, v \in Versions : HasRow(k, v)' <=> HasRow(k, v)
    BY <1>1, <1>7, TablesSettle
  <2>2. \A k \in Keys : ~Claims(k, r) /\ ~ClaimsRow(k, r)
    BY <2>1 DEF Claims, ClaimsRow, AfterInsert
  <2> QED
    BY <2>1, <2>2, ClaimsOf
<1>8. ASSUME (\E r \in Requests : Abort(r)) \/ Restart
      PROVE  FALSE
  BY <1>1, <1>8 DEF Abort, Restart, TypeOK
<1>9. CASE UNCHANGED vars
  BY <1>9 DEF vars, dbVars, ClaimsKept, Claims, ClaimsRow, HasRow, Key
<1> QED
  BY <1>2, <1>3, <1>4, <1>5, <1>6, <1>7, <1>8, <1>9 DEF Next, HandlerStep

LEMMA ClaimsRegistry ==
    ASSUME StoreInv, TablesInv, [RegistryNext]_allVars, deletes' = 0, faults' = 0
    PROVE  faults = 0 /\ ClaimsKept
<1>1. faults \in Nat
  BY BoundsAssumption DEF TablesInv, TypeOK
<1>2. CASE [Next]_vars
  <2>1. faults = 0
    <3>1. CASE UNCHANGED faults
      BY <3>1
    <3>2. CASE faults' = faults + 1
      BY <1>1, <3>2
    <3> QED
      BY <1>2, <3>1, <3>2
      DEF Next, HandlerStep, Receive, CheckOwner, CheckQuota, CheckDuplicate, SaveBlob, Scan,
          Upsert, ResolveId, InsertVersion, ReadLatest, SetLatest, CountOwners, GrantOwner,
          Settle, Abort, Restart, vars
  <2> QED
    BY <1>2, <2>1, ClaimsPublish
<1>3. CASE UNCHANGED <<dbVars, pc, req, pid>> /\ faults' \in {faults, faults + 1}
  <2>1. faults = 0
    BY <1>1, <1>3
  <2>2. ClaimsKept
    BY <1>3 DEF dbVars, packageVars, versionVars, ClaimsKept, Claims, ClaimsRow, HasRow, Key
  <2> QED
    BY <2>1, <2>2
<1> QED
  BY <1>2, <1>3, BetweenImports

\* What keeps a package from staying without an owner, in the terms of Claims.
LEMMA ClaimsMeaning ==
    /\ OwnerlessHasHeir <=>
          (faults = 0 /\ deletes = 0 =>
              \A k \in Keys : pkgId[k] # 0 /\ owners[k] = {} =>
                  ImportWillOwn(k) \/ \E r \in Requests : Claims(k, r))
    /\ RowHasHeirOrImport <=>
          \A k \in Keys, v \in Versions :
              HasRow(k, v) /\ owners[k] = {} /\ faults = 0 =>
                  \/ \E r \in Requests : ClaimsRow(k, r)
                  \/ Importing("owners") /\ \E x \in imp.rows : x[1] = pkgId[k]
BY DEF OwnerlessHasHeir, RowHasHeirOrImport, Claims, ClaimsRow, BeforeInsert

\* A publish handler that gives up before the owners has found a version of somebody who
\* has not, or of the import's chunk.
LEMMA HeirsBetween ==
    ASSUME ImportTypeOK, StoreInv, TablesInv, RowHasHeirOrImport, OwnerlessHasHeir,
           deletes = 0, [RegistryNext]_allVars, UNCHANGED importVars, deletes' = 0
    PROVE  RowHasHeirOrImport' /\ OwnerlessHasHeir'
<1>1. CASE faults' # 0
  BY <1>1 DEF RowHasHeirOrImport, OwnerlessHasHeir
<1>2. CASE faults' = 0
  <2>1. faults = 0 /\ ClaimsKept
    BY <1>2, ClaimsRegistry
  <2>2. Grown
    BY RegistryGrows
  <2>3. imp' = imp /\ \A pass : Importing(pass)' <=> Importing(pass)
    BY DEF importVars, Importing
  <2>4. ASSUME NEW k \in Keys, NEW v \in Versions, HasRow(k, v), owners'[k] = {}
        PROVE  \/ \E r \in Requests : ClaimsRow(k, r)'
               \/ Importing("owners") /\ \E x \in imp.rows : x[1] = pkgId'[k]
    <3>1. owners[k] = {} /\ pkgId[k] # 0
      BY <2>2, <2>4 DEF Grown, StoreInv, NothingWithoutPackage
    <3>2. pkgId'[k] = pkgId[k]
      BY <2>2, <3>1 DEF Grown
    <3>3. \/ \E r \in Requests : ClaimsRow(k, r)
          \/ Importing("owners") /\ \E x \in imp.rows : x[1] = pkgId[k]
      BY <2>1, <2>4, <3>1, ClaimsMeaning
    <3>4. \A r \in Requests : ClaimsRow(k, r) => ClaimsRow(k, r)'
      BY <2>1, <2>4 DEF ClaimsKept
    <3> QED
      BY <3>2, <3>3, <3>4
  <2>5. RowHasHeirOrImport'
    <3>1. ASSUME NEW k \in Keys, NEW v \in Versions, HasRow(k, v)', owners'[k] = {}
          PROVE  \/ \E r \in Requests : ClaimsRow(k, r)'
                 \/ Importing("owners") /\ \E x \in imp.rows : x[1] = pkgId'[k]
      BY <2>1, <2>4, <3>1 DEF ClaimsKept
    <3> QED
      BY <2>3, <3>1 DEF RowHasHeirOrImport, ClaimsRow
  <2>6. ASSUME NEW k \in Keys, pkgId'[k] # 0, owners'[k] = {}
        PROVE  ImportWillOwn(k)' \/ \E r \in Requests : Claims(k, r)'
    <3>1. CASE pkgId[k] = 0
      BY <2>1, <2>6, <3>1 DEF ClaimsKept
    <3>2. CASE pkgId[k] # 0
      <4>1. owners[k] = {} /\ pkgId'[k] = pkgId[k]
        BY <2>2, <2>6, <3>2 DEF Grown
      <4>2. ImportWillOwn(k) => ImportWillOwn(k)'
        BY <2>3, <4>1 DEF ImportWillOwn
      <4>3. CASE \E r \in Requests : Claims(k, r)
        <5>1. CASE \E v \in Versions : HasRow(k, v)
          <6>1. \/ \E r \in Requests : ClaimsRow(k, r)'
                \/ Importing("owners") /\ \E x \in imp.rows : x[1] = pkgId'[k]
            BY <2>4, <2>6, <5>1
          <6>2. (Importing("owners") /\ \E x \in imp.rows : x[1] = pkgId'[k])
                   => ImportWillOwn(k)'
            BY <2>3 DEF ImportWillOwn
          <6>3. \A r \in Requests : ClaimsRow(k, r)' => Claims(k, r)'
            BY DEF ClaimsRow, Claims
          <6> QED
            BY <6>1, <6>2, <6>3
        <5>2. CASE ~\E v \in Versions : HasRow(k, v)
          BY <2>1, <2>6, <4>3, <5>2 DEF ClaimsKept
        <5> QED
          BY <5>1, <5>2
      <4>4. ImportWillOwn(k) \/ \E r \in Requests : Claims(k, r)
        BY <2>1, <3>2, <4>1, ClaimsMeaning
      <4> QED
        BY <4>2, <4>3, <4>4
    <3> QED
      BY <3>1, <3>2
  <2>7. OwnerlessHasHeir'
    BY <2>6 DEF OwnerlessHasHeir, Claims
  <2> QED
    BY <2>5, <2>7
<1> QED
  BY <1>1, <1>2

\* The import goes on to the owners of what it has inserted, and to all it found.
LEMMA HeirsImport ==
    ASSUME ImportTypeOK, StoreInv, NamesFit, ChunksFit, UpdatesFit, RowHasHeirOrImport,
           OwnerlessHasHeir, deletes = 0, ImportStep
    PROVE  RowHasHeirOrImport' /\ OwnerlessHasHeir'
<1>1. CASE InterruptImport
  <2>1. faults' # 0
    BY <1>1 DEF InterruptImport, ImportTypeOK, RegistryTypeOK, TypeOK
  <2> QED
    BY <2>1 DEF RowHasHeirOrImport, OwnerlessHasHeir
<1>2. CASE ~InterruptImport
  <2>1. UNCHANGED faults
    BY <1>2 DEF ImportStep, StartImport, UpsertStub, ResolveStub, InsertVersions,
                InsertOwners, UpdateLatest, allVars, vars
  <2>2. Grown /\ UNCHANGED <<pc, req>>
    BY ImportGrows
  <2>3. \A k \in Keys, r \in Requests : /\ Claims(k, r)' <=> Claims(k, r)
                                        /\ ClaimsRow(k, r)' <=> ClaimsRow(k, r)
    BY <2>2 DEF Claims, ClaimsRow, Key
  \* What the import inserted, or was to own.
  <2>4. /\ \A k \in Keys, v \in Versions : HasRow(k, v)' /\ owners'[k] = {} =>
              \/ HasRow(k, v) /\ ~(Importing("owners") /\ \E x \in imp.rows : x[1] = pkgId[k])
              \/ Importing("owners")' /\ \E x \in imp'.rows : x[1] = pkgId'[k]
        /\ \A k \in Keys : pkgId'[k] # 0 /\ owners'[k] = {} =>
              ImportWillOwn(k)' \/ (pkgId[k] # 0 /\ ~ImportWillOwn(k))
    <3>1. CASE StartImport
      <4>1. UNCHANGED <<pkgId, status, owners>> /\ imp = NULL
        BY <3>1 DEF StartImport, allVars, vars, dbVars, packageVars, versionVars
      <4> QED
        BY <4>1 DEF HasRow, Importing, ImportWillOwn
    <3>2. CASE UpsertStub
      <4>1. PICK s \in imp.todo :
              LET todo == {t \in imp.todo : StubKey(t) # StubKey(s)} IN
              /\ s \in Stubs
              /\ imp' = IF todo # {} THEN [imp EXCEPT !.todo = todo]
                        ELSE [imp EXCEPT !.pass = "resolve", !.todo = Stubs]
              /\ \A k \in Keys : k # StubKey(s) \/ pkgId[k] # 0 => pkgId'[k] = pkgId[k]
        BY <3>2, UpsertShape
      <4>2. imp # NULL /\ imp.pass = "upsert" /\ UNCHANGED <<status, owners>>
        BY <3>2, UpsertShape DEF versionVars
      <4>3. imp \in [pass : {"upsert", "resolve"}, todo : SUBSET Stubs,
                     ids : [StubKeys -> 0..MaxId]]
        BY <4>2, ImpFields
      <4> DEFINE todo == {t \in imp.todo : StubKey(t) # StubKey(s)}
      <4>4. \/ imp' = [imp EXCEPT !.todo = todo]
            \/ imp' = [imp EXCEPT !.pass = "resolve", !.todo = Stubs]
        BY <4>1
      <4>5. imp' # NULL /\ imp'.pass \in {"upsert", "resolve"} /\ imp'.ids = imp.ids
        <5>1. todo \in SUBSET Stubs
          BY <4>3
        <5> HIDE DEF todo
        <5>2. imp' \in [pass : {"upsert", "resolve"}, todo : SUBSET Stubs,
                        ids : [StubKeys -> 0..MaxId]]
          BY <4>3, <4>4, <5>1
        <5>3. imp'.ids = imp.ids
          BY <4>3, <4>4
        <5> QED
          BY <5>2, <5>3, NullIsNoPass DEF Passes
      <4>6. ASSUME NEW k \in StubKeys PROVE ImportWillOwn(k)'
        <5>1. imp.ids[k] = 0
          BY <4>2 DEF NamesFit, Importing, StubKeys
        <5> QED
          BY <4>5, <5>1 DEF ImportWillOwn, Importing
      <4>7. ASSUME NEW k \in Keys, k \notin StubKeys
            PROVE  pkgId'[k] = pkgId[k] /\ ~ImportWillOwn(k)
        <5>1. k # StubKey(s)
          BY <4>1, <4>7, StubFields
        <5> QED
          BY <4>1, <4>2, <4>7, <5>1 DEF ImportWillOwn, Importing
      <4> QED
        BY <4>2, <4>6, <4>7 DEF HasRow, Importing
    <3>3. CASE ResolveStub
      <4>1. /\ imp # NULL /\ imp.pass = "resolve"
            /\ UNCHANGED <<pkgId, status, owners>>
        BY <3>3 DEF ResolveStub, Importing, allVars, vars, dbVars, packageVars, versionVars
      <4>2. NamesFit' /\ ChunksFit'
        BY <3>3, FitsResolve
      <4>3. Importing("resolve")' \/ Importing("versions")'
        BY <3>3, FitsResolve
      <4>4. ASSUME NEW s \in Stubs, owners'[StubKey(s)] = {}
            PROVE  ImportWillOwn(StubKey(s))'
        <5>1. CASE Importing("resolve")'
          BY <4>2, <5>1, StubFields DEF NamesFit, ImportWillOwn, StubKey
        <5>2. CASE Importing("versions")'
          <6>1. ~Imported(s)'
            BY <4>4 DEF Imported, StubKey
          <6>2. StubRow(s)' \in imp'.todo \cup imp'.rows
            BY <4>2, <5>2, <6>1 DEF ChunksFit
          <6>3. StubRow(s)'[1] = pkgId'[StubKey(s)]
            BY DEF StubRow, StubKey
          <6> QED
            BY <5>2, <6>2, <6>3 DEF ImportWillOwn, StubKey
        <5> QED
          BY <4>3, <5>1, <5>2
      <4>5. ASSUME NEW k \in Keys, k \notin StubKeys PROVE ~ImportWillOwn(k)
        BY <4>1, <4>5 DEF ImportWillOwn, Importing
      <4> QED
        BY <4>1, <4>4, <4>5 DEF HasRow, Importing, StubKeys
    <3>4. CASE InsertVersions
      <4>1. /\ imp # NULL /\ imp.pass = "versions" /\ imp.rows = {}
            /\ UNCHANGED <<pkgId, owners>>
            /\ \/ \E rows \in SUBSET imp.todo :
                     /\ InsertStubs(rows)
                     /\ Importing("owners")'
                     /\ imp'.rows = rows /\ imp'.todo = imp.todo \ rows
               \/ UNCHANGED status /\ imp.todo = {}
        BY <3>4, FitsVersions DEF StoreInv
      <4>2. ASSUME NEW rows \in SUBSET imp.todo, InsertStubs(rows), Importing("owners")',
                   imp'.rows = rows, imp'.todo = imp.todo \ rows
            PROVE  /\ \A k \in Keys, v \in Versions : HasRow(k, v)' =>
                         \/ HasRow(k, v)
                         \/ \E x \in imp'.rows : x[1] = pkgId'[k]
                   /\ \A k \in Keys : ImportWillOwn(k) => ImportWillOwn(k)'
        <5>1. \A k \in Keys, v \in Versions : HasRow(k, v)' =>
                 HasRow(k, v) \/ <<pkgId[k], v>> \in rows
          BY <4>2 DEF InsertStubs, HasRow
        <5>2. imp'.todo \cup imp'.rows = imp.todo \cup imp.rows
          BY <4>1, <4>2
        <5> QED
          BY <4>1, <4>2, <5>1, <5>2 DEF ImportWillOwn, Importing
      <4>3. CASE UNCHANGED status /\ imp.todo = {}
        BY <4>1, <4>3 DEF HasRow, ImportWillOwn, Importing
      <4> QED
        BY <4>1, <4>2, <4>3 DEF Importing
    <3>5. CASE InsertOwners
      <4>1. /\ imp # NULL /\ imp.pass = "owners"
            /\ UNCHANGED <<pkgId, status>>
            /\ Importing("versions")'
            /\ imp'.todo = imp.todo /\ imp'.rows = {}
            /\ \A k \in Keys :
                  (\E x \in imp.rows : x[1] = pkgId[k]) => Importer \in owners'[k]
        BY <3>5, FitsOwners
      <4> QED
        BY <4>1 DEF HasRow, ImportWillOwn, Importing
    <3>6. CASE UpdateLatest
      <4>1. imp # NULL /\ imp.pass = "update" /\ UNCHANGED <<pkgId, status, owners>>
        BY <3>6, FitsUpdate
      <4> QED
        BY <4>1 DEF HasRow, ImportWillOwn, Importing
    <3> QED
      BY <1>2, <3>1, <3>2, <3>3, <3>4, <3>5, <3>6 DEF ImportStep
  <2>5. \A k \in Keys : owners'[k] = {} => owners[k] = {}
    BY <2>2 DEF Grown
  <2>6. RowHasHeirOrImport'
    <3>1. ASSUME NEW k \in Keys, NEW v \in Versions,
                 HasRow(k, v)', owners'[k] = {}, faults' = 0
          PROVE  \/ \E r \in Requests : ClaimsRow(k, r)'
                 \/ Importing("owners")' /\ \E x \in imp'.rows : x[1] = pkgId'[k]
      BY <2>1, <2>3, <2>4, <2>5, <3>1, ClaimsMeaning
    <3> QED
      BY <3>1 DEF RowHasHeirOrImport, ClaimsRow
  <2>7. OwnerlessHasHeir'
    <3>1. ASSUME NEW k \in Keys, pkgId'[k] # 0, owners'[k] = {}, faults' = 0
          PROVE  ImportWillOwn(k)' \/ \E r \in Requests : Claims(k, r)'
      BY <2>1, <2>3, <2>4, <2>5, <3>1, ClaimsMeaning
    <3> QED
      BY <3>1 DEF OwnerlessHasHeir, Claims
  <2> QED
    BY <2>6, <2>7
<1> QED
  BY <1>1, <1>2

-----------------------------------------------------------------------------
(* The import: the inductive invariant.                                    *)

LEMMA ImportInvInit == ImportInit => ImportInv
<1> SUFFICES ASSUME ImportInit PROVE ImportInv
  OBVIOUS
<1>1. StoreInv
  BY StoreInvInit DEF ImportInit
<1>2. TablesInv
  BY InvInit DEF ImportInit, RegistryInit, Inv
<1>3. ImportTypeOK
  <2>1. imp = NULL /\ imports = 0 /\ done = FALSE
    BY DEF ImportInit
  <2>2. imports \in 0..MaxImports
    <3>1. MaxImports \in Nat
      BY ImportAssumption
    <3> QED
      BY <2>1, <3>1
  <2>3. done \in BOOLEAN
    BY <2>1
  <2> QED
    BY <1>1, <2>1, <2>2, <2>3 DEF StoreInv, ImportTypeOK
<1>4. NamesFit /\ ChunksFit /\ UpdatesFit
  BY DEF ImportInit, NamesFit, ChunksFit, UpdatesFit, Importing
<1>5. RowHasHeirOrImport /\ OwnerlessHasHeir /\ ImportIsComplete
  BY DEF ImportInit, RegistryInit, Init, RowHasHeirOrImport, OwnerlessHasHeir,
         ImportIsComplete, HasRow
<1> QED
  BY <1>1, <1>2, <1>3, <1>4, <1>5 DEF ImportInv, StoreInv

LEMMA ImportInvStep == ImportInv /\ [ImportNext]_everything => ImportInv'
<1> SUFFICES ASSUME ImportInv, [ImportNext]_everything PROVE ImportInv'
  OBVIOUS
<1> USE DEF ImportInv
<1>1. StoreInv
  BY DEF StoreInv, ImportTypeOK
<1>2. CASE ImportStep
  <2>1. ImportTypeOK' /\ StoreInv'
    BY <1>1, <1>2, ImportStepType, ImportStore
  <2>2. UNCHANGED deletes
    BY <1>2, ImportGrows DEF storeVars, shelves
  <2>3. CASE deletes # 0
    <3>1. ImportIsComplete' /\ OwnerlessHasHeir'
      BY <2>2, <2>3 DEF ImportIsComplete, OwnerlessHasHeir
    <3> QED
      BY <2>1, <2>2, <2>3, <3>1 DEF StoreInv
  <2>4. CASE deletes = 0
    <3>1. TablesInv'
      BY <1>2, <2>4, ImportTables
    <3>2. NamesFit' /\ ChunksFit' /\ UpdatesFit' /\ ImportIsComplete'
      BY <1>2, <2>4, FitsImport
    <3>3. RowHasHeirOrImport' /\ OwnerlessHasHeir'
      BY <1>1, <1>2, <2>4, HeirsImport
    <3> QED
      BY <2>1, <3>1, <3>2, <3>3 DEF StoreInv
  <2> QED
    BY <2>3, <2>4
<1>3. CASE [RegistryNext]_allVars /\ UNCHANGED importVars
  <2>1. StoreInv'
    BY <1>1, <1>3, StoreInvStep
  <2>2. ImportTypeOK'
    BY <1>3, <2>1 DEF ImportTypeOK, StoreInv, importVars
  <2>3. deletes' = 0 => deletes = 0
    BY <1>3, DeletesGrow DEF ImportTypeOK
  <2>4. CASE deletes' # 0
    <3>1. ImportIsComplete' /\ OwnerlessHasHeir'
      BY <2>4 DEF ImportIsComplete, OwnerlessHasHeir
    <3> QED
      BY <2>1, <2>2, <2>4, <3>1 DEF StoreInv
  <2>5. CASE deletes' = 0
    <3>1. TablesInv'
      BY <1>1, <1>3, <2>3, <2>5, TablesUndeleted
    <3>2. Grown
      BY <1>1, <1>3, <2>3, <2>5, RegistryGrows
    <3>3. NamesFit' /\ ChunksFit' /\ UpdatesFit'
      BY <1>3, <2>3, <2>5, <3>2, FitsStay DEF importVars
    <3>4. ImportIsComplete'
      BY <1>3, <2>3, <3>2, CompleteStays DEF importVars
    <3>5. RowHasHeirOrImport' /\ OwnerlessHasHeir'
      BY <1>1, <1>3, <2>3, <2>5, HeirsBetween
    <3> QED
      BY <2>1, <2>2, <3>1, <3>3, <3>4, <3>5 DEF StoreInv
  <2> QED
    BY <2>4, <2>5
<1> QED
  BY <1>2, <1>3 DEF ImportNext, everything

\* The command's state keeps its type, whatever the server does meanwhile.
THEOREM ImportTypes == ImportSpec => []ImportTypeOK
<1>1. ImportInv => ImportTypeOK
  BY DEF ImportInv
<1> QED
  BY <1>1, ImportInvInit, ImportInvStep, PTL DEF ImportSpec

\* An import that reached its end left every stub a version and its package the importer.
THEOREM ImportsAreComplete == ImportSpec => []ImportIsComplete
<1>1. ImportInv => ImportIsComplete
  BY DEF ImportInv
<1> QED
  BY <1>1, ImportInvInit, ImportInvStep, PTL DEF ImportSpec

\* Import and publish handlers, between them, leave no package without an owner.
THEOREM OwnerlessHaveHeirs == ImportSpec => []OwnerlessHasHeir
<1>1. ImportInv => OwnerlessHasHeir
  BY DEF ImportInv
<1> QED
  BY <1>1, ImportInvInit, ImportInvStep, PTL DEF ImportSpec

\* latest_version never names a version that is not there, so that nothing with a live
\* version is missed by search, nor shadowed by a package of the mirror's upstream.
LEMMA TablesFindPackages ==
    ASSUME deletes = 0 => TablesInv
    PROVE  SearchFindsPackages
<1> SUFFICES ASSUME TablesInv, \A k \in Keys : Rows(k) = Live(k)
             PROVE  \A channels \in SUBSET Channels :
                       LET answer == Search(channels, Spellings) IN
                       \A k \in Keys : k[2] \in channels /\ Rows(k) # {} =>
                           /\ k \in answer.local
                           /\ \A s \in answer.upstream : Lower[s] # k[1]
  BY DEF SearchFindsPackages
<1>1. ASSUME NEW k \in Keys, Rows(k) # {} PROVE Found(k)
  <2>1. Live(k) # {}
    BY <1>1
  <2>2. latest[k] # NULL => latest[k] \in Live(k)
    BY DEF TablesInv, TypeOK, LatestHasRow, Rows
  <2> QED
    BY <2>1, <2>2 DEF Found, SearchVersions, LatestOr
<1> QED
  BY <1>1 DEF Search

THEOREM SearchFindsAll == ImportSpec => []SearchFindsPackages
<1>1. ImportInv => SearchFindsPackages
  BY TablesFindPackages DEF ImportInv
<1> QED
  BY <1>1, ImportInvInit, ImportInvStep, PTL DEF ImportSpec

-----------------------------------------------------------------------------
(* The order of versions, for any segments.                                *)

\* Versions compare by their first difference; there is one if there is any.
LEMMA FirstOf ==
    ASSUME NEW S \in SUBSET Nat, S # {}
    PROVE  \E i \in S : \A j \in S : i <= j
<1> DEFINE less == OpToRel(<, Nat)
<1>1. IsWellFoundedOn(less, Nat)
  BY NatLessThanWellFounded
<1>2. less = {ss \in Nat \X Nat : ss[1] < ss[2]}
  BY DEF OpToRel
<1> HIDE DEF less
<1>3. PICK i \in S : \A j \in S : <<j, i>> \notin less
  BY <1>1, WFMin
<1>4. \A j \in S : ~(j < i)
  BY <1>2, <1>3
<1> QED
  BY <1>4

\* What cmp_version does: at the first difference, or by length.
LEMMA FirstDifference ==
    ASSUME NEW v \in VersionStrings, NEW w \in VersionStrings
    PROVE  \/ /\ \A i \in DOMAIN v \cap DOMAIN w : CmpSegment(v[i], w[i]) = 0
              /\ CmpVersion(v, w) = Compare(Len(v), Len(w))
           \/ \E i \in DOMAIN v \cap DOMAIN w :
                 /\ CmpSegment(v[i], w[i]) # 0
                 /\ \A j \in 1..(i - 1) : CmpSegment(v[j], w[j]) = 0
                 /\ CmpVersion(v, w) = CmpSegment(v[i], w[i])
<1> DEFINE D == Differences(v, w)
<1>1. DOMAIN v = 1..Len(v) /\ DOMAIN w = 1..Len(w) /\ Len(v) \in Nat /\ Len(w) \in Nat
  BY DEF VersionStrings
<1>2. D \in SUBSET Nat
  BY <1>1 DEF Differences
<1>3. CASE D = {}
  BY <1>3 DEF CmpVersion, Differences
<1>4. CASE D # {}
  <2> DEFINE i == CHOOSE i \in D : \A j \in D : i <= j
  <2>1. i \in D /\ \A j \in D : i <= j
    BY <1>2, <1>4, FirstOf
  <2>2. CmpVersion(v, w) = CmpSegment(v[i], w[i])
    BY <1>4 DEF CmpVersion
  <2> HIDE DEF i
  <2>3. i \in DOMAIN v \cap DOMAIN w /\ CmpSegment(v[i], w[i]) # 0
    BY <2>1 DEF Differences
  <2>4. ASSUME NEW j \in 1..(i - 1) PROVE CmpSegment(v[j], w[j]) = 0
    <3>1. j \in DOMAIN v \cap DOMAIN w /\ ~(i <= j)
      BY <1>1, <2>3
    <3>2. j \notin D
      BY <2>1, <3>1
    <3> QED
      BY <3>1, <3>2 DEF Differences
  <2> QED
    BY <2>2, <2>3, <2>4
<1> QED
  BY <1>3, <1>4

LEMMA Mirrored ==
    ASSUME NEW s \in Segments, NEW t \in Segments
    PROVE  CmpSegment(s, t) \in {-1, 0, 1} /\ CmpSegment(t, s) = -CmpSegment(s, t)
<1>1. s.text \in Nat /\ t.text \in Nat
  BY SegmentsAssumption
<1>2. (IsNumber(s) => s.num \in Nat) /\ (IsNumber(t) => t.num \in Nat)
  BY SegmentsAssumption DEF IsNumber
<1> QED
  BY <1>1, <1>2 DEF CmpSegment, Compare

LEMMA CompareMirrored ==
    ASSUME NEW a \in Nat, NEW b \in Nat
    PROVE  Compare(a, b) \in {-1, 0, 1} /\ Compare(b, a) = -Compare(a, b)
BY DEF Compare

LEMMA CompareZero ==
    ASSUME NEW a \in Nat, NEW b \in Nat
    PROVE  Compare(a, b) = 0 <=> a = b
BY DEF Compare

\* Swapping the versions swaps the answer of cmp_version, so that no order of its
\* arguments lets two publishes each take their own version for the newer one; this
\* holds for all version strings, also where the comparison is no order.
THEOREM ComparisonIsAntisymmetric ==
    \A v, w \in VersionStrings :
        CmpVersion(v, w) \in {-1, 0, 1} /\ CmpVersion(w, v) = -CmpVersion(v, w)
<1> SUFFICES ASSUME NEW v \in VersionStrings, NEW w \in VersionStrings
             PROVE  CmpVersion(v, w) \in {-1, 0, 1} /\ CmpVersion(w, v) = -CmpVersion(v, w)
  OBVIOUS
<1>1. /\ DOMAIN v = 1..Len(v) /\ DOMAIN w = 1..Len(w) /\ Len(v) \in Nat /\ Len(w) \in Nat
      /\ \A i \in DOMAIN v : v[i] \in Segments
      /\ \A i \in DOMAIN w : w[i] \in Segments
  BY DEF VersionStrings
<1>2. \A i \in DOMAIN v \cap DOMAIN w :
         /\ CmpSegment(v[i], w[i]) \in {-1, 0, 1}
         /\ CmpSegment(w[i], v[i]) = -CmpSegment(v[i], w[i])
  BY <1>1, Mirrored
<1>3. CASE \A i \in DOMAIN v \cap DOMAIN w : CmpSegment(v[i], w[i]) = 0
  <2>1. \A i \in DOMAIN v \cap DOMAIN w : CmpSegment(w[i], v[i]) = 0
    BY <1>2, <1>3
  <2>2. CmpVersion(v, w) = Compare(Len(v), Len(w))
    BY <1>3, FirstDifference
  <2>3. CmpVersion(w, v) = Compare(Len(w), Len(v))
    BY <2>1, FirstDifference
  <2> QED
    BY <1>1, <2>2, <2>3, CompareMirrored
<1>4. CASE ~(\A i \in DOMAIN v \cap DOMAIN w : CmpSegment(v[i], w[i]) = 0)
  <2>1. PICK i \in DOMAIN v \cap DOMAIN w :
           /\ CmpSegment(v[i], w[i]) # 0
           /\ \A j \in 1..(i - 1) : CmpSegment(v[j], w[j]) = 0
           /\ CmpVersion(v, w) = CmpSegment(v[i], w[i])
    BY <1>4, FirstDifference
  <2>2. \E k \in DOMAIN w \cap DOMAIN v : CmpSegment(w[k], v[k]) # 0
    BY <1>2, <2>1
  <2>3. PICK k \in DOMAIN w \cap DOMAIN v :
           /\ CmpSegment(w[k], v[k]) # 0
           /\ \A j \in 1..(k - 1) : CmpSegment(w[j], v[j]) = 0
           /\ CmpVersion(w, v) = CmpSegment(w[k], v[k])
    BY <2>2, FirstDifference
  <2>4. i \in Nat \ {0} /\ k \in Nat \ {0}
    BY <1>1
  <2>5. ~(i < k)
    <3>1. i < k => CmpSegment(w[i], v[i]) = 0
      BY <2>3, <2>4
    <3>2. CmpSegment(w[i], v[i]) # 0
      BY <1>2, <2>1
    <3> QED
      BY <3>1, <3>2
  <2>6. ~(k < i)
    <3>1. k < i => CmpSegment(v[k], w[k]) = 0
      BY <2>1, <2>4
    <3>2. CmpSegment(v[k], w[k]) # 0
      BY <1>2, <2>3
    <3> QED
      BY <3>1, <3>2
  <2>7. i = k
    BY <2>4, <2>5, <2>6
  <2> QED
    BY <1>2, <2>1, <2>3, <2>7
<1> QED
  BY <1>3, <1>4

LEMMA NumbersCompare ==
    ASSUME NEW s \in Segments, NEW t \in Segments, NEW z \in Segments,
           IsNumber(s), IsNumber(t), IsNumber(z)
    PROVE  /\ CmpSegment(s, t) = 0 => CmpSegment(s, z) = CmpSegment(t, z)
           /\ CmpSegment(t, z) = 0 => CmpSegment(s, z) = CmpSegment(s, t)
           /\ CmpSegment(s, t) = -1 /\ CmpSegment(t, z) = -1 => CmpSegment(s, z) = -1
<1>1. s.num \in Nat /\ t.num \in Nat /\ z.num \in Nat
  BY SegmentsAssumption DEF IsNumber
<1> QED
  BY <1>1 DEF CmpSegment, Compare

\* At the first position where a version differs from the next, it is smaller.
LEMMA Smaller ==
    ASSUME NEW v \in Releases, NEW w \in Releases, CmpVersion(v, w) = -1
    PROVE  \/ /\ \A i \in 1..Len(v) : CmpSegment(v[i], w[i]) = 0
              /\ Len(v) < Len(w)
           \/ \E i \in 1..Len(v) :
                 /\ i <= Len(w) /\ CmpSegment(v[i], w[i]) = -1
                 /\ \A j \in 1..(i - 1) : CmpSegment(v[j], w[j]) = 0
<1>1. v \in VersionStrings /\ w \in VersionStrings
  BY DEF Releases
<1>2. DOMAIN v = 1..Len(v) /\ DOMAIN w = 1..Len(w) /\ Len(v) \in Nat /\ Len(w) \in Nat
  BY <1>1 DEF VersionStrings
<1>3. CASE /\ \A i \in DOMAIN v \cap DOMAIN w : CmpSegment(v[i], w[i]) = 0
           /\ CmpVersion(v, w) = Compare(Len(v), Len(w))
  <2>1. Len(v) < Len(w)
    BY <1>2, <1>3 DEF Compare
  <2>2. \A i \in 1..Len(v) : i \in DOMAIN v \cap DOMAIN w
    BY <1>2, <2>1
  <2> QED
    BY <1>3, <2>1, <2>2
<1>4. ASSUME NEW i \in DOMAIN v \cap DOMAIN w,
             \A j \in 1..(i - 1) : CmpSegment(v[j], w[j]) = 0,
             CmpVersion(v, w) = CmpSegment(v[i], w[i])
      PROVE  \E k \in 1..Len(v) :
                 /\ k <= Len(w) /\ CmpSegment(v[k], w[k]) = -1
                 /\ \A j \in 1..(k - 1) : CmpSegment(v[j], w[j]) = 0
  <2>1. i \in 1..Len(v) /\ i <= Len(w) /\ CmpSegment(v[i], w[i]) = -1
    BY <1>2, <1>4
  <2> QED
    BY <1>4, <2>1
<1> QED
  BY <1>1, <1>3, <1>4, FirstDifference

\* The converse of the same.
LEMMA SmallerWhen ==
    ASSUME NEW v \in Releases, NEW w \in Releases, NEW n \in Nat
    PROVE  /\ \A j \in 1..n : CmpSegment(v[j], w[j]) = 0
           /\ \/ n = Len(v) /\ n < Len(w)
              \/ n < Len(v) /\ n < Len(w) /\ CmpSegment(v[n + 1], w[n + 1]) = -1
           => CmpVersion(v, w) = -1
<1>1. v \in VersionStrings /\ w \in VersionStrings
  BY DEF Releases
<1>2. DOMAIN v = 1..Len(v) /\ DOMAIN w = 1..Len(w) /\ Len(v) \in Nat /\ Len(w) \in Nat
  BY <1>1 DEF VersionStrings
<1> SUFFICES ASSUME \A j \in 1..n : CmpSegment(v[j], w[j]) = 0
             PROVE  \/ n = Len(v) /\ n < Len(w)
                    \/ n < Len(v) /\ n < Len(w) /\ CmpSegment(v[n + 1], w[n + 1]) = -1
                    => CmpVersion(v, w) = -1
  OBVIOUS
<1>3. CASE /\ \A i \in DOMAIN v \cap DOMAIN w : CmpSegment(v[i], w[i]) = 0
           /\ CmpVersion(v, w) = Compare(Len(v), Len(w))
  <2>1. n < Len(v) /\ n < Len(w) => n + 1 \in DOMAIN v \cap DOMAIN w
    BY <1>2
  <2>2. ~(n < Len(v) /\ n < Len(w) /\ CmpSegment(v[n + 1], w[n + 1]) = -1)
    BY <1>3, <2>1
  <2>3. Len(v) < Len(w) => CmpVersion(v, w) = -1
    BY <1>3 DEF Compare
  <2> QED
    BY <2>2, <2>3
<1>4. ASSUME NEW i \in DOMAIN v \cap DOMAIN w, CmpSegment(v[i], w[i]) # 0,
             \A j \in 1..(i - 1) : CmpSegment(v[j], w[j]) = 0,
             CmpVersion(v, w) = CmpSegment(v[i], w[i]),
             \/ n = Len(v) /\ n < Len(w)
             \/ n < Len(v) /\ n < Len(w) /\ CmpSegment(v[n + 1], w[n + 1]) = -1
      PROVE  CmpVersion(v, w) = -1
  <2>1. i \in 1..Len(v) /\ i \in 1..Len(w)
    BY <1>2
  <2>2. i \in Nat \ {0} /\ i <= Len(v) /\ i <= Len(w)
    BY <1>2, <2>1
  <2>3. i > n
    <3>1. i <= n => i \in 1..n
      BY <2>2
    <3>2. i <= n => CmpSegment(v[i], w[i]) = 0
      BY <3>1
    <3> QED
      BY <1>4, <2>2, <3>2
  <2>4. n < Len(v)
    BY <1>2, <2>2, <2>3
  <2>5. n < Len(v) /\ n < Len(w) /\ CmpSegment(v[n + 1], w[n + 1]) = -1
    BY <1>2, <1>4, <2>4
  <2>6. ~(i > n + 1)
    <3>1. i > n + 1 => n + 1 \in 1..(i - 1)
      BY <2>2
    <3>2. i > n + 1 => CmpSegment(v[n + 1], w[n + 1]) = 0
      BY <1>4, <3>1
    <3> QED
      BY <2>5, <3>2
  <2>7. i = n + 1
    BY <2>2, <2>3, <2>6
  <2> QED
    BY <1>4, <2>5, <2>7
<1>5. \/ /\ \A i \in DOMAIN v \cap DOMAIN w : CmpSegment(v[i], w[i]) = 0
         /\ CmpVersion(v, w) = Compare(Len(v), Len(w))
      \/ \E i \in DOMAIN v \cap DOMAIN w :
            /\ CmpSegment(v[i], w[i]) # 0
            /\ \A j \in 1..(i - 1) : CmpSegment(v[j], w[j]) = 0
            /\ CmpVersion(v, w) = CmpSegment(v[i], w[i])
  BY <1>1, FirstDifference
<1> QED
  BY <1>3, <1>4, <1>5

\* Where a version stops agreeing with a greater one: at a segment or at its end.
LEMMA SmallerFrom ==
    ASSUME NEW v \in Releases, NEW w \in Releases, CmpVersion(v, w) = -1
    PROVE  \E n \in Nat :
              /\ \A j \in 1..n : CmpSegment(v[j], w[j]) = 0
              /\ \/ n = Len(v) /\ n < Len(w)
                 \/ n < Len(v) /\ n < Len(w) /\ CmpSegment(v[n + 1], w[n + 1]) = -1
<1>1. Len(v) \in Nat /\ Len(w) \in Nat
  BY DEF Releases, VersionStrings
<1>2. CASE (\A i \in 1..Len(v) : CmpSegment(v[i], w[i]) = 0) /\ Len(v) < Len(w)
  BY <1>1, <1>2
<1>3. ASSUME NEW i \in 1..Len(v), i <= Len(w), CmpSegment(v[i], w[i]) = -1,
             \A j \in 1..(i - 1) : CmpSegment(v[j], w[j]) = 0
      PROVE  \E n \in Nat :
                /\ \A j \in 1..n : CmpSegment(v[j], w[j]) = 0
                /\ n < Len(v) /\ n < Len(w) /\ CmpSegment(v[n + 1], w[n + 1]) = -1
  <2> DEFINE n == i - 1
  <2>1. n \in Nat /\ n + 1 = i /\ n < Len(v) /\ n < Len(w)
    BY <1>1, <1>3
  <2>2. /\ \A j \in 1..n : CmpSegment(v[j], w[j]) = 0
        /\ CmpSegment(v[n + 1], w[n + 1]) = -1
    BY <1>3, <2>1
  <2> HIDE DEF n
  <2> QED
    BY <2>1, <2>2
<1> QED
  BY <1>2, <1>3, Smaller

LEMMA SmallerIsTransitive ==
    ASSUME NEW u \in Releases, NEW v \in Releases, NEW w \in Releases,
           CmpVersion(u, v) = -1, CmpVersion(v, w) = -1
    PROVE  CmpVersion(u, w) = -1
<1>1. PICK m \in Nat :
         /\ \A j \in 1..m : CmpSegment(u[j], v[j]) = 0
         /\ \/ m = Len(u) /\ m < Len(v)
            \/ m < Len(u) /\ m < Len(v) /\ CmpSegment(u[m + 1], v[m + 1]) = -1
  BY SmallerFrom
<1>2. PICK n \in Nat :
         /\ \A j \in 1..n : CmpSegment(v[j], w[j]) = 0
         /\ \/ n = Len(v) /\ n < Len(w)
            \/ n < Len(v) /\ n < Len(w) /\ CmpSegment(v[n + 1], w[n + 1]) = -1
  BY SmallerFrom
<1>3. /\ Len(u) \in Nat /\ Len(v) \in Nat /\ Len(w) \in Nat
      /\ \A j \in 1..Len(u) : u[j] \in Segments /\ IsNumber(u[j])
      /\ \A j \in 1..Len(v) : v[j] \in Segments /\ IsNumber(v[j])
      /\ \A j \in 1..Len(w) : w[j] \in Segments /\ IsNumber(w[j])
  BY DEF Releases, VersionStrings
<1>4. m <= Len(u) /\ m < Len(v) /\ n <= Len(v) /\ n < Len(w)
  BY <1>1, <1>2
<1>5. ASSUME NEW j \in 1..m, j \in 1..n
      PROVE  CmpSegment(u[j], w[j]) = 0
  <2>1. j \in 1..Len(u) /\ j \in 1..Len(v) /\ j \in 1..Len(w)
    BY <1>3, <1>4, <1>5
  <2>2. CmpSegment(u[j], v[j]) = 0 /\ CmpSegment(v[j], w[j]) = 0
    BY <1>1, <1>2, <1>5
  <2> QED
    BY <1>3, <2>1, <2>2, NumbersCompare
<1>6. CASE m <= n
  <2>1. \A j \in 1..m : CmpSegment(u[j], w[j]) = 0
    BY <1>5, <1>6
  <2>2. m < Len(w)
    BY <1>3, <1>4, <1>6
  <2>3. CASE m = Len(u)
    BY <2>1, <2>2, <2>3, SmallerWhen
  <2>4. CASE m < Len(u) /\ m < Len(v) /\ CmpSegment(u[m + 1], v[m + 1]) = -1
    <3>1. m + 1 \in 1..Len(u) /\ m + 1 \in 1..Len(v) /\ m + 1 \in 1..Len(w)
      BY <1>3, <2>2, <2>4
    <3>2. CmpSegment(v[m + 1], w[m + 1]) \in {0, -1}
      <4>1. CASE m < n
        <5>1. m + 1 \in 1..n
          BY <4>1
        <5> QED
          BY <1>2, <5>1
      <4>2. CASE m = n
        BY <1>2, <2>4, <4>2
      <4> QED
        BY <1>6, <4>1, <4>2
    <3>3. CmpSegment(u[m + 1], w[m + 1]) = -1
      BY <1>3, <2>4, <3>1, <3>2, NumbersCompare
    <3> QED
      BY <2>1, <2>2, <2>4, <3>3, SmallerWhen
  <2> QED
    BY <1>1, <2>3, <2>4
<1>7. CASE n < m
  <2>1. \A j \in 1..n : CmpSegment(u[j], w[j]) = 0
    BY <1>5, <1>7
  <2>2. /\ n + 1 \in 1..m /\ n + 1 \in 1..Len(u) /\ n + 1 \in 1..Len(v)
        /\ n + 1 \in 1..Len(w) /\ n < Len(u) /\ n < Len(v)
    BY <1>3, <1>4, <1>7
  <2>3. CmpSegment(u[n + 1], v[n + 1]) = 0
    BY <1>1, <2>2
  <2>4. CmpSegment(v[n + 1], w[n + 1]) = -1
    BY <1>2, <1>3, <2>2
  <2>5. CmpSegment(u[n + 1], w[n + 1]) = -1
    BY <1>3, <2>2, <2>3, <2>4, NumbersCompare
  <2> QED
    BY <1>4, <2>1, <2>2, <2>5, SmallerWhen
<1> QED
  BY <1>6, <1>7

LEMMA EqualWhen ==
    ASSUME NEW v \in Releases, NEW w \in Releases
    PROVE  CmpVersion(v, w) = 0 <=>
              /\ Len(v) = Len(w)
              /\ \A j \in 1..Len(v) : CmpSegment(v[j], w[j]) = 0
<1>1. v \in VersionStrings /\ w \in VersionStrings
  BY DEF Releases
<1>2. DOMAIN v = 1..Len(v) /\ DOMAIN w = 1..Len(w) /\ Len(v) \in Nat /\ Len(w) \in Nat
  BY <1>1 DEF VersionStrings
<1>3. CASE /\ \A i \in DOMAIN v \cap DOMAIN w : CmpSegment(v[i], w[i]) = 0
           /\ CmpVersion(v, w) = Compare(Len(v), Len(w))
  <2>1. CmpVersion(v, w) = 0 <=> Len(v) = Len(w)
    <3>1. Compare(Len(v), Len(w)) = 0 <=> Len(v) = Len(w)
      BY <1>2, CompareZero, Zenon
    <3>2. CmpVersion(v, w) = Compare(Len(v), Len(w))
      BY <1>3
    <3> QED
      BY <3>1, <3>2
  <2>2. Len(v) = Len(w) => \A j \in 1..Len(v) : CmpSegment(v[j], w[j]) = 0
    BY <1>2, <1>3
  <2> QED
    BY <2>1, <2>2
<1>4. ASSUME NEW i \in DOMAIN v \cap DOMAIN w, CmpSegment(v[i], w[i]) # 0,
             CmpVersion(v, w) = CmpSegment(v[i], w[i])
      PROVE  CmpVersion(v, w) # 0 /\ \E j \in 1..Len(v) : CmpSegment(v[j], w[j]) # 0
  BY <1>2, <1>4
<1> QED
  BY <1>1, <1>3, <1>4, FirstDifference

\* A version and its equals compare with all others alike.
LEMMA EqualsAlike ==
    ASSUME NEW u \in Releases, NEW v \in Releases, NEW w \in Releases,
           CmpVersion(u, v) = 0, CmpVersion(v, w) \in {-1, 0}
    PROVE  CmpVersion(u, w) = CmpVersion(v, w)
<1>1. Len(u) = Len(v) /\ \A j \in 1..Len(u) : CmpSegment(u[j], v[j]) = 0
  BY EqualWhen
<1>2. /\ Len(u) \in Nat /\ Len(v) \in Nat /\ Len(w) \in Nat
      /\ \A j \in 1..Len(u) : u[j] \in Segments /\ IsNumber(u[j])
      /\ \A j \in 1..Len(v) : v[j] \in Segments /\ IsNumber(v[j])
      /\ \A j \in 1..Len(w) : w[j] \in Segments /\ IsNumber(w[j])
  BY DEF Releases, VersionStrings
<1>3. ASSUME NEW j \in 1..Len(v), j <= Len(w)
      PROVE  CmpSegment(u[j], w[j]) = CmpSegment(v[j], w[j])
  <2>1. j \in 1..Len(u) /\ j \in 1..Len(w)
    BY <1>1, <1>2, <1>3
  <2> QED
    BY <1>1, <1>2, <1>3, <2>1, NumbersCompare
<1>4. CASE CmpVersion(v, w) = 0
  <2>1. Len(v) = Len(w) /\ \A j \in 1..Len(v) : CmpSegment(v[j], w[j]) = 0
    BY <1>4, EqualWhen
  <2>2. Len(u) = Len(w) /\ \A j \in 1..Len(u) : CmpSegment(u[j], w[j]) = 0
    BY <1>1, <1>2, <1>3, <2>1
  <2> QED
    BY <1>4, <2>2, EqualWhen
<1>5. CASE CmpVersion(v, w) = -1
  <2>1. PICK n \in Nat :
           /\ \A j \in 1..n : CmpSegment(v[j], w[j]) = 0
           /\ \/ n = Len(v) /\ n < Len(w)
              \/ n < Len(v) /\ n < Len(w) /\ CmpSegment(v[n + 1], w[n + 1]) = -1
    BY <1>5, SmallerFrom
  <2>2. \A j \in 1..n : CmpSegment(u[j], w[j]) = 0
    BY <1>2, <1>3, <2>1
  <2>3. CASE n = Len(v) /\ n < Len(w)
    BY <1>1, <1>5, <2>2, <2>3, SmallerWhen
  <2>4. CASE n < Len(v) /\ n < Len(w) /\ CmpSegment(v[n + 1], w[n + 1]) = -1
    <3>1. n + 1 \in 1..Len(v) /\ n + 1 <= Len(w)
      BY <1>2, <2>4
    <3>2. CmpSegment(u[n + 1], w[n + 1]) = -1
      BY <1>3, <2>4, <3>1
    <3> QED
      BY <1>1, <1>5, <2>2, <2>4, <3>2, SmallerWhen
  <2> QED
    BY <2>1, <2>3, <2>4
<1> QED
  BY <1>4, <1>5

\* On releases, versions all of whose segments are numbers, cmp_version is an order:
\* what the modules assume of it when they number versions, and what latest_version,
\* which is found by one comparison per publish, relies on.
THEOREM ReleasesAreOrdered ==
    \A u, v, w \in Releases :
        CmpVersion(u, v) # 1 /\ CmpVersion(v, w) # 1 => CmpVersion(u, w) # 1
<1> SUFFICES ASSUME NEW u \in Releases, NEW v \in Releases, NEW w \in Releases,
                    CmpVersion(u, v) # 1, CmpVersion(v, w) # 1
             PROVE  CmpVersion(u, w) # 1
  OBVIOUS
<1>1. \A x, y \in Releases : /\ CmpVersion(x, y) \in {-1, 0, 1}
                             /\ CmpVersion(y, x) = -CmpVersion(x, y)
  BY ComparisonIsAntisymmetric DEF Releases
<1>2. CmpVersion(u, v) \in {-1, 0} /\ CmpVersion(v, w) \in {-1, 0}
  BY <1>1
<1>3. CASE CmpVersion(u, v) = 0
  BY <1>2, <1>3, EqualsAlike
<1>4. CASE CmpVersion(u, v) = -1 /\ CmpVersion(v, w) = -1
  BY <1>4, SmallerIsTransitive
<1>5. CASE CmpVersion(u, v) = -1 /\ CmpVersion(v, w) = 0
  <2>1. CmpVersion(w, v) = 0 /\ CmpVersion(w, u) = -CmpVersion(u, w)
    BY <1>1, <1>5
  <2>2. CmpVersion(u, w) = 1 => CmpVersion(w, u) = -1
    BY <2>1
  <2>3. CmpVersion(w, u) = -1 => CmpVersion(v, u) = -1
    <3>1. CmpVersion(v, w) = 0
      BY <1>5
    <3> QED
      BY <3>1, EqualsAlike
  <2>4. CmpVersion(v, u) = 1
    BY <1>1, <1>5
  <2> QED
    BY <2>2, <2>3, <2>4
<1> QED
  BY <1>2, <1>3, <1>4, <1>5

=============================================================================
