------------------------------ MODULE Registry ------------------------------
(***************************************************************************)
(* The package store around the publish handlers of module Publish: hard   *)
(* deletion (src/src/api/delete.rs), yanking (src/src/api/yank.rs),        *)
(* downloads from local storage (src/src/api/download.rs), prebuilt        *)
(* tarballs (src/src/api/prebuilt.rs) and the gc command (cmd_gc in        *)
(* src/src/main.rs), which runs in a process of its own over the same      *)
(* database and storage.                                                   *)
(*                                                                         *)
(* Prebuilts are modelled for one target triple, and told apart by the     *)
(* channel they were uploaded to.                                          *)
(***************************************************************************)
EXTENDS Publish

CONSTANTS
    Moderators,        \* users with Permission::YankAnyPackage
    Uploaders,         \* users who upload prebuilt tarballs
    Slots,             \* slots for the other handlers and the gc command
    MaxDeletes         \* bound on hard deletions

ASSUME RegistryAssumption ==
    /\ Moderators \subseteq Users /\ Uploaders \subseteq Users
    /\ MaxDeletes \in Nat
    /\ IsFiniteSet(Spellings) /\ IsFiniteSet(Versions)

VARIABLES
    yanked,    \* versions.yanked
    prebuilts, \* table prebuilts: whether there is a row
    binaries,  \* storage: the channel the object of name and version was uploaded to
    op,        \* per slot: what the handler there has yet to do, NULL when free
    deletes

prebuiltVars == <<prebuilts, binaries>>
shelves   == <<yanked, prebuiltVars, deletes>>
storeVars == <<shelves, op>>
allVars   == <<vars, storeVars>>

-----------------------------------------------------------------------------
(* Values. *)

Targets == [name : Spellings, channel : Channels, vers : Versions]

\* Between a handler's database call and its next one.
Ops ==
    [kind : {"set_yanked"}, at : Targets, to : BOOLEAN]
    \cup [kind : {"delete_package_dir", "delete_prebuilts"}, name : Spellings,
          channel : Channels]
    \cup [kind : {"gc"}, todo : SUBSET (Spellings \X Versions)]
    \cup [kind : {"read"}, at : Targets, checksum : Contents]
    \cup [kind : {"served"}, at : Targets, bytes : Contents \cup {NULL}]
    \cup [kind : {"save_prebuilt", "store_prebuilt", "read_prebuilt"}, at : Targets]
    \cup [kind : {"served_prebuilt"}, at : Targets, bytes : Channels]

Running(x, kind) == op[x] # NULL /\ op[x].kind = kind
Begin(x, o) == op[x] = NULL /\ op' = [op EXCEPT ![x] = o]
Finish(x)   == op' = [op EXCEPT ![x] = NULL]

-----------------------------------------------------------------------------
(* Yanking. *)

\* require_owner, which moderators skip.
CheckYanker(x) ==
    /\ \E u \in Users, t \in Targets, to \in BOOLEAN :
          /\ u \in Moderators \/ u \in owners[KeyOf(t)]
          /\ Begin(x, [kind |-> "set_yanked", at |-> t, to |-> to])
    /\ UNCHANGED <<vars, shelves>>

\* Mutant: the mark is set whether the row is still there or not.
SetYankedBlindly(x) ==
    /\ Running(x, "set_yanked")
    /\ LET t == op[x].at IN
          yanked' = [yanked EXCEPT ![KeyOf(t)][t.vers] = op[x].to]
    /\ Finish(x)
    /\ UNCHANGED <<vars, prebuiltVars, deletes>>

\* Whatever its status; no such row is a 404.
SetYanked(x) ==
    /\ Running(x, "set_yanked")
    /\ LET t == op[x].at k == KeyOf(t) IN
          yanked' = [yanked EXCEPT ![k][t.vers] = HasRow(k, t.vers) /\ op[x].to]
    /\ Finish(x)
    /\ UNCHANGED <<vars, prebuiltVars, deletes>>

-----------------------------------------------------------------------------
(* Hard deletion. *)

\* The versions and owners rows go with the packages row (ON DELETE CASCADE).
DeletePackage(x) ==
    /\ deletes < MaxDeletes
    /\ \E s \in Spellings, c \in Channels :
          LET k == <<Lower[s], c>> IN
          /\ pkgId[k] # 0
          /\ pkgId' = [pkgId EXCEPT ![k] = 0]
          /\ pkgName' = [pkgName EXCEPT ![k] = NULL]
          /\ latest' = [latest EXCEPT ![k] = NULL]
          /\ status' = [status EXCEPT ![k] = [v \in Versions |-> "none"]]
          /\ digest' = [digest EXCEPT ![k] = [v \in Versions |-> NULL]]
          /\ publisher' = [publisher EXCEPT ![k] = [v \in Versions |-> NULL]]
          /\ owners' = [owners EXCEPT ![k] = {}]
          /\ yanked' = [yanked EXCEPT ![k] = [v \in Versions |-> FALSE]]
          /\ Begin(x, [kind |-> "delete_package_dir", name |-> s, channel |-> c])
    /\ deletes' = deletes + 1
    /\ UNCHANGED <<blobs, pc, req, pid, faults, prebuiltVars>>

\* The directory of the name as the admin spelt it, which no channel is part of.  The
\* handler goes on when it cannot be removed.
DeletePackageDir(x) ==
    /\ Running(x, "delete_package_dir")
    /\ \/ /\ blobs' = [blobs EXCEPT ![op[x].name] = [v \in Versions |-> NULL]]
          /\ binaries' = [binaries EXCEPT ![op[x].name] = [v \in Versions |-> NULL]]
          /\ UNCHANGED faults
       \/ /\ faults < MaxFaults
          /\ faults' = faults + 1
          /\ UNCHANGED <<blobs, binaries>>
    /\ op' = [op EXCEPT ![x].kind = "delete_prebuilts"]
    /\ UNCHANGED <<dbVars, pc, req, pid, yanked, prebuilts, deletes>>

\* These rows name the package, in any spelling, and do not refer to its row.
DeletePackagePrebuilts(x) ==
    /\ Running(x, "delete_prebuilts")
    /\ prebuilts' = [prebuilts EXCEPT ![KeyOf(op[x])] = [v \in Versions |-> FALSE]]
    /\ Finish(x)
    /\ UNCHANGED <<vars, yanked, binaries, deletes>>

-----------------------------------------------------------------------------
(* freight-registry gc --execute. *)

Yanked == {y \in Keys \X Versions : yanked[y[1]][y[2]]}

ListYankedVersions(x) ==
    /\ Yanked # {}
    /\ Begin(x, [kind |-> "gc", todo |-> {<<pkgName[y[1]], y[2]>> : y \in Yanked}])
    /\ UNCHANGED <<vars, shelves>>

\* storage.delete_version, one listed version after the other.
DeleteVersion(x) ==
    /\ Running(x, "gc")
    /\ \E t \in op[x].todo :
          /\ blobs' = [blobs EXCEPT ![t[1]][t[2]] = NULL]
          /\ binaries' = [binaries EXCEPT ![t[1]][t[2]] = NULL]
          /\ IF op[x].todo = {t}
               THEN Finish(x)
               ELSE op' = [op EXCEPT ![x].todo = @ \ {t}]
    /\ UNCHANGED <<dbVars, pc, req, pid, faults, yanked, prebuilts, deletes>>

-----------------------------------------------------------------------------
(* Downloads.  Refusals and redirects touch nothing modelled here. *)

GetVersion(x) ==
    /\ \E t \in Targets :
          LET k == KeyOf(t) IN
          /\ ~yanked[k][t.vers]
          /\ status[k][t.vers] = "published"
          /\ digest[k][t.vers] # NULL
          /\ Begin(x, [kind |-> "read", at |-> t, checksum |-> digest[k][t.vers]])
    /\ UNCHANGED <<vars, shelves>>

\* Mutant: whatever the file holds is served.
ChecksumIgnored(bytes, checksum) == TRUE

ChecksumMatches(bytes, checksum) == bytes = checksum

\* No file is a 404 and a wrong one a 500; else the bytes are the answer.
ReadTarball(x) ==
    /\ Running(x, "read")
    /\ LET t == op[x].at bytes == blobs[t.name][t.vers] IN
          op' = [op EXCEPT ![x] =
                   IF bytes # NULL /\ ChecksumMatches(bytes, op[x].checksum)
                     THEN [kind |-> "served", at |-> t, bytes |-> bytes]
                     ELSE NULL]
    /\ UNCHANGED <<vars, shelves>>

Served(x) ==
    /\ Running(x, "served") \/ Running(x, "served_prebuilt")
    /\ Finish(x)
    /\ UNCHANGED <<vars, shelves>>

-----------------------------------------------------------------------------
(* Prebuilt tarballs. *)

\* get_version, where any status will do, and user_owns_package.  Admins are not exempt.
CheckUploader(x) ==
    /\ \E u \in Uploaders, t \in Targets :
          /\ HasRow(KeyOf(t), t.vers) /\ u \in owners[KeyOf(t)]
          /\ Begin(x, [kind |-> "save_prebuilt", at |-> t])
    /\ UNCHANGED <<vars, shelves>>

\* Under the name as spelt here, for all channels.
SavePrebuilt(x) ==
    /\ Running(x, "save_prebuilt")
    /\ LET t == op[x].at IN binaries' = [binaries EXCEPT ![t.name][t.vers] = t.channel]
    /\ op' = [op EXCEPT ![x].kind = "store_prebuilt"]
    /\ UNCHANGED <<vars, yanked, prebuilts, deletes>>

\* An upsert that asks for no package.
StorePrebuilt(x) ==
    /\ Running(x, "store_prebuilt")
    /\ LET t == op[x].at IN prebuilts' = [prebuilts EXCEPT ![KeyOf(t)][t.vers] = TRUE]
    /\ Finish(x)
    /\ UNCHANGED <<vars, yanked, binaries, deletes>>

\* Neither the version nor its status is looked at.
GetPrebuilt(x) ==
    /\ \E t \in Targets :
          /\ prebuilts[KeyOf(t)][t.vers]
          /\ Begin(x, [kind |-> "read_prebuilt", at |-> t])
    /\ UNCHANGED <<vars, shelves>>

\* Row and object may also be of two uploads to the same channel: a 500.
ReadPrebuilt(x) ==
    /\ Running(x, "read_prebuilt")
    /\ \/ LET t == op[x].at bytes == binaries[t.name][t.vers] IN
             /\ bytes # NULL /\ ChecksumMatches(bytes, t.channel)
             /\ op' = [op EXCEPT ![x] =
                         [kind |-> "served_prebuilt", at |-> t, bytes |-> bytes]]
       \/ Finish(x)
    /\ UNCHANGED <<vars, shelves>>

-----------------------------------------------------------------------------
(* Faults. *)

\* A handler is dropped, a call fails, or gc is interrupted.
AbortOp(x) ==
    /\ faults < MaxFaults
    /\ op[x] # NULL
    /\ Finish(x)
    /\ faults' = faults + 1
    /\ UNCHANGED <<dbVars, blobs, pc, req, pid, shelves>>

\* The server's handlers end with it; gc is another process.
RestartServer ==
    /\ Restart
    /\ op' = [x \in Slots |-> IF Running(x, "gc") THEN op[x] ELSE NULL]
    /\ UNCHANGED shelves

-----------------------------------------------------------------------------

RegistryInit ==
    /\ Init
    /\ yanked  = [k \in Keys |-> [v \in Versions |-> FALSE]]
    /\ prebuilts = [k \in Keys |-> [v \in Versions |-> FALSE]]
    /\ binaries  = [s \in Spellings |-> [v \in Versions |-> NULL]]
    /\ op      = [x \in Slots |-> NULL]
    /\ deletes = 0

PublishStep ==
    /\ \E r \in Requests : Receive(r) \/ HandlerStep(r) \/ Settle(r) \/ Abort(r)
    /\ UNCHANGED storeVars

OpStep(x) ==
    \/ /\ op[x] = NULL
       /\ \/ CheckYanker(x) \/ DeletePackage(x) \/ ListYankedVersions(x)
          \/ GetVersion(x) \/ CheckUploader(x) \/ GetPrebuilt(x)
    \/ SetYanked(x) \/ DeletePackageDir(x) \/ DeletePackagePrebuilts(x)
    \/ DeleteVersion(x) \/ ReadTarball(x) \/ Served(x)
    \/ SavePrebuilt(x) \/ StorePrebuilt(x) \/ ReadPrebuilt(x)
    \/ AbortOp(x)

RegistryNext ==
    \/ PublishStep
    \/ \E x \in Slots : OpStep(x)
    \/ RestartServer

RegistrySpec == RegistryInit /\ [][RegistryNext]_allVars

-----------------------------------------------------------------------------
(* Types. *)

\* The store's own state keeps its type, next to that of module Publish.
RegistryTypeOK ==
    /\ TypeOK
    /\ yanked \in [Keys -> [Versions -> BOOLEAN]]
    /\ prebuilts \in [Keys -> [Versions -> BOOLEAN]]
    /\ binaries \in [Spellings -> [Versions -> Channels \cup {NULL}]]
    /\ op \in [Slots -> Ops \cup {NULL}]
    /\ deletes \in 0..MaxDeletes

-----------------------------------------------------------------------------
(* Safety. *)

\* Deleting a package takes its versions, owners and yank marks with it, and no
\* handler that was already on its way brings one back: the foreign keys of the
\* inserts and the row counts of the updates leave nothing behind a package
\* that is gone, whatever handlers, verifications and moderators still run.
NothingWithoutPackage ==
    \A k \in Keys : pkgId[k] = 0 =>
        /\ owners[k] = {}
        /\ latest[k] = NULL
        /\ \A v \in Versions : ~HasRow(k, v) /\ ~yanked[k][v]

\* SQLite hands the id of a deleted package to the next one, and a handler that
\* resolved it before the deletion goes on with it.  Even so, while no handler
\* is dropped, a package without owners has a handler left that will claim it.
OrphanHasHeir ==
    \A k \in Keys :
        pkgId[k] # 0 /\ owners[k] = {} /\ faults = 0 =>
            \E r \in Requests :
                \/ pc[r] = "resolve_id" /\ Key(r) = k
                \/ pc[r] \in {"insert_version"} \cup AfterInsert /\ HasId(k, r)

\* What a download answers 200 with are the bytes the version was published
\* with, although the row and the object are read by two calls, channels share
\* the objects, and publishes, gc and yanks run between them.  (A deletion in
\* between would let another publish take the version's place.)
DownloadsAreGenuine ==
    \A x \in Slots : Running(x, "served") /\ deletes = 0 =>
        LET t == op[x].at k == KeyOf(t) IN
        status[k][t.vers] = "published" /\ digest[k][t.vers] = op[x].bytes

\* Channels share the objects of prebuilts as well, while their packages may have
\* different owners, and an upload stores the object before the row.  Even so a
\* download never answers with what was uploaded to another channel, whatever uploads,
\* deletions and gc run between its two calls.
PrebuiltsKeepTheirChannel ==
    \A x \in Slots :
        Running(x, "served_prebuilt") => op[x].bytes = op[x].at.channel

-----------------------------------------------------------------------------
(* The inductive strengthening of these.                                   *)

PackagesAreNamed == \A k \in Keys : pkgId[k] # 0 => pkgName[k] # NULL

StoreInv == RegistryTypeOK /\ NothingWithoutPackage /\ PackagesAreNamed

\* Whoever inserted a version of a package that nobody owns has yet to look at its
\* owners, and reaches the package by the id it holds.
RowHasHeir ==
    \A k \in Keys, v \in Versions :
        HasRow(k, v) /\ owners[k] = {} /\ faults = 0 =>
            \E r \in Requests : pc[r] \in AfterInsert /\ HasId(k, r)

HeirInv == StoreInv /\ IdsAreUnique /\ RowHasHeir /\ OrphanHasHeir

\* The checksum a download goes by is still the one of the version.
ChecksumIsOfRow ==
    \A x \in Slots : Running(x, "read") =>
        LET t == op[x].at k == KeyOf(t) IN
        status[k][t.vers] = "published" /\ digest[k][t.vers] = op[x].checksum

\* Until something is deleted the tables are as module Publish has them.
GenuineInv ==
    /\ StoreInv
    /\ deletes = 0 => TablesInv /\ ChecksumIsOfRow
    /\ DownloadsAreGenuine

=============================================================================
