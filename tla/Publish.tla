------------------------------- MODULE Publish -------------------------------
(***************************************************************************)
(* PUT /api/v1/packages: the publish handler (src/src/api/publish.rs), the *)
(* database calls it makes (src/src/db.rs) and the tarball it stores       *)
(* (src/src/storage.rs).                                                   *)
(*                                                                         *)
(* No call runs inside a transaction: every SQL statement commits on its   *)
(* own, every await lets another handler run, and the handler future may   *)
(* be dropped at any of them.  So each statement that reads or writes      *)
(* shared state is one action here, and pc[r] names the call the handler   *)
(* in slot r makes next.                                                   *)
(***************************************************************************)
EXTENDS Integers, FiniteSets

CONSTANTS
    Users,             \* registered accounts holding a publish token
    Admins,            \* those with is_admin # 0
    Spellings,         \* package names as clients spell them
    Lower,             \* lower(name): the spelling the database compares by
    Channels,
    Versions,          \* versions, numbered in cmp_version order
    Contents,          \* tarballs; a tarball stands for its SHA-256 too
    Infected,          \* those a working malware scanner reports
    ScannerWorks,      \* FALSE: scan_tarball may also answer Unavailable
    VerifyChoices,     \* whether some CI image applies to a source package
    OwnedLimit,        \* max_packages_per_user
    Requests,          \* slots for concurrent handlers
    MaxId,             \* bound on the package ids
    MaxFaults,         \* bound on dropped handlers and server restarts
    NULL

ASSUME SetsAssumption ==
    /\ Admins \subseteq Users
    /\ Lower \in [Spellings -> Spellings]
    /\ \A s \in Spellings : Lower[Lower[s]] = Lower[s]
    /\ Versions \subseteq Nat
    /\ Infected \subseteq Contents
    /\ ScannerWorks \in BOOLEAN
    /\ VerifyChoices \subseteq BOOLEAN

ASSUME BoundsAssumption ==
    /\ OwnedLimit \in Nat
    /\ MaxId \in Nat
    /\ MaxFaults \in Nat

ASSUME SlotsAssumption == IsFiniteSet(Requests)

ASSUME NullAssumption ==
    /\ NULL \notin Users
    /\ NULL \notin Versions
    /\ NULL \notin Contents
    /\ NULL \notin Spellings

VARIABLES
    \* table packages: id (0 when there is no row), name as first spelt,
    \* latest_version
    pkgId, pkgName, latest,
    \* table versions: status ("none" when there is no row), checksum, and the
    \* user the audit log records for it
    status, digest, publisher,
    owners,    \* table package_owners
    blobs,     \* storage: one object per spelt name and version
    pc,        \* next call of the handler in each slot
    req,       \* what that handler was asked to publish
    pid,       \* the packages.id it resolved (0: not yet)
    faults     \* dropped handlers and restarts so far

packageVars == <<pkgId, pkgName, latest>>
versionVars == <<status, digest, publisher>>
dbVars      == <<packageVars, versionVars, owners>>
vars        == <<dbVars, blobs, pc, req, pid, faults>>

-----------------------------------------------------------------------------
(* Values. *)

Keys == Spellings \X Channels            \* UNIQUE(name, channel), name folded

\* A metadata-only stub (upstream_url set) carries no tarball and skips CI.
Inputs ==
    { i \in [user : Users, name : Spellings, channel : Channels,
             vers : Versions, content : Contents \cup {NULL}, verify : BOOLEAN] :
        IF i.content = NULL THEN ~i.verify ELSE i.verify \in VerifyChoices }

ASSUME NullIsNoInput == NULL \notin Inputs

Statuses == {"none", "pending", "published", "rejected"}

BeforeUpsert == {"user_owns_package", "count_owned", "get_package", "save",
                 "scan", "upsert"}
BeforeInsert == {"resolve_id", "insert_version"}
AfterInsert  == {"read_latest", "set_latest", "count_owners", "grant_owner"}
HandlerPcs   == BeforeUpsert \cup BeforeInsert \cup AfterInsert
Pcs          == HandlerPcs \cup {"idle", "verifying"}

KeyOf(i) == <<Lower[i.name], i.channel>>
Key(r)   == KeyOf(req[r])

\* The packages row a statement "WHERE id = ?" or a foreign key reaches.
HasId(k, r) == pkgId[k] # 0 /\ pkgId[k] = pid[r]
IdGone(r)   == \A k \in Keys : ~HasId(k, r)

Owned(u) == {k \in Keys : u \in owners[k]}

-----------------------------------------------------------------------------
(* Control. *)

Goto(r, label) ==
    /\ pc' = [pc EXCEPT ![r] = label]
    /\ UNCHANGED <<req, pid>>

\* Mutant: the request outlives its handler.
ReturnKeepingRequest(r) ==
    /\ pc' = [pc EXCEPT ![r] = "idle"]
    /\ UNCHANGED <<req, pid>>

\* The handler returns: its locals are gone and the slot is free.
Return(r) ==
    /\ pc'  = [pc EXCEPT ![r] = "idle"]
    /\ req' = [req EXCEPT ![r] = NULL]
    /\ pid' = [pid EXCEPT ![r] = 0]

\* publish_version returned Ok: the handler answers 200, and when a CI image
\* applies the spawned verification keeps name, version and channel.
Respond(r) ==
    IF req[r].verify THEN Goto(r, "verifying") ELSE Return(r)

-----------------------------------------------------------------------------
(* The handler, call by call. *)

\* Authentication, rate limit, parsing and validation are behind us.
Receive(r) ==
    /\ pc[r] = "idle"
    /\ \E i \in Inputs : req' = [req EXCEPT ![r] = i]
    /\ pc' = [pc EXCEPT ![r] = "user_owns_package"]
    /\ UNCHANGED <<dbVars, blobs, pid, faults>>

\* Mutant: anybody may publish to a package that exists.
CheckOwnerOfNothing(r) ==
    /\ pc[r] = "user_owns_package"
    /\ Goto(r, IF pkgId[Key(r)] = 0 /\ req[r].user \notin Admins
                 THEN "count_owned" ELSE "get_package")
    /\ UNCHANGED <<dbVars, blobs, faults>>

\* None: a new package, subject to the quota unless the caller is an admin.
CheckOwner(r) ==
    /\ pc[r] = "user_owns_package"
    /\ \/ /\ pkgId[Key(r)] = 0
          /\ Goto(r, IF req[r].user \in Admins THEN "get_package"
                                               ELSE "count_owned")
       \/ /\ pkgId[Key(r)] # 0
          /\ req[r].user \in owners[Key(r)]
          /\ Goto(r, "get_package")
       \/ /\ pkgId[Key(r)] # 0
          /\ req[r].user \notin owners[Key(r)]
          /\ Return(r)
    /\ UNCHANGED <<dbVars, blobs, faults>>

\* Mutant: one package too many.
CheckQuotaOffByOne(r) ==
    /\ pc[r] = "count_owned"
    /\ IF Cardinality(Owned(req[r].user)) > OwnedLimit
         THEN Return(r)
         ELSE Goto(r, "get_package")
    /\ UNCHANGED <<dbVars, blobs, faults>>

CheckQuota(r) ==
    /\ pc[r] = "count_owned"
    /\ IF Cardinality(Owned(req[r].user)) >= OwnedLimit
         THEN Return(r)
         ELSE Goto(r, "get_package")
    /\ UNCHANGED <<dbVars, blobs, faults>>

\* Mutant: the tarball is saved before anybody looks for a duplicate.
CheckDuplicateNever(r) ==
    /\ pc[r] = "get_package"
    /\ Goto(r, IF req[r].content = NULL THEN "upsert" ELSE "save")
    /\ UNCHANGED <<dbVars, blobs, faults>>

\* Mutant: the row is written before the tarball would be saved.
CheckDuplicateThenUpsert(r) ==
    /\ pc[r] = "get_package"
    /\ IF status[Key(r)][req[r].vers] = "published"
         THEN Return(r)
         ELSE Goto(r, "upsert")
    /\ UNCHANGED <<dbVars, blobs, faults>>

\* get_package lists published rows only, so a pending or a rejected version is
\* not a duplicate here.
CheckDuplicate(r) ==
    /\ pc[r] = "get_package"
    /\ IF status[Key(r)][req[r].vers] = "published"
         THEN Return(r)
         ELSE Goto(r, IF req[r].content = NULL THEN "upsert" ELSE "save")
    /\ UNCHANGED <<dbVars, blobs, faults>>

\* The object is named after the spelling and the version, not the channel.
SaveBlob(r) ==
    /\ pc[r] = "save"
    /\ blobs' = [blobs EXCEPT ![req[r].name][req[r].vers] = req[r].content]
    /\ Goto(r, "scan")
    /\ UNCHANGED <<dbVars, faults>>

ScanOutcomes(content) ==
    {IF content \in Infected THEN "infected" ELSE "clean"}
        \cup (IF ScannerWorks THEN {} ELSE {"unavailable"})

\* Infected: 400, and the saved object stays.  Unavailable: go on unscanned.
Scan(r) ==
    /\ pc[r] = "scan"
    /\ \E outcome \in ScanOutcomes(req[r].content) :
          IF outcome = "infected" THEN Return(r) ELSE Goto(r, "upsert")
    /\ UNCHANGED <<dbVars, blobs, faults>>

\* SQLite gives a new row the largest id in use plus one.
IsNextId(n) ==
    /\ \A k \in Keys : pkgId[k] < n
    /\ \E k \in Keys : pkgId[k] = n - 1

\* Mutant: the new row announces its version before the version is inserted.
UpsertWithLatest(r) ==
    /\ pc[r] = "upsert"
    /\ \/ /\ pkgId[Key(r)] # 0
          /\ UNCHANGED packageVars
       \/ /\ pkgId[Key(r)] = 0
          /\ \E n \in 1..MaxId :
                /\ IsNextId(n)
                /\ pkgId' = [pkgId EXCEPT ![Key(r)] = n]
          /\ pkgName' = [pkgName EXCEPT ![Key(r)] = req[r].name]
          /\ latest' = [latest EXCEPT ![Key(r)] = req[r].vers]
    /\ Goto(r, "resolve_id")
    /\ UNCHANGED <<versionVars, owners, blobs, faults>>

Upsert(r) ==
    /\ pc[r] = "upsert"
    /\ \/ /\ pkgId[Key(r)] # 0
          /\ UNCHANGED packageVars
       \/ /\ pkgId[Key(r)] = 0
          /\ \E n \in 1..MaxId :
                /\ IsNextId(n)
                /\ pkgId' = [pkgId EXCEPT ![Key(r)] = n]
          /\ pkgName' = [pkgName EXCEPT ![Key(r)] = req[r].name]
          /\ latest' = [latest EXCEPT ![Key(r)] = NULL]
    /\ Goto(r, "resolve_id")
    /\ UNCHANGED <<versionVars, owners, blobs, faults>>

\* fetch_one: no row is an error.
ResolveId(r) ==
    /\ pc[r] = "resolve_id"
    /\ IF pkgId[Key(r)] = 0
         THEN Return(r)
         ELSE /\ pid' = [pid EXCEPT ![r] = pkgId[Key(r)]]
              /\ pc' = [pc EXCEPT ![r] = "insert_version"]
              /\ UNCHANGED req
    /\ UNCHANGED <<dbVars, blobs, faults>>

\* Mutant: INSERT OR REPLACE.
ReplaceRow(r, k) ==
    LET v == req[r].vers IN
    /\ HasId(k, r)
    /\ status' = [status EXCEPT ![k][v] =
                     IF req[r].verify THEN "pending" ELSE "published"]
    /\ digest' = [digest EXCEPT ![k][v] = req[r].content]
    /\ publisher' = [publisher EXCEPT ![k][v] = req[r].user]

InsertRow(r, k) ==
    LET v == req[r].vers IN
    /\ HasId(k, r)
    /\ status[k][v] = "none"
    /\ status' = [status EXCEPT ![k][v] =
                     IF req[r].verify THEN "pending" ELSE "published"]
    /\ digest' = [digest EXCEPT ![k][v] = req[r].content]
    /\ publisher' = [publisher EXCEPT ![k][v] = req[r].user]

\* UNIQUE(package_id, version) and the foreign key both end in a 500.
InsertVersion(r) ==
    /\ pc[r] = "insert_version"
    /\ \/ (\E k \in Keys : InsertRow(r, k)) /\ Goto(r, "read_latest")
       \/ /\ \/ IdGone(r)
             \/ \E k \in Keys : HasId(k, r) /\ status[k][req[r].vers] # "none"
          /\ Return(r)
          /\ UNCHANGED versionVars
    /\ UNCHANGED <<packageVars, owners, blobs, faults>>

\* Mutant: the version that arrives last is the latest.
IsNewerByArrival(v, cur) == TRUE

\* is_newer is decided on the value read here, and acted on later.
IsNewer(v, cur) == cur = NULL \/ v > cur

ReadLatest(r) ==
    /\ pc[r] = "read_latest"
    /\ \/ \E k \in Keys :
            /\ HasId(k, r)
            /\ Goto(r, IF IsNewer(req[r].vers, latest[k]) THEN "set_latest"
                                                         ELSE "count_owners")
       \/ IdGone(r) /\ Goto(r, "set_latest")
    /\ UNCHANGED <<dbVars, blobs, faults>>

SetLatest(r) ==
    /\ pc[r] = "set_latest"
    /\ latest' = [k \in Keys |-> IF HasId(k, r) THEN req[r].vers ELSE latest[k]]
    /\ Goto(r, "count_owners")
    /\ UNCHANGED <<pkgId, pkgName, versionVars, owners, blobs, faults>>

\* Mutant: the first publisher is granted nothing.
CountOwnersForNothing(r) ==
    /\ pc[r] = "count_owners"
    /\ Respond(r)
    /\ UNCHANGED <<dbVars, blobs, faults>>

CountOwners(r) ==
    /\ pc[r] = "count_owners"
    /\ IF \E k \in Keys : HasId(k, r) /\ owners[k] # {}
         THEN Respond(r)
         ELSE Goto(r, "grant_owner")
    /\ UNCHANGED <<dbVars, blobs, faults>>

\* A foreign-key failure here is a 500 and no verification is spawned.
GrantOwner(r) ==
    /\ pc[r] = "grant_owner"
    /\ \/ \E k \in Keys :
            /\ HasId(k, r)
            /\ owners' = [owners EXCEPT ![k] = @ \cup {req[r].user}]
            /\ Respond(r)
       \/ IdGone(r) /\ Return(r) /\ UNCHANGED owners
    /\ UNCHANGED <<packageVars, versionVars, blobs, faults>>

-----------------------------------------------------------------------------
(* The spawned verification, reduced to its outcome: set_version_status by *)
(* name, version and channel, whatever row carries them by then.  Module   *)
(* Verification has the pipelines and their vote.                          *)

Settle(r) ==
    /\ pc[r] = "verifying"
    /\ \E verdict \in {"published", "rejected"} :
          LET k == Key(r) v == req[r].vers IN
          status' = [status EXCEPT ![k][v] =
                        IF @ = "none" THEN "none" ELSE verdict]
    /\ Return(r)
    /\ UNCHANGED <<packageVars, digest, publisher, owners, blobs, faults>>

-----------------------------------------------------------------------------
(* Faults. *)

\* The client goes away and the future is dropped, or a call returns an error
\* that "?" propagates: nothing done so far is undone.
Abort(r) ==
    /\ faults < MaxFaults
    /\ pc[r] \in HandlerPcs
    /\ Return(r)
    /\ faults' = faults + 1
    /\ UNCHANGED <<dbVars, blobs>>

\* The process ends: handlers and spawned verifications alike are lost.
Restart ==
    /\ faults < MaxFaults
    /\ \E r \in Requests : pc[r] # "idle"
    /\ pc'  = [r \in Requests |-> "idle"]
    /\ req' = [r \in Requests |-> NULL]
    /\ pid' = [r \in Requests |-> 0]
    /\ faults' = faults + 1
    /\ UNCHANGED <<dbVars, blobs>>

-----------------------------------------------------------------------------

Init ==
    /\ pkgId     = [k \in Keys |-> 0]
    /\ pkgName   = [k \in Keys |-> NULL]
    /\ latest    = [k \in Keys |-> NULL]
    /\ status    = [k \in Keys |-> [v \in Versions |-> "none"]]
    /\ digest    = [k \in Keys |-> [v \in Versions |-> NULL]]
    /\ publisher = [k \in Keys |-> [v \in Versions |-> NULL]]
    /\ owners    = [k \in Keys |-> {}]
    /\ blobs     = [s \in Spellings |-> [v \in Versions |-> NULL]]
    /\ pc        = [r \in Requests |-> "idle"]
    /\ req       = [r \in Requests |-> NULL]
    /\ pid       = [r \in Requests |-> 0]
    /\ faults    = 0

\* One step of the publish handler once the request has been received.
HandlerStep(r) ==
    \/ CheckOwner(r) \/ CheckQuota(r) \/ CheckDuplicate(r)
    \/ SaveBlob(r) \/ Scan(r)
    \/ Upsert(r) \/ ResolveId(r) \/ InsertVersion(r)
    \/ ReadLatest(r) \/ SetLatest(r)
    \/ CountOwners(r) \/ GrantOwner(r)

Next ==
    \/ \E r \in Requests :
          Receive(r) \/ HandlerStep(r) \/ Settle(r) \/ Abort(r)
    \/ Restart

Spec == Init /\ [][Next]_vars

\* Tokio polls every ready task and each statement ends, so an accepted request
\* keeps making progress.  New requests need not come.
Fairness == \A r \in Requests : WF_vars(HandlerStep(r))

FairSpec == Spec /\ Fairness

-----------------------------------------------------------------------------
(* Types. *)

\* Every table, object and local keeps its type, and exactly the slots that are
\* idle hold no request.
TypeOK ==
    /\ pkgId \in [Keys -> 0..MaxId]
    /\ pkgName \in [Keys -> Spellings \cup {NULL}]
    /\ latest \in [Keys -> Versions \cup {NULL}]
    /\ status \in [Keys -> [Versions -> Statuses]]
    /\ digest \in [Keys -> [Versions -> Contents \cup {NULL}]]
    /\ publisher \in [Keys -> [Versions -> Users \cup {NULL}]]
    /\ owners \in [Keys -> SUBSET Users]
    /\ blobs \in [Spellings -> [Versions -> Contents \cup {NULL}]]
    /\ pc \in [Requests -> Pcs]
    /\ req \in [Requests -> Inputs \cup {NULL}]
    /\ \A r \in Requests : (req[r] = NULL) <=> (pc[r] = "idle")
    /\ pid \in [Requests -> 0..MaxId]
    /\ faults \in 0..MaxFaults

-----------------------------------------------------------------------------
(* Safety. *)

HasRow(k, v) == status[k][v] # "none"

\* publish.rs saves the tarball before publish_version inserts the row, and
\* nothing in the publish path removes an object: whatever handlers were
\* dropped or raced, a source version that is listed has its bytes in storage.
RowHasBlob ==
    \A k \in Keys, v \in Versions :
        digest[k][v] # NULL =>
            \E s \in Spellings : Lower[s] = k[1] /\ blobs[s][v] # NULL

\* packages.latest_version is written after the versions row and never before:
\* it names a version that exists.
LatestHasRow ==
    \A k \in Keys : latest[k] # NULL => HasRow(k, latest[k])

\* db.rs grants the first publisher ownership with five statements between the
\* packages row and the package_owners row.  As long as no handler is dropped
\* on the way, a package nobody owns has a handler left that will claim it.
OrphanHasClaimant ==
    \A k \in Keys :
        pkgId[k] # 0 /\ owners[k] = {} /\ faults = 0 =>
            \E r \in Requests :
                pc[r] \in BeforeInsert \cup AfterInsert /\ Key(r) = k

\* user_owns_package lets a stranger through only while the package does not
\* exist.  So the versions of one package published by somebody who is not an
\* owner all come from handlers that were already running when the first
\* publisher finished: there are fewer of them than slots.
StrangersAreBounded ==
    \A k \in Keys :
        owners[k] # {} =>
            Cardinality({v \in Versions : HasRow(k, v)
                            /\ publisher[k][v] \notin owners[k]})
                < Cardinality(Requests)

\* Two handlers never verify the same version: the row a verification will
\* settle is the one its own publish inserted, and it is still pending.
JobOwnsPendingRow ==
    \A r \in Requests : pc[r] = "verifying" =>
        /\ status[Key(r)][req[r].vers] = "pending"
        /\ \A q \in Requests \ {r} :
              pc[q] \in AfterInsert \cup {"verifying"} =>
                  <<Key(q), req[q].vers>> # <<Key(r), req[r].vers>>

\* A versions row is written once: its checksum and publisher never change, it
\* never disappears, and its status leaves "pending" once and for all, although
\* set_version_status names no status it expects to find.
RowsAreWriteOnce ==
    [][\A k \in Keys, v \in Versions :
          HasRow(k, v) =>
              /\ HasRow(k, v)'
              /\ digest'[k][v] = digest[k][v]
              /\ publisher'[k][v] = publisher[k][v]
              /\ status[k][v] # "pending" => status'[k][v] = status[k][v]]_vars

-----------------------------------------------------------------------------
(* The inductive strengthening the proofs use: what a handler knows at     *)
(* each of its calls.                                                      *)

PastInsert == AfterInsert \cup {"verifying"}

\* An id names one package.
IdsAreUnique ==
    \A j, k \in Keys : pkgId[j] # 0 /\ pkgId[j] = pkgId[k] => j = k

\* From the upsert on the packages row is there; the id a handler resolved is
\* the id of its own key.
Resolved ==
    \A r \in Requests :
        /\ pc[r] = "resolve_id" => pkgId[Key(r)] # 0
        /\ pc[r] \in {"insert_version"} \cup AfterInsert =>
              pid[r] # 0 /\ pid[r] = pkgId[Key(r)]

\* Only source packages are saved and scanned, and a handler past the save finds
\* the object of its name and version.
Saved ==
    \A r \in Requests :
        /\ pc[r] \in {"save", "scan"} => req[r].content # NULL
        /\ pc[r] \in {"scan", "upsert"} \cup BeforeInsert /\ req[r].content # NULL =>
              blobs[req[r].name][req[r].vers] # NULL

\* A handler past the insert, and its verification, find the row; it is pending
\* when a verification is due.
Inserted ==
    \A r \in Requests :
        /\ pc[r] \in PastInsert =>
              /\ HasRow(Key(r), req[r].vers)
              /\ req[r].verify => status[Key(r)][req[r].vers] = "pending"
        /\ pc[r] = "verifying" => req[r].verify

\* No two of them inserted the same row.
OneInserter ==
    \A q, r \in Requests :
        /\ q # r
        /\ pc[q] \in PastInsert
        /\ pc[r] \in PastInsert
        /\ Key(q) = Key(r)
        => req[q].vers # req[r].vers

\* A listed version of a package nobody owns is the work of a handler that has
\* yet to look at package_owners.
RowHasClaimant ==
    \A k \in Keys, v \in Versions :
        HasRow(k, v) /\ owners[k] = {} /\ faults = 0 =>
            \E r \in Requests : pc[r] \in AfterInsert /\ Key(r) = k

\* The part of it that is about the tables alone, whatever becomes of the objects.
TablesInv ==
    /\ TypeOK
    /\ IdsAreUnique /\ Resolved /\ Inserted /\ OneInserter /\ LatestHasRow

Inv ==
    /\ TablesInv
    /\ Saved /\ RowHasBlob
    /\ RowHasClaimant /\ OrphanHasClaimant

-----------------------------------------------------------------------------
(* The strengthening of StrangersAreBounded.                               *)

Bare(k) == owners[k] = {} /\ \A v \in Versions : ~HasRow(k, v)

BareWithoutPackage == \A k \in Keys : pkgId[k] = 0 => Bare(k)

\* Past the owner check, with no version inserted yet.
Checked == (BeforeUpsert \ {"user_owns_package"}) \cup BeforeInsert

PublisherIsUser ==
    \A r \in Requests :
        pc[r] \in PastInsert => publisher[Key(r)][req[r].vers] = req[r].user

\* The versions of strangers, and the handlers that will insert another one.
Strangers(k) == {v \in Versions : HasRow(k, v) /\ publisher[k][v] \notin owners[k]}
Arriving(k) ==
    {r \in Requests : pc[r] \in Checked /\ Key(r) = k /\ req[r].user \notin owners[k]}

\* Together they are no more than the slots, and fewer once there is an owner.
StrangersFit ==
    \A k \in Keys :
        LET n == Cardinality(Strangers(k)) + Cardinality(Arriving(k)) IN
        /\ IsFiniteSet(Strangers(k))
        /\ n <= Cardinality(Requests)
        /\ owners[k] # {} => n < Cardinality(Requests)

-----------------------------------------------------------------------------
(* What one publish at a time guarantees, and racing publishes break. *)

Quiet == \A r \in Requests : pc[r] \in {"idle", "verifying"}

\* What /download compares before it streams: the bytes stored under a
\* published version are the ones its checksum was computed from.
StoredBytesMatch ==
    \A k \in Keys, v \in Versions :
        status[k][v] = "published" /\ digest[k][v] # NULL =>
            \E s \in Spellings : Lower[s] = k[1] /\ blobs[s][v] = digest[k][v]

\* "Subsequent publishes require an existing owner."
VersionsComeFromOwners ==
    \A k \in Keys, v \in Versions :
        HasRow(k, v) /\ owners[k] # {} => publisher[k][v] \in owners[k]

\* "Maximum number of packages a non-admin user may own simultaneously."
QuotaHolds ==
    \A u \in Users \ Admins : Cardinality(Owned(u)) <= OwnedLimit

\* "Grants ownership to `user_id` if the package is new."
QuietPackageHasOwner ==
    \A k \in Keys :
        pkgId[k] # 0 /\ (\A r \in Requests : pc[r] = "idle") => owners[k] # {}

-----------------------------------------------------------------------------
(* The strengthening of these, for one slot.                               *)

OneAtATime == \A q, r \in Requests : q = r
OneChannel == \A c, d \in Channels : c = d

AllBy(k, u) == \A v \in Versions : HasRow(k, v) => publisher[k][v] = u

\* The user is an owner of the package or about to be its first one, and until then
\* has published all of it.
PublisherOwns ==
    \A r \in Requests :
        LET k == Key(r) u == req[r].user IN
        /\ pc[r] \in Checked => u \in owners[k] \/ Bare(k)
        /\ pc[r] \in AfterInsert => u \in owners[k] \/ (owners[k] = {} /\ AllBy(k, u))

\* A user past the quota has room for the package that is about to be theirs.
RoomForOne ==
    \A r \in Requests :
        LET u == req[r].user IN
        pc[r] \in (Checked \ {"count_owned"}) \cup AfterInsert /\ u \notin Admins =>
            u \in owners[Key(r)] \/ Cardinality(Owned(u)) < OwnedLimit

OwnedIsFinite == \A u \in Users : IsFiniteSet(Owned(u))

\* From the save on the object is the one of the request; nobody relies on it before
\* the version is published.
BytesInHand ==
    \A r \in Requests :
        LET k == Key(r) v == req[r].vers IN
        /\ pc[r] \in {"save", "scan", "upsert"} \cup BeforeInsert =>
              status[k][v] # "published"
        /\ /\ pc[r] \in {"scan", "upsert"} \cup BeforeInsert \cup PastInsert
           /\ req[r].content # NULL
           => blobs[req[r].name][v] = req[r].content
        /\ pc[r] \in PastInsert => digest[k][v] = req[r].content

-----------------------------------------------------------------------------
(* Liveness. *)

\* db.rs: "Grants ownership to `user_id` if the package is new."  However the
\* handlers interleave, a package whose handlers all go on ends up with an owner.
PackageGetsOwner ==
    \A k \in Keys : pkgId[k] # 0 ~> owners[k] # {}

=============================================================================
